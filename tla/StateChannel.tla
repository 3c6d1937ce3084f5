----------------------------- MODULE StateChannel -----------------------------
(***************************************************************************)
(* The IoT state-channel contract (state_channel.rs): two parties sign     *)
(* states off-chain and settle the last one on-chain through close, an     *)
(* optional series of disputes and finalize.  A call that returns Err or   *)
(* whose signature check traps leaves no trace and is no step here.  The   *)
(* parties' off-chain signing, the ledger clock and the pause switch of    *)
(* the main contract are the environment.                                  *)
(***************************************************************************)
EXTENDS Integers, Sequences

CONSTANTS
  Party,          \* addresses
  Product,        \* product ids
  Root,           \* state roots the parties may sign (with their batch count)
  ZeroRoot,       \* the all-zero root of a new channel
  Watchful,       \* parties that post their fraud proofs before a deadline
  WindowChoices,  \* dispute windows callers ask for
  MinWindow,      \* MIN_DISPUTE_WINDOW
  MaxWindow,      \* MAX_DISPUTE_WINDOW
  MaxChannels,    \* bound on the number of channels
  MaxNonce,       \* bound on the nonces signed
  LastClose,      \* bound: channels are opened and closed up to this time
  MaxTime         \* bound on the ledger clock

ASSUME StateChannelAssumption ==
  /\ ZeroRoot \notin Root
  /\ Watchful \subseteq Party
  /\ WindowChoices \subseteq Nat
  /\ MinWindow \in Nat /\ MaxWindow \in Nat
  /\ MaxChannels \in Nat /\ MaxNonce \in Nat
  /\ LastClose \in Nat /\ MaxTime \in Nat

VARIABLES
  initialized,       \* DataKey::MainContract is set
  channels,          \* DataKey::Channel(id), for ids 1 .. ChannelSeq
  product_channels,  \* DataKey::ProductChannels(product)
  signed,            \* environment: states both parties signed, per channel
  main_paused,       \* environment: the main contract's pause switch
  now                \* environment: ledger timestamp

vars == <<initialized, channels, product_channels, signed, main_paused, now>>

SignedState == [nonce : Nat, root : Root]

Channel == [product : Product, party_a : Party, party_b : Party,
            status : {"Open", "Closing", "Closed"},
            nonce : Nat, root : Root \union {ZeroRoot},
            window : Nat, deadline : Nat, closed_at : Nat]

Ids == DOMAIN channels

IsParticipant(actor, id) == actor \in {channels[id].party_a, channels[id].party_b}

------------------------------------------------------------------------------

Init ==
  /\ initialized = FALSE
  /\ channels = <<>>
  /\ product_channels = [p \in Product |-> <<>>]
  /\ signed = <<>>
  /\ main_paused = FALSE
  /\ now = 0

\* init: the main contract is set once; every later call requires it.
InitContract ==
  /\ ~initialized
  /\ initialized' = TRUE
  /\ UNCHANGED <<channels, product_channels, signed, main_paused, now>>

ValidWindow(window) == window >= MinWindow /\ window <= MaxWindow

NewChannel(product, party_a, party_b, window) ==
  [product |-> product, party_a |-> party_a, party_b |-> party_b,
   status |-> "Open", nonce |-> 0, root |-> ZeroRoot,
   window |-> window, deadline |-> 0, closed_at |-> 0]

NextChannelId == Len(channels) + 1

\* The opener is one of the parties; the sequence of channels is ChannelSeq.
ChannelOpen(product, party_a, party_b, window) ==
  /\ initialized /\ ~main_paused
  /\ party_a # party_b
  /\ ValidWindow(window)
  /\ NextChannelId <= MaxChannels /\ now <= LastClose
  /\ channels' = Append(channels, NewChannel(product, party_a, party_b, window))
  /\ signed' = Append(signed, {})
  /\ product_channels' =
       [product_channels EXCEPT ![product] = Append(@, NextChannelId)]
  /\ UNCHANGED <<initialized, main_paused, now>>

\* The channel with a state anchored in it.
Anchored(ch, state) == [ch EXCEPT !.nonce = state.nonce, !.root = state.root]

\* The channel waiting for disputes from now on.
Challengeable(ch) == [ch EXCEPT !.status = "Closing", !.deadline = now + ch.window]

StrictlyNewer(nonce, ch) == nonce > ch.nonce

ChannelCheckpoint(submitter, id, state) ==
  /\ ~main_paused
  /\ IsParticipant(submitter, id)
  /\ channels[id].status = "Open"
  /\ StrictlyNewer(state.nonce, channels[id])
  /\ channels' = [channels EXCEPT ![id] = Anchored(channels[id], state)]
  /\ UNCHANGED <<initialized, product_channels, signed, main_paused, now>>

ClosableAt(nonce, ch) == nonce >= ch.nonce

ChannelClose(submitter, id, state) ==
  /\ ~main_paused
  /\ IsParticipant(submitter, id)
  /\ channels[id].status = "Open"
  /\ ClosableAt(state.nonce, channels[id])
  /\ now <= LastClose
  /\ channels' = [channels EXCEPT ![id] = Challengeable(Anchored(channels[id], state))]
  /\ UNCHANGED <<initialized, product_channels, signed, main_paused, now>>

\* Mutant: the pause switch stops disputes as well.
CanDisputeUnlessPaused(challenger, id, state) ==
  /\ ~main_paused
  /\ IsParticipant(challenger, id)
  /\ channels[id].status = "Closing"
  /\ now <= channels[id].deadline
  /\ StrictlyNewer(state.nonce, channels[id])

\* Everything channel_dispute requires, given that the signatures verify.
CanDispute(challenger, id, state) ==
  /\ IsParticipant(challenger, id)
  /\ channels[id].status = "Closing"
  /\ now <= channels[id].deadline
  /\ StrictlyNewer(state.nonce, channels[id])

ChannelDispute(challenger, id, state) ==
  /\ CanDispute(challenger, id, state)
  /\ channels' = [channels EXCEPT ![id] = Challengeable(Anchored(channels[id], state))]
  /\ UNCHANGED <<initialized, product_channels, signed, main_paused, now>>

\* Mutant: finalization while the pause lasts is refused.
MayFinalizeUnlessPaused(id) == ~main_paused /\ now > channels[id].deadline

MayFinalize(id) == now > channels[id].deadline

ChannelFinalize(submitter, id) ==
  /\ IsParticipant(submitter, id)
  /\ channels[id].status = "Closing"
  /\ MayFinalize(id)
  /\ channels' = [channels EXCEPT ![id].status = "Closed", ![id].closed_at = now]
  /\ UNCHANGED <<initialized, product_channels, signed, main_paused, now>>

------------------------------------------------------------------------------

\* The parties sign one more off-chain state: while their channel is open, one
\* state per nonce, in increasing order.
Sign(id, root) ==
  /\ channels[id].status = "Open"
  /\ \E n \in 0 .. MaxNonce :
       /\ \A s \in signed[id] : n > s.nonce
       /\ signed' = [signed EXCEPT ![id] = @ \union {[nonce |-> n, root |-> root]}]
  /\ UNCHANGED <<initialized, channels, product_channels, main_paused, now>>

\* pause and unpause of the main contract, at any time.
SetPaused ==
  /\ main_paused' = ~main_paused
  /\ UNCHANGED <<initialized, channels, product_channels, signed, now>>

\* A watchful participant holds a fraud proof that is about to become void.
ProofPending ==
  \E id \in Ids, challenger \in Watchful :
    /\ now = channels[id].deadline
    /\ \E state \in signed[id] : CanDispute(challenger, id, state)

\* Time passes, but not over the deadline of a pending fraud proof: "Backends
\* must stay live enough to post a fraud proof within the window".
Tick ==
  /\ now < MaxTime
  /\ ~ProofPending
  /\ now' = now + 1
  /\ UNCHANGED <<initialized, channels, product_channels, signed, main_paused>>

Finalize == \E id \in Ids, p \in Party : ChannelFinalize(p, id)

Next ==
  \/ InitContract
  \/ \E product \in Product, a, b \in Party, window \in WindowChoices :
       ChannelOpen(product, a, b, window)
  \/ \E id \in Ids, p \in Party : \E state \in signed[id] :
       \/ ChannelCheckpoint(p, id, state)
       \/ ChannelClose(p, id, state)
       \/ ChannelDispute(p, id, state)
  \/ Finalize
  \/ \E id \in Ids, root \in Root : Sign(id, root)
  \/ SetPaused
  \/ Tick

Spec == Init /\ [][Next]_vars

\* Ledgers keep closing, a watchful participant posts the proof it holds, and
\* some participant claims the settlement once it may.
Fairness ==
  /\ WF_vars(Tick)
  /\ WF_vars(\E id \in Ids, p \in Watchful : \E state \in signed[id] :
               ChannelDispute(p, id, state))
  /\ \A id \in 1 .. MaxChannels :
       WF_vars(id \in Ids /\ \E p \in Party : ChannelFinalize(p, id))

FairSpec == Spec /\ Fairness

------------------------------------------------------------------------------

TypeOK ==
  /\ initialized \in BOOLEAN
  /\ channels \in Seq(Channel)
  /\ channels # <<>> => initialized
  /\ product_channels \in [Product -> Seq(Nat)]
  /\ signed \in Seq(SUBSET SignedState)
  /\ Len(signed) = Len(channels)
  /\ main_paused \in BOOLEAN
  /\ now \in Nat

\* A channel with a watchful participant settles on the latest state its
\* parties signed, however stale the state it was closed with, whatever the
\* pause switch did, and whoever finalized it (the fraud-proof mechanism).
LatestStateSettles ==
  \A id \in Ids :
    channels[id].status = "Closed"
      /\ (channels[id].party_a \in Watchful \/ channels[id].party_b \in Watchful)
        => \A state \in signed[id] : state.nonce <= channels[id].nonce

\* What is anchored was signed by both parties for this channel, and a channel
\* under dispute or settled has been closed with a signed state.
AnchoredWasSigned ==
  \A id \in Ids :
    LET ch == channels[id] IN
    IF ch.root = ZeroRoot THEN ch.nonce = 0 /\ ch.status = "Open"
    ELSE [nonce |-> ch.nonce, root |-> ch.root] \in signed[id]

\* An anchored state is replaced only by a newer one (closing may anchor the
\* first state, nonce 0, over the empty channel); settlement is final.
AnchorsAdvance ==
  [][\A id \in Ids :
       LET old == channels[id]  new == channels'[id] IN
       /\ new.nonce >= old.nonce
       /\ new.root # old.root => new.nonce > old.nonce \/ old.root = ZeroRoot
       /\ old.status = "Closed" => new = old
       /\ old.status = "Closing" => new.status # "Open"]_vars

\* Every close is settled in the end, whatever the pause switch does and
\* however often it is disputed ("a pause can never trap an in-flight dispute").
ClosingSettles ==
  \A id \in 1 .. MaxChannels :
    (id \in Ids /\ channels[id].status = "Closing")
      ~> (id \in Ids /\ channels[id].status = "Closed")

==============================================================================
