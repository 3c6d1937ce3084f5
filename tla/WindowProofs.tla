----------------------------- MODULE WindowProofs -----------------------------
(***************************************************************************)
(* Proofs about the two contracts that work by windows of time: the state  *)
(* channels, for every set of parties, every dispute window and any number *)
(* of channels and signed states; the timelock, for every configuration,   *)
(* every set of signers and any number of operations; and the contracts it *)
(* governs, whoever else calls them.                                       *)
(***************************************************************************)
EXTENDS StateChannel, Governance, SequenceTheorems, FiniteSetTheorems, TLAPS

------------------------------------------------------------------------------
(* State channels. *)

\* The channel a call works on has a record, and its signed states their type.
LEMMA ChannelType ==
  ASSUME TypeOK, NEW id \in Ids
  PROVE  /\ id \in 1 .. Len(channels)
         /\ channels[id] \in Channel
         /\ signed[id] \subseteq SignedState
<1>1. Ids = 1 .. Len(channels)
  BY LenProperties DEF TypeOK, Ids
<1>2. channels[id] \in Channel
  BY <1>1, ElementOfSeq DEF TypeOK
<1>3. signed[id] \in SUBSET SignedState
  BY <1>1, ElementOfSeq DEF TypeOK
<1> QED
  BY <1>1, <1>2, <1>3

\* What replacing one channel record does to the sequence of channels.
LEMMA ReplaceChannel ==
  ASSUME TypeOK, NEW id \in Ids, NEW ch \in Channel,
         channels' = [channels EXCEPT ![id] = ch]
  PROVE  /\ channels' \in Seq(Channel)
         /\ Len(channels') = Len(channels)
         /\ Ids' = Ids
         /\ \A i \in Ids : channels'[i] = IF i = id THEN ch ELSE channels[i]
<1>1. id \in 1 .. Len(channels) /\ channels \in Seq(Channel)
  BY ChannelType DEF TypeOK
<1>2. /\ [channels EXCEPT ![id] = ch] \in Seq(Channel)
      /\ Len([channels EXCEPT ![id] = ch]) = Len(channels)
      /\ \A i \in 1 .. Len(channels) :
           [channels EXCEPT ![id] = ch][i] = IF i = id THEN ch ELSE channels[i]
  BY <1>1, ExceptSeq
<1>3. Ids = 1 .. Len(channels) /\ DOMAIN channels' = 1 .. Len(channels')
  BY <1>1, <1>2, LenProperties DEF Ids
<1>4. Ids' = DOMAIN channels'
  BY DEF Ids
<1> QED
  BY <1>2, <1>3, <1>4

\* What a call leaves in the channel record is a channel record.
LEMMA ReplacedType ==
  ASSUME TypeOK, NEW id \in Ids, NEW state \in signed[id]
  PROVE  /\ Anchored(channels[id], state) \in Channel
         /\ Challengeable(Anchored(channels[id], state)) \in Channel
         /\ [channels[id] EXCEPT !.status = "Closed", !.closed_at = now] \in Channel
<1>1. channels[id] \in Channel /\ state \in SignedState /\ now \in Nat
  BY ChannelType DEF TypeOK
<1>2. Anchored(channels[id], state) \in Channel
  BY <1>1 DEF Anchored, Channel, SignedState
<1>3. Challengeable(Anchored(channels[id], state)) \in Channel
  <2>1. ASSUME NEW ch \in Channel PROVE Challengeable(ch) \in Channel
    <3>1. now + ch.window \in Nat
      BY <1>1 DEF Channel
    <3> QED
      BY <3>1 DEF Challengeable, Channel
  <2> QED
    BY <1>2, <2>1
<1>4. [channels[id] EXCEPT !.status = "Closed", !.closed_at = now] \in Channel
  BY <1>1 DEF Channel
<1> QED
  BY <1>2, <1>3, <1>4

\* The type invariant holds in every reachable state (all entry points).
THEOREM TypeCorrect == Spec => []TypeOK
<1>1. Init => TypeOK
  <2> SUFFICES ASSUME Init PROVE TypeOK
    OBVIOUS
  <2>1. /\ channels \in Seq(Channel) /\ signed \in Seq(SUBSET SignedState)
        /\ Len(signed) = Len(channels)
    BY EmptySeq DEF Init
  <2>2. product_channels \in [Product -> Seq(Nat)]
    BY EmptySeq DEF Init
  <2> QED
    BY <2>1, <2>2 DEF Init, TypeOK
<1>2. TypeOK /\ [Next]_vars => TypeOK'
  <2> SUFFICES ASSUME TypeOK, [Next]_vars PROVE TypeOK'
    OBVIOUS
  <2>1. CASE InitContract
    BY <2>1 DEF InitContract, TypeOK
  <2>2. ASSUME NEW product \in Product, NEW a \in Party, NEW b \in Party,
               NEW window \in WindowChoices, ChannelOpen(product, a, b, window)
        PROVE  TypeOK'
    <3>1. window \in Nat /\ LastClose \in Nat
      BY StateChannelAssumption
    <3>2. NewChannel(product, a, b, window) \in Channel
      BY <3>1 DEF NewChannel, Channel
    <3>3. channels' \in Seq(Channel) /\ Len(channels') = Len(channels) + 1
      BY <2>2, <3>2, AppendProperties DEF ChannelOpen, TypeOK
    <3>4. signed' \in Seq(SUBSET SignedState) /\ Len(signed') = Len(signed) + 1
      BY <2>2, AppendProperties DEF ChannelOpen, TypeOK
    <3>5. NextChannelId \in Nat
      BY LenProperties DEF NextChannelId, TypeOK
    <3>6. Append(product_channels[product], NextChannelId) \in Seq(Nat)
      BY <3>5, AppendProperties DEF TypeOK
    <3>7. product_channels' \in [Product -> Seq(Nat)]
      BY <2>2, <3>6 DEF ChannelOpen, TypeOK
    <3> QED
      BY <2>2, <3>3, <3>4, <3>7 DEF ChannelOpen, TypeOK
  <2>3. ASSUME NEW id \in Ids, NEW p \in Party, NEW state \in signed[id],
               \/ ChannelCheckpoint(p, id, state)
               \/ ChannelClose(p, id, state)
               \/ ChannelDispute(p, id, state)
        PROVE  TypeOK'
    <3>1. PICK ch \in Channel : channels' = [channels EXCEPT ![id] = ch]
      BY <2>3, ReplacedType DEF ChannelCheckpoint, ChannelClose, ChannelDispute
    <3>2. /\ channels' \in Seq(Channel) /\ Len(channels') = Len(channels)
      BY <3>1, ReplaceChannel
    <3>3. UNCHANGED <<initialized, product_channels, signed, main_paused, now>>
      BY <2>3 DEF ChannelCheckpoint, ChannelClose, ChannelDispute
    <3>4. channels # <<>>
      BY <2>3, EmptySeq DEF Ids
    <3> QED
      BY <3>2, <3>3, <3>4 DEF TypeOK
  <2>4. ASSUME NEW id \in Ids, NEW p \in Party, ChannelFinalize(p, id)
        PROVE  TypeOK'
    <3> DEFINE ch == [channels[id] EXCEPT !.status = "Closed", !.closed_at = now]
    <3>1. ch \in Channel
      BY ChannelType DEF TypeOK, Channel
    <3>2. channels' = [channels EXCEPT ![id] = ch]
      BY <2>4, ChannelType DEF ChannelFinalize, Channel
    <3>3. /\ channels' \in Seq(Channel) /\ Len(channels') = Len(channels)
      BY <3>1, <3>2, ReplaceChannel
    <3>4. channels # <<>>
      BY <2>4, EmptySeq DEF Ids
    <3> QED
      BY <2>4, <3>3, <3>4 DEF ChannelFinalize, TypeOK
  <2>5. ASSUME NEW id \in Ids, NEW root \in Root, Sign(id, root)
        PROVE  TypeOK'
    <3>1. PICK n \in 0 .. MaxNonce :
            signed' = [signed EXCEPT ![id] = signed[id] \union {[nonce |-> n, root |-> root]}]
      BY <2>5 DEF Sign
    <3>2. signed[id] \union {[nonce |-> n, root |-> root]} \in SUBSET SignedState
      BY ChannelType, StateChannelAssumption DEF SignedState
    <3>3. id \in 1 .. Len(signed)
      BY ChannelType DEF TypeOK
    <3>4. signed' \in Seq(SUBSET SignedState) /\ Len(signed') = Len(signed)
      BY <3>1, <3>2, <3>3, ExceptSeq DEF TypeOK
    <3> QED
      BY <2>5, <3>4 DEF Sign, TypeOK
  <2>6. CASE SetPaused
    BY <2>6 DEF SetPaused, TypeOK
  <2>7. CASE Tick
    BY <2>7 DEF Tick, TypeOK
  <2>8. CASE UNCHANGED vars
    BY <2>8 DEF vars, TypeOK
  <2> QED
    BY <2>1, <2>2, <2>3, <2>4, <2>5, <2>6, <2>7, <2>8 DEF Next, Finalize
<1> QED
  BY <1>1, <1>2, PTL DEF Spec

------------------------------------------------------------------------------

\* A channel whose outcome can no longer be disputed.
Decided(ch) == \/ ch.status = "Closed"
               \/ ch.status = "Closing" /\ now > ch.deadline

Watched(ch) == ch.party_a \in Watchful \/ ch.party_b \in Watchful

\* LatestStateSettles holds at finalization because it already holds from the
\* instant the dispute window has passed.
Settled ==
  \A id \in Ids :
    Watched(channels[id]) /\ Decided(channels[id])
      => \A state \in signed[id] : state.nonce <= channels[id].nonce

\* The parties never sign two states with one nonce.
OneStatePerNonce ==
  \A id \in Ids : \A s, t \in signed[id] : s.nonce = t.nonce => s = t

ChannelInv == Settled /\ AnchoredWasSigned /\ OneStatePerNonce

\* Opening a channel adds one open, unsigned record and keeps the others.
LEMMA Opened ==
  ASSUME TypeOK, NEW product \in Product, NEW a \in Party, NEW b \in Party,
         NEW window \in WindowChoices, ChannelOpen(product, a, b, window)
  PROVE  \A i \in Ids' :
           \/ i \in Ids /\ channels'[i] = channels[i] /\ signed'[i] = signed[i]
           \/ /\ i \notin Ids
              /\ channels'[i] = NewChannel(product, a, b, window)
              /\ signed'[i] = {}
<1>1. window \in Nat
  BY StateChannelAssumption
<1>2. NewChannel(product, a, b, window) \in Channel
  BY <1>1 DEF NewChannel, Channel
<1>3. /\ channels' = Append(channels, NewChannel(product, a, b, window))
      /\ signed' = Append(signed, {})
  BY DEF ChannelOpen
<1>4. /\ channels \in Seq(Channel) /\ signed \in Seq(SUBSET SignedState)
      /\ Len(signed) = Len(channels) /\ Len(channels) \in Nat
  BY LenProperties DEF TypeOK
<1>5. /\ channels' \in Seq(Channel)
      /\ Len(channels') = Len(channels) + 1
      /\ \A i \in 1 .. Len(channels) : channels'[i] = channels[i]
      /\ channels'[Len(channels) + 1] = NewChannel(product, a, b, window)
  BY <1>2, <1>3, <1>4, AppendProperties
<1>6. /\ \A i \in 1 .. Len(signed) : signed'[i] = signed[i]
      /\ signed'[Len(signed) + 1] = {}
  BY <1>3, <1>4, AppendProperties
<1>7. Ids = 1 .. Len(channels) /\ DOMAIN channels' = 1 .. Len(channels')
  BY <1>4, <1>5, LenProperties DEF Ids
<1>8. Ids' = DOMAIN channels'
  BY DEF Ids
<1> QED
  BY <1>4, <1>5, <1>6, <1>7, <1>8

\* A checkpoint, close or dispute anchors the submitted state, never an older
\* one, and leaves its channel undecided: open, or with its whole window ahead.
LEMMA Submitted ==
  ASSUME TypeOK, NEW id \in Ids, NEW p \in Party, NEW state \in signed[id],
         \/ ChannelCheckpoint(p, id, state)
         \/ ChannelClose(p, id, state)
         \/ ChannelDispute(p, id, state)
  PROVE  /\ Ids' = Ids /\ UNCHANGED <<signed, now>>
         /\ \A i \in Ids : i # id => channels'[i] = channels[i]
         /\ channels'[id].nonce = state.nonce /\ channels'[id].root = state.root
         /\ channels[id].status # "Closed" /\ state.nonce >= channels[id].nonce
         /\ channels'[id].status # "Closed"
         /\ channels[id].status = "Closing" => channels'[id].status # "Open"
         /\ channels'[id].status = "Closing" => channels'[id].deadline >= now
<1>1. /\ channels[id] \in Channel /\ state \in SignedState /\ now \in Nat
  BY ChannelType DEF TypeOK
<1> DEFINE anchored == Anchored(channels[id], state)
           closing  == Challengeable(Anchored(channels[id], state))
<1>2. /\ anchored.nonce = state.nonce /\ anchored.root = state.root
      /\ anchored.status = channels[id].status /\ anchored.window \in Nat
      /\ anchored \in Channel /\ closing \in Channel
  BY <1>1, ReplacedType DEF Anchored, Channel
<1>3. /\ closing.nonce = state.nonce /\ closing.root = state.root
      /\ closing.status = "Closing" /\ closing.deadline >= now
  <2>1. ASSUME NEW ch \in Channel
        PROVE  LET c == Challengeable(ch) IN
               /\ c.nonce = ch.nonce /\ c.root = ch.root
               /\ c.status = "Closing" /\ c.deadline = now + ch.window
    BY DEF Challengeable, Channel
  <2> HIDE DEF anchored
  <2>2. closing = Challengeable(anchored)
    BY DEF anchored
  <2> QED
    BY <1>1, <1>2, <2>1, <2>2
<1>4. CASE ChannelCheckpoint(p, id, state)
  <2>1. channels' = [channels EXCEPT ![id] = anchored]
    BY <1>4 DEF ChannelCheckpoint
  <2>2. Ids' = Ids /\ \A i \in Ids : channels'[i] = IF i = id THEN anchored ELSE channels[i]
    BY <1>2, <2>1, ReplaceChannel
  <2>3. /\ UNCHANGED <<signed, now>> /\ channels[id].status = "Open"
        /\ state.nonce > channels[id].nonce
    BY <1>4 DEF ChannelCheckpoint, StrictlyNewer
  <2> HIDE DEF anchored
  <2> QED
    BY <1>1, <1>2, <2>2, <2>3 DEF Channel, SignedState
<1>5. ASSUME ChannelClose(p, id, state) \/ ChannelDispute(p, id, state)
      PROVE  /\ channels' = [channels EXCEPT ![id] = closing]
             /\ UNCHANGED <<signed, now>> /\ channels[id].status # "Closed"
             /\ state.nonce >= channels[id].nonce
  <2>1. CASE ChannelClose(p, id, state)
    BY <2>1 DEF ChannelClose, ClosableAt
  <2>2. CASE ChannelDispute(p, id, state)
    BY <1>1, <2>2 DEF ChannelDispute, CanDispute, StrictlyNewer, Channel, SignedState
  <2> QED
    BY <1>5, <2>1, <2>2
<1>6. CASE ChannelClose(p, id, state) \/ ChannelDispute(p, id, state)
  <2>1. Ids' = Ids /\ \A i \in Ids : channels'[i] = IF i = id THEN closing ELSE channels[i]
    BY <1>2, <1>5, <1>6, ReplaceChannel
  <2> HIDE DEF closing
  <2> QED
    BY <1>2, <1>3, <1>5, <1>6, <2>1
<1> QED
  BY <1>4, <1>6

\* A submission changes neither the parties nor the product of a channel.
LEMMA SameParties ==
  ASSUME TypeOK, NEW id \in Ids, NEW p \in Party, NEW state \in signed[id],
         \/ ChannelCheckpoint(p, id, state)
         \/ ChannelClose(p, id, state)
         \/ ChannelDispute(p, id, state)
  PROVE  channels'[id].party_a = channels[id].party_a
         /\ channels'[id].party_b = channels[id].party_b
<1> DEFINE SameAs(new, old) == new.party_a = old.party_a /\ new.party_b = old.party_b
           anchored == Anchored(channels[id], state)
<1>1. channels[id] \in Channel /\ id \in DOMAIN channels /\ anchored \in Channel
  BY ChannelType, ReplacedType DEF Ids
<1>2. SameAs(anchored, channels[id])
  BY <1>1 DEF Anchored, Channel
<1>3. \A ch \in Channel : SameAs(Challengeable(ch), ch)
  BY DEF Challengeable, Channel
<1>4. \/ channels' = [channels EXCEPT ![id] = anchored]
      \/ channels' = [channels EXCEPT ![id] = Challengeable(anchored)]
  BY DEF ChannelCheckpoint, ChannelClose, ChannelDispute
<1> HIDE DEF anchored
<1> QED
  BY <1>1, <1>2, <1>3, <1>4

\* Finalization closes the record of a decided channel and nothing else.
LEMMA Finalized ==
  ASSUME TypeOK, NEW id \in Ids, NEW p \in Party, ChannelFinalize(p, id)
  PROVE  /\ Ids' = Ids /\ UNCHANGED <<signed, now>>
         /\ \A i \in Ids : i # id => channels'[i] = channels[i]
         /\ channels[id].status = "Closing" /\ Decided(channels[id])
         /\ channels'[id].status = "Closed"
         /\ channels'[id].nonce = channels[id].nonce
         /\ channels'[id].root = channels[id].root
         /\ channels'[id].party_a = channels[id].party_a
         /\ channels'[id].party_b = channels[id].party_b
<1> DEFINE ch == [channels[id] EXCEPT !.status = "Closed", !.closed_at = now]
<1>1. ch \in Channel
  BY ChannelType DEF TypeOK, Channel
<1>2. channels' = [channels EXCEPT ![id] = ch]
  BY ChannelType DEF ChannelFinalize, Channel
<1>3. Ids' = Ids /\ \A i \in Ids : channels'[i] = IF i = id THEN ch ELSE channels[i]
  BY <1>1, <1>2, ReplaceChannel
<1>4. channels[id].status = "Closing" /\ now > channels[id].deadline
  BY DEF ChannelFinalize, MayFinalize
<1>5. UNCHANGED <<signed, now>>
  BY DEF ChannelFinalize
<1>6. Decided(channels[id])
  BY <1>4 DEF Decided
<1>7. /\ ch.status = "Closed" /\ ch.nonce = channels[id].nonce
      /\ ch.root = channels[id].root
      /\ ch.party_a = channels[id].party_a /\ ch.party_b = channels[id].party_b
  BY ChannelType DEF Channel
<1> HIDE DEF ch
<1> QED
  BY <1>3, <1>4, <1>5, <1>6, <1>7

\* Signing adds a state with a nonce of its own to one open channel.
LEMMA SignedOne ==
  ASSUME TypeOK, NEW id \in Ids, NEW root \in Root, Sign(id, root)
  PROVE  /\ channels[id].status = "Open"
         /\ \A i \in Ids : i # id => signed'[i] = signed[i]
         /\ \E n \in 0 .. MaxNonce :
              /\ \A s \in signed[id] : n > s.nonce
              /\ signed'[id] = signed[id] \union {[nonce |-> n, root |-> root]}
<1>1. PICK n \in 0 .. MaxNonce :
        /\ \A s \in signed[id] : n > s.nonce
        /\ signed' = [signed EXCEPT ![id] = signed[id] \union {[nonce |-> n, root |-> root]}]
  BY DEF Sign
<1>2. id \in DOMAIN signed /\ \A i \in Ids : i \in DOMAIN signed
  BY ChannelType, LenProperties DEF TypeOK
<1> QED
  BY <1>1, <1>2 DEF Sign

\* No step lets a channel become decided while a newer state is signed.
LEMMA SettledStep == ASSUME TypeOK, Settled, [Next]_vars PROVE Settled'
<1> USE DEF Settled
<1>1. CASE InitContract \/ SetPaused \/ UNCHANGED vars
  BY <1>1 DEF InitContract, SetPaused, vars, Ids, Decided, Watched
<1>2. ASSUME NEW product \in Product, NEW a \in Party, NEW b \in Party,
             NEW window \in WindowChoices, ChannelOpen(product, a, b, window)
      PROVE  Settled'
  <2>1. now' = now /\ NewChannel(product, a, b, window).status = "Open"
    BY <1>2 DEF ChannelOpen, NewChannel
  <2> QED
    BY <1>2, <2>1, Opened DEF Decided, Watched
<1>3. ASSUME NEW id \in Ids, NEW p \in Party, NEW state \in signed[id],
             \/ ChannelCheckpoint(p, id, state)
             \/ ChannelClose(p, id, state)
             \/ ChannelDispute(p, id, state)
      PROVE  Settled'
  <2>1. channels'[id].status # "Closed" /\ now' = now
        /\ (channels'[id].status = "Closing" => channels'[id].deadline >= now)
    BY <1>3, Submitted
  <2>2. channels' \in Seq(Channel) /\ now \in Nat /\ Ids' = Ids
    <3>1. PICK ch \in Channel : channels' = [channels EXCEPT ![id] = ch]
      BY <1>3, ReplacedType DEF ChannelCheckpoint, ChannelClose, ChannelDispute
    <3> QED
      BY <3>1, ReplaceChannel DEF TypeOK
  <2>3. channels'[id].deadline \in Nat
    <3>1. id \in 1 .. Len(channels')
      BY <2>2, LenProperties DEF Ids
    <3> QED
      <4>1. channels'[id] \in Channel
        BY <2>2, <3>1, ElementOfSeq
      <4> QED
        BY <4>1 DEF Channel
  <2>4. ~Decided(channels[id])'
    BY <2>1, <2>2, <2>3 DEF Decided
  <2>5. \A i \in Ids : i # id => channels'[i] = channels[i] /\ signed'[i] = signed[i]
    BY <1>3, Submitted
  <2> QED
    BY <2>1, <2>2, <2>4, <2>5 DEF Decided, Watched
<1>4. ASSUME NEW id \in Ids, NEW p \in Party, ChannelFinalize(p, id)
      PROVE  Settled'
  <2>1. /\ channels'[id].nonce = channels[id].nonce
        /\ Watched(channels[id])' = Watched(channels[id])
    BY <1>4, Finalized DEF Watched
  <2> QED
    BY <1>4, <2>1, Finalized DEF Decided, Watched
<1>5. ASSUME NEW id \in Ids, NEW root \in Root, Sign(id, root)
      PROVE  Settled'
  <2>1. channels[id].status = "Open" /\ \A i \in Ids : i # id => signed'[i] = signed[i]
    BY <1>5, SignedOne
  <2>2. UNCHANGED <<channels, now>>
    BY <1>5 DEF Sign
  <2> QED
    BY <2>1, <2>2 DEF Decided, Watched, Ids
<1>6. CASE Tick
  <2>1. UNCHANGED <<channels, signed>> /\ now' = now + 1 /\ ~ProofPending
    BY <1>6 DEF Tick
  <2> SUFFICES ASSUME NEW id \in Ids, Watched(channels[id]), Decided(channels[id])',
                      NEW state \in signed[id]
               PROVE  state.nonce <= channels[id].nonce
    BY <2>1 DEF Ids, Watched
  <2>2. channels[id] \in Channel /\ state \in SignedState /\ now \in Nat
    BY ChannelType DEF TypeOK
  <2>3. CASE Decided(channels[id])
    BY <2>3
  <2>4. CASE ~Decided(channels[id])
    <3>1. channels[id].status = "Closing" /\ now = channels[id].deadline
      BY <2>1, <2>2, <2>4 DEF Decided, Channel
    <3>2. PICK challenger \in Watchful : IsParticipant(challenger, id)
      BY DEF Watched, IsParticipant
    <3>3. ~CanDispute(challenger, id, state)
      BY <2>1, <3>1 DEF ProofPending
    <3>4. ~StrictlyNewer(state.nonce, channels[id])
      BY <2>2, <3>1, <3>2, <3>3 DEF CanDispute, Channel
    <3> QED
      BY <2>2, <3>4 DEF StrictlyNewer, Channel, SignedState
  <2> QED
    BY <2>3, <2>4
<1> QED
  BY <1>1, <1>2, <1>3, <1>4, <1>5, <1>6 DEF Next, Finalize

\* What is anchored stays a state both parties signed, one state per nonce.
LEMMA SignedStep ==
  ASSUME TypeOK, AnchoredWasSigned, OneStatePerNonce, [Next]_vars
  PROVE  AnchoredWasSigned' /\ OneStatePerNonce'
<1> USE DEF AnchoredWasSigned, OneStatePerNonce
<1>1. CASE InitContract \/ SetPaused \/ Tick \/ UNCHANGED vars
  BY <1>1 DEF InitContract, SetPaused, Tick, vars, Ids
<1>2. ASSUME NEW product \in Product, NEW a \in Party, NEW b \in Party,
             NEW window \in WindowChoices, ChannelOpen(product, a, b, window)
      PROVE  AnchoredWasSigned' /\ OneStatePerNonce'
  <2>1. LET ch == NewChannel(product, a, b, window)
        IN  ch.root = ZeroRoot /\ ch.nonce = 0 /\ ch.status = "Open"
    BY DEF NewChannel
  <2> QED
    BY <1>2, <2>1, Opened
<1>3. ASSUME NEW id \in Ids, NEW p \in Party, NEW state \in signed[id],
             \/ ChannelCheckpoint(p, id, state)
             \/ ChannelClose(p, id, state)
             \/ ChannelDispute(p, id, state)
      PROVE  AnchoredWasSigned' /\ OneStatePerNonce'
  <2>1. /\ Ids' = Ids /\ signed' = signed
        /\ \A i \in Ids : i # id => channels'[i] = channels[i]
        /\ channels'[id].nonce = state.nonce /\ channels'[id].root = state.root
    BY <1>3, Submitted
  <2>2. state \in SignedState
    BY ChannelType
  <2>3. state = [nonce |-> state.nonce, root |-> state.root] /\ state.root # ZeroRoot
    BY <2>2, StateChannelAssumption DEF SignedState
  <2> QED
    BY <2>1, <2>3
<1>4. ASSUME NEW id \in Ids, NEW p \in Party, ChannelFinalize(p, id)
      PROVE  AnchoredWasSigned' /\ OneStatePerNonce'
  <2>1. /\ channels'[id].nonce = channels[id].nonce
        /\ channels'[id].root = channels[id].root
    BY <1>4, Finalized
  <2> QED
    BY <1>4, <2>1, Finalized
<1>5. ASSUME NEW id \in Ids, NEW root \in Root, Sign(id, root)
      PROVE  AnchoredWasSigned' /\ OneStatePerNonce'
  <2>1. PICK n \in 0 .. MaxNonce :
          /\ \A s \in signed[id] : n > s.nonce
          /\ signed'[id] = signed[id] \union {[nonce |-> n, root |-> root]}
    BY <1>5, SignedOne
  <2>2. n \in Nat /\ \A s \in signed[id] : s.nonce \in Nat
    BY ChannelType, StateChannelAssumption DEF SignedState
  <2>3. UNCHANGED channels /\ \A i \in Ids : i # id => signed'[i] = signed[i]
    BY <1>5, SignedOne DEF Sign
  <2>4. \A s, t \in signed'[id] : s.nonce = t.nonce => s = t
    BY <2>1, <2>2
  <2> QED
    BY <2>1, <2>3, <2>4 DEF Ids
<1> QED
  BY <1>1, <1>2, <1>3, <1>4, <1>5 DEF Next, Finalize

\* Channels with a watchful participant settle on the latest signed state, and
\* only signed states are ever anchored (close, dispute, finalize and the clock).
THEOREM Settlement == Spec => [](LatestStateSettles /\ AnchoredWasSigned)
<1>1. Init => ChannelInv
  <2>1. Init => Ids = {}
    BY DEF Init, Ids
  <2> QED
    BY <2>1 DEF ChannelInv, Settled, AnchoredWasSigned, OneStatePerNonce
<1>2. TypeOK /\ ChannelInv /\ [Next]_vars => ChannelInv'
  BY SettledStep, SignedStep DEF ChannelInv
<1>3. ChannelInv => LatestStateSettles /\ AnchoredWasSigned
  BY DEF ChannelInv, Settled, Decided, Watched, LatestStateSettles
<1> QED
  BY <1>1, <1>2, <1>3, TypeCorrect, PTL DEF Spec

\* Anchored states only move forward and settlement is final (every entry point).
THEOREM Anchors == Spec => AnchorsAdvance
<1> DEFINE Advances(id) ==
      LET old == channels[id]  new == channels'[id] IN
      /\ new.nonce >= old.nonce
      /\ new.root # old.root => new.nonce > old.nonce \/ old.root = ZeroRoot
      /\ old.status = "Closed" => new = old
      /\ old.status = "Closing" => new.status # "Open"
<1>1. ASSUME TypeOK, AnchoredWasSigned, OneStatePerNonce, [Next]_vars, NEW id \in Ids
      PROVE  Advances(id)
  <2>1. channels[id] \in Channel
    BY <1>1, ChannelType
  <2>2. CASE channels'[id] = channels[id]
    BY <2>1, <2>2 DEF Channel
  <2>3. ASSUME NEW product \in Product, NEW a \in Party, NEW b \in Party,
               NEW window \in WindowChoices, ChannelOpen(product, a, b, window)
        PROVE  channels'[id] = channels[id]
    <3>1. channels' = Append(channels, NewChannel(product, a, b, window))
      BY <2>3 DEF ChannelOpen
    <3>2. id \in 1 .. Len(channels) /\ channels \in Seq(Channel) /\ window \in Nat
      BY <1>1, ChannelType, StateChannelAssumption DEF TypeOK
    <3>3. NewChannel(product, a, b, window) \in Channel
      BY <3>2 DEF NewChannel, Channel
    <3> QED
      BY <3>1, <3>2, <3>3, AppendProperties
  <2>4. ASSUME NEW i \in Ids, NEW p \in Party, NEW state \in signed[i],
               \/ ChannelCheckpoint(p, i, state)
               \/ ChannelClose(p, i, state)
               \/ ChannelDispute(p, i, state)
        PROVE  Advances(id)
    <3>1. CASE i # id
      BY <1>1, <2>2, <2>4, <3>1, Submitted
    <3>2. CASE i = id
      <4>1. /\ channels'[id].nonce = state.nonce /\ channels'[id].root = state.root
            /\ channels[id].status # "Closed" /\ state.nonce >= channels[id].nonce
            /\ channels[id].status = "Closing" => channels'[id].status # "Open"
        BY <1>1, <2>4, <3>2, Submitted
      <4>2. state \in SignedState /\ state \in signed[id]
        BY <1>1, <2>4, <3>2, ChannelType
      <4>3. ASSUME state.root # channels[id].root, channels[id].root # ZeroRoot
            PROVE  state.nonce > channels[id].nonce
        <5>1. [nonce |-> channels[id].nonce, root |-> channels[id].root] \in signed[id]
          BY <1>1, <4>3 DEF AnchoredWasSigned
        <5>2. state.nonce # channels[id].nonce
          BY <1>1, <4>2, <4>3, <5>1 DEF OneStatePerNonce
        <5> QED
          BY <2>1, <4>1, <4>2, <5>2 DEF Channel, SignedState
      <4> QED
        BY <4>1, <4>3
    <3> QED
      BY <3>1, <3>2
  <2>5. ASSUME NEW i \in Ids, NEW p \in Party, ChannelFinalize(p, i)
        PROVE  Advances(id)
    <3>1. CASE i # id
      BY <1>1, <2>2, <2>5, <3>1, Finalized
    <3>2. CASE i = id
      BY <1>1, <2>1, <2>5, <3>2, Finalized DEF Channel
    <3> QED
      BY <3>1, <3>2
  <2>6. CASE InitContract \/ SetPaused \/ Tick \/ UNCHANGED vars
    BY <2>2, <2>6 DEF InitContract, SetPaused, Tick, vars
  <2>7. CASE \E i \in Ids, root \in Root : Sign(i, root)
    BY <2>2, <2>7 DEF Sign
  <2> HIDE DEF Advances
  <2> QED
    BY <1>1, <2>2, <2>3, <2>4, <2>5, <2>6, <2>7 DEF Next, Finalize
<1>2. ASSUME TypeOK, ChannelInv, [Next]_vars
      PROVE  [\A id \in Ids : Advances(id)]_vars
  BY <1>1, <1>2 DEF ChannelInv
<1>3. Init => ChannelInv
  <2>1. Init => Ids = {}
    BY DEF Init, Ids
  <2> QED
    BY <2>1 DEF ChannelInv, Settled, AnchoredWasSigned, OneStatePerNonce
<1>4. TypeOK /\ ChannelInv /\ [Next]_vars => ChannelInv'
  BY SettledStep, SignedStep DEF ChannelInv
<1> QED
  BY <1>2, <1>3, <1>4, TypeCorrect, PTL DEF Spec, AnchorsAdvance

------------------------------------------------------------------------------
(* The timelock and what it governs. *)

\* The quorum check keeps an operation an operation.
LEMMA QueueType ==
  ASSUME NEW op \in TimelockOperation
  PROVE  /\ MaybeQueue(op) \in TimelockOperation
         /\ MaybeQueue(op).approvals = op.approvals
         /\ MaybeQueue(op).created_at = op.created_at
         /\ MaybeQueue(op).ready_at = op.ready_at
         /\ MaybeQueue(op).execute_by = op.execute_by
         /\ MaybeQueue(op).proposer = op.proposer
         /\ MaybeQueue(op).action = op.action
         /\ MaybeQueue(op).status =
              IF Cardinality(op.approvals) >= tl_config.threshold /\ op.status = "PendingApprovals"
              THEN "Queued" ELSE op.status
BY DEF MaybeQueue, TimelockOperation, TimelockStatus

LEMMA NewType ==
  ASSUME TimelockTypeOK, NEW a \in Address, NEW action \in Action, NEW delay \in Nat
  PROVE  NewOperation(a, action, delay) \in TimelockOperation
BY DEF TimelockTypeOK, TimelockConfig, NewOperation, TimelockOperation, TimelockStatus

LEMMA ApprovedType ==
  ASSUME NEW op \in TimelockOperation, NEW a \in Address
  PROVE  /\ WithOneMore(op, a) \in TimelockOperation
         /\ WithOneMore(op, a).approvals = op.approvals \union {a}
         /\ WithOneMore(op, a).status = op.status
         /\ WithOneMore(op, a).created_at = op.created_at
         /\ WithOneMore(op, a).ready_at = op.ready_at
         /\ WithOneMore(op, a).execute_by = op.execute_by
         /\ WithOneMore(op, a).proposer = op.proposer
         /\ WithOneMore(op, a).action = op.action
BY DEF WithOneMore, TimelockOperation

LEMMA StatusChange ==
  ASSUME NEW op \in TimelockOperation, NEW st \in TimelockStatus
  PROVE  /\ [op EXCEPT !.status = st] \in TimelockOperation
         /\ [op EXCEPT !.status = st].status = st
         /\ [op EXCEPT !.status = st].approvals = op.approvals
         /\ [op EXCEPT !.status = st].created_at = op.created_at
         /\ [op EXCEPT !.status = st].ready_at = op.ready_at
         /\ [op EXCEPT !.status = st].execute_by = op.execute_by
         /\ [op EXCEPT !.status = st].proposer = op.proposer
         /\ [op EXCEPT !.status = st].action = op.action
BY DEF TimelockOperation

\* A proposal appends one operation and keeps the others.
LEMMA Proposed ==
  ASSUME TimelockTypeOK, NEW a \in Address, NEW action \in Action,
         NEW delay \in DelayChoices, ProposeAction(a, action, delay)
  PROVE  LET new == MaybeQueue(NewOperation(a, action, delay)) IN
         /\ new \in TimelockOperation
         /\ OperationIds' = OperationIds \union {next_operation_id}
         /\ next_operation_id \notin OperationIds
         /\ next_operation_id' \in Nat \ {0}
         /\ operations' = [id \in OperationIds' |->
                             IF id = next_operation_id THEN new ELSE operations[id]]
         /\ runs' = [id \in OperationIds' |->
                       IF id = next_operation_id THEN NeverRun ELSE runs[id]]
<1>1. delay \in Nat
  BY TimelockAssumption
<1>2. MaybeQueue(NewOperation(a, action, delay)) \in TimelockOperation
  BY <1>1, NewType, QueueType
<1>3. next_operation_id \in Nat \ {0} /\ next_operation_id' = next_operation_id + 1
  BY DEF TimelockTypeOK, ProposeAction
<1>4. OperationIds' = 1 .. next_operation_id
  BY <1>3 DEF OperationIds
<1>5. OperationIds' = OperationIds \union {next_operation_id}
      /\ next_operation_id \notin OperationIds
  BY <1>3, <1>4 DEF OperationIds
<1> QED
  BY <1>2, <1>3, <1>4, <1>5 DEF ProposeAction

\* Approving and cancelling replace one operation.
LEMMA Replaced ==
  ASSUME TimelockTypeOK, NEW id \in OperationIds, NEW op \in TimelockOperation,
         operations' = [operations EXCEPT ![id] = op],
         UNCHANGED <<tl_config, next_operation_id>>
  PROVE  /\ OperationIds' = OperationIds
         /\ operations' \in [OperationIds -> TimelockOperation]
         /\ \A i \in OperationIds : operations'[i] = IF i = id THEN op ELSE operations[i]
BY DEF TimelockTypeOK, OperationIds

LEMMA Approved ==
  ASSUME TimelockTypeOK, NEW a \in Address, NEW id \in OperationIds, ApproveAction(a, id)
  PROVE  LET op == MaybeQueue(WithOneMore(operations[id], a)) IN
         /\ op \in TimelockOperation
         /\ operations' = [operations EXCEPT ![id] = op]
         /\ UNCHANGED <<tl_config, next_operation_id, tl_now, runs>>
<1>1. operations[id] \in TimelockOperation
  BY DEF TimelockTypeOK
<1> QED
  BY <1>1, ApprovedType, QueueType DEF ApproveAction

LEMMA Cancelled ==
  ASSUME TimelockTypeOK, NEW a \in Address, NEW id \in OperationIds, CancelAction(a, id)
  PROVE  LET op == [operations[id] EXCEPT !.status = "Cancelled"] IN
         /\ op \in TimelockOperation
         /\ operations' = [operations EXCEPT ![id] = op]
         /\ UNCHANGED <<tl_config, next_operation_id, tl_now, runs>>
<1>1. operations[id] \in TimelockOperation
  BY DEF TimelockTypeOK
<1>2. [operations[id] EXCEPT !.status = "Cancelled"] \in TimelockOperation
  BY <1>1, StatusChange DEF TimelockStatus
<1> QED
  BY <1>1, <1>2 DEF CancelAction

LEMMA Executed ==
  ASSUME TimelockTypeOK, NEW a \in Address, NEW id \in OperationIds, ExecuteAction(a, id)
  PROVE  LET op == [operations[id] EXCEPT !.status = "Executed"] IN
         /\ op \in TimelockOperation
         /\ operations' = [operations EXCEPT ![id] = op]
         /\ runs' = [runs EXCEPT ![id] = [count |-> runs[id].count + 1, last |-> tl_now]]
         /\ UNCHANGED <<tl_config, next_operation_id, tl_now>>
<1>1. operations[id] \in TimelockOperation
  BY DEF TimelockTypeOK
<1>2. [operations[id] EXCEPT !.status = "Executed"] \in TimelockOperation
  BY <1>1, StatusChange DEF TimelockStatus
<1> QED
  BY <1>1, <1>2 DEF ExecuteAction

\* Configuration, operations and clock keep their types (every entry point).
THEOREM TimelockTypeCorrect == TimelockSpec => []TimelockTypeOK
<1>1. TimelockInit => TimelockTypeOK
  BY DEF TimelockInit, TimelockTypeOK, TimelockConfig, FirstOperationId, OperationIds
<1>2. TimelockTypeOK /\ [TimelockNext]_tl_vars => TimelockTypeOK'
  <2> SUFFICES ASSUME TimelockTypeOK, [TimelockNext]_tl_vars PROVE TimelockTypeOK'
    OBVIOUS
  <2>1. ASSUME NEW c \in ConfigChoices, TimelockConfigure(c) PROVE TimelockTypeOK'
    <3>1. c \in TimelockConfig /\ c.signers # {}
      BY <2>1, TimelockAssumption DEF TimelockConfigure, ValidateConfig
    <3>2. next_operation_id' = next_operation_id /\ OperationIds' = OperationIds
      BY <2>1 DEF TimelockConfigure, TimelockTypeOK, OperationIds
    <3> QED
      BY <2>1, <3>1, <3>2 DEF TimelockConfigure, TimelockTypeOK
  <2>2. ASSUME NEW a \in Address, NEW action \in Action, NEW delay \in DelayChoices,
               ProposeAction(a, action, delay)
        PROVE  TimelockTypeOK'
    <3> DEFINE new == MaybeQueue(NewOperation(a, action, delay))
    <3>1. /\ new \in TimelockOperation
          /\ OperationIds' = OperationIds \union {next_operation_id}
          /\ next_operation_id' \in Nat \ {0}
          /\ operations' = [id \in OperationIds' |->
                              IF id = next_operation_id THEN new ELSE operations[id]]
          /\ runs' = [id \in OperationIds' |->
                        IF id = next_operation_id THEN NeverRun ELSE runs[id]]
      BY <2>2, Proposed
    <3>2. NeverRun \in [count : Nat, last : Nat]
      BY DEF NeverRun
    <3>3. UNCHANGED <<tl_config, tl_now>> /\ tl_config.signers # {}
      BY <2>2 DEF ProposeAction, RequireSigner
    <3> HIDE DEF new
    <3>4. operations' \in [OperationIds' -> TimelockOperation]
      <4>1. \A id \in OperationIds : operations[id] \in TimelockOperation
        BY DEF TimelockTypeOK
      <4> QED
        BY <3>1, <4>1
    <3>5. runs' \in [OperationIds' -> [count : Nat, last : Nat]]
      BY <3>1, <3>2 DEF TimelockTypeOK
    <3> QED
      BY <3>1, <3>3, <3>4, <3>5 DEF TimelockTypeOK
  <2>3. ASSUME NEW a \in Address, NEW id \in OperationIds,
               ApproveAction(a, id) \/ CancelAction(a, id) \/ ExecuteAction(a, id)
        PROVE  TimelockTypeOK'
    <3>1. /\ \E op \in TimelockOperation : operations' = [operations EXCEPT ![id] = op]
          /\ UNCHANGED <<tl_config, next_operation_id, tl_now>>
      <4>1. CASE ApproveAction(a, id)
        BY <4>1, Approved
      <4>2. CASE CancelAction(a, id)
        BY <4>2, Cancelled
      <4>3. CASE ExecuteAction(a, id)
        BY <4>3, Executed
      <4> QED
        BY <2>3, <4>1, <4>2, <4>3
    <3>2. operations' \in [OperationIds -> TimelockOperation] /\ OperationIds' = OperationIds
      BY <3>1, Replaced
    <3>3. \/ runs' = runs
          \/ runs' = [runs EXCEPT ![id] = [count |-> runs[id].count + 1, last |-> tl_now]]
      BY <2>3 DEF ApproveAction, CancelAction, ExecuteAction
    <3>4. runs' \in [OperationIds -> [count : Nat, last : Nat]]
      BY <3>3 DEF TimelockTypeOK
    <3> QED
      BY <3>1, <3>2, <3>4 DEF TimelockTypeOK
  <2>4. CASE TimelockTick \/ UNCHANGED tl_vars
    BY <2>4 DEF TimelockTick, tl_vars, TimelockTypeOK, OperationIds
  <2> QED
    BY <2>1, <2>2, <2>3, <2>4 DEF TimelockNext
<1> QED
  BY <1>1, <1>2, PTL DEF TimelockSpec

------------------------------------------------------------------------------

\* What every operation keeps: its window is the one validated when it was
\* proposed, its status agrees with its approvals, its history with its status.
OperationOK(op, run) ==
  /\ op.approvals \subseteq tl_config.signers
  /\ op.ready_at >= op.created_at + tl_config.min_delay
  /\ op.ready_at <= op.created_at + tl_config.max_delay
  /\ op.execute_by = op.ready_at + tl_config.grace
  /\ op.status = "PendingApprovals" => Cardinality(op.approvals) < tl_config.threshold
  /\ op.status \in {"Queued", "Executed"} => Cardinality(op.approvals) >= tl_config.threshold
  /\ run.count = IF op.status = "Executed" THEN 1 ELSE 0
  /\ op.status = "Executed" => run.last >= op.ready_at /\ run.last <= op.execute_by

\* The inductive invariant: only a validated configuration holds operations.
TimelockInv ==
  /\ tl_config.signers # {} => ValidateConfig(tl_config)
  /\ tl_config.signers = {} => OperationIds = {}
  /\ \A id \in OperationIds : OperationOK(operations[id], runs[id])

\* Approvals are finite sets, so their number is a natural.
LEMMA ApprovalsCount ==
  ASSUME NEW op \in TimelockOperation
  PROVE  Cardinality(op.approvals) \in Nat
BY TimelockAssumption, FS_Subset, FS_CardinalityType DEF TimelockOperation

LEMMA ApprovedMore ==
  ASSUME NEW op \in TimelockOperation, NEW a \in Address
  PROVE  Cardinality(op.approvals \union {a}) >= Cardinality(op.approvals)
<1>1. op.approvals \subseteq Address /\ IsFiniteSet(op.approvals)
  BY TimelockAssumption, FS_Subset DEF TimelockOperation
<1>2. Cardinality(op.approvals) \in Nat
  BY <1>1, FS_CardinalityType
<1>3. Cardinality(op.approvals \union {a})
        = IF a \in op.approvals THEN Cardinality(op.approvals) ELSE Cardinality(op.approvals) + 1
  BY <1>1, FS_AddElement
<1> QED
  BY <1>2, <1>3

LEMMA IInvStep == ASSUME TimelockTypeOK, TimelockInv, [TimelockNext]_tl_vars PROVE TimelockInv'
<1>1. ASSUME NEW c \in ConfigChoices, TimelockConfigure(c) PROVE TimelockInv'
  <2>1. OperationIds' = {} /\ ValidateConfig(c) /\ tl_config' = c
    BY <1>1 DEF TimelockConfigure, FirstOperationId, OperationIds
  <2>2. ValidateConfig(tl_config)' /\ tl_config'.signers # {}
    BY <2>1 DEF ValidateConfig
  <2> QED
    BY <2>1, <2>2 DEF TimelockInv
<1>2. ASSUME NEW a \in Address, NEW action \in Action, NEW delay \in DelayChoices,
             ProposeAction(a, action, delay)
      PROVE  TimelockInv'
  <2> DEFINE op0 == NewOperation(a, action, delay)
             new == MaybeQueue(op0)
  <2>1. /\ OperationIds' = OperationIds \union {next_operation_id}
        /\ next_operation_id \notin OperationIds
        /\ operations' = [id \in OperationIds' |->
                            IF id = next_operation_id THEN new ELSE operations[id]]
        /\ runs' = [id \in OperationIds' |->
                      IF id = next_operation_id THEN NeverRun ELSE runs[id]]
    BY <1>2, Proposed
  <2>2. tl_config' = tl_config /\ a \in tl_config.signers
        /\ delay >= tl_config.min_delay /\ delay <= tl_config.max_delay
    BY <1>2 DEF ProposeAction, RequireSigner
  <2>3. /\ op0 \in TimelockOperation /\ op0.approvals = {a}
        /\ op0.created_at = tl_now /\ op0.ready_at = tl_now + delay
        /\ op0.execute_by = tl_now + delay + tl_config.grace
        /\ op0.status = "PendingApprovals"
    BY TimelockAssumption, NewType DEF NewOperation
  <2>4. /\ tl_now \in Nat /\ delay \in Nat /\ tl_config.min_delay \in Nat
        /\ tl_config.max_delay \in Nat /\ tl_config.grace \in Nat
        /\ tl_config.threshold \in Nat
    BY TimelockAssumption DEF TimelockTypeOK, TimelockConfig
  <2>5. Cardinality(op0.approvals) \in Nat
    BY <2>3, ApprovalsCount
  <2> HIDE DEF op0
  <2>6. OperationOK(new, NeverRun)
    <3>1. /\ new.approvals = op0.approvals /\ new.created_at = op0.created_at
          /\ new.ready_at = op0.ready_at /\ new.execute_by = op0.execute_by
          /\ new.status = IF Cardinality(op0.approvals) >= tl_config.threshold
                             /\ op0.status = "PendingApprovals"
                          THEN "Queued" ELSE op0.status
      BY <2>3, QueueType
    <3> HIDE DEF new
    <3> QED
      BY <2>2, <2>3, <2>4, <2>5, <3>1 DEF OperationOK, NeverRun
  <2> HIDE DEF new
  <2>7. ASSUME NEW id \in OperationIds' PROVE OperationOK(operations[id], runs[id])'
    <3>1. CASE id = next_operation_id
      BY <2>1, <2>2, <2>6, <3>1 DEF OperationOK
    <3>2. CASE id \in OperationIds
      BY <2>1, <2>2, <3>2 DEF OperationOK, TimelockInv
    <3> QED
      BY <2>1, <3>1, <3>2
  <2> QED
    BY <2>2, <2>7 DEF TimelockInv, ValidateConfig
<1>3. ASSUME NEW id \in OperationIds, NEW op \in TimelockOperation,
             operations' = [operations EXCEPT ![id] = op],
             UNCHANGED <<tl_config, next_operation_id>>,
             \A i \in OperationIds : i # id => runs'[i] = runs[i],
             OperationOK(op, runs'[id])
      PROVE  TimelockInv'
  <2>1. OperationIds' = OperationIds
        /\ \A i \in OperationIds : operations'[i] = IF i = id THEN op ELSE operations[i]
    BY <1>3, Replaced
  <2> QED
    BY <1>3, <2>1 DEF TimelockInv, OperationOK, ValidateConfig
<1>4. ASSUME NEW a \in Address, NEW id \in OperationIds, ApproveAction(a, id) PROVE TimelockInv'
  <2> DEFINE op1 == WithOneMore(operations[id], a)
             op  == MaybeQueue(op1)
  <2>1. /\ op \in TimelockOperation /\ operations' = [operations EXCEPT ![id] = op]
        /\ UNCHANGED <<tl_config, next_operation_id, tl_now, runs>>
    BY <1>4, Approved
  <2>2. operations[id] \in TimelockOperation /\ tl_config.threshold \in Nat
    BY DEF TimelockTypeOK, TimelockConfig
  <2>3. /\ op1 \in TimelockOperation
        /\ op1.approvals = operations[id].approvals \union {a}
        /\ op1.status = operations[id].status
        /\ op1.created_at = operations[id].created_at
        /\ op1.ready_at = operations[id].ready_at
        /\ op1.execute_by = operations[id].execute_by
    BY <2>2, ApprovedType
  <2> HIDE DEF op1
  <2>4. /\ op.approvals = op1.approvals /\ op.created_at = op1.created_at
        /\ op.ready_at = op1.ready_at /\ op.execute_by = op1.execute_by
        /\ op.status = IF Cardinality(op1.approvals) >= tl_config.threshold
                          /\ op1.status = "PendingApprovals"
                       THEN "Queued" ELSE op1.status
    BY <2>3, QueueType
  <2> HIDE DEF op
  <2>5. /\ Cardinality(op1.approvals) \in Nat
        /\ Cardinality(operations[id].approvals) \in Nat
        /\ Cardinality(op1.approvals) >= Cardinality(operations[id].approvals)
    BY <2>2, <2>3, ApprovalsCount, ApprovedMore
  <2>6. a \in tl_config.signers
        /\ operations[id].status \notin {"Cancelled", "Executed"}
        /\ OperationOK(operations[id], runs[id])
    BY <1>4 DEF ApproveAction, RequireSigner, AcceptsApprovals, TimelockInv
  <2>7. OperationOK(op, runs[id])
    BY <2>2, <2>3, <2>4, <2>5, <2>6 DEF OperationOK
  <2> QED
    BY <1>3, <2>1, <2>7
<1>5. ASSUME NEW a \in Address, NEW id \in OperationIds, CancelAction(a, id) PROVE TimelockInv'
  <2> DEFINE op == [operations[id] EXCEPT !.status = "Cancelled"]
  <2>1. /\ op \in TimelockOperation /\ operations' = [operations EXCEPT ![id] = op]
        /\ UNCHANGED <<tl_config, next_operation_id, tl_now, runs>>
    BY <1>5, Cancelled
  <2>2. operations[id] \in TimelockOperation
    BY DEF TimelockTypeOK
  <2>3. /\ op.status = "Cancelled" /\ op.approvals = operations[id].approvals
        /\ op.created_at = operations[id].created_at
        /\ op.ready_at = operations[id].ready_at
        /\ op.execute_by = operations[id].execute_by
    BY <2>2, StatusChange DEF TimelockStatus
  <2>4. operations[id].status # "Executed" /\ OperationOK(operations[id], runs[id])
    BY <1>5 DEF CancelAction, TimelockInv
  <2> HIDE DEF op
  <2>5. OperationOK(op, runs[id])
    BY <2>3, <2>4 DEF OperationOK
  <2> QED
    BY <1>3, <2>1, <2>5
<1>6. ASSUME NEW a \in Address, NEW id \in OperationIds, ExecuteAction(a, id) PROVE TimelockInv'
  <2> DEFINE op  == [operations[id] EXCEPT !.status = "Executed"]
             run == [count |-> runs[id].count + 1, last |-> tl_now]
  <2>1. /\ op \in TimelockOperation /\ operations' = [operations EXCEPT ![id] = op]
        /\ runs' = [runs EXCEPT ![id] = run]
        /\ UNCHANGED <<tl_config, next_operation_id, tl_now>>
    BY <1>6, Executed
  <2>2. operations[id] \in TimelockOperation /\ runs'[id] = run
        /\ \A i \in OperationIds : i # id => runs'[i] = runs[i]
    BY <2>1 DEF TimelockTypeOK
  <2>3. /\ op.status = "Executed" /\ op.approvals = operations[id].approvals
        /\ op.created_at = operations[id].created_at
        /\ op.ready_at = operations[id].ready_at
        /\ op.execute_by = operations[id].execute_by
    BY <2>2, StatusChange DEF TimelockStatus
  <2>4. /\ operations[id].status = "Queued"
        /\ tl_now >= operations[id].ready_at /\ tl_now <= operations[id].execute_by
        /\ OperationOK(operations[id], runs[id])
    BY <1>6 DEF ExecuteAction, Executable, TimelockInv
  <2> HIDE DEF op
  <2>5. OperationOK(op, run)
    BY <2>3, <2>4 DEF OperationOK
  <2> HIDE DEF run
  <2> QED
    BY <1>3, <2>1, <2>2, <2>5
<1>7. CASE TimelockTick \/ UNCHANGED tl_vars
  BY <1>7 DEF TimelockTick, tl_vars, TimelockInv, OperationOK, ValidateConfig, OperationIds
<1> QED
  BY <1>1, <1>2, <1>4, <1>5, <1>6, <1>7 DEF TimelockNext

\* What was performed had its quorum, waited its whole delay, and was performed
\* once and in its window (timelock_init, propose, approve, cancel and execute).
THEOREM TimelockSafety ==
  TimelockSpec => [](QueuedIffQuorum /\ PerformedOnceInWindow)
<1>1. TimelockInit => TimelockInv
  BY DEF TimelockInit, TimelockInv, FirstOperationId, OperationIds
<1>2. TimelockTypeOK /\ TimelockInv /\ [TimelockNext]_tl_vars => TimelockInv'
  BY IInvStep
<1>3. ASSUME TimelockTypeOK, TimelockInv
      PROVE  QueuedIffQuorum /\ PerformedOnceInWindow
  <2> SUFFICES ASSUME NEW id \in OperationIds
               PROVE  /\ QueuedIffQuorum!(id)
                      /\ PerformedOnceInWindow!(id)
    BY DEF QueuedIffQuorum, PerformedOnceInWindow
  <2>1. operations[id] \in TimelockOperation /\ runs[id] \in [count : Nat, last : Nat]
    BY <1>3 DEF TimelockTypeOK
  <2>2. tl_config.threshold \in 1 .. Cardinality(tl_config.signers)
    <3>1. tl_config.signers \subseteq Address /\ tl_config.threshold \in Nat
      BY <1>3 DEF TimelockTypeOK, TimelockConfig
    <3>2. Cardinality(tl_config.signers) \in Nat
      BY <3>1, TimelockAssumption, FS_Subset, FS_CardinalityType
    <3> QED
      BY <1>3, <3>1, <3>2 DEF TimelockInv, ValidateConfig
  <2>3. /\ tl_config.min_delay \in Nat /\ tl_config.max_delay \in Nat
        /\ tl_config.grace \in Nat /\ tl_now \in Nat
    BY <1>3 DEF TimelockTypeOK, TimelockConfig
  <2>4. OperationOK(operations[id], runs[id])
    BY <1>3 DEF TimelockInv
  <2>5. QueuedIffQuorum!(id)
    BY <2>2, <2>4 DEF OperationOK
  <2>6. PerformedOnceInWindow!(id)
    BY <2>1, <2>3, <2>4 DEF OperationOK, TimelockOperation
  <2> QED
    BY <2>5, <2>6
<1> QED
  BY <1>1, <1>2, <1>3, TimelockTypeCorrect, PTL DEF TimelockSpec

\* A veto and an execution are final, whatever calls follow (approve_action,
\* cancel_action, execute_action).
THEOREM VetoIsFinal == TimelockSpec => VetoStands
<1> DEFINE Kept(op, new) ==
      /\ op.status \in {"Cancelled", "Executed"} =>
           new.status = op.status /\ new.approvals = op.approvals
      /\ op.approvals \subseteq new.approvals
      /\ op.status = "Queued" => new.status # "PendingApprovals"
      /\ Terms(new) = Terms(op)
<1>1. ASSUME TimelockTypeOK, [TimelockNext]_tl_vars, NEW i \in OperationIds
      PROVE  Kept(operations[i], operations'[i])
  <2>0. operations[i] \in TimelockOperation
    BY <1>1 DEF TimelockTypeOK
  <2>1. CASE operations'[i] = operations[i]
    BY <2>0, <2>1
  <2>2. ASSUME NEW a \in Address, NEW action \in Action, NEW delay \in DelayChoices,
               ProposeAction(a, action, delay)
        PROVE  operations'[i] = operations[i]
    BY <1>1, <2>2, Proposed
  <2>3. ASSUME NEW a \in Address, NEW id \in OperationIds, ApproveAction(a, id)
        PROVE  Kept(operations[i], operations'[i])
    <3> DEFINE op1 == WithOneMore(operations[id], a)
               op  == MaybeQueue(op1)
    <3>1. /\ op \in TimelockOperation /\ operations' = [operations EXCEPT ![id] = op]
          /\ UNCHANGED <<tl_config, next_operation_id, tl_now, runs>>
      BY <1>1, <2>3, Approved
    <3>2. operations[id] \in TimelockOperation
      BY <1>1 DEF TimelockTypeOK
    <3>3. /\ op1 \in TimelockOperation
          /\ op1.approvals = operations[id].approvals \union {a}
          /\ op1.status = operations[id].status /\ Terms(op1) = Terms(operations[id])
      BY <3>2, ApprovedType DEF Terms
    <3> HIDE DEF op1
    <3>4. /\ op.approvals = op1.approvals
          /\ op.status \in {op1.status, "Queued"} /\ Terms(op) = Terms(op1)
      BY <3>3, QueueType DEF Terms
    <3> HIDE DEF op
    <3>5. operations[id].status \notin {"Cancelled", "Executed"}
      BY <2>3 DEF ApproveAction, AcceptsApprovals
    <3>6. operations'[i] = IF i = id THEN op ELSE operations[i]
      BY <1>1, <3>1, Replaced
    <3> QED
      BY <2>1, <3>3, <3>4, <3>5, <3>6
  <2>4. ASSUME NEW a \in Address, NEW id \in OperationIds,
               CancelAction(a, id) \/ ExecuteAction(a, id)
        PROVE  Kept(operations[i], operations'[i])
    <3>1. PICK st \in {"Cancelled", "Executed"} :
            /\ operations' = [operations EXCEPT ![id] = [operations[id] EXCEPT !.status = st]]
            /\ UNCHANGED <<tl_config, next_operation_id>>
            /\ operations[id].status # "Executed"
            /\ operations[id].status = "Cancelled" => st = "Cancelled"
      <4>1. CASE CancelAction(a, id)
        BY <1>1, <4>1, Cancelled DEF CancelAction
      <4>2. CASE ExecuteAction(a, id)
        BY <1>1, <4>2, Executed DEF ExecuteAction, Executable
      <4> QED
        BY <2>4, <4>1, <4>2
    <3>2. operations[id] \in TimelockOperation /\ st \in TimelockStatus
      BY <1>1 DEF TimelockTypeOK, TimelockStatus
    <3> DEFINE op == [operations[id] EXCEPT !.status = st]
    <3>3. /\ op \in TimelockOperation /\ op.status = st
          /\ op.approvals = operations[id].approvals
          /\ Terms(op) = Terms(operations[id])
      BY <3>2, StatusChange DEF Terms
    <3>4. operations'[i] = IF i = id THEN op ELSE operations[i]
      BY <1>1, <3>1, <3>3, Replaced
    <3> HIDE DEF op
    <3> QED
      BY <2>1, <3>1, <3>3, <3>4
  <2>5. CASE TimelockTick \/ UNCHANGED tl_vars \/ \E c \in ConfigChoices : TimelockConfigure(c)
    BY <2>1, <2>5 DEF TimelockTick, tl_vars, TimelockConfigure
  <2> HIDE DEF Kept
  <2> QED
    BY <1>1, <2>1, <2>2, <2>3, <2>4, <2>5 DEF TimelockNext
<1>2. ASSUME TimelockTypeOK, [TimelockNext]_tl_vars
      PROVE  [\A id \in OperationIds : Kept(operations[id], operations'[id])]_tl_vars
  BY <1>1, <1>2
<1> QED
  BY <1>2, TimelockTypeCorrect, PTL DEF TimelockSpec, VetoStands

--------------------------------------------------------------------------------
(***************************************************************************)
(* Governance: the timelock and its targets.                               *)
(***************************************************************************)

\* Composed with its targets, the timelock does what it does alone, and each of
\* its theorems holds of it still (execute_action, whose target may refuse).
THEOREM GovernedTimelock == GovernanceSpec => TimelockSpec
<1>1. GovernanceInit => TimelockInit
  BY DEF GovernanceInit
<1>2. [GovernanceNext]_governance_vars => [TimelockNext]_tl_vars
  BY DEF GovernanceNext, ExecuteAndPerform, TimelockNext, governance_vars, tl_vars
<1> QED
  BY <1>1, <1>2, PTL DEF GovernanceSpec, TimelockSpec

TargetsTypeOK ==
  /\ main \in Roles /\ contract_admin \in Account \union {NoOne}
  /\ upgrade_roles \in Roles /\ version \in Version
  /\ upgrade_status \in UpgradeStatus /\ upgrade_info \in Version \union {NoInfo}
  /\ emergency_paused \in BOOLEAN

\* An upgrade in progress is one that was validated against the version it
\* would replace: the version stands still until the upgrade ends.
TargetsInv ==
  /\ TargetsTypeOK
  /\ upgrade_status = "InProgress" =>
       upgrade_info # NoInfo /\ ValidVersionUpgrade(version, upgrade_info)

\* Every call on the main contract leaves it with roles.
LEMMA MainCallType ==
  ASSUME main \in Roles, NEW caller, NEW frame,
         \/ MainInit(caller, frame) /\ caller \in Account
         \/ \E paused \in BOOLEAN : MainSetPaused(caller, frame, paused) \/ TrySetPaused(caller, frame, paused)
         \/ \E new \in Account : MainTransferAdmin(caller, new, frame)
         \/ MainSetMultisig(caller, frame) \/ MainSetTimelock(caller, frame)
  PROVE  main' \in Roles
<1>1. CASE MainInit(caller, frame) /\ caller \in Account
  <2>1. main' = [main EXCEPT !.admin = caller, !.paused = FALSE]
    BY <1>1 DEF MainInit
  <2> QED
    BY <1>1, <2>1 DEF Roles
<1>2. ASSUME NEW paused \in BOOLEAN, main' = [main EXCEPT !.paused = paused] PROVE main' \in Roles
  BY <1>2 DEF Roles
<1>3. ASSUME NEW new \in Account, MainTransferAdmin(caller, new, frame) PROVE main' \in Roles
  <2>1. main' = [main EXCEPT !.admin = new]
    BY <1>3 DEF MainTransferAdmin
  <2> QED
    BY <2>1 DEF Roles
<1>4. CASE MainSetMultisig(caller, frame)
  BY <1>4 DEF MainSetMultisig, Roles
<1>5. CASE MainSetTimelock(caller, frame)
  BY <1>5 DEF MainSetTimelock, Roles
<1> QED
  BY <1>1, <1>2, <1>3, <1>4, <1>5 DEF MainSetPaused, TrySetPaused

\* A call signed by accounts on the main contract or on the admin contract.
LEMMA ControlCallKeeps ==
  ASSUME TargetsInv, NEW frame \in SUBSET Account, ControlCall(frame), UNCHANGED upgrade_vars
  PROVE  TargetsInv'
<1>1. main \in Roles /\ contract_admin \in Account \union {NoOne}
  BY DEF TargetsInv, TargetsTypeOK
<1>2. main' \in Roles /\ contract_admin' \in Account \union {NoOne}
  <2>1. PICK caller \in frame :
          \/ MainInit(caller, frame) /\ caller \in Account /\ UNCHANGED contract_admin
          \/ /\ \/ \E paused \in BOOLEAN : MainSetPaused(caller, frame, paused)
                \/ \E new \in frame \intersect Account : MainTransferAdmin(caller, new, frame)
                \/ MainSetMultisig(caller, frame)
                \/ MainSetTimelock(caller, frame)
             /\ UNCHANGED contract_admin
          \/ ContractInit(caller, frame) /\ caller \in Account
          \/ \E paused \in BOOLEAN : ContractSetPaused(caller, frame, paused)
          \/ \E new \in frame : ContractTransferAdmin(caller, new, frame)
    BY DEF ControlCall
  <2>2. CASE ContractInit(caller, frame) /\ caller \in Account
    BY <1>1, <2>2 DEF ContractInit
  <2>3. CASE \E paused \in BOOLEAN : ContractSetPaused(caller, frame, paused)
    <3>1. PICK paused \in BOOLEAN : /\ MainSetPaused(caller, CallFrom(AdminAddr, frame), paused)
                                   /\ UNCHANGED contract_admin
      BY <2>3 DEF ContractSetPaused
    <3> QED
      BY <1>1, <3>1, MainCallType
  <2>4. CASE \E new \in frame : ContractTransferAdmin(caller, new, frame)
    <3>1. PICK new \in Account : /\ MainTransferAdmin(caller, new, CallFrom(AdminAddr, frame))
                                /\ contract_admin' = new
      BY <2>4 DEF ContractTransferAdmin
    <3> QED
      BY <1>1, <3>1, MainCallType
  <2> QED
    BY <1>1, <2>1, <2>2, <2>3, <2>4, MainCallType
<1> QED
  BY <1>2 DEF TargetsInv, TargetsTypeOK, upgrade_vars, ValidVersionUpgrade

\* The upgrade calls, whoever makes them.
LEMMA UpgradeCallKeeps ==
  ASSUME TargetsInv, NEW caller, NEW frame, UNCHANGED contract_admin,
         \/ \E new \in Version : InitiateUpgrade(caller, frame, new)
         \/ CompleteUpgrade(caller, frame) \/ FailUpgrade(caller, frame)
         \/ \E role \in {"multisig", "timelock"} : UpgradeSetRole(caller, frame, role)
         \/ ResetUpgradeStatus(caller, frame)
         \/ \E paused \in BOOLEAN : SetEmergencyPause(caller, frame, paused)
  PROVE  TargetsInv'
<1> USE DEF TargetsInv, TargetsTypeOK
<1>1. ASSUME NEW new \in Version, InitiateUpgrade(caller, frame, new) PROVE TargetsInv'
  BY <1>1, UpgradeAssumption DEF InitiateUpgrade, UpgradeStatus
<1>2. CASE CompleteUpgrade(caller, frame)
  BY <1>2 DEF CompleteUpgrade, UpgradeStatus
<1>3. CASE FailUpgrade(caller, frame)
  BY <1>3 DEF FailUpgrade, UpgradeStatus
<1>4. ASSUME NEW role \in {"multisig", "timelock"}, UpgradeSetRole(caller, frame, role) PROVE TargetsInv'
  <2>1. upgrade_roles' \in Roles
    BY <1>4 DEF UpgradeSetRole, Roles
  <2> QED
    BY <1>4, <2>1 DEF UpgradeSetRole, ValidVersionUpgrade
<1>5. CASE ResetUpgradeStatus(caller, frame)
  BY <1>5 DEF ResetUpgradeStatus, UpgradeStatus
<1>6. ASSUME NEW paused \in BOOLEAN, SetEmergencyPause(caller, frame, paused) PROVE TargetsInv'
  <2>1. main' \in Roles
    BY <1>6, MainCallType DEF SetEmergencyPause
  <2> QED
    BY <1>6, <2>1 DEF SetEmergencyPause, ValidVersionUpgrade
<1> QED
  BY <1>1, <1>2, <1>3, <1>4, <1>5, <1>6

LEMMA PerformKeeps ==
  ASSUME TargetsInv, NEW action \in Action, PerformAction(action)
  PROVE  TargetsInv'
<1>1. action.kind = "InitiateUpgrade" => action.version \in Version
  BY GovernanceAssumption
<1>2. CASE \/ PerformPause(TRUE) \/ PerformPause(FALSE)
           \/ MainSetMultisig(TimelockAddr, TimelockFrame) /\ UNCHANGED upgrade_vars
  <2>1. main' \in Roles
    BY <1>2, MainCallType DEF PerformPause, TargetsInv, TargetsTypeOK
  <2> QED
    BY <1>2, <2>1 DEF PerformPause, PerformAction, TargetsInv, TargetsTypeOK, upgrade_vars, ValidVersionUpgrade
<1> QED
  BY <1>1, <1>2, UpgradeCallKeeps DEF PerformAction

LEMMA MultiSigCallKeeps ==
  ASSUME TargetsInv, MultiSigCall
  PROVE  TargetsInv'
<1>1. PICK signatures, frame :
        /\ signatures \in SUBSET Account
        /\ \/ /\ \/ \E paused \in BOOLEAN : MainSetPaused(MultiSigAddr, frame, paused)
                 \/ \E new \in signatures : MainTransferAdmin(MultiSigAddr, new, frame)
              /\ UNCHANGED <<contract_admin, upgrade_vars>>
           \/ ProposableCall(MultiSigAddr, frame) /\ UNCHANGED contract_admin
  BY DEF MultiSigCall
<1>2. CASE ProposableCall(MultiSigAddr, frame) /\ UNCHANGED contract_admin
  BY <1>2, UpgradeCallKeeps, UpgradeAssumption DEF ProposableCall
<1>3. CASE /\ \/ \E paused \in BOOLEAN : MainSetPaused(MultiSigAddr, frame, paused)
              \/ \E new \in signatures : MainTransferAdmin(MultiSigAddr, new, frame)
           /\ UNCHANGED <<contract_admin, upgrade_vars>>
  <2>1. main' \in Roles
    BY <1>1, <1>3, MainCallType DEF TargetsInv, TargetsTypeOK
  <2> QED
    BY <1>3, <2>1 DEF TargetsInv, TargetsTypeOK, upgrade_vars, ValidVersionUpgrade
<1> QED
  BY <1>1, <1>2, <1>3

\* The contracts the timelock governs keep their types, and a version that is
\* being upgraded to was validated against the one in force, whoever calls what.
THEOREM TargetsSafety == GovernanceSpec => []TargetsInv
<1>1. GovernanceInit => TargetsInv
  <2> SUFFICES ASSUME GovernanceInit PROVE TargetsInv
    OBVIOUS
  <2>1. NoRoles \in Roles
    BY DEF NoRoles, Roles
  <2>2. upgrade_roles \in Roles
    <3>1. PICK admin \in Account : upgrade_roles = [NoRoles EXCEPT !.admin = admin]
      BY DEF GovernanceInit, UpgradeInit
    <3> QED
      BY <2>1, <3>1 DEF Roles
  <2> QED
    BY <2>1, <2>2 DEF GovernanceInit, ControlInit, UpgradeInit, FirstVersion, Version, UpgradeStatus,
       TargetsInv, TargetsTypeOK
<1>2. TimelockTypeOK /\ TargetsInv /\ [GovernanceNext]_governance_vars => TargetsInv'
  <2> SUFFICES ASSUME TimelockTypeOK, TargetsInv, [GovernanceNext]_governance_vars PROVE TargetsInv'
    OBVIOUS
  <2>1. CASE UNCHANGED <<control_vars, upgrade_vars>>
    BY <2>1 DEF control_vars, upgrade_vars, TargetsInv, TargetsTypeOK, ValidVersionUpgrade
  <2>2. ASSUME NEW a \in Address, NEW id \in OperationIds, ExecuteAndPerform(a, id) PROVE TargetsInv'
    <3>1. operations[id].action \in Action
      BY DEF TimelockTypeOK, TimelockOperation
    <3> QED
      BY <2>2, <3>1, PerformKeeps DEF ExecuteAndPerform
  <2>3. CASE SignedCall
    <3>1. PICK signatures \in SUBSET Account :
            \/ ControlCall(signatures) /\ UNCHANGED upgrade_vars
            \/ UpgradeCall(signatures) /\ UNCHANGED contract_admin
      BY <2>3 DEF SignedCall
    <3>2. CASE ControlCall(signatures) /\ UNCHANGED upgrade_vars
      BY <3>2, ControlCallKeeps
    <3>3. CASE UpgradeCall(signatures) /\ UNCHANGED contract_admin
      BY <3>3, UpgradeCallKeeps, UpgradeAssumption DEF UpgradeCall, ProposableCall
    <3> QED
      BY <3>1, <3>2, <3>3
  <2> QED
    BY <2>1, <2>2, <2>3, MultiSigCallKeeps DEF GovernanceNext, governance_vars
<1> QED
  BY <1>1, <1>2, GovernedTimelock, TimelockTypeCorrect, PTL DEF GovernanceSpec

\* Only an execution makes an operation Executed.
LEMMA OnlyExecutionPerforms ==
  ASSUME TimelockTypeOK, [GovernanceNext]_governance_vars, NEW id \in OperationIds, Performed(id)
  PROVE  \E a \in Address : ExecuteAndPerform(a, id)
<1>1. operations[id] \in TimelockOperation
  BY DEF TimelockTypeOK
<1>2. operations'[id] # operations[id]
  BY DEF Performed
<1>3. ASSUME NEW a \in Address, NEW action \in Action, NEW delay \in DelayChoices,
             ProposeAction(a, action, delay)
      PROVE  FALSE
  BY <1>2, <1>3, Proposed
<1>4. ASSUME NEW a \in Address, NEW i \in OperationIds, ApproveAction(a, i) PROVE FALSE
  <2>1. PICK op1, op : op1 = WithOneMore(operations[i], a) /\ op = MaybeQueue(op1)
    OBVIOUS
  <2>2. /\ op \in TimelockOperation /\ operations' = [operations EXCEPT ![i] = op]
        /\ UNCHANGED <<tl_config, next_operation_id, tl_now, runs>>
    BY <1>4, <2>1, Approved
  <2>3. operations'[id] = IF id = i THEN op ELSE operations[id]
    BY <2>2, Replaced
  <2>4. op1 \in TimelockOperation /\ op1.status = operations[i].status
    BY <2>1, ApprovedType DEF TimelockTypeOK
  <2>5. op.status \in {operations[i].status, "Queued"}
    BY <2>1, <2>4, QueueType
  <2> QED
    BY <1>2, <2>3, <2>5 DEF Performed
<1>5. ASSUME NEW a \in Address, NEW i \in OperationIds, CancelAction(a, i) PROVE FALSE
  <2>1. PICK op : op = [operations[i] EXCEPT !.status = "Cancelled"]
    OBVIOUS
  <2>2. /\ op \in TimelockOperation /\ operations' = [operations EXCEPT ![i] = op]
        /\ UNCHANGED <<tl_config, next_operation_id, tl_now, runs>>
    BY <1>5, <2>1, Cancelled
  <2>3. operations'[id] = IF id = i THEN op ELSE operations[id]
    BY <2>2, Replaced
  <2>4. op.status = "Cancelled"
    BY <2>1 DEF TimelockTypeOK, TimelockOperation
  <2> QED
    BY <1>2, <2>3, <2>4 DEF Performed
<1>6. ASSUME NEW a \in Address, NEW i \in OperationIds, ExecuteAndPerform(a, i)
      PROVE  i = id
  <2>1. PICK op \in TimelockOperation : /\ operations' = [operations EXCEPT ![i] = op]
                                        /\ UNCHANGED <<tl_config, next_operation_id>>
    BY <1>6, Executed DEF ExecuteAndPerform
  <2> QED
    BY <1>2, <2>1, Replaced
<1>7. ~UNCHANGED tl_vars /\ ~TimelockTick /\ ~(\E c \in ConfigChoices : TimelockConfigure(c))
  BY <1>2 DEF tl_vars, TimelockTick, TimelockConfigure
<1> QED
  BY <1>3, <1>4, <1>5, <1>6, <1>7 DEF GovernanceNext, governance_vars

\* Performed: an operation that becomes Executed has had its effect in the same
\* step, whatever happened to its target since it was proposed (execute_action).
THEOREM ExecutedIsPerformed == GovernanceSpec => ExecutedMeansPerformed
<1> DEFINE Effect(kind, new) ==
      /\ kind = "PauseMain" => ~main.paused /\ main'.paused
      /\ kind = "UnpauseMain" => main.paused /\ ~main'.paused
      /\ kind = "InitiateUpgrade" => upgrade_info' = new
      /\ kind = "CompleteUpgrade" => version' # version
      /\ kind = "EmergencyPause" => ~emergency_paused /\ emergency_paused'
      /\ kind = "EmergencyUnpause" => emergency_paused /\ ~emergency_paused'
<1>1. ASSUME TargetsInv, NEW action, PerformAction(action)
      PROVE  Effect(action.kind, action.version)
  <2>1. /\ main \in Roles /\ main.paused \in BOOLEAN /\ emergency_paused \in BOOLEAN
        /\ version \in Version /\ upgrade_info \in Version \union {NoInfo}
    BY <1>1 DEF TargetsInv, TargetsTypeOK, Roles
  <2>2. ASSUME NEW paused \in BOOLEAN, PerformPause(paused)
        PROVE  main.paused = ~paused /\ main'.paused = paused
    BY <2>1, <2>2 DEF PerformPause, MainSetPaused, MaySetPaused, Roles
  <2>3. CompleteUpgrade(TimelockAddr, TimelockFrame) => version' # version
    <3>1. ~ValidVersionUpgrade(version, version)
      BY <2>1 DEF ValidVersionUpgrade, Version
    <3> QED
      BY <1>1, <3>1 DEF CompleteUpgrade, MayFinish, TargetsInv
  <2>4. ASSUME NEW paused \in BOOLEAN, SetEmergencyPause(TimelockAddr, TimelockFrame, paused)
        PROVE  emergency_paused = ~paused /\ emergency_paused' = paused
    BY <2>1, <2>4 DEF SetEmergencyPause
  <2>5. InitiateUpgrade(TimelockAddr, TimelockFrame, action.version) => upgrade_info' = action.version
    BY DEF InitiateUpgrade
  <2> QED
    BY <1>1, <2>2, <2>3, <2>4, <2>5 DEF PerformAction
<1>2. ASSUME TimelockTypeOK, TargetsInv, [GovernanceNext]_governance_vars,
             NEW id \in OperationIds, Performed(id)
      PROVE  Effect(operations[id].action.kind, operations[id].action.version)
  BY <1>1, <1>2, OnlyExecutionPerforms DEF ExecuteAndPerform
<1>3. ASSUME TimelockTypeOK, TargetsInv, [GovernanceNext]_governance_vars
      PROVE  [\A id \in OperationIds : Performed(id) =>
                Effect(operations[id].action.kind, operations[id].action.version)]_governance_vars
  BY <1>2, <1>3
<1> QED
  BY <1>3, TargetsSafety, GovernedTimelock, TimelockTypeCorrect, PTL
  DEF GovernanceSpec, ExecutedMeansPerformed

\* One transfer: whoever calls what, a transfer through the AdminContract gives
\* the main contract the same admin, or happens on neither (transfer_admin).
THEOREM AdminsAgree == GovernanceSpec => AdminsMoveTogether
<1>1. ASSUME TargetsInv, [GovernanceNext]_governance_vars,
             contract_admin' # contract_admin, contract_admin # NoOne
      PROVE  main'.admin = contract_admin'
  <2>1. PICK signatures \in SUBSET Account : ControlCall(signatures)
    BY <1>1 DEF GovernanceNext, governance_vars, control_vars, ExecuteAndPerform, PerformAction,
       SignedCall, MultiSigCall
  <2>2. PICK caller, new : ContractTransferAdmin(caller, new, signatures)
    BY <1>1, <2>1 DEF ControlCall, ContractInit, ContractSetPaused
  <2>3. contract_admin' = new /\ main' = [main EXCEPT !.admin = new]
    BY <2>2 DEF ContractTransferAdmin, MainTransferAdmin
  <2> QED
    BY <1>1, <2>3 DEF TargetsInv, TargetsTypeOK, Roles
<1>2. ASSUME TargetsInv, [GovernanceNext]_governance_vars
      PROVE  [contract_admin' # contract_admin /\ contract_admin # NoOne =>
                main'.admin = contract_admin']_<<control_vars, upgrade_vars>>
  BY <1>1, <1>2
<1> QED
  BY <1>2, TargetsSafety, PTL DEF GovernanceSpec, AdminsMoveTogether
==============================================================================
