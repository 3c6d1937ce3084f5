---------------------------- MODULE CircuitBreaker ----------------------------
(***************************************************************************)
(* The circuit breaker contract (circuit_breaker.rs): guardians pause at   *)
(* one of four levels, alone or by a proposal, the admin lifts, and a      *)
(* pause with an end is cleared by the first status query after it.  The   *)
(* reason and the description of a pause are left out.                     *)
(***************************************************************************)
EXTENDS Integers, Sequences, FiniteSets

CONSTANTS
  Address,           \* accounts
  NoAdmin,           \* DataKey::Admin is absent
  MaxGuardians,      \* MAX_GUARDIANS
  MaxPauseDuration,  \* MAX_PAUSE_DURATION_SECS
  Durations,         \* durations and windows callers pass; 0: no expiry
  Levels,            \* the levels callers choose from
  MaxRecords,        \* bound on the number of pauses
  MaxProposals,      \* bound on the number of proposals
  MaxTime            \* bound on the ledger clock

PauseLevel == {"Advisory", "Partial", "Full", "Emergency"}

ASSUME CircuitBreakerAssumption ==
  /\ IsFiniteSet(Address) /\ NoAdmin \notin Address
  /\ Durations \subseteq Nat /\ Levels \subseteq PauseLevel
  /\ MaxGuardians \in Nat /\ MaxPauseDuration \in Nat
  /\ MaxRecords \in Nat /\ MaxProposals \in Nat /\ MaxTime \in Nat

VARIABLES
  cb_admin,   \* DataKey::Admin
  guardians,  \* DataKey::CircuitBreakerGuardians
  state,      \* DataKey::CircuitBreakerState
  records,    \* DataKey::CircuitBreakerPauseRecord(id), for every id handed out
  proposals,  \* DataKey::CircuitBreakerPendingApproval(id)
  cb_now,     \* ledger timestamp
  applied     \* history: the proposals executed, with the time of execution

cb_vars == <<cb_admin, guardians, state, records, proposals, cb_now, applied>>

CircuitBreakerState ==
  [is_paused : BOOLEAN, level : PauseLevel, current_record_id : Nat, expires_at : Nat]

PauseRecord ==
  [activated_by : Address, level : PauseLevel, activated_at : Nat, expires_at : Nat,
   lifted_by : SUBSET Address, lifted_at : Nat]

PauseApproval ==
  [level : PauseLevel, expires_at : Nat, approvals : Seq(Address), required : Nat,
   executed : BOOLEAN]

RecordIds == 1 .. Len(records)
ProposalIds == 1 .. Len(proposals)

Voters(p) == {p.approvals[i] : i \in 1 .. Len(p.approvals)}

------------------------------------------------------------------------------

RequireAdmin(a) == cb_admin # NoAdmin /\ a = cb_admin

RequireGuardian(a) == a \in guardians

IsExpired(expires_at) == expires_at # 0 /\ cb_now >= expires_at

ValidateDuration(d) == d <= MaxPauseDuration

EndOf(d) == IF d = 0 THEN 0 ELSE cb_now + d

NotPaused == [is_paused |-> FALSE, level |-> "Advisory", current_record_id |-> 0, expires_at |-> 0]

\* The new record takes over; the record of a pause still on is left as it is.
ActivatePause(by, level, duration) ==
  /\ Len(records) < MaxRecords
  /\ records' = Append(records,
       [activated_by |-> by, level |-> level, activated_at |-> cb_now,
        expires_at |-> EndOf(duration), lifted_by |-> {}, lifted_at |-> 0])
  /\ state' = [is_paused |-> TRUE, level |-> level,
               current_record_id |-> Len(records) + 1, expires_at |-> EndOf(duration)]

\* What lift_pause and an expiry leave of the state.
Cleared == [state EXCEPT !.is_paused = FALSE, !.level = "Advisory", !.expires_at = 0]

Liftable == state.is_paused

------------------------------------------------------------------------------

Initialize(admin, initial) ==
  /\ cb_admin = NoAdmin
  /\ Cardinality(initial) <= MaxGuardians
  /\ cb_admin' = admin
  /\ guardians' = initial
  /\ state' = NotPaused
  /\ UNCHANGED <<records, proposals, cb_now, applied>>

AddGuardian(caller, g) ==
  /\ RequireAdmin(caller)
  /\ g \notin guardians
  /\ Cardinality(guardians) < MaxGuardians
  /\ guardians' = guardians \union {g}
  /\ UNCHANGED <<cb_admin, state, records, proposals, cb_now, applied>>

\* Votes the guardian has cast stay counted.
RemoveGuardian(caller, g) ==
  /\ RequireAdmin(caller)
  /\ g \in guardians
  /\ guardians' = guardians \ {g}
  /\ UNCHANGED <<cb_admin, state, records, proposals, cb_now, applied>>

InstantPause(caller, level, duration) ==
  /\ RequireGuardian(caller)
  /\ ValidateDuration(duration)
  /\ ActivatePause(caller, level, duration)
  /\ UNCHANGED <<cb_admin, guardians, proposals, cb_now, applied>>

\* The duration passed with the proposal is validated and not kept.
ProposePause(proposer, level, required, window) ==
  /\ Len(proposals) < MaxProposals
  /\ RequireGuardian(proposer)
  /\ required # 0 /\ required <= Cardinality(guardians)
  /\ proposals' = Append(proposals,
       [level |-> level, expires_at |-> EndOf(window), approvals |-> <<proposer>>,
        required |-> required, executed |-> FALSE])
  /\ UNCHANGED <<cb_admin, guardians, state, records, cb_now, applied>>

\* Mutant: nobody asks whether the guardian has voted before.
MayVoteAgain(a, p) == ~p.executed /\ ~IsExpired(p.expires_at)

MayVote(a, p) == ~p.executed /\ ~IsExpired(p.expires_at) /\ a \notin Voters(p)

ApprovePauseProposal(approver, id) ==
  /\ RequireGuardian(approver)
  /\ MayVote(approver, proposals[id])
  /\ proposals' = [proposals EXCEPT ![id].approvals = Append(@, approver)]
  /\ UNCHANGED <<cb_admin, guardians, state, records, cb_now, applied>>

Executable(p) ==
  /\ ~p.executed
  /\ ~IsExpired(p.expires_at)
  /\ Len(p.approvals) >= p.required

\* The executor chooses how long the pause lasts.
ExecutePauseProposal(executor, id, duration) ==
  /\ RequireGuardian(executor)
  /\ ValidateDuration(duration)
  /\ Executable(proposals[id])
  /\ proposals' = [proposals EXCEPT ![id].executed = TRUE]
  /\ applied' = Append(applied, [proposal |-> id, at |-> cb_now])
  /\ ActivatePause(executor, proposals[id].level, duration)
  /\ UNCHANGED <<cb_admin, guardians, cb_now>>

\* A pause past its end that no query has cleared is lifted like any other.
LiftPause(caller) ==
  /\ RequireAdmin(caller)
  /\ Liftable
  /\ records' = [records EXCEPT ![state.current_record_id].lifted_at = cb_now,
                                ![state.current_record_id].lifted_by = @ \union {caller}]
  /\ state' = Cleared
  /\ UNCHANGED <<cb_admin, guardians, proposals, cb_now, applied>>

\* Mutant: the pause lasts through the second of its end.
OverAfterItsEnd == state.is_paused /\ state.expires_at # 0 /\ cb_now > state.expires_at

Over == state.is_paused /\ IsExpired(state.expires_at)

\* get_state, and with it every check_* query, when the pause is past its end.
ExpireOnQuery ==
  /\ Over
  /\ records' = [records EXCEPT ![state.current_record_id].lifted_at = cb_now]
  /\ state' = Cleared
  /\ UNCHANGED <<cb_admin, guardians, proposals, cb_now, applied>>

Tick ==
  /\ cb_now < MaxTime
  /\ cb_now' = cb_now + 1
  /\ UNCHANGED <<cb_admin, guardians, state, records, proposals, applied>>

\* The state that a query would find, and what the queries answer from it.
QueriedState == IF Over THEN Cleared ELSE state

IsPaused == QueriedState.is_paused
ChecksWritesAllowed == ~IsPaused \/ QueriedState.level = "Advisory"
ChecksMutationsAllowed == ~IsPaused \/ QueriedState.level \in {"Advisory", "Partial"}
ChecksReadsAllowed == ~IsPaused \/ QueriedState.level # "Emergency"

------------------------------------------------------------------------------

Init ==
  /\ cb_admin = NoAdmin
  /\ guardians = {}
  /\ state = NotPaused
  /\ records = <<>>
  /\ proposals = <<>>
  /\ cb_now = 1
  /\ applied = <<>>

Next ==
  \/ \E a \in Address, initial \in SUBSET Address : Initialize(a, initial)
  \/ \E a, g \in Address : AddGuardian(a, g) \/ RemoveGuardian(a, g)
  \/ \E a \in Address, level \in Levels, d \in Durations : InstantPause(a, level, d)
  \/ \E a \in Address, level \in Levels, n \in 0 .. MaxGuardians + 1, w \in Durations :
       ProposePause(a, level, n, w)
  \/ \E a \in Address, id \in ProposalIds : ApprovePauseProposal(a, id)
  \/ \E a \in Address, id \in ProposalIds, d \in Durations : ExecutePauseProposal(a, id, d)
  \/ \E a \in Address : LiftPause(a)
  \/ ExpireOnQuery
  \/ Tick

Spec == Init /\ [][Next]_cb_vars

------------------------------------------------------------------------------

\* Every stored value has its type, and there are never more guardians than
\* the limit (add_guardian, initialize).
TypeOK ==
  /\ cb_admin \in Address \union {NoAdmin}
  /\ guardians \in SUBSET Address /\ Cardinality(guardians) <= MaxGuardians
  /\ state \in CircuitBreakerState
  /\ state.current_record_id = Len(records)
  /\ records \in Seq(PauseRecord)
  /\ proposals \in Seq(PauseApproval)
  /\ cb_now \in Nat \ {0}
  /\ applied \in Seq([proposal : Nat, at : Nat])

\* What the log says: the newest pause is in force until it is lifted or ends.
InForce(r) == r.lifted_at = 0 /\ (r.expires_at = 0 \/ cb_now < r.expires_at)

LoggedLevel ==
  IF records # <<>> /\ InForce(records[Len(records)])
  THEN records[Len(records)].level ELSE "Advisory"

\* The answers of the three check_* queries are those the log of pauses and
\* the clock call for, whether or not an end has been noticed yet: the lazily
\* cleared state never blocks too long nor opens too early (get_state).  A
\* pause is over in the very second it ends, and true means allowed: that is
\* what the code says.  Its comments differ: a pause is lifted when the time
\* "exceeds expires_at" (circuit_breaker.rs:32-34), and two of the queries
\* return true "when write operations should be blocked" and "when all
\* mutations are blocked" (:591, :601).
ChecksFollowLog ==
  /\ ChecksWritesAllowed <=> LoggedLevel = "Advisory"
  /\ ChecksMutationsAllowed <=> LoggedLevel \in {"Advisory", "Partial"}
  /\ ChecksReadsAllowed <=> LoggedLevel # "Emergency"

\* A pause that was closed without the admin had an end, and it had passed; one
\* that the admin closed was closed by nobody else (lift_pause, get_state).
ClosedForAReason ==
  \A i \in RecordIds : records[i].lifted_at # 0 =>
    /\ records[i].lifted_at >= records[i].activated_at
    /\ records[i].lifted_by \subseteq {cb_admin}
    /\ records[i].lifted_by = {} =>
         records[i].expires_at # 0 /\ records[i].lifted_at >= records[i].expires_at

\* A closed record is history: no later call changes it, and no call changes
\* when a pause began or was to end (activate_pause, lift_pause, get_state).
HistoryStands ==
  [][\A i \in RecordIds :
       /\ records[i].lifted_at # 0 => records'[i] = records[i]
       /\ records'[i].activated_at = records[i].activated_at
       /\ records'[i].expires_at = records[i].expires_at]_cb_vars

\* A proposal takes effect at most once, within its window, and with as many
\* different voters as it asked for (execute_pause_proposal).
AppliedOnceWithQuorum ==
  \A i \in 1 .. Len(applied) :
    LET p == proposals[applied[i].proposal] IN
    /\ p.executed
    /\ Cardinality(Voters(p)) >= p.required
    /\ p.expires_at = 0 \/ applied[i].at < p.expires_at
    /\ \A j \in 1 .. Len(applied) :
         applied[j].proposal = applied[i].proposal => j = i

==============================================================================
