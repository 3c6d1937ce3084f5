------------------------- MODULE CircuitBreakerProofs -------------------------
(***************************************************************************)
(* Proofs about the circuit breaker, for every set of accounts, every      *)
(* duration and any number of pauses and proposals.                        *)
(***************************************************************************)
EXTENDS CircuitBreaker, FiniteSetTheorems, SequenceTheorems, TLAPS

Newest == records[Len(records)]

\* The stored state is a copy of what the newest record says, and nothing is
\* recorded before there is an admin.
StateCopiesNewest ==
  /\ state.is_paused =>
       /\ Len(records) > 0 /\ Newest.lifted_at = 0
       /\ Newest.level = state.level /\ Newest.expires_at = state.expires_at
  /\ ~state.is_paused =>
       /\ state.level = "Advisory" /\ state.expires_at = 0
       /\ Len(records) > 0 => Newest.lifted_at # 0
  /\ cb_admin = NoAdmin => guardians = {} /\ Len(records) = 0

\* One record: nothing begins in the future, an open record has no closer, and
\* a closed one has its reason.
GoodRecord(r, admin, t) ==
  /\ r.activated_at <= t
  /\ r.lifted_at = 0 => r.lifted_by = {}
  /\ r.lifted_at # 0 =>
       /\ r.lifted_at >= r.activated_at
       /\ r.lifted_by \subseteq {admin}
       /\ r.lifted_by = {} => r.expires_at # 0 /\ r.lifted_at >= r.expires_at

RecordsGood == \A i \in RecordIds : GoodRecord(records[i], cb_admin, cb_now)

\* One proposal: the votes are as many as the voters.
VotesDistinct(p) == Cardinality(Voters(p)) = Len(p.approvals)

ProposalsGood == \A id \in ProposalIds : VotesDistinct(proposals[id])

\* One application of a proposal p at a time t.
GoodApplication(p, t) ==
  /\ p.executed
  /\ Cardinality(Voters(p)) >= p.required
  /\ p.expires_at = 0 \/ t < p.expires_at

AppliedGood ==
  \A i \in 1 .. Len(applied) :
    /\ applied[i].proposal \in ProposalIds
    /\ GoodApplication(proposals[applied[i].proposal], applied[i].at)
    /\ \A j \in 1 .. Len(applied) :
         applied[j].proposal = applied[i].proposal => j = i

IInv == TypeOK /\ StateCopiesNewest /\ RecordsGood /\ ProposalsGood /\ AppliedGood

------------------------------------------------------------------------------

\* The end of a pause or of a proposal's window is a time, or none.
LEMMA EndOfType ==
  ASSUME TypeOK, NEW d \in Durations
  PROVE  EndOf(d) \in Nat /\ (EndOf(d) = 0 <=> d = 0)
BY CircuitBreakerAssumption DEF TypeOK, EndOf

\* What activate_pause does: one more record, open, copied into the state; the
\* earlier records stay as they are.
LEMMA PauseEffect ==
  ASSUME TypeOK, NEW by \in Address, NEW level \in PauseLevel, NEW d \in Durations,
         ActivatePause(by, level, d)
  PROVE  /\ records' \in Seq(PauseRecord) /\ Len(records') = Len(records) + 1
         /\ \A i \in RecordIds : records'[i] = records[i]
         /\ records'[Len(records')].activated_at = cb_now
         /\ records'[Len(records')].lifted_at = 0
         /\ records'[Len(records')].lifted_by = {}
         /\ records'[Len(records')].level = state'.level
         /\ records'[Len(records')].expires_at = state'.expires_at
         /\ state' \in CircuitBreakerState
         /\ state'.is_paused /\ state'.current_record_id = Len(records')
<1> DEFINE r == [activated_by |-> by, level |-> level, activated_at |-> cb_now,
                 expires_at |-> EndOf(d), lifted_by |-> {}, lifted_at |-> 0]
<1>1. records \in Seq(PauseRecord) /\ cb_now \in Nat /\ Len(records) \in Nat
  BY LenProperties DEF TypeOK
<1>2. r \in PauseRecord
  BY <1>1, EndOfType DEF PauseRecord
<1>3. records' = Append(records, r)
  BY DEF ActivatePause
<1>4. /\ records' \in Seq(PauseRecord) /\ Len(records') = Len(records) + 1
      /\ \A i \in RecordIds : records'[i] = records[i]
      /\ records'[Len(records')] = r
  <2> HIDE DEF r
  <2> QED
    BY <1>1, <1>2, <1>3, AppendProperties DEF RecordIds
<1>5. state' = [is_paused |-> TRUE, level |-> level,
                current_record_id |-> Len(records) + 1, expires_at |-> EndOf(d)]
  BY DEF ActivatePause
<1>6. state' \in CircuitBreakerState
  BY <1>1, <1>5, EndOfType DEF CircuitBreakerState
<1> QED
  BY <1>4, <1>5, <1>6

\* What closing the newest record does, be it lifted by the admin or ended.
Closes(by) ==
  /\ records' \in Seq(PauseRecord) /\ Len(records') = Len(records)
  /\ Len(records) > 0 /\ state.is_paused
  /\ \A i \in RecordIds : i # Len(records) => records'[i] = records[i]
  /\ records'[Len(records)].activated_at = Newest.activated_at
  /\ records'[Len(records)].expires_at = Newest.expires_at
  /\ records'[Len(records)].level = Newest.level
  /\ records'[Len(records)].lifted_at = cb_now
  /\ records'[Len(records)].lifted_by = Newest.lifted_by \union by
  /\ state' \in CircuitBreakerState /\ ~state'.is_paused
  /\ state'.level = "Advisory" /\ state'.expires_at = 0
  /\ state'.current_record_id = Len(records')

\* A field-by-field reading of the record that closing leaves.
LEMMA ClosedRecordType ==
  ASSUME NEW r \in PauseRecord, NEW t \in Nat, NEW a \in Address
  PROVE  /\ [r EXCEPT !.lifted_at = t] \in PauseRecord
         /\ [r EXCEPT !.lifted_at = t, !.lifted_by = @ \union {a}] \in PauseRecord
BY DEF PauseRecord

LEMMA ClearedState ==
  ASSUME TypeOK
  PROVE  /\ Cleared \in CircuitBreakerState /\ ~Cleared.is_paused
         /\ Cleared.level = "Advisory" /\ Cleared.expires_at = 0
         /\ Cleared.current_record_id = Len(records)
BY DEF TypeOK, CircuitBreakerState, Cleared, PauseLevel

LEMMA LiftCloses ==
  ASSUME TypeOK, StateCopiesNewest, NEW a \in Address, LiftPause(a)
  PROVE  Closes({a}) /\ a = cb_admin /\ cb_admin # NoAdmin
<1>1. /\ records \in Seq(PauseRecord) /\ cb_now \in Nat
      /\ state.is_paused /\ Len(records) \in Nat /\ Len(records) > 0
      /\ state.current_record_id = Len(records)
  BY LenProperties DEF TypeOK, StateCopiesNewest, LiftPause, Liftable
<1> DEFINE n == Len(records)
           r == [Newest EXCEPT !.lifted_at = cb_now, !.lifted_by = @ \union {a}]
<1>2. n \in 1 .. Len(records) /\ Newest \in PauseRecord
  BY <1>1, ElementOfSeq DEF Newest
<1>3. r \in PauseRecord
  BY <1>1, <1>2, ClosedRecordType
<1>4. records' = [records EXCEPT ![n] = r]
  BY <1>1, <1>2, LenProperties DEF LiftPause, Newest
<1>5. /\ r.activated_at = Newest.activated_at /\ r.expires_at = Newest.expires_at
      /\ r.level = Newest.level /\ r.lifted_at = cb_now
      /\ r.lifted_by = Newest.lifted_by \union {a}
  BY <1>2 DEF PauseRecord
<1>6. /\ records' \in Seq(PauseRecord) /\ Len(records') = Len(records)
      /\ \A i \in RecordIds : i # n => records'[i] = records[i]
      /\ records'[n] = r
  <2> HIDE DEF r
  <2> QED
    BY <1>1, <1>2, <1>3, <1>4, ExceptSeq DEF RecordIds
<1>7. state' = Cleared /\ a = cb_admin /\ cb_admin # NoAdmin
  BY DEF LiftPause, RequireAdmin
<1> HIDE DEF r
<1> QED
  BY <1>1, <1>5, <1>6, <1>7, ClearedState DEF Closes

LEMMA ExpiryCloses ==
  ASSUME TypeOK, StateCopiesNewest, ExpireOnQuery
  PROVE  Closes({}) /\ state.expires_at # 0 /\ cb_now >= state.expires_at
<1>1. /\ records \in Seq(PauseRecord) /\ cb_now \in Nat
      /\ state.is_paused /\ Len(records) \in Nat /\ Len(records) > 0
      /\ state.current_record_id = Len(records)
  BY LenProperties DEF TypeOK, StateCopiesNewest, ExpireOnQuery, Over
<1> DEFINE n == Len(records)
           r == [Newest EXCEPT !.lifted_at = cb_now]
<1>2. n \in 1 .. Len(records) /\ Newest \in PauseRecord
  BY <1>1, ElementOfSeq DEF Newest
<1>3. r \in PauseRecord
  BY <1>1, <1>2 DEF PauseRecord
<1>4. records' = [records EXCEPT ![n] = r]
  BY <1>1, <1>2, LenProperties DEF ExpireOnQuery, Newest
<1>5. /\ r.activated_at = Newest.activated_at /\ r.expires_at = Newest.expires_at
      /\ r.level = Newest.level /\ r.lifted_at = cb_now
      /\ r.lifted_by = Newest.lifted_by \union {}
  BY <1>2 DEF PauseRecord
<1>6. /\ records' \in Seq(PauseRecord) /\ Len(records') = Len(records)
      /\ \A i \in RecordIds : i # n => records'[i] = records[i]
      /\ records'[n] = r
  <2> HIDE DEF r
  <2> QED
    BY <1>1, <1>2, <1>3, <1>4, ExceptSeq DEF RecordIds
<1>7. state' = Cleared /\ state.expires_at # 0 /\ cb_now >= state.expires_at
  BY DEF ExpireOnQuery, Over, IsExpired
<1> HIDE DEF r
<1> QED
  BY <1>1, <1>5, <1>6, <1>7, ClearedState DEF Closes

------------------------------------------------------------------------------

\* The voters of a proposal are accounts, finitely many of them.
LEMMA VotersFinite ==
  ASSUME NEW p \in PauseApproval
  PROVE  Voters(p) \subseteq Address /\ IsFiniteSet(Voters(p))
<1>1. p.approvals \in Seq(Address)
  BY DEF PauseApproval
<1>2. Voters(p) \subseteq Address
  BY <1>1, ElementOfSeq DEF Voters
<1> QED
  BY <1>2, FS_Subset, CircuitBreakerAssumption

\* A guardian who has not voted adds one vote and one voter.
LEMMA VoteCounts ==
  ASSUME NEW p \in PauseApproval, NEW a \in Address, a \notin Voters(p),
         VotesDistinct(p), NEW q \in PauseApproval,
         q.approvals = Append(p.approvals, a)
  PROVE  VotesDistinct(q)
<1>1. p.approvals \in Seq(Address) /\ Len(p.approvals) \in Nat
  BY LenProperties DEF PauseApproval
<1>2. /\ Len(q.approvals) = Len(p.approvals) + 1
      /\ \A i \in 1 .. Len(p.approvals) : q.approvals[i] = p.approvals[i]
      /\ q.approvals[Len(p.approvals) + 1] = a
  BY <1>1, AppendProperties
<1>3. Voters(q) = Voters(p) \union {a}
  BY <1>1, <1>2 DEF Voters
<1>4. Cardinality(Voters(q)) = Cardinality(Voters(p)) + 1
  BY <1>3, VotersFinite, FS_AddElement
<1> QED
  BY <1>2, <1>4 DEF VotesDistinct

\* A proposal starts with its proposer's vote.
LEMMA FirstVote ==
  ASSUME NEW p, NEW a, p.approvals = <<a>>
  PROVE  VotesDistinct(p)
<1>1. Voters(p) = {a}
  BY DEF Voters
<1> QED
  BY <1>1, FS_Singleton DEF VotesDistinct

\* Marking a proposal executed keeps its terms and its votes.
LEMMA Marked ==
  ASSUME NEW p \in PauseApproval
  PROVE  /\ [p EXCEPT !.executed = TRUE] \in PauseApproval
         /\ [p EXCEPT !.executed = TRUE].executed
         /\ [p EXCEPT !.executed = TRUE].approvals = p.approvals
         /\ [p EXCEPT !.executed = TRUE].required = p.required
         /\ [p EXCEPT !.executed = TRUE].expires_at = p.expires_at
BY DEF PauseApproval

\* So does a vote, which comes on top of the votes there are.
LEMMA Voted ==
  ASSUME NEW p \in PauseApproval, NEW a \in Address
  PROVE  LET q == [p EXCEPT !.approvals = Append(@, a)] IN
         /\ q \in PauseApproval
         /\ q.approvals = Append(p.approvals, a)
         /\ q.executed = p.executed
<1>1. Append(p.approvals, a) \in Seq(Address)
  BY AppendProperties DEF PauseApproval
<1> QED
  BY <1>1 DEF PauseApproval

------------------------------------------------------------------------------

\* Every step keeps the types.
LEMMA TypeStep ==
  ASSUME TypeOK, StateCopiesNewest, [Next]_cb_vars
  PROVE  TypeOK'
<1> USE DEF TypeOK
<1>1. ASSUME NEW a \in Address, NEW initial \in SUBSET Address, Initialize(a, initial)
      PROVE  TypeOK'
  <2>1. Len(records) = 0
    BY <1>1 DEF Initialize, StateCopiesNewest
  <2>2. NotPaused \in CircuitBreakerState /\ NotPaused.current_record_id = 0
    BY DEF NotPaused, CircuitBreakerState, PauseLevel
  <2> QED
    BY <1>1, <2>1, <2>2 DEF Initialize
<1>2. ASSUME NEW a \in Address, NEW g \in Address, AddGuardian(a, g)
      PROVE  TypeOK'
  <2>1. IsFiniteSet(guardians) /\ Cardinality(guardians) \in Nat
    BY FS_Subset, FS_CardinalityType, CircuitBreakerAssumption
  <2>2. Cardinality(guardians') = Cardinality(guardians) + 1
    BY <1>2, <2>1, FS_AddElement DEF AddGuardian
  <2> QED
    BY <1>2, <2>1, <2>2, CircuitBreakerAssumption DEF AddGuardian
<1>3. ASSUME NEW a \in Address, NEW g \in Address, RemoveGuardian(a, g)
      PROVE  TypeOK'
  <2>1. IsFiniteSet(guardians) /\ Cardinality(guardians) \in Nat
    BY FS_Subset, FS_CardinalityType, CircuitBreakerAssumption
  <2>2. Cardinality(guardians') = Cardinality(guardians) - 1
    BY <1>3, <2>1, FS_RemoveElement DEF RemoveGuardian
  <2> QED
    BY <1>3, <2>1, <2>2, CircuitBreakerAssumption DEF RemoveGuardian
<1>4. ASSUME NEW a \in Address, NEW level \in Levels, NEW d \in Durations,
             InstantPause(a, level, d)
      PROVE  TypeOK'
  <2>1. level \in PauseLevel
    BY CircuitBreakerAssumption
  <2> QED
    BY <1>4, <2>1, PauseEffect DEF InstantPause
<1>5. ASSUME NEW a \in Address, NEW level \in Levels, NEW n \in 0 .. MaxGuardians + 1,
             NEW w \in Durations, ProposePause(a, level, n, w)
      PROVE  TypeOK'
  <2> DEFINE p == [level |-> level, expires_at |-> EndOf(w), approvals |-> <<a>>,
                   required |-> n, executed |-> FALSE]
  <2>1. EndOf(w) \in Nat /\ level \in PauseLevel /\ n \in Nat
    BY EndOfType, CircuitBreakerAssumption
  <2>2. p \in PauseApproval
    BY <2>1 DEF PauseApproval
  <2>3. proposals' \in Seq(PauseApproval)
    BY <1>5, <2>2, AppendProperties DEF ProposePause
  <2> QED
    BY <1>5, <2>3 DEF ProposePause
<1>6. ASSUME NEW a \in Address, NEW id \in ProposalIds, ApprovePauseProposal(a, id)
      PROVE  TypeOK'
  <2>1. proposals[id] \in PauseApproval
    BY ElementOfSeq DEF ProposalIds
  <2> DEFINE q == [proposals[id] EXCEPT !.approvals = Append(@, a)]
  <2>2. q \in PauseApproval
    BY <2>1, Voted
  <2>3. proposals' = [proposals EXCEPT ![id] = q]
    BY <1>6 DEF ApprovePauseProposal
  <2>4. proposals' \in Seq(PauseApproval)
    <3> HIDE DEF q
    <3> QED
      BY <2>2, <2>3, ExceptSeq DEF ProposalIds
  <2> QED
    BY <1>6, <2>4 DEF ApprovePauseProposal
<1>7. ASSUME NEW a \in Address, NEW id \in ProposalIds, NEW d \in Durations,
             ExecutePauseProposal(a, id, d)
      PROVE  TypeOK'
  <2>1. proposals[id] \in PauseApproval
    BY ElementOfSeq DEF ProposalIds
  <2> DEFINE q == [proposals[id] EXCEPT !.executed = TRUE]
  <2>2. q \in PauseApproval /\ proposals[id].level \in PauseLevel
    BY <2>1, Marked DEF PauseApproval
  <2>3. proposals' = [proposals EXCEPT ![id] = q]
    BY <1>7 DEF ExecutePauseProposal
  <2>4. proposals' \in Seq(PauseApproval)
    <3> HIDE DEF q
    <3> QED
      BY <2>2, <2>3, ExceptSeq DEF ProposalIds
  <2>5. [proposal |-> id, at |-> cb_now] \in [proposal : Nat, at : Nat]
    BY LenProperties DEF ProposalIds
  <2>6. applied' \in Seq([proposal : Nat, at : Nat])
    BY <1>7, <2>5, AppendProperties DEF ExecutePauseProposal
  <2> QED
    BY <1>7, <2>2, <2>4, <2>6, PauseEffect DEF ExecutePauseProposal
<1>8. ASSUME NEW a \in Address, LiftPause(a)
      PROVE  TypeOK'
  BY <1>8, LiftCloses DEF LiftPause, Closes
<1>9. CASE ExpireOnQuery
  BY <1>9, ExpiryCloses DEF ExpireOnQuery, Closes
<1>10. CASE Tick
  BY <1>10 DEF Tick
<1>11. CASE UNCHANGED cb_vars
  BY <1>11 DEF cb_vars
<1> QED
  BY <1>1, <1>2, <1>3, <1>4, <1>5, <1>6, <1>7, <1>8, <1>9, <1>10, <1>11 DEF Next

------------------------------------------------------------------------------

\* A new pause is copied into the state and leaves the earlier records alone.
LEMMA PauseKeeps ==
  ASSUME TypeOK, StateCopiesNewest, RecordsGood,
         NEW by \in guardians, NEW level \in PauseLevel, NEW d \in Durations,
         ActivatePause(by, level, d), UNCHANGED <<cb_admin, guardians, cb_now>>
  PROVE  StateCopiesNewest' /\ RecordsGood'
<1>1. by \in Address /\ Len(records) \in Nat /\ cb_now \in Nat \ {0} /\ cb_admin # NoAdmin
  BY LenProperties DEF TypeOK, StateCopiesNewest
<1>2. StateCopiesNewest'
  BY <1>1, PauseEffect DEF StateCopiesNewest, Newest
<1>3. ASSUME NEW i \in RecordIds'
      PROVE  GoodRecord(records'[i], cb_admin', cb_now')
  <2>1. CASE i \in RecordIds
    BY <1>1, <2>1, PauseEffect DEF RecordsGood
  <2>2. CASE i = Len(records')
    BY <1>1, <2>2, PauseEffect DEF GoodRecord
  <2> QED
    BY <1>1, <2>1, <2>2, PauseEffect DEF RecordIds
<1> QED
  BY <1>2, <1>3 DEF RecordsGood

\* Closing the newest record, by the admin or because it has ended, leaves a
\* closed record with its reason and an open state that agrees.
LEMMA CloseKeeps ==
  ASSUME TypeOK, StateCopiesNewest, RecordsGood, NEW by, Closes(by),
         by \subseteq {cb_admin},
         by = {} => state.expires_at # 0 /\ cb_now >= state.expires_at,
         UNCHANGED <<cb_admin, guardians, cb_now>>
  PROVE  StateCopiesNewest' /\ RecordsGood'
<1>1. /\ Len(records) \in Nat /\ Len(records) > 0 /\ cb_now \in Nat \ {0}
      /\ Len(records') = Len(records)
  BY LenProperties DEF TypeOK, Closes
<1>2. StateCopiesNewest'
  BY <1>1 DEF StateCopiesNewest, Newest, Closes
<1>3. ASSUME NEW i \in RecordIds'
      PROVE  GoodRecord(records'[i], cb_admin', cb_now')
  <2>1. i \in RecordIds
    BY <1>1 DEF RecordIds
  <2>2. CASE i # Len(records)
    BY <2>1, <2>2 DEF Closes, RecordsGood
  <2>3. CASE i = Len(records)
    <3>1. /\ GoodRecord(Newest, cb_admin, cb_now) /\ Newest.lifted_at = 0
          /\ Newest.expires_at = state.expires_at
      BY <2>1, <2>3 DEF RecordsGood, StateCopiesNewest, Newest, Closes
    <3>2. Newest.lifted_by = {} /\ records'[i].lifted_by = by
      BY <2>3, <3>1 DEF GoodRecord, Closes
    <3> QED
      BY <1>1, <2>3, <3>1, <3>2 DEF GoodRecord, Closes
  <2> QED
    BY <2>2, <2>3
<1> QED
  BY <1>2, <1>3 DEF RecordsGood

\* The state and the log agree after every step.
LEMMA LogStep ==
  ASSUME TypeOK, StateCopiesNewest, RecordsGood, [Next]_cb_vars
  PROVE  StateCopiesNewest' /\ RecordsGood'
<1>1. CASE /\ cb_admin' \in {cb_admin} /\ UNCHANGED <<state, records, cb_now>>
           /\ cb_admin = NoAdmin => guardians' = {}
  BY <1>1 DEF StateCopiesNewest, Newest, RecordsGood, RecordIds
<1>2. ASSUME NEW a \in Address, NEW initial \in SUBSET Address, Initialize(a, initial)
      PROVE  StateCopiesNewest' /\ RecordsGood'
  <2>1. Len(records) = 0 /\ cb_admin' # NoAdmin
    BY <1>2, CircuitBreakerAssumption DEF Initialize, StateCopiesNewest
  <2>2. /\ ~NotPaused.is_paused /\ NotPaused.level = "Advisory"
        /\ NotPaused.expires_at = 0
    BY DEF NotPaused
  <2> QED
    BY <1>2, <2>1, <2>2 DEF Initialize, StateCopiesNewest, RecordsGood, RecordIds
<1>3. ASSUME NEW a \in Address, NEW level \in Levels, NEW d \in Durations,
             InstantPause(a, level, d)
      PROVE  StateCopiesNewest' /\ RecordsGood'
  BY <1>3, PauseKeeps, CircuitBreakerAssumption DEF InstantPause, RequireGuardian
<1>4. ASSUME NEW a \in Address, NEW id \in ProposalIds, NEW d \in Durations,
             ExecutePauseProposal(a, id, d)
      PROVE  StateCopiesNewest' /\ RecordsGood'
  <2>1. proposals[id] \in PauseApproval
    BY ElementOfSeq DEF ProposalIds, TypeOK
  <2>2. proposals[id].level \in PauseLevel
    BY <2>1 DEF PauseApproval
  <2> QED
    BY <1>4, <2>2, PauseKeeps DEF ExecutePauseProposal, RequireGuardian
<1>5. ASSUME NEW a \in Address, LiftPause(a)
      PROVE  StateCopiesNewest' /\ RecordsGood'
  BY <1>5, LiftCloses, CloseKeeps DEF LiftPause
<1>6. CASE ExpireOnQuery
  BY <1>6, ExpiryCloses, CloseKeeps DEF ExpireOnQuery
<1>7. CASE Tick
  <2>1. StateCopiesNewest'
    BY <1>7 DEF Tick, StateCopiesNewest, Newest
  <2>2. ASSUME NEW i \in RecordIds
        PROVE  GoodRecord(records[i], cb_admin, cb_now + 1)
    <3>1. records[i] \in PauseRecord
      BY ElementOfSeq DEF TypeOK, RecordIds
    <3>2. GoodRecord(records[i], cb_admin, cb_now) /\ cb_now \in Nat
      BY DEF RecordsGood, TypeOK
    <3>3. records[i].lifted_at \in Nat /\ records[i].activated_at \in Nat
      BY <3>1 DEF PauseRecord
    <3> QED
      BY <3>2, <3>3 DEF GoodRecord
  <2> QED
    BY <1>7, <2>1, <2>2 DEF Tick, RecordsGood, RecordIds
<1>8. ASSUME NEW a \in Address, NEW g \in Address,
             AddGuardian(a, g) \/ RemoveGuardian(a, g)
      PROVE  StateCopiesNewest' /\ RecordsGood'
  BY <1>1, <1>8 DEF AddGuardian, RemoveGuardian, RequireAdmin
<1>9. ASSUME NEW a \in Address, NEW level \in Levels, NEW n \in 0 .. MaxGuardians + 1,
             NEW w \in Durations, ProposePause(a, level, n, w)
      PROVE  StateCopiesNewest' /\ RecordsGood'
  BY <1>1, <1>9 DEF ProposePause, StateCopiesNewest
<1>10. ASSUME NEW a \in Address, NEW id \in ProposalIds, ApprovePauseProposal(a, id)
       PROVE  StateCopiesNewest' /\ RecordsGood'
  BY <1>1, <1>10 DEF ApprovePauseProposal, StateCopiesNewest
<1>11. CASE UNCHANGED cb_vars
  BY <1>1, <1>11 DEF cb_vars, StateCopiesNewest
<1> QED
  BY <1>2, <1>3, <1>4, <1>5, <1>6, <1>7, <1>8, <1>9, <1>10, <1>11 DEF Next

------------------------------------------------------------------------------

\* Replacing a proposal that has not been executed disturbs no application.
LEMMA OthersKept ==
  ASSUME TypeOK, AppliedGood, UNCHANGED applied,
         Len(proposals') \in Nat, Len(proposals') >= Len(proposals),
         \A k \in ProposalIds : proposals[k].executed => proposals'[k] = proposals[k]
  PROVE  AppliedGood'
<1>1. Len(proposals) \in Nat
  BY LenProperties DEF TypeOK
<1>2. ASSUME NEW i \in 1 .. Len(applied')
      PROVE  /\ applied'[i].proposal \in ProposalIds'
             /\ GoodApplication(proposals'[applied'[i].proposal], applied'[i].at)
             /\ \A j \in 1 .. Len(applied') :
                  applied'[j].proposal = applied'[i].proposal => j = i
  <2>1. /\ applied[i].proposal \in ProposalIds
        /\ proposals[applied[i].proposal].executed
        /\ GoodApplication(proposals[applied[i].proposal], applied[i].at)
    BY DEF AppliedGood, GoodApplication
  <2>2. \A j \in 1 .. Len(applied) :
          applied[j].proposal = applied[i].proposal => j = i
    BY DEF AppliedGood
  <2> QED
    BY <1>1, <2>1, <2>2 DEF ProposalIds
<1> QED
  BY <1>2 DEF AppliedGood, GoodApplication, Voters, ProposalIds

\* A step that leaves the proposals and their applications alone keeps what is
\* said of them.
LEMMA ProposalsAlone ==
  ASSUME TypeOK, ProposalsGood, AppliedGood, UNCHANGED <<proposals, applied>>
  PROVE  ProposalsGood' /\ AppliedGood'
<1>1. Len(proposals) \in Nat
  BY LenProperties DEF TypeOK
<1>2. \A k \in ProposalIds' : VotesDistinct(proposals'[k])
  BY DEF ProposalsGood, ProposalIds
<1>3. ProposalsGood'
  BY <1>2 DEF ProposalsGood, VotesDistinct, Voters
<1> QED
  BY <1>1, <1>3, OthersKept

\* Proposals keep one vote a voter, and every application its quorum.
LEMMA ProposalStep ==
  ASSUME TypeOK, ProposalsGood, AppliedGood, [Next]_cb_vars
  PROVE  ProposalsGood' /\ AppliedGood'
<1>t. /\ proposals \in Seq(PauseApproval) /\ Len(proposals) \in Nat
      /\ Len(applied) \in Nat /\ applied \in Seq([proposal : Nat, at : Nat])
  BY LenProperties DEF TypeOK
<1>1. ASSUME NEW a \in Address, NEW level \in Levels, NEW n \in 0 .. MaxGuardians + 1,
             NEW w \in Durations, ProposePause(a, level, n, w)
      PROVE  ProposalsGood' /\ AppliedGood'
  <2> DEFINE p == [level |-> level, expires_at |-> EndOf(w), approvals |-> <<a>>,
                   required |-> n, executed |-> FALSE]
  <2>1. EndOf(w) \in Nat /\ level \in PauseLevel /\ n \in Nat
    BY EndOfType, CircuitBreakerAssumption DEF TypeOK
  <2>2. p \in PauseApproval /\ p.approvals = <<a>>
    BY <2>1 DEF PauseApproval
  <2>3. proposals' = Append(proposals, p) /\ UNCHANGED applied
    BY <1>1 DEF ProposePause
  <2>4. VotesDistinct(p)
    <3> HIDE DEF p
    <3> QED
      BY <2>2, FirstVote
  <2> HIDE DEF p
  <2>5. /\ Len(proposals') = Len(proposals) + 1
        /\ \A k \in ProposalIds : proposals'[k] = proposals[k]
        /\ proposals'[Len(proposals) + 1] = p
    BY <1>t, <2>2, <2>3, AppendProperties DEF ProposalIds
  <2>6. \A k \in ProposalIds' : VotesDistinct(proposals'[k])
    <3>1. \A k \in ProposalIds' : k \in ProposalIds \/ k = Len(proposals) + 1
      BY <1>t, <2>5 DEF ProposalIds
    <3>2. \A k \in ProposalIds : VotesDistinct(proposals[k])
      BY DEF ProposalsGood
    <3>. QED BY <2>4, <2>5, <3>1, <3>2
  <2>7. ProposalsGood'
    BY <2>6 DEF ProposalsGood, VotesDistinct, Voters
  <2>8. Len(proposals') \in Nat /\ Len(proposals') >= Len(proposals)
    BY <1>t, <2>5
  <2> QED
    BY <2>3, <2>5, <2>7, <2>8, OthersKept
<1>2. ASSUME NEW a \in Address, NEW id \in ProposalIds, ApprovePauseProposal(a, id)
      PROVE  ProposalsGood' /\ AppliedGood'
  <2> DEFINE q == [proposals[id] EXCEPT !.approvals = Append(@, a)]
  <2>1. proposals[id] \in PauseApproval
    BY <1>t, ElementOfSeq DEF ProposalIds
  <2>2. q \in PauseApproval /\ q.approvals = Append(proposals[id].approvals, a)
    BY <2>1, Voted
  <2>3. proposals' = [proposals EXCEPT ![id] = q] /\ UNCHANGED applied
    BY <1>2 DEF ApprovePauseProposal
  <2>4. a \notin Voters(proposals[id]) /\ ~proposals[id].executed
    BY <1>2 DEF ApprovePauseProposal, MayVote
  <2> HIDE DEF q
  <2>5. VotesDistinct(q)
    BY <2>1, <2>2, <2>4, VoteCounts DEF ProposalsGood
  <2>6. /\ Len(proposals') = Len(proposals)
        /\ \A k \in ProposalIds : proposals'[k] = IF k = id THEN q ELSE proposals[k]
    BY <1>t, <2>2, <2>3, ExceptSeq DEF ProposalIds
  <2>7. \A k \in ProposalIds' : VotesDistinct(proposals'[k])
    BY <2>5, <2>6 DEF ProposalsGood, ProposalIds
  <2>8. ProposalsGood'
    BY <2>7 DEF ProposalsGood, VotesDistinct, Voters
  <2> QED
    BY <1>t, <2>3, <2>4, <2>6, <2>8, OthersKept
<1>3. ASSUME NEW a \in Address, NEW id \in ProposalIds, NEW d \in Durations,
             ExecutePauseProposal(a, id, d)
      PROVE  ProposalsGood' /\ AppliedGood'
  <2> DEFINE q == [proposals[id] EXCEPT !.executed = TRUE]
             x == [proposal |-> id, at |-> cb_now]
  <2>1. proposals[id] \in PauseApproval /\ cb_now \in Nat
    BY <1>t, ElementOfSeq DEF ProposalIds, TypeOK
  <2>2. /\ q \in PauseApproval /\ q.executed
        /\ q.approvals = proposals[id].approvals
        /\ q.required = proposals[id].required
        /\ q.expires_at = proposals[id].expires_at
    BY <2>1, Marked
  <2>3. x \in [proposal : Nat, at : Nat] /\ x.proposal = id /\ x.at = cb_now
    BY <1>t, <2>1 DEF ProposalIds
  <2>4. proposals' = [proposals EXCEPT ![id] = q] /\ applied' = Append(applied, x)
    BY <1>3 DEF ExecutePauseProposal
  <2>5. /\ ~proposals[id].executed
        /\ proposals[id].expires_at = 0 \/ cb_now < proposals[id].expires_at
        /\ Len(proposals[id].approvals) >= proposals[id].required
    <3>1. proposals[id].expires_at \in Nat
      BY <2>1 DEF PauseApproval
    <3> QED
      BY <1>3, <2>1, <3>1 DEF ExecutePauseProposal, Executable, IsExpired
  <2> HIDE DEF q, x
  <2>6. /\ Len(proposals') = Len(proposals)
        /\ \A k \in ProposalIds : proposals'[k] = IF k = id THEN q ELSE proposals[k]
    BY <1>t, <2>2, <2>4, ExceptSeq DEF ProposalIds
  <2>7. Voters(q) = Voters(proposals[id])
    BY <2>2 DEF Voters
  <2>8. VotesDistinct(q)
    BY <2>2, <2>7 DEF ProposalsGood, VotesDistinct
  <2>9. \A k \in ProposalIds' : VotesDistinct(proposals'[k])
    BY <2>6, <2>8 DEF ProposalsGood, ProposalIds
  <2>10. ProposalsGood'
    BY <2>9 DEF ProposalsGood, VotesDistinct, Voters
  <2>11. GoodApplication(q, cb_now)
    BY <2>2, <2>5, <2>7 DEF GoodApplication, ProposalsGood, VotesDistinct
  <2>12. /\ Len(applied') = Len(applied) + 1
         /\ \A i \in 1 .. Len(applied) : applied'[i] = applied[i]
         /\ applied'[Len(applied) + 1] = x
    BY <1>t, <2>3, <2>4, AppendProperties
  <2>13. \A i \in 1 .. Len(applied) :
           /\ applied[i].proposal \in ProposalIds /\ applied[i].proposal # id
           /\ GoodApplication(proposals[applied[i].proposal], applied[i].at)
    BY <2>5 DEF AppliedGood, GoodApplication
  <2>14. ASSUME NEW i \in 1 .. Len(applied')
         PROVE  /\ applied'[i].proposal \in ProposalIds'
                /\ GoodApplication(proposals'[applied'[i].proposal], applied'[i].at)
                /\ \A j \in 1 .. Len(applied') :
                     applied'[j].proposal = applied'[i].proposal => j = i
    <3>1. CASE i \in 1 .. Len(applied)
      <4>1. /\ applied'[i].proposal \in ProposalIds'
            /\ GoodApplication(proposals'[applied'[i].proposal], applied'[i].at)
        BY <2>6, <2>12, <2>13, <3>1 DEF ProposalIds
      <4>2. ASSUME NEW j \in 1 .. Len(applied'),
                   applied'[j].proposal = applied'[i].proposal
            PROVE  j = i
        <5>1. CASE j \in 1 .. Len(applied)
          <6>1. applied[j].proposal = applied[i].proposal
            BY <2>12, <3>1, <4>2, <5>1
          <6> QED
            BY <3>1, <5>1, <6>1 DEF AppliedGood
        <5>2. CASE j = Len(applied) + 1
          <6>1. applied'[j].proposal = id /\ applied'[i] = applied[i]
            BY <2>3, <2>12, <3>1, <5>2
          <6> QED
            BY <2>13, <3>1, <4>2, <6>1
        <5> QED
          BY <1>t, <2>12, <5>1, <5>2
      <4> QED
        BY <4>1, <4>2
    <3>2. CASE i = Len(applied) + 1
      <4>1. /\ applied'[i].proposal \in ProposalIds'
            /\ GoodApplication(proposals'[applied'[i].proposal], applied'[i].at)
        BY <2>3, <2>6, <2>11, <2>12, <3>2 DEF ProposalIds
      <4>2. ASSUME NEW j \in 1 .. Len(applied'),
                   applied'[j].proposal = applied'[i].proposal
            PROVE  j = i
        <5>1. applied'[j].proposal = id
          BY <2>3, <2>12, <3>2, <4>2
        <5>2. CASE j \in 1 .. Len(applied)
          <6>1. applied[j].proposal = id
            BY <2>12, <5>1, <5>2
          <6> QED
            BY <2>13, <5>2, <6>1
        <5>3. CASE j = Len(applied) + 1
          BY <3>2, <5>3
        <5> QED
          BY <1>t, <2>12, <5>2, <5>3
      <4> QED
        BY <4>1, <4>2
    <3> QED
      BY <1>t, <2>12, <3>1, <3>2
  <2>15. AppliedGood'
    BY <2>14 DEF AppliedGood, GoodApplication, Voters, ProposalIds
  <2> QED
    BY <2>10, <2>15
<1>4. CASE UNCHANGED <<proposals, applied>>
  BY <1>4, ProposalsAlone
<1> QED
  BY <1>1, <1>2, <1>3, <1>4
     DEF Next, Initialize, AddGuardian, RemoveGuardian, InstantPause, LiftPause,
         ExpireOnQuery, Tick, cb_vars

------------------------------------------------------------------------------

\* The inductive invariant holds in every reachable state.
LEMMA Inductive == Spec => []IInv
<1>1. Init => IInv
  <2> SUFFICES ASSUME Init PROVE IInv
    OBVIOUS
  <2>1. /\ NotPaused \in CircuitBreakerState /\ NotPaused.current_record_id = 0
        /\ ~NotPaused.is_paused /\ NotPaused.level = "Advisory"
        /\ NotPaused.expires_at = 0
    BY DEF NotPaused, CircuitBreakerState, PauseLevel
  <2>2. Len(records) = 0 /\ Len(proposals) = 0 /\ Len(applied) = 0
    BY DEF Init
  <2>3. TypeOK
    BY <2>1, <2>2, FS_EmptySet, EmptySeq, CircuitBreakerAssumption DEF Init, TypeOK
  <2>4. StateCopiesNewest
    BY <2>1, <2>2 DEF Init, StateCopiesNewest
  <2>5. RecordsGood /\ ProposalsGood /\ AppliedGood
    BY <2>2 DEF RecordsGood, RecordIds, ProposalsGood, ProposalIds, AppliedGood
  <2> QED
    BY <2>3, <2>4, <2>5 DEF IInv
<1>2. IInv /\ [Next]_cb_vars => IInv'
  BY TypeStep, LogStep, ProposalStep DEF IInv
<1> QED
  BY <1>1, <1>2, PTL DEF Spec

\* Every stored value keeps its type, and the guardians stay within their limit
\* (add_guardian, initialize).
THEOREM BreakerTypeCorrect == Spec => []TypeOK
<1>1. IInv => TypeOK
  BY DEF IInv
<1> QED
  BY <1>1, Inductive, PTL

\* The queries answer what the log of pauses and the clock call for, at every
\* moment, whether or not an end has been noticed (get_state, check_*).
THEOREM QueriesFollowTheLog == Spec => []ChecksFollowLog
<1>1. ASSUME IInv PROVE ChecksFollowLog
  <2>1. /\ records \in Seq(PauseRecord) /\ Len(records) \in Nat
        /\ state \in CircuitBreakerState /\ cb_now \in Nat
        /\ records = <<>> <=> Len(records) = 0
    BY <1>1, LenProperties, EmptySeq DEF IInv, TypeOK
  <2>2. /\ state.expires_at \in Nat /\ state.level \in PauseLevel
        /\ state.is_paused \in BOOLEAN
    BY <2>1 DEF CircuitBreakerState
  <2>3. Cleared.is_paused = FALSE /\ Cleared.level = "Advisory"
    BY <2>1 DEF Cleared, CircuitBreakerState
  <2>4. CASE state.is_paused /\ ~Over
    <3>1. Len(records) > 0 /\ InForce(Newest) /\ Newest.level = state.level
      BY <1>1, <2>1, <2>2, <2>4 DEF IInv, StateCopiesNewest, InForce, Over, IsExpired
    <3>2. LoggedLevel = state.level /\ QueriedState = state
      BY <2>1, <2>4, <3>1 DEF LoggedLevel, Newest, QueriedState
    <3> QED
      BY <2>2, <2>4, <3>2 DEF ChecksFollowLog, ChecksWritesAllowed, IsPaused,
         ChecksMutationsAllowed, ChecksReadsAllowed, PauseLevel
  <2>5. CASE ~state.is_paused \/ Over
    <3>1. Len(records) > 0 => ~InForce(Newest)
      BY <1>1, <2>1, <2>2, <2>5 DEF IInv, StateCopiesNewest, InForce, Over, IsExpired
    <3>2. LoggedLevel = "Advisory" /\ ~QueriedState.is_paused
      BY <2>1, <2>3, <2>5, <3>1 DEF LoggedLevel, Newest, QueriedState, Over
    <3> QED
      BY <3>2 DEF ChecksFollowLog, ChecksWritesAllowed, IsPaused,
         ChecksMutationsAllowed, ChecksReadsAllowed
  <2> QED
    BY <2>4, <2>5
<1> QED
  BY <1>1, Inductive, PTL

\* Only the admin closes a pause early; any other closing had an end that had
\* passed (lift_pause, get_state).
THEOREM ClosingHasAReason == Spec => []ClosedForAReason
<1>1. IInv => ClosedForAReason
  BY DEF IInv, RecordsGood, GoodRecord, ClosedForAReason
<1> QED
  BY <1>1, Inductive, PTL

\* A proposal takes effect once, in its window, with as many different voters
\* as it asked for (approve_pause_proposal, execute_pause_proposal).
THEOREM ProposalsTakeEffectOnce == Spec => []AppliedOnceWithQuorum
<1>1. IInv => AppliedOnceWithQuorum
  BY DEF IInv, AppliedGood, GoodApplication, AppliedOnceWithQuorum
<1> QED
  BY <1>1, Inductive, PTL

\* The log is append-only but for the closing of an open record
\* (activate_pause, lift_pause, get_state).
THEOREM LogIsHistory == Spec => HistoryStands
<1> DEFINE Kept(i) ==
      /\ records[i].lifted_at # 0 => records'[i] = records[i]
      /\ records'[i].activated_at = records[i].activated_at
      /\ records'[i].expires_at = records[i].expires_at
<1>1. ASSUME IInv, [Next]_cb_vars PROVE \A i \in RecordIds : Kept(i)
  <2>t. TypeOK /\ StateCopiesNewest
    BY <1>1 DEF IInv
  <2>1. CASE UNCHANGED records
    BY <2>1
  <2>2. ASSUME NEW by \in Address, NEW level \in PauseLevel, NEW d \in Durations,
               ActivatePause(by, level, d)
        PROVE  \A i \in RecordIds : Kept(i)
    BY <2>t, <2>2, PauseEffect
  <2>3. ASSUME NEW by, Closes(by)
        PROVE  \A i \in RecordIds : Kept(i)
    BY <2>t, <2>3 DEF Closes, StateCopiesNewest, Newest
  <2>4. ASSUME NEW a \in Address, NEW level \in Levels, NEW d \in Durations,
               InstantPause(a, level, d)
        PROVE  \A i \in RecordIds : Kept(i)
    BY <2>2, <2>4, CircuitBreakerAssumption DEF InstantPause
  <2>5. ASSUME NEW a \in Address, NEW id \in ProposalIds, NEW d \in Durations,
               ExecutePauseProposal(a, id, d)
        PROVE  \A i \in RecordIds : Kept(i)
    <3>1. proposals[id] \in PauseApproval
      BY <2>t, ElementOfSeq DEF ProposalIds, TypeOK
    <3>2. proposals[id].level \in PauseLevel
      BY <3>1 DEF PauseApproval
    <3> QED
      BY <2>2, <2>5, <3>2 DEF ExecutePauseProposal
  <2>6. ASSUME NEW a \in Address, LiftPause(a)
        PROVE  \A i \in RecordIds : Kept(i)
    BY <2>t, <2>3, <2>6, LiftCloses
  <2>7. CASE ExpireOnQuery
    BY <2>t, <2>3, <2>7, ExpiryCloses
  <2> HIDE DEF Kept
  <2> QED
    BY <1>1, <2>1, <2>4, <2>5, <2>6, <2>7
       DEF Next, Initialize, AddGuardian, RemoveGuardian, ProposePause,
           ApprovePauseProposal, Tick, cb_vars
<1>2. IInv /\ [Next]_cb_vars =>
        [\A i \in RecordIds :
           /\ records[i].lifted_at # 0 => records'[i] = records[i]
           /\ records'[i].activated_at = records[i].activated_at
           /\ records'[i].expires_at = records[i].expires_at]_cb_vars
  BY <1>1
<1> QED
  BY <1>2, Inductive, PTL DEF Spec, HistoryStands

==============================================================================
