---------------------------- MODULE MultiSigProofs ----------------------------
(***************************************************************************)
(* Proofs about the multi-signature contract, for every set of signers,    *)
(* every threshold map and every number of proposals.                      *)
(***************************************************************************)
EXTENDS MultiSig, FiniteSetTheorems, TLAPS

\* The type invariant holds in every reachable state (all entry points).
THEOREM TypeCorrect == Spec => []TypeOK
<1>1. Init => TypeOK
  BY DEF Init, TypeOK, FirstProposalId, ProposalIds, NoEntries, IsKindMap
<1>2. TypeOK /\ [Next]_vars => TypeOK'
  <2> SUFFICES ASSUME TypeOK, [Next]_vars PROVE TypeOK'
    OBVIOUS
  <2> USE DEF TypeOK
  <2>1. ASSUME NEW signers \in SUBSET Address, NEW threshold \in 1 .. MaxSigners,
               NEW thresholds \in ThresholdMaps, NEW time_locks \in TimeLockMaps,
               InitMultisig(signers, threshold, thresholds, time_locks)
        PROVE  TypeOK'
    <3>1. IsKindMap(thresholds) /\ IsKindMap(time_locks)
      BY MultiSigAssumption
    <3>2. threshold \in Nat
      BY DEF MaxSigners
    <3> QED
      BY <2>1, <3>1, <3>2 DEF InitMultisig, ProposalIds
  <2>2. ASSUME NEW a \in Address, NEW kind \in Kind, SubmitProposal(a, kind)
        PROVE  TypeOK'
    <3>1. NewProposal(a, kind) \in Proposal
      BY DEF NewProposal, Proposal, Status
    <3>2. proposals' = [id \in 1 .. next_proposal_id |->
                          IF id = next_proposal_id THEN NewProposal(a, kind)
                                                   ELSE proposals[id]]
      BY <2>2 DEF SubmitProposal
    <3>3. next_proposal_id' = next_proposal_id + 1 /\ UNCHANGED <<config, now>>
      BY <2>2 DEF SubmitProposal
    <3>4. ProposalIds' = 1 .. next_proposal_id
      BY <3>3 DEF ProposalIds
    <3>5. \A id \in 1 .. next_proposal_id : id = next_proposal_id \/ id \in ProposalIds
      BY DEF ProposalIds
    <3>6. proposals' \in [ProposalIds' -> Proposal]
      BY <3>1, <3>2, <3>4, <3>5
    <3>7. invocations' \in [ProposalIds' -> Nat]
      BY <2>2, <3>4, <3>5 DEF SubmitProposal
    <3> QED
      BY <3>3, <3>6, <3>7 DEF IsKindMap
  <2>3. ASSUME NEW a \in Address, NEW id \in ProposalIds, ApproveProposal(a, id)
        PROVE  TypeOK'
    <3>1. WithApproval(proposals[id], a) \in Proposal
      BY DEF WithApproval, Proposal, Status
    <3> QED
      BY <2>3, <3>1 DEF ApproveProposal, ProposalIds
  <2>4. ASSUME NEW a \in Address, NEW id \in ProposalIds, RejectProposal(a, id)
        PROVE  TypeOK'
    <3>1. WithRejection(proposals[id], a) \in Proposal
      BY DEF WithRejection, Proposal, Status
    <3> QED
      BY <2>4, <3>1 DEF RejectProposal, ProposalIds
  <2>5. ASSUME NEW a \in Address, NEW id \in ProposalIds, ExecuteProposal(a, id)
        PROVE  TypeOK'
    <3>1. [proposals[id] EXCEPT !.status = "Executed"] \in Proposal
      BY DEF Proposal, Status
    <3> QED
      BY <2>5, <3>1 DEF ExecuteProposal, ProposalIds
  <2>6. CASE Tick
    BY <2>6 DEF Tick, ProposalIds
  <2>7. CASE UNCHANGED vars
    BY <2>7 DEF vars, ProposalIds
  <2> QED
    BY <2>1, <2>2, <2>3, <2>4, <2>5, <2>6, <2>7 DEF Next
<1> QED
  BY <1>1, <1>2, PTL DEF Spec

------------------------------------------------------------------------------

\* The per-kind maps hold naturals, so every threshold and time lock is one.
LEMMA ThresholdType ==
  ASSUME TypeOK, NEW kind \in Kind
  PROVE  ApprovalThreshold(kind) \in Nat /\ TimeLock(kind) \in Nat
BY DEF TypeOK, IsKindMap, ApprovalThreshold, TimeLock, MapGet

\* The arithmetic of rejection_threshold_reached: with at least one rejection,
\* n - t + 1 rejections (saturating) are exactly those that leave fewer than t
\* possible approvers.
LEMMA BlockingMinority ==
  ASSUME NEW S, IsFiniteSet(S), NEW R \in SUBSET S, R # {}, NEW t \in Nat
  PROVE  Cardinality(R) >= SaturatingSub(Cardinality(S), t) + 1
           <=> Cardinality(S \ R) < t
<1>1. IsFiniteSet(R) /\ Cardinality(R) \in Nat /\ Cardinality(S) \in Nat
  BY FS_Subset, FS_CardinalityType
<1>2. Cardinality(R) # 0
  BY <1>1, FS_EmptySet
<1>3. S \intersect R = R
  OBVIOUS
<1>4. Cardinality(S \ R) = Cardinality(S) - Cardinality(R)
  BY <1>3, FS_Difference
<1> QED
  BY <1>1, <1>2, <1>4 DEF SaturatingSub

\* The inductive invariant, as it reads for one proposal and the number of calls
\* it has made.  To the properties it adds that nothing is created in the
\* future and that an open proposal whose quorum is two or more lacks it.
GoodProposal(p, calls) ==
  /\ p.approvals \union p.rejections \subseteq config.signers
  /\ p.approvals \intersect p.rejections = {}
  /\ p.proposer \in p.approvals
  /\ p.status \in {"Approved", "Executed"} => ThresholdReached(p.kind, p.approvals)
  /\ p.status = "Rejected" =>
       Cardinality(config.signers \ p.rejections) < ApprovalThreshold(p.kind)
  /\ p.status # "Rejected" /\ p.rejections # {} =>
       ~(Cardinality(config.signers \ p.rejections) < ApprovalThreshold(p.kind))
  /\ calls = IF p.status = "Executed" THEN 1 ELSE 0
  /\ p.status = "Executed" => now >= p.approved_at + TimeLock(p.kind)
  /\ p.status \in {"Approved", "Executed"} => p.approved_at >= p.created_at
  /\ p.created_at <= now
  /\ p.status = "Active" /\ ApprovalThreshold(p.kind) >= 2
       => ~ThresholdReached(p.kind, p.approvals)

AllGood == \A id \in ProposalIds : GoodProposal(proposals[id], invocations[id])

LEMMA AllGoodImplies ==
  ASSUME TypeOK, AllGood
  PROVE  QuorumBacked /\ RejectionExact /\ ExecutedOnceAfterTimeLock /\ NoHungVote
<1>1. QuorumBacked
  BY DEF AllGood, GoodProposal, QuorumBacked
<1>2. RejectionExact
  BY DEF AllGood, GoodProposal, RejectionExact, PossibleApprovers
<1>3. ExecutedOnceAfterTimeLock
  BY DEF AllGood, GoodProposal, ExecutedOnceAfterTimeLock
<1>4. NoHungVote
  <2> SUFFICES ASSUME NEW id \in ProposalIds,
                      ApprovalThreshold(proposals[id].kind)
                        \in 2 .. Cardinality(config.signers),
                      proposals[id].approvals \union proposals[id].rejections
                        = config.signers,
                      proposals[id].status = "Active"
               PROVE  FALSE
    BY DEF NoHungVote
  <2> DEFINE p == proposals[id]
  <2>1. GoodProposal(p, invocations[id]) /\ p.kind \in Kind
    BY DEF AllGood, TypeOK, Proposal
  <2>2. config.signers \ p.rejections = p.approvals
    BY <2>1 DEF GoodProposal
  <2>3. ~ThresholdReached(p.kind, p.approvals)
    BY <2>1, ThresholdType DEF GoodProposal
  <2>4. Cardinality(p.approvals) \in Nat /\ ApprovalThreshold(p.kind) \in Nat
    <3>1. IsFiniteSet(Address) /\ p.approvals \subseteq Address
      BY <2>1, MultiSigAssumption DEF GoodProposal, TypeOK
    <3> QED
      BY <2>1, <3>1, FS_CardinalityType, FS_Subset, ThresholdType
  <2>5. p.rejections # {}
    BY <2>2, <2>3, <2>4 DEF ThresholdReached
  <2>6. ~(Cardinality(p.approvals) < ApprovalThreshold(p.kind))
    BY <2>1, <2>2, <2>5 DEF GoodProposal
  <2> QED
    BY <2>3, <2>4, <2>6 DEF ThresholdReached
<1> QED
  BY <1>1, <1>2, <1>3, <1>4

\* Nothing has been proposed while no signer is configured.
LEMMA NoSignersNoProposals ==
  ASSUME AllGood, config.signers = {}
  PROVE  ProposalIds = {}
<1> SUFFICES ASSUME NEW id \in ProposalIds PROVE FALSE
  OBVIOUS
<1> QED
  BY DEF AllGood, GoodProposal

\* Approving keeps a proposal good.
LEMMA ApprovalGood ==
  ASSUME TypeOK, NEW id \in ProposalIds, NEW a \in config.signers,
         GoodProposal(proposals[id], invocations[id]), MayVote(a, id)
  PROVE  GoodProposal(WithApproval(proposals[id], a), invocations[id])
<1> DEFINE p == proposals[id]  q == WithApproval(p, a)
<1>1. p \in Proposal /\ now \in Nat
  BY DEF TypeOK
<1>2. /\ q.approvals = p.approvals \union {a}
      /\ q.status = IF ThresholdReached(p.kind, q.approvals) THEN "Approved" ELSE p.status
      /\ q.approved_at = IF ThresholdReached(p.kind, q.approvals) THEN now ELSE p.approved_at
      /\ q.rejections = p.rejections /\ q.proposer = p.proposer
      /\ q.kind = p.kind /\ q.created_at = p.created_at
  BY <1>1 DEF WithApproval, Proposal
<1>3. p.status = "Active" /\ a \notin p.rejections
  BY DEF MayVote
<1> HIDE DEF p, q
<1> QED
  BY <1>1, <1>2, <1>3 DEF GoodProposal, Proposal, p, q

\* Rejecting keeps a proposal good: this is where the arithmetic is needed.
LEMMA RejectionGood ==
  ASSUME TypeOK, NEW id \in ProposalIds, NEW a \in config.signers,
         GoodProposal(proposals[id], invocations[id]), MayVote(a, id)
  PROVE  GoodProposal(WithRejection(proposals[id], a), invocations[id])
<1> DEFINE p == proposals[id]  q == WithRejection(p, a)
<1>1. p \in Proposal /\ now \in Nat
  BY DEF TypeOK
<1>2. /\ q.rejections = p.rejections \union {a}
      /\ q.status = IF RejectionThresholdReached(p.kind, q.rejections)
                    THEN "Rejected" ELSE p.status
      /\ q.approvals = p.approvals /\ q.proposer = p.proposer
      /\ q.kind = p.kind /\ q.created_at = p.created_at /\ q.approved_at = p.approved_at
  BY <1>1 DEF WithRejection, Proposal
<1>3. p.status = "Active" /\ a \notin p.approvals
  BY DEF MayVote
<1>4. q.rejections \subseteq config.signers /\ q.rejections # {}
  BY <1>2 DEF GoodProposal, p
<1>5. IsFiniteSet(config.signers)
  BY MultiSigAssumption, FS_Subset DEF TypeOK
<1>6. RejectionThresholdReached(p.kind, q.rejections)
        <=> Cardinality(config.signers \ q.rejections) < ApprovalThreshold(p.kind)
  BY <1>1, <1>4, <1>5, BlockingMinority, ThresholdType
     DEF RejectionThresholdReached, Proposal
<1> HIDE DEF p, q
<1> QED
  BY <1>1, <1>2, <1>3, <1>4, <1>6 DEF GoodProposal, Proposal, p, q

\* The invariant is inductive: every proposal of the next state is good.
LEMMA AllGoodInductive ==
  ASSUME TypeOK, AllGood, [Next]_vars
  PROVE  AllGood'
<1>1. ASSUME NEW signers \in SUBSET Address, NEW threshold \in 1 .. MaxSigners,
             NEW thresholds \in ThresholdMaps, NEW time_locks \in TimeLockMaps,
             InitMultisig(signers, threshold, thresholds, time_locks)
      PROVE  AllGood'
  BY <1>1, NoSignersNoProposals DEF InitMultisig, AllGood, ProposalIds
<1>2. ASSUME NEW a \in Address, NEW kind \in Kind, SubmitProposal(a, kind)
      PROVE  AllGood'
  <2>1. ProposalIds' = 1 .. next_proposal_id /\ UNCHANGED <<config, now>>
    BY <1>2 DEF SubmitProposal, ProposalIds, TypeOK
  <2>2. ASSUME NEW id \in ProposalIds', id # next_proposal_id
        PROVE  GoodProposal(proposals[id], invocations[id])
               /\ proposals'[id] = proposals[id] /\ invocations'[id] = invocations[id]
    BY <1>2, <2>1, <2>2 DEF SubmitProposal, AllGood, ProposalIds, TypeOK
  <2>3. proposals'[next_proposal_id] = NewProposal(a, kind)
        /\ invocations'[next_proposal_id] = 0
    BY <1>2 DEF SubmitProposal, TypeOK
  <2>4. GoodProposal(NewProposal(a, kind), 0)
    <3>1. Cardinality({a}) = 1
      BY FS_Singleton
    <3> QED
      BY <1>2, <3>1, ThresholdType
         DEF GoodProposal, NewProposal, SubmitProposal, IsSigner, ThresholdReached, TypeOK
  <2> SUFFICES ASSUME NEW id \in ProposalIds'
               PROVE  GoodProposal(proposals[id], invocations[id])'
    BY DEF AllGood
  <2>5. CASE id = next_proposal_id
    BY <2>1, <2>3, <2>4, <2>5
       DEF GoodProposal, ThresholdReached, ApprovalThreshold, TimeLock, MapGet
  <2>6. CASE id # next_proposal_id
    BY <2>1, <2>2, <2>6
       DEF GoodProposal, ThresholdReached, ApprovalThreshold, TimeLock, MapGet
  <2> QED
    BY <2>5, <2>6
<1>3. ASSUME NEW a \in Address, NEW id \in ProposalIds, ApproveProposal(a, id)
      PROVE  AllGood'
  <2>1. GoodProposal(WithApproval(proposals[id], a), invocations[id])
    BY <1>3, ApprovalGood DEF AllGood, ApproveProposal, MayVote, IsSigner
  <2> SUFFICES ASSUME NEW j \in ProposalIds
               PROVE  GoodProposal(proposals[j], invocations[j])'
    BY <1>3 DEF AllGood, ApproveProposal, ProposalIds
  <2>2. /\ proposals'[j] = IF j = id THEN WithApproval(proposals[id], a) ELSE proposals[j]
        /\ UNCHANGED <<config, now, invocations>>
    BY <1>3 DEF ApproveProposal, TypeOK
  <2>3. GoodProposal(proposals'[j], invocations[j])
    BY <2>1, <2>2 DEF AllGood
  <2> QED
    BY <2>2, <2>3
       DEF GoodProposal, ThresholdReached, ApprovalThreshold, TimeLock, MapGet
<1>4. ASSUME NEW a \in Address, NEW id \in ProposalIds, RejectProposal(a, id)
      PROVE  AllGood'
  <2>1. GoodProposal(WithRejection(proposals[id], a), invocations[id])
    BY <1>4, RejectionGood DEF AllGood, RejectProposal, MayVote, IsSigner
  <2> SUFFICES ASSUME NEW j \in ProposalIds
               PROVE  GoodProposal(proposals[j], invocations[j])'
    BY <1>4 DEF AllGood, RejectProposal, ProposalIds
  <2>2. /\ proposals'[j] = IF j = id THEN WithRejection(proposals[id], a) ELSE proposals[j]
        /\ UNCHANGED <<config, now, invocations>>
    BY <1>4 DEF RejectProposal, TypeOK
  <2>3. GoodProposal(proposals'[j], invocations[j])
    BY <2>1, <2>2 DEF AllGood
  <2> QED
    BY <2>2, <2>3
       DEF GoodProposal, ThresholdReached, ApprovalThreshold, TimeLock, MapGet
<1>5. ASSUME NEW a \in Address, NEW id \in ProposalIds, ExecuteProposal(a, id)
      PROVE  AllGood'
  <2> SUFFICES ASSUME NEW j \in ProposalIds
               PROVE  GoodProposal(proposals[j], invocations[j])'
    BY <1>5 DEF AllGood, ExecuteProposal, ProposalIds
  <2>1. /\ proposals'[j] = IF j = id THEN [proposals[id] EXCEPT !.status = "Executed"]
                                     ELSE proposals[j]
        /\ invocations'[j] = IF j = id THEN invocations[id] + 1 ELSE invocations[j]
        /\ UNCHANGED <<config, now>>
    BY <1>5 DEF ExecuteProposal, TypeOK
  <2>2. GoodProposal(proposals[j], invocations[j]) /\ proposals[j] \in Proposal
    BY DEF AllGood, TypeOK
  <2>3. CASE j # id
    BY <2>1, <2>2, <2>3
       DEF GoodProposal, ThresholdReached, ApprovalThreshold, TimeLock, MapGet
  <2>4. CASE j = id
    <3> DEFINE p == proposals[id]  q == [p EXCEPT !.status = "Executed"]
    <3>1. /\ q.status = "Executed" /\ q.approvals = p.approvals
          /\ q.rejections = p.rejections /\ q.proposer = p.proposer /\ q.kind = p.kind
          /\ q.approved_at = p.approved_at /\ q.created_at = p.created_at
      BY <2>2, <2>4 DEF Proposal
    <3>2. p.status = "Approved" /\ now >= p.approved_at + TimeLock(p.kind)
      BY <1>5 DEF ExecuteProposal, Unlocked
    <3>3. GoodProposal(q, 1)
      BY <2>2, <2>4, <3>1, <3>2 DEF GoodProposal
    <3>4. invocations[id] = 0
      BY <2>2, <2>4, <3>2 DEF GoodProposal
    <3> HIDE DEF q
    <3> QED
      BY <2>1, <2>4, <3>3, <3>4
         DEF GoodProposal, ThresholdReached, ApprovalThreshold, TimeLock, MapGet, q
  <2> QED
    BY <2>3, <2>4
<1>6. CASE Tick
  <2> SUFFICES ASSUME NEW j \in ProposalIds
               PROVE  GoodProposal(proposals[j], invocations[j])'
    BY <1>6 DEF AllGood, Tick, ProposalIds
  <2>1. /\ proposals'[j] = proposals[j] /\ invocations'[j] = invocations[j]
        /\ config' = config /\ now' = now + 1
    BY <1>6 DEF Tick
  <2>2. GoodProposal(proposals[j], invocations[j]) /\ proposals[j] \in Proposal
    BY DEF AllGood, TypeOK
  <2>3. now \in Nat /\ TimeLock(proposals[j].kind) \in Nat
    BY <2>2, ThresholdType DEF Proposal, TypeOK
  <2> QED
    BY <2>1, <2>2, <2>3
       DEF GoodProposal, ThresholdReached, ApprovalThreshold, TimeLock, MapGet, Proposal
<1>7. CASE UNCHANGED vars
  <2> SUFFICES ASSUME NEW j \in ProposalIds
               PROVE  GoodProposal(proposals[j], invocations[j])'
    BY <1>7 DEF AllGood, vars, ProposalIds
  <2> QED
    BY <1>7
       DEF GoodProposal, ThresholdReached, ApprovalThreshold, TimeLock, MapGet, vars, AllGood
<1> QED
  BY <1>1, <1>2, <1>3, <1>4, <1>5, <1>6, <1>7 DEF Next

\* Quorums, vetoes, time locks, single execution and the absence of hung votes,
\* for any signers, thresholds and time locks init_multisig accepts.
THEOREM Safety ==
  Spec => [](QuorumBacked /\ RejectionExact /\ ExecutedOnceAfterTimeLock /\ NoHungVote)
<1>1. Init => AllGood
  BY DEF Init, AllGood, ProposalIds, FirstProposalId
<1> QED
  BY <1>1, TypeCorrect, AllGoodInductive, AllGoodImplies, PTL DEF Spec

------------------------------------------------------------------------------

\* The instance counts voters as this module does.
LEMMA SameCardinality == \A S : Ballots!Cardinality(S) = Cardinality(S)
BY DEF Ballots!Cardinality, Cardinality, Ballots!IsFiniteSet, IsFiniteSet

\* A vote step changes one ballot and nothing else.
LEMMA VoteChangesOneBallot ==
  ASSUME TypeOK, NEW id \in ProposalIds, NEW q,
         proposals' = [proposals EXCEPT ![id] = q],
         UNCHANGED <<config, next_proposal_id>>
  PROVE  [j \in ProposalIds |-> BallotOf(proposals[j])]'
           = [[j \in ProposalIds |-> BallotOf(proposals[j])] EXCEPT ![id] =
                [voters |-> config.signers, quorum |-> ApprovalThreshold(q.kind),
                 yes |-> q.approvals, no |-> q.rejections, outcome |-> q.status]]
BY DEF ProposalIds, BallotOf, ApprovalThreshold, MapGet, TypeOK

\* Every step of the contract is a step of the ballots, or changes none.
LEMMA StepRefines ==
  ASSUME TypeOK, AllGood, [Next]_vars
  PROVE  [Ballots!Next]_([id \in ProposalIds |-> BallotOf(proposals[id])])
<1> DEFINE b == [id \in ProposalIds |-> BallotOf(proposals[id])]
<1>1. ASSUME NEW signers \in SUBSET Address, NEW threshold \in 1 .. MaxSigners,
             NEW thresholds \in ThresholdMaps, NEW time_locks \in TimeLockMaps,
             InitMultisig(signers, threshold, thresholds, time_locks)
      PROVE  b' = b
  <2>1. ProposalIds = {} /\ ProposalIds' = {}
    BY <1>1, NoSignersNoProposals DEF InitMultisig, ProposalIds
  <2> QED
    BY <2>1
<1>2. ASSUME NEW a \in Address, NEW kind \in Kind, SubmitProposal(a, kind)
      PROVE  Ballots!Open
  <2>1. /\ ProposalIds' = 1 .. next_proposal_id /\ UNCHANGED config
        /\ proposals'[next_proposal_id] = NewProposal(a, kind)
        /\ \A id \in ProposalIds : proposals'[id] = proposals[id]
        /\ a \in config.signers /\ config.signers \subseteq Address
    BY <1>2 DEF SubmitProposal, ProposalIds, TypeOK, IsSigner
  <2>2. Cardinality(ProposalIds) + 1 = next_proposal_id
    BY FS_Interval DEF ProposalIds, TypeOK
  <2>3. DOMAIN b' = DOMAIN b \union {Cardinality(DOMAIN b) + 1}
    <3>1. DOMAIN b = ProposalIds /\ DOMAIN b' = 1 .. next_proposal_id
      BY <2>1
    <3>2. 1 .. next_proposal_id = ProposalIds \union {next_proposal_id}
      BY DEF ProposalIds, TypeOK
    <3> HIDE DEF b
    <3> QED
      BY <2>2, <3>1, <3>2
  <2>4. b' = [id \in 1 .. next_proposal_id |->
                [voters |-> config.signers,
                 quorum |-> ApprovalThreshold(proposals'[id].kind),
                 yes |-> proposals'[id].approvals, no |-> proposals'[id].rejections,
                 outcome |-> proposals'[id].status]]
    BY <2>1 DEF BallotOf, ApprovalThreshold, MapGet
  <2>5. /\ \A id \in ProposalIds : b'[id] = b[id]
        /\ b'[next_proposal_id] =
             [voters |-> config.signers, quorum |-> ApprovalThreshold(kind),
              yes |-> {a}, no |-> {}, outcome |-> "Active"]
    <3>1. \A id \in ProposalIds : id \in 1 .. next_proposal_id
      BY DEF ProposalIds, TypeOK
    <3>2. ASSUME NEW id \in ProposalIds PROVE b'[id] = b[id]
      <4>1. b[id] = BallotOf(proposals[id])
        OBVIOUS
      <4> HIDE DEF b
      <4> QED
        BY <2>1, <2>4, <3>1, <4>1 DEF BallotOf
    <3>3. next_proposal_id \in 1 .. next_proposal_id
      BY DEF TypeOK
    <3>4. b'[next_proposal_id] =
            [voters |-> config.signers, quorum |-> ApprovalThreshold(kind),
             yes |-> {a}, no |-> {}, outcome |-> "Active"]
      <4>1. LET p == NewProposal(a, kind)
            IN /\ p.kind = kind /\ p.approvals = {a}
               /\ p.rejections = {} /\ p.status = "Active"
        BY DEF NewProposal
      <4> HIDE DEF b
      <4> QED
        BY <2>1, <2>4, <3>3, <4>1
    <3> QED
      BY <3>2, <3>4
  <2>6. ApprovalThreshold(kind) \in Nat
    BY ThresholdType
  <2>7. /\ DOMAIN b = ProposalIds /\ Ballots!Cardinality(DOMAIN b) + 1 = next_proposal_id
        /\ DOMAIN b' = DOMAIN b \union {Ballots!Cardinality(DOMAIN b) + 1}
    BY <2>2, <2>3, SameCardinality
  <2>8. /\ b'[next_proposal_id].outcome = "Active" /\ b'[next_proposal_id].no = {}
        /\ b'[next_proposal_id].quorum \in Nat
        /\ b'[next_proposal_id].voters \subseteq Address
        /\ \E proposer \in b'[next_proposal_id].voters :
             b'[next_proposal_id].yes = {proposer}
    <3> HIDE DEF b
    <3> QED
      BY <2>1, <2>5, <2>6
  <2> QED
    BY <2>5, <2>7, <2>8 DEF Ballots!Open, Ballots!Ids
<1>3. ASSUME NEW a \in Address, NEW id \in ProposalIds, ApproveProposal(a, id)
      PROVE  Ballots!VoteYes(a, id)
  <2> DEFINE q == WithApproval(proposals[id], a)
  <2>1. b' = [b EXCEPT ![id] =
                [voters |-> config.signers, quorum |-> ApprovalThreshold(q.kind),
                 yes |-> q.approvals, no |-> q.rejections, outcome |-> q.status]]
    BY <1>3, VoteChangesOneBallot DEF ApproveProposal
  <2>2. /\ q.kind = proposals[id].kind /\ q.rejections = proposals[id].rejections
        /\ q.approvals = proposals[id].approvals \union {a}
        /\ q.status = IF Cardinality(q.approvals) >= ApprovalThreshold(q.kind)
                      THEN "Approved" ELSE proposals[id].status
    BY DEF WithApproval, TypeOK, Proposal, ThresholdReached
  <2>3. b[id] = [voters |-> config.signers, quorum |-> ApprovalThreshold(q.kind),
                 yes |-> proposals[id].approvals, no |-> proposals[id].rejections,
                 outcome |-> proposals[id].status] /\ DOMAIN b = ProposalIds
    BY <2>2 DEF BallotOf
  <2>4. /\ proposals[id].status = "Active" /\ a \in config.signers
        /\ a \notin proposals[id].approvals /\ a \notin proposals[id].rejections
    BY <1>3 DEF ApproveProposal, MayVote, IsSigner
  <2> HIDE DEF q
  <2>7. Ballots!CanVote(a, id)
    BY <2>4 DEF Ballots!CanVote, BallotOf
  <2>8. [voters |-> b[id].voters, quorum |-> b[id].quorum,
         yes |-> b[id].yes \union {a}, no |-> b[id].no,
         outcome |-> IF Ballots!Cardinality(b[id].yes \union {a}) >= b[id].quorum
                     THEN "Approved" ELSE b[id].outcome]
        = [voters |-> config.signers, quorum |-> ApprovalThreshold(q.kind),
           yes |-> q.approvals, no |-> q.rejections, outcome |-> q.status]
    BY <2>2, SameCardinality DEF BallotOf
  <2> QED
    BY <2>1, <2>7, <2>8 DEF Ballots!VoteYes
<1>4. ASSUME NEW a \in Address, NEW id \in ProposalIds, RejectProposal(a, id)
      PROVE  Ballots!VoteNo(a, id)
  <2> DEFINE q == WithRejection(proposals[id], a)
  <2>1. b' = [b EXCEPT ![id] =
                [voters |-> config.signers, quorum |-> ApprovalThreshold(q.kind),
                 yes |-> q.approvals, no |-> q.rejections, outcome |-> q.status]]
    BY <1>4, VoteChangesOneBallot DEF RejectProposal
  <2>2. /\ q.kind = proposals[id].kind /\ q.approvals = proposals[id].approvals
        /\ q.rejections = proposals[id].rejections \union {a}
        /\ q.status = IF RejectionThresholdReached(q.kind, q.rejections)
                      THEN "Rejected" ELSE proposals[id].status
        /\ q.kind \in Kind
    BY DEF WithRejection, TypeOK, Proposal
  <2>3. b[id] = [voters |-> config.signers, quorum |-> ApprovalThreshold(q.kind),
                 yes |-> proposals[id].approvals, no |-> proposals[id].rejections,
                 outcome |-> proposals[id].status] /\ DOMAIN b = ProposalIds
    BY <2>2 DEF BallotOf
  <2>4. /\ proposals[id].status = "Active" /\ a \in config.signers
        /\ a \notin proposals[id].approvals /\ a \notin proposals[id].rejections
    BY <1>4 DEF RejectProposal, MayVote, IsSigner
  <2>5. RejectionThresholdReached(q.kind, q.rejections)
          <=> Cardinality(config.signers \ q.rejections) < ApprovalThreshold(q.kind)
    <3>1. q.rejections \subseteq config.signers /\ q.rejections # {}
      BY <2>2, <2>4 DEF AllGood, GoodProposal
    <3>2. IsFiniteSet(config.signers)
      BY MultiSigAssumption, FS_Subset DEF TypeOK
    <3> QED
      BY <2>2, <3>1, <3>2, BlockingMinority, ThresholdType DEF RejectionThresholdReached
  <2> HIDE DEF q
  <2>7. Ballots!CanVote(a, id)
    BY <2>4 DEF Ballots!CanVote, BallotOf
  <2>8. [voters |-> b[id].voters, quorum |-> b[id].quorum,
         yes |-> b[id].yes, no |-> b[id].no \union {a},
         outcome |-> IF Ballots!Cardinality(b[id].voters \ (b[id].no \union {a}))
                          < b[id].quorum
                     THEN "Rejected" ELSE b[id].outcome]
        = [voters |-> config.signers, quorum |-> ApprovalThreshold(q.kind),
           yes |-> q.approvals, no |-> q.rejections, outcome |-> q.status]
    BY <2>2, <2>5, SameCardinality DEF BallotOf
  <2> QED
    BY <2>1, <2>7, <2>8 DEF Ballots!VoteNo
<1>5. ASSUME NEW a \in Address, NEW id \in ProposalIds, ExecuteProposal(a, id)
      PROVE  Ballots!Use(id)
  <2> DEFINE q == [proposals[id] EXCEPT !.status = "Executed"]
  <2>1. b' = [b EXCEPT ![id] =
                [voters |-> config.signers, quorum |-> ApprovalThreshold(q.kind),
                 yes |-> q.approvals, no |-> q.rejections, outcome |-> q.status]]
    BY <1>5, VoteChangesOneBallot DEF ExecuteProposal
  <2>2. /\ q.kind = proposals[id].kind /\ q.approvals = proposals[id].approvals
        /\ q.rejections = proposals[id].rejections /\ q.status = "Executed"
    BY DEF TypeOK, Proposal
  <2>3. b[id] = [voters |-> config.signers, quorum |-> ApprovalThreshold(q.kind),
                 yes |-> proposals[id].approvals, no |-> proposals[id].rejections,
                 outcome |-> proposals[id].status] /\ DOMAIN b = ProposalIds
    BY <2>2 DEF BallotOf
  <2>4. proposals[id].status = "Approved"
    BY <1>5 DEF ExecuteProposal
  <2> HIDE DEF q
  <2>8. [voters |-> b[id].voters, quorum |-> b[id].quorum,
         yes |-> b[id].yes, no |-> b[id].no, outcome |-> "Executed"]
        = [voters |-> config.signers, quorum |-> ApprovalThreshold(q.kind),
           yes |-> q.approvals, no |-> q.rejections, outcome |-> q.status]
    BY <2>2 DEF BallotOf
  <2>9. b[id].outcome = "Approved"
    BY <2>4 DEF BallotOf
  <2> QED
    BY <2>1, <2>8, <2>9 DEF Ballots!Use
<1>6. CASE Tick
  BY <1>6 DEF Tick, ProposalIds, BallotOf, ApprovalThreshold, MapGet
<1>7. CASE UNCHANGED vars
  BY <1>7 DEF vars, ProposalIds, BallotOf, ApprovalThreshold, MapGet
<1>8. DOMAIN b = ProposalIds
  OBVIOUS
<1> QED
  BY <1>1, <1>2, <1>3, <1>4, <1>5, <1>6, <1>7, <1>8 DEF Next, Ballots!Next, Ballots!Ids

\* The contract implements the ballots it promises its signers.
THEOREM Refinement == Spec => ImplementsBallot
<1>1. Init => Ballots!Init
  BY DEF Init, Ballots!Init, ProposalIds, FirstProposalId
<1>2. Init => AllGood
  BY DEF Init, AllGood, ProposalIds, FirstProposalId
<1>3. Spec => []AllGood
  BY <1>2, TypeCorrect, AllGoodInductive, PTL DEF Spec
<1> QED
  BY <1>1, <1>3, TypeCorrect, StepRefines, PTL DEF Spec, ImplementsBallot, Ballots!Spec

==============================================================================
