------------------------------ MODULE MultiSig ------------------------------
(***************************************************************************)
(* The multi-signature contract that administers the ChainLogistics        *)
(* contracts (multisig.rs): one action per entry point that writes, and    *)
(* the ledger clock.  A transaction either commits or leaves no trace, so  *)
(* an entry point that returns Err, or whose cross-contract call traps, is *)
(* no step at all: its early returns are the guards below.                 *)
(***************************************************************************)
EXTENDS Integers, FiniteSets

CONSTANTS
  Address,        \* accounts that may sign
  Kind,           \* proposal kinds (the Symbol a proposal carries)
  Executable,     \* the six kinds execute_proposal knows how to run
  ThresholdMaps,  \* per-kind thresholds a deployer may pass to init_multisig
  TimeLockMaps,   \* per-kind time locks a deployer may pass to init_multisig
  MaxProposals,   \* bound on the number of proposals
  MaxTime         \* bound on the ledger clock

\* Partial maps from kinds to naturals: Map<Symbol, u32> and Map<Symbol, u64>.
IsKindMap(map) == DOMAIN map \subseteq Kind /\ map \in [DOMAIN map -> Nat]

ASSUME MultiSigAssumption ==
  /\ IsFiniteSet(Address)
  /\ Executable \subseteq Kind
  /\ \A map \in ThresholdMaps \union TimeLockMaps : IsKindMap(map)
  /\ MaxProposals \in Nat
  /\ MaxTime \in Nat

NoEntries == [k \in {} |-> 0]

MaxSigners == 10

VARIABLES
  config,             \* DataKey::MultiSigConfig; no signers: not configured
  next_proposal_id,   \* DataKey::NextProposalId
  proposals,          \* DataKey::Proposal(id), for every id handed out
  now,                \* ledger timestamp
  invocations         \* history: target calls each proposal has made

vars == <<config, next_proposal_id, proposals, now, invocations>>

Status == {"Active", "Approved", "Rejected", "Executed"}

Proposal == [kind        : Kind,
             proposer    : Address,
             created_at  : Nat,
             approved_at : Nat,
             status      : Status,
             approvals   : SUBSET Address,
             rejections  : SUBSET Address]

ProposalIds == 1 .. next_proposal_id - 1

------------------------------------------------------------------------------

IsSigner(a) == a \in config.signers

MapGet(map, kind, default) == IF kind \in DOMAIN map THEN map[kind] ELSE default

ApprovalThreshold(kind) == MapGet(config.thresholds, kind, config.threshold)

TimeLock(kind) == MapGet(config.time_locks, kind, 0)

ThresholdReached(kind, approvals) ==
  Cardinality(approvals) >= ApprovalThreshold(kind)

SaturatingSub(a, b) == IF a >= b THEN a - b ELSE 0

\* Mutant: the rejections that still leave a quorum, without the one more.
RejectionsOneShort(kind, rejections) ==
  Cardinality(rejections)
    >= SaturatingSub(Cardinality(config.signers), ApprovalThreshold(kind))

RejectionThresholdReached(kind, rejections) ==
  Cardinality(rejections)
    >= SaturatingSub(Cardinality(config.signers), ApprovalThreshold(kind)) + 1

\* What approve_proposal and reject_proposal both require of a vote.
MayVote(voter, id) ==
  /\ IsSigner(voter)
  /\ id \in ProposalIds
  /\ proposals[id].status = "Active"
  /\ voter \notin proposals[id].approvals
  /\ voter \notin proposals[id].rejections

\* Mutant: the lock runs from the submission.
UnlockedSinceSubmission(p) == now >= p.created_at + TimeLock(p.kind)

Unlocked(p) == now >= p.approved_at + TimeLock(p.kind)

FirstProposalId == 1

------------------------------------------------------------------------------

Init ==
  /\ config = [signers |-> {}, threshold |-> 0,
               thresholds |-> NoEntries, time_locks |-> NoEntries]
  /\ next_proposal_id = FirstProposalId
  /\ proposals = [id \in {} |-> {}]
  /\ now = 0
  /\ invocations = [id \in {} |-> 0]

\* Once only; the per-kind maps are stored as given, without validation.
InitMultisig(signers, threshold, thresholds, time_locks) ==
  /\ config.signers = {}
  /\ signers # {}
  /\ threshold \in 1 .. Cardinality(signers)
  /\ Cardinality(signers) <= MaxSigners
  /\ config' = [signers |-> signers, threshold |-> threshold,
                thresholds |-> thresholds, time_locks |-> time_locks]
  /\ UNCHANGED <<next_proposal_id, proposals, now, invocations>>

\* The proposer's approval is recorded at once, but the threshold is not
\* compared with it.
NewProposal(proposer, kind) ==
  [kind |-> kind, proposer |-> proposer, created_at |-> now, approved_at |-> 0,
   status |-> "Active", approvals |-> {proposer}, rejections |-> {}]

SubmitProposal(proposer, kind) ==
  /\ IsSigner(proposer)
  /\ next_proposal_id <= MaxProposals
  /\ next_proposal_id' = next_proposal_id + 1
  /\ proposals' = [id \in 1 .. next_proposal_id |->
                     IF id = next_proposal_id THEN NewProposal(proposer, kind)
                                              ELSE proposals[id]]
  /\ invocations' = [id \in 1 .. next_proposal_id |->
                       IF id = next_proposal_id THEN 0 ELSE invocations[id]]
  /\ UNCHANGED <<config, now>>

\* The proposal with one more approval; reaching the threshold approves it.
WithApproval(p, approver) ==
  LET approvals == p.approvals \union {approver}
      reached   == ThresholdReached(p.kind, approvals)
  IN [p EXCEPT !.approvals   = approvals,
               !.status      = IF reached THEN "Approved" ELSE p.status,
               !.approved_at = IF reached THEN now ELSE p.approved_at]

ApproveProposal(approver, id) ==
  /\ MayVote(approver, id)
  /\ proposals' = [proposals EXCEPT ![id] = WithApproval(proposals[id], approver)]
  /\ UNCHANGED <<config, next_proposal_id, now, invocations>>

\* The proposal with one more rejection; a blocking minority rejects it.
WithRejection(p, rejecter) ==
  LET rejections == p.rejections \union {rejecter}
      reached    == RejectionThresholdReached(p.kind, rejections)
  IN [p EXCEPT !.rejections = rejections,
               !.status     = IF reached THEN "Rejected" ELSE p.status]

RejectProposal(rejecter, id) ==
  /\ MayVote(rejecter, id)
  /\ proposals' = [proposals EXCEPT ![id] = WithRejection(proposals[id], rejecter)]
  /\ UNCHANGED <<config, next_proposal_id, now, invocations>>

\* The step is the transaction whose target call succeeds; when the call
\* traps, or the kind is unknown, the status written before it is undone.
ExecuteProposal(executor, id) ==
  /\ IsSigner(executor)
  /\ id \in ProposalIds
  /\ proposals[id].status = "Approved"
  /\ Unlocked(proposals[id])
  /\ proposals[id].kind \in Executable
  /\ proposals' = [proposals EXCEPT ![id].status = "Executed"]
  /\ invocations' = [invocations EXCEPT ![id] = @ + 1]
  /\ UNCHANGED <<config, next_proposal_id, now>>

Tick ==
  /\ now < MaxTime
  /\ now' = now + 1
  /\ UNCHANGED <<config, next_proposal_id, proposals, invocations>>

Next ==
  \/ \E signers \in SUBSET Address, threshold \in 1 .. MaxSigners,
        thresholds \in ThresholdMaps, time_locks \in TimeLockMaps :
       InitMultisig(signers, threshold, thresholds, time_locks)
  \/ \E a \in Address, kind \in Kind : SubmitProposal(a, kind)
  \/ \E a \in Address, id \in ProposalIds : ApproveProposal(a, id)
  \/ \E a \in Address, id \in ProposalIds : RejectProposal(a, id)
  \/ \E a \in Address, id \in ProposalIds : ExecuteProposal(a, id)
  \/ Tick

Spec == Init /\ [][Next]_vars

------------------------------------------------------------------------------

TypeOK ==
  /\ config = [signers |-> config.signers, threshold |-> config.threshold,
               thresholds |-> config.thresholds, time_locks |-> config.time_locks]
  /\ config.signers \subseteq Address
  /\ config.threshold \in Nat
  /\ IsKindMap(config.thresholds) /\ IsKindMap(config.time_locks)
  /\ next_proposal_id \in Nat \ {0}
  /\ proposals \in [ProposalIds -> Proposal]
  /\ now \in Nat
  /\ invocations \in [ProposalIds -> Nat]

\* Signers still able to approve: everyone who has not rejected.
PossibleApprovers(id) == config.signers \ proposals[id].rejections

\* A decision is backed by votes, and only by signers' votes: an approved or
\* executed proposal has its kind's quorum, no signer is on both sides, and
\* the proposer's own vote was cast once (INV3 and INV4 of
\* formal_verification/invariant_proofs.md, for every status that follows
\* approval).
QuorumBacked ==
  \A id \in ProposalIds :
    LET p == proposals[id] IN
    /\ p.approvals \union p.rejections \subseteq config.signers
    /\ p.approvals \intersect p.rejections = {}
    /\ p.proposer \in p.approvals
    /\ p.status \in {"Approved", "Executed"} => ThresholdReached(p.kind, p.approvals)

\* Rejection is exact: a rejected proposal could not have reached its quorum
\* any more, and an open one that anybody has rejected still can (the
\* n - t + 1 arithmetic of rejection_threshold_reached, whatever the
\* per-kind threshold is).
RejectionExact ==
  \A id \in ProposalIds :
    LET p           == proposals[id]
        unreachable == Cardinality(PossibleApprovers(id)) < ApprovalThreshold(p.kind)
    IN /\ p.status = "Rejected" => unreachable
       /\ p.status # "Rejected" /\ p.rejections # {} => ~unreachable

\* The time lock of the proposal's kind has run, counted from the approval
\* that reached the quorum, before the target is called; and the target is
\* called exactly once, by executed proposals only (execute_proposal).
ExecutedOnceAfterTimeLock ==
  \A id \in ProposalIds :
    LET p == proposals[id] IN
    /\ invocations[id] = IF p.status = "Executed" THEN 1 ELSE 0
    /\ p.status = "Executed" => now >= p.approved_at + TimeLock(p.kind)
    /\ p.status \in {"Approved", "Executed"} => p.approved_at >= p.created_at

\* When every signer has voted the proposal is decided, provided its quorum is
\* at least two and not above the number of signers: nothing is left waiting
\* for votes that nobody can cast any more (approve_proposal, reject_proposal).
NoHungVote ==
  \A id \in ProposalIds :
    LET p == proposals[id] IN
    (/\ ApprovalThreshold(p.kind) \in 2 .. Cardinality(config.signers)
     /\ p.approvals \union p.rejections = config.signers)
      => p.status # "Active"

------------------------------------------------------------------------------

\* What the contract promises its signers: each proposal is a ballot.
BallotOf(p) ==
  [voters  |-> config.signers,
   quorum  |-> ApprovalThreshold(p.kind),
   yes     |-> p.approvals,
   no      |-> p.rejections,
   outcome |-> p.status]

Ballots == INSTANCE Ballot WITH
  Voter   <- Address,
  ballots <- [id \in ProposalIds |-> BallotOf(proposals[id])]

\* The contract implements the ballots: every vote moves the outcome exactly
\* as the ballot rule says, and execution is the one use of an approval.
ImplementsBallot == Ballots!Spec

==============================================================================
