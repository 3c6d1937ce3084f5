------------------------------- MODULE Timelock -------------------------------
(***************************************************************************)
(* The signer-threshold timelock (timelock.rs) through which delayed       *)
(* governance actions run: propose, approve, cancel and execute, and the   *)
(* ledger clock.  A call that returns Err, or whose target traps, leaves   *)
(* no trace and is no step.  The targets an action runs on are composed    *)
(* with this module in Governance.                                         *)
(***************************************************************************)
EXTENDS Integers, FiniteSets

CONSTANTS
  Address,          \* accounts that may sign
  Action,           \* TimelockAction values a signer may propose
  ConfigChoices,    \* configurations a deployer may pass, valid or not
  DelayChoices,     \* delays a proposer may ask for
  MinDelayFloor,    \* MIN_DELAY_FLOOR
  MaxDelayCeiling,  \* MAX_DELAY_CEILING
  MaxOperations,    \* bound on the number of operations
  LastTick           \* bound on the ledger clock

TimelockConfig == [signers : SUBSET Address, threshold : Nat,
                   min_delay : Nat, max_delay : Nat, grace : Nat]

ASSUME TimelockAssumption ==
  /\ IsFiniteSet(Address)
  /\ ConfigChoices \subseteq TimelockConfig
  /\ DelayChoices \subseteq Nat
  /\ MinDelayFloor \in Nat \ {0} /\ MaxDelayCeiling \in Nat
  /\ MaxOperations \in Nat /\ LastTick \in Nat

VARIABLES
  tl_config,          \* DataKey::TimelockConfig; no signers: not initialized
  next_operation_id,  \* DataKey::NextTimelockOperationId
  operations,         \* DataKey::TimelockOperation(id), for every id handed out
  tl_now,             \* ledger timestamp
  runs                \* history: how often, and when last, each was performed

tl_vars == <<tl_config, next_operation_id, operations, tl_now, runs>>

TimelockStatus == {"PendingApprovals", "Queued", "Executed", "Cancelled"}

TimelockOperation ==
  [proposer : Address, action : Action, created_at : Nat, ready_at : Nat,
   execute_by : Nat, status : TimelockStatus, approvals : SUBSET Address]

OperationIds == 1 .. next_operation_id - 1

------------------------------------------------------------------------------

RequireSigner(a) == a \in tl_config.signers

ValidateConfig(c) ==
  /\ c.signers # {}
  /\ c.threshold # 0 /\ c.threshold <= Cardinality(c.signers)
  /\ c.min_delay >= MinDelayFloor
  /\ c.max_delay <= MaxDelayCeiling /\ c.max_delay >= c.min_delay
  /\ c.grace # 0 /\ c.grace <= MaxDelayCeiling

MaybeQueue(op) ==
  [op EXCEPT !.status = IF /\ Cardinality(op.approvals) >= tl_config.threshold
                           /\ op.status = "PendingApprovals"
                        THEN "Queued" ELSE op.status]

NewOperation(proposer, action, delay) ==
  [proposer |-> proposer, action |-> action, created_at |-> tl_now,
   ready_at |-> tl_now + delay, execute_by |-> tl_now + delay + tl_config.grace,
   status |-> "PendingApprovals", approvals |-> {proposer}]

FirstOperationId == 1

NeverRun == [count |-> 0, last |-> 0]

TimelockInit ==
  /\ tl_config = [signers |-> {}, threshold |-> 0,
                  min_delay |-> 0, max_delay |-> 0, grace |-> 0]
  /\ next_operation_id = FirstOperationId
  /\ operations = [id \in {} |-> {}]
  /\ tl_now = 0
  /\ runs = [id \in {} |-> {}]

\* timelock_init, authorized by every signer; once only.
TimelockConfigure(c) ==
  /\ tl_config.signers = {}
  /\ ValidateConfig(c)
  /\ tl_config' = c
  /\ next_operation_id' = FirstOperationId
  /\ UNCHANGED <<operations, tl_now, runs>>

\* The new operation counts its proposer's approval and may be queued by it.
ProposeAction(proposer, action, delay) ==
  /\ RequireSigner(proposer)
  /\ delay >= tl_config.min_delay /\ delay <= tl_config.max_delay
  /\ next_operation_id <= MaxOperations
  /\ next_operation_id' = next_operation_id + 1
  /\ operations' = [id \in 1 .. next_operation_id |->
                      IF id = next_operation_id
                      THEN MaybeQueue(NewOperation(proposer, action, delay))
                      ELSE operations[id]]
  /\ runs' = [id \in 1 .. next_operation_id |->
                IF id = next_operation_id THEN NeverRun ELSE runs[id]]
  /\ UNCHANGED <<tl_config, tl_now>>

\* Mutant: an approval is accepted whatever became of the operation.
AcceptsAlways(op) == TRUE

AcceptsApprovals(op) == op.status \notin {"Cancelled", "Executed"}

WithOneMore(op, approver) == [op EXCEPT !.approvals = op.approvals \union {approver}]

\* Approvals are taken before and after the quorum.
ApproveAction(approver, id) ==
  /\ RequireSigner(approver)
  /\ id \in OperationIds
  /\ AcceptsApprovals(operations[id])
  /\ approver \notin operations[id].approvals
  /\ operations' = [operations EXCEPT ![id] = MaybeQueue(WithOneMore(operations[id], approver))]
  /\ UNCHANGED <<tl_config, next_operation_id, tl_now, runs>>

\* One signer's veto is enough, until the operation has been executed.
CancelAction(canceller, id) ==
  /\ RequireSigner(canceller)
  /\ id \in OperationIds
  /\ operations[id].status # "Executed"
  /\ operations' = [operations EXCEPT ![id].status = "Cancelled"]
  /\ UNCHANGED <<tl_config, next_operation_id, tl_now, runs>>

\* Mutant: only the start of the execution window is checked.
NeverTooLate(op) == op.status = "Queued" /\ tl_now >= op.ready_at

Executable(op) ==
  op.status = "Queued" /\ tl_now >= op.ready_at /\ tl_now <= op.execute_by

\* The step is the transaction in which perform_action succeeds.
ExecuteAction(executor, id) ==
  /\ RequireSigner(executor)
  /\ id \in OperationIds
  /\ Executable(operations[id])
  /\ operations' = [operations EXCEPT ![id].status = "Executed"]
  /\ runs' = [runs EXCEPT ![id] = [count |-> runs[id].count + 1, last |-> tl_now]]
  /\ UNCHANGED <<tl_config, next_operation_id, tl_now>>

TimelockTick ==
  /\ tl_now < LastTick
  /\ tl_now' = tl_now + 1
  /\ UNCHANGED <<tl_config, next_operation_id, operations, runs>>

TimelockNext ==
  \/ \E c \in ConfigChoices : TimelockConfigure(c)
  \/ \E a \in Address, action \in Action, delay \in DelayChoices :
       ProposeAction(a, action, delay)
  \/ \E a \in Address, id \in OperationIds : ApproveAction(a, id)
  \/ \E a \in Address, id \in OperationIds : CancelAction(a, id)
  \/ \E a \in Address, id \in OperationIds : ExecuteAction(a, id)
  \/ TimelockTick

TimelockSpec == TimelockInit /\ [][TimelockNext]_tl_vars

------------------------------------------------------------------------------

\* The stored configuration and operations, and the clock, have their types.
TimelockTypeOK ==
  /\ tl_config \in TimelockConfig
  /\ next_operation_id \in Nat \ {0}
  /\ tl_config.signers = {} => next_operation_id = FirstOperationId
  /\ operations \in [OperationIds -> TimelockOperation]
  /\ tl_now \in Nat
  /\ runs \in [OperationIds -> [count : Nat, last : Nat]]

\* An operation waits for approvals exactly as long as it lacks its quorum,
\* and a quorum every one of its signers can still form exists at all
\* (maybe_queue after propose and approve; validate_config).
QueuedIffQuorum ==
  \A id \in OperationIds :
    LET op == operations[id] IN
    /\ tl_config.threshold \in 1 .. Cardinality(tl_config.signers)
    /\ op.approvals \subseteq tl_config.signers
    /\ op.status = "PendingApprovals" => Cardinality(op.approvals) < tl_config.threshold
    /\ op.status \in {"Queued", "Executed"} => Cardinality(op.approvals) >= tl_config.threshold

\* Whatever was performed had been public for at least the minimum delay and
\* at most the maximum delay and the grace period, and was performed once; an
\* operation nobody performed within its window is never performed
\* (execute_action).
PerformedOnceInWindow ==
  \A id \in OperationIds :
    LET op == operations[id] IN
    /\ runs[id].count = IF op.status = "Executed" THEN 1 ELSE 0
    /\ op.status = "Executed" =>
         /\ runs[id].last >= op.created_at + tl_config.min_delay
         /\ runs[id].last <= op.created_at + tl_config.max_delay + tl_config.grace

\* What a proposal commits its reviewers to.
Terms(op) == <<op.proposer, op.action, op.created_at, op.ready_at, op.execute_by>>

\* A veto is final, so is execution: neither the status nor the approvals of
\* such an operation change again; approvals are never withdrawn, a quorum is
\* never lost, and the terms proposed never change (approve_action,
\* cancel_action and execute_action in any order).
VetoStands ==
  [][\A id \in OperationIds :
       LET op == operations[id]  new == operations'[id] IN
       /\ op.status \in {"Cancelled", "Executed"} =>
            new.status = op.status /\ new.approvals = op.approvals
       /\ op.approvals \subseteq new.approvals
       /\ op.status = "Queued" => new.status # "PendingApprovals"
       /\ Terms(new) = Terms(op)]_tl_vars

==============================================================================
