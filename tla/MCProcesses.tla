----------------------------- MODULE MCProcesses -----------------------------
(***************************************************************************)
(* Small instances of what the backend's processes do together, for TLC.   *)
(* The run has two parts, which share nothing: sagas, and the worker pools *)
(* on their queue.                                                         *)
(***************************************************************************)
EXTENDS Saga, WorkerPool, TLC

CONSTANTS
  urgent, casual,
  newest  \* the process that knows the saga's definition when the other does not

VARIABLE part

MCPriority == (urgent :> 2) @@ (casual :> 1)
MCHandled == {urgent}

\* All processes know the definition, or one does: which one makes no difference.
\* The part that is not the run's is over before it begins: no process boots,
\* no pool is started.
MCInit ==
  \/ part = "sagas" /\ Init /\ registered \in {Process, {newest}}
     /\ queue = {} /\ enqueued = {} /\ busy = {} /\ active = {} /\ outages = 0
     /\ results = [t \in WorkerTask |-> "none"] /\ handled = [t \in WorkerTask |-> 0]
     /\ loop = [p \in Pool |-> "over"] /\ poolRunning = [p \in Pool |-> FALSE]
     /\ permits = [p \in Pool |-> MaxConcurrent]
  \/ part = "tasks" /\ PoolInit
     /\ row = [s \in SagaId |-> NewInstance("None")]
     /\ task = [t \in Tasks |-> NoTask]
     /\ running = [p \in Process |-> [s \in SagaId |-> "none"]]
     /\ hung = [p \in Process |-> FALSE]
     /\ boot = [p \in Process |-> "recovered"]
     /\ registered = {}
     /\ executed = [s \in SagaId |-> {}] /\ undone = [s \in SagaId |-> {}]
     /\ failedUndo = [s \in SagaId |-> {}]
     /\ crashes = 0 /\ losses = 0

MCNext ==
  /\ \/ part = "sagas" /\ Next /\ UNCHANGED poolVars
     \/ part = "tasks" /\ PoolNext /\ UNCHANGED vars
  /\ UNCHANGED part

\* Of the part that stands still no fair action is enabled.
MCSpec == MCInit /\ [][MCNext]_<<vars, poolVars, part>> /\ Fairness /\ PoolFairness
==============================================================================
