------------------------------ MODULE WorkerPool ------------------------------
(***************************************************************************)
(* The Redis worker pools of the backend (services/redis_workers.rs): one  *)
(* pool per process, a sorted set as the queue they share.  The loop of a  *)
(* pool takes a permit, then the member of the highest score, and runs it  *)
(* in a task of its own that answers, asks for a retry, or times out.      *)
(*                                                                         *)
(* A task's payload is left out; polling and heartbeat intervals are not   *)
(* counted.  Every pool uses the queue name of WorkerConfig::default, as   *)
(* main.rs does, which is the name retries are written to.                 *)
(***************************************************************************)
EXTENDS Integers, FiniteSets

CONSTANTS
  Pool,           \* processes, one pool each
  WorkerTask,     \* tasks that are enqueued, each once
  Priority,       \* [WorkerTask -> Int]
  Handled,        \* tasks whose type has a registered handler
  MaxRetries,     \* max_retries of every task
  MaxConcurrent,  \* max_concurrent_tasks
  MaxOutages      \* bound on crashes and on Redis calls that fail

ASSUME WorkerAssumption ==
  /\ Priority \in [WorkerTask -> Int] /\ Handled \subseteq WorkerTask
  /\ MaxRetries \in Nat /\ MaxConcurrent \in Nat \ {0} /\ MaxOutages \in Nat

VARIABLES
  queue,        \* members of the sorted set: <<task, retry_count>>
  enqueued,     \* tasks given to enqueue_task
  results,      \* task:result:<id>, by task
  loop,         \* where the processing loop of a pool is
  poolRunning,  \* the pool's running flag
  permits,      \* free permits of the pool's semaphore
  busy,         \* spawned tasks: <<pool, task, retry_count>>
  active,       \* workers:active
  handled,      \* history: how often a task's handler ran
  outages       \* crashes and failed calls so far

poolVars == <<queue, enqueued, results, loop, poolRunning, permits, busy, active, handled, outages>>

\* Redis refuses a call; the code goes on as if it had succeeded.
Outage == outages < MaxOutages /\ outages' = outages + 1

\* enqueue_task and the retry: -(priority), "negative for higher priority first".
Score(member) == 0 - Priority[member[1]]

Add(member) ==
  \/ queue' = queue \union {member} /\ UNCHANGED outages
  \/ Outage /\ UNCHANGED queue

Store(t, outcome) ==
  \/ results' = [results EXCEPT ![t] = outcome] /\ UNCHANGED outages
  \/ Outage /\ UNCHANGED results

EnqueueTask(t) ==
  /\ t \notin enqueued
  /\ enqueued' = enqueued \union {t}
  /\ Add(<<t, 0>>)
  /\ UNCHANGED <<results, loop, poolRunning, permits, busy, active, handled>>

StartPool(p) ==
  /\ loop[p] = "down"
  /\ poolRunning' = [poolRunning EXCEPT ![p] = TRUE]
  /\ loop' = [loop EXCEPT ![p] = "check"]
  /\ UNCHANGED <<queue, enqueued, results, permits, busy, active, handled, outages>>

StopPool(p) ==
  /\ loop[p] # "down" /\ poolRunning[p]
  /\ poolRunning' = [poolRunning EXCEPT ![p] = FALSE]
  /\ UNCHANGED <<queue, enqueued, results, loop, permits, busy, active, handled, outages>>

\* The heartbeat task joins the set while the pool runs and leaves it after.
Heartbeat(p) ==
  /\ loop[p] # "down" /\ (p \in active) # poolRunning[p]
  /\ \/ active' = (IF poolRunning[p] THEN active \union {p} ELSE active \ {p}) /\ UNCHANGED outages
     \/ Outage /\ UNCHANGED active
  /\ UNCHANGED <<queue, enqueued, results, loop, poolRunning, permits, busy, handled>>

CheckRunning(p) ==
  /\ loop[p] = "check"
  /\ loop' = [loop EXCEPT ![p] = IF poolRunning[p] THEN "acquire" ELSE "over"]
  /\ UNCHANGED <<queue, enqueued, results, poolRunning, permits, busy, active, handled, outages>>

AcquirePermit(p) ==
  /\ loop[p] = "acquire" /\ permits[p] > 0
  /\ permits' = [permits EXCEPT ![p] = @ - 1]
  /\ loop' = [loop EXCEPT ![p] = "poll"]
  /\ UNCHANGED <<queue, enqueued, results, poolRunning, busy, active, handled, outages>>

\* zpopmax: the member of the highest score.
Popped == {m \in queue : \A n \in queue : Score(n) <= Score(m)}

PollTask(p, m) ==
  /\ loop[p] = "poll" /\ m \in Popped
  /\ queue' = queue \ {m}
  /\ busy' = busy \union {<<p, m[1], m[2]>>}
  /\ loop' = [loop EXCEPT ![p] = "check"]
  /\ UNCHANGED <<enqueued, results, poolRunning, permits, active, handled, outages>>

\* Nothing to do, or no connection: the permit is dropped.
PollNothing(p) ==
  /\ loop[p] = "poll"
  /\ \/ queue = {} /\ UNCHANGED outages
     \/ Outage
  /\ permits' = [permits EXCEPT ![p] = @ + 1]
  /\ loop' = [loop EXCEPT ![p] = "check"]
  /\ UNCHANGED <<queue, enqueued, results, poolRunning, busy, active, handled>>

\* Mutant: the task that asks for a retry keeps its permit.
DropWhenAnswered(p, retried) == IF retried THEN permits ELSE [permits EXCEPT ![p] = @ + 1]

\* The spawned task ends, whatever came of it, and its permit with it.
DropPermit(p, retried) == [permits EXCEPT ![p] = @ + 1]

Finish(p, t, n, retried) ==
  /\ <<p, t, n>> \in busy
  /\ busy' = busy \ {<<p, t, n>>}
  /\ permits' = DropPermit(p, retried)
  /\ UNCHANGED <<enqueued, loop, poolRunning, active>>

Ran(t) == handled' = [handled EXCEPT ![t] = @ + 1]

\* Mutant: one retry too many.
MayRetryOnce(n) == n <= MaxRetries

MayRetry(n) == n < MaxRetries

TaskCompleted(p, t, n) ==
  /\ t \in Handled /\ Finish(p, t, n, FALSE) /\ Ran(t)
  /\ Store(t, "result")
  /\ UNCHANGED queue

TaskFailed(p, t, n) ==
  /\ t \in Handled /\ Ran(t)
  /\ Finish(p, t, n, MayRetry(n))
  /\ IF MayRetry(n) THEN Add(<<t, n + 1>>) /\ UNCHANGED results
                    ELSE Store(t, "error") /\ UNCHANGED queue

\* A timeout is final, however many retries are left.
TaskTimedOut(p, t, n) ==
  /\ t \in Handled /\ Finish(p, t, n, FALSE) /\ Ran(t)
  /\ Store(t, "error")
  /\ UNCHANGED queue

NoHandler(p, t, n) ==
  /\ t \notin Handled /\ Finish(p, t, n, FALSE)
  /\ Store(t, "error")
  /\ UNCHANGED <<queue, handled>>

\* What the process had taken off the queue is gone with it.
PoolCrash(p) ==
  /\ loop[p] # "down" /\ Outage
  /\ loop' = [loop EXCEPT ![p] = "down"]
  /\ poolRunning' = [poolRunning EXCEPT ![p] = FALSE]
  /\ permits' = [permits EXCEPT ![p] = MaxConcurrent]
  /\ busy' = {b \in busy : b[1] # p}
  /\ UNCHANGED <<queue, enqueued, results, active, handled>>

PoolInit ==
  /\ queue = {} /\ enqueued = {} /\ busy = {} /\ active = {} /\ outages = 0
  /\ results = [t \in WorkerTask |-> "none"] /\ handled = [t \in WorkerTask |-> 0]
  /\ loop = [p \in Pool |-> "down"] /\ poolRunning = [p \in Pool |-> FALSE]
  /\ permits = [p \in Pool |-> MaxConcurrent]

LoopStep(p) ==
  \/ CheckRunning(p) \/ AcquirePermit(p) \/ PollNothing(p) \/ \E m \in queue : PollTask(p, m)

EndTask(p, t, n) ==
  TaskCompleted(p, t, n) \/ TaskFailed(p, t, n) \/ TaskTimedOut(p, t, n) \/ NoHandler(p, t, n)

PoolNext ==
  \/ \E t \in WorkerTask : EnqueueTask(t)
  \/ \E p \in Pool : StartPool(p) \/ StopPool(p) \/ Heartbeat(p) \/ LoopStep(p) \/ PoolCrash(p)
  \/ \E b \in busy : EndTask(b[1], b[2], b[3])

(***************************************************************************)
(* The runtime polls every task that is ready, timeout bounds a handler,   *)
(* and main.rs starts the pool of every process.                           *)
(***************************************************************************)
PoolFairness ==
  \A p \in Pool :
    /\ WF_poolVars(StartPool(p) \/ LoopStep(p))
    /\ \A t \in WorkerTask :
         WF_poolVars(\E b \in busy : b[1] = p /\ b[2] = t /\ EndTask(p, t, b[3]))

PoolSpec == PoolInit /\ [][PoolNext]_poolVars /\ PoolFairness

------------------------------------------------------------------------------

Copies(t) == {m \in queue : m[1] = t} \union {b \in busy : b[2] = t}

(***************************************************************************)
(* However pools race for it, retry it or lose it, a task is in one place  *)
(* at a time -- queued, in one pool's hands, or answered -- its handler    *)
(* runs at most once more than it may be retried, and only an outage makes *)
(* it vanish unanswered.                                                   *)
(***************************************************************************)
OneCopyOfEachTask ==
  \A t \in WorkerTask :
    /\ Cardinality(Copies(t)) <= 1
    /\ results[t] # "none" => Copies(t) = {}
    /\ handled[t] <= MaxRetries + 1
    /\ t \in enqueued /\ Copies(t) = {} /\ results[t] = "none" => outages > 0

(***************************************************************************)
(* Nobody starves: unless a pool is stopped or there is an outage, every   *)
(* task that is enqueued is answered in the end, with a result or an       *)
(* error, although permits are fewer than tasks.                           *)
(***************************************************************************)
EveryTaskAnswered ==
  \/ <>(outages > 0 \/ \E p \in Pool : loop[p] # "down" /\ ~poolRunning[p])
  \/ <>[](\A t \in enqueued : results[t] # "none")

=============================================================================
