\* Parts of one run.  Two processes and one saga of two steps: a replica that boots while the
\* other runs the saga, crashes between any two writes, and a lost write.  Two pools with one
\* permit each, a task that is handled and one that is not, two retries, one outage or crash.
SPECIFICATION MCSpec
\* Everything is over once the sagas are and the processes may not crash any more.
CHECK_DEADLOCK FALSE
CONSTANTS
  urgent = urgent  casual = casual
  newest = p1
  Process = {p1, p2}
  SagaId = {s1}
  NumSteps = 2
  Undoable = {1}
  MaxAttempts = 2
  MaxCrashes = 2
  MaxLosses = 1
  Pool = {p1, p2}
  WorkerTask = {urgent, casual}
  Priority <- MCPriority
  Handled <- MCHandled
  MaxRetries = 2
  MaxConcurrent = 1
  MaxOutages = 1
INVARIANTS RowsBehindWorld GivenUpMeansCompensated OneCopyOfEachTask
PROPERTIES Settles EveryTaskAnswered
