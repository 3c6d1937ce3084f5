\* A replica boots while another process runs a saga; nothing crashes and no
\* write is lost.
SPECIFICATION Spec
CONSTANTS
  Process = {p1, p2}
  SagaId = {s1}
  NumSteps = 2
  Undoable = {1}
  MaxAttempts = 2
  MaxCrashes = 0
  MaxLosses = 0
INVARIANT CompletedNotUndone
\* Everything is over once the sagas are.
CHECK_DEADLOCK FALSE
