\* Three accounts of which any subset may be the signers, every threshold, two
\* concurrent proposals of a runnable and an unknown kind, two clock ticks.
SPECIFICATION Spec
CONSTANTS
  s1 = s1  s2 = s2  s3 = s3
  pause = pause  memo = memo
  Address = {s1, s2, s3}
  Kind = {pause, memo}
  Executable = {pause}
  ThresholdMaps <- SomeThresholds
  TimeLockMaps <- SomeTimeLocks
  MaxProposals = 2
  MaxTime = 2
SYMMETRY Symmetry
INVARIANT ExecutedOnceAfterTimeLock
PROPERTY ImplementsBallot
\* The bounds on proposals and on the clock let the model stop.
CHECK_DEADLOCK FALSE
