\* Two accounts, each admin or guardian or both, who come and go as guardians;
\* two pauses and one proposal; pauses without an end, with one, and longer
\* than the limit.
SPECIFICATION Spec
CONSTANTS
  Address = {alice, bob}
  NoAdmin = none
  MaxPauseDuration = 1
  MaxGuardians = 2
  Durations = {0, 1, 2}
  Levels = {"Partial", "Emergency"}
  MaxRecords = 2
  MaxProposals = 1
  MaxTime = 3
INVARIANTS ChecksFollowLog AppliedOnceWithQuorum
\* The clock and the numbers of pauses and proposals are bounded.
CHECK_DEADLOCK FALSE
