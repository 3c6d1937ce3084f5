\* Reports, reconfigurations and time on one feed.
SPECIFICATION Spec
CONSTANTS
  None = None
  Address = {a}
  Reporter = {r1, r2, r3}
  Values <- MCValues
  Stakes = {1}
  Configs <- MCConfigs
  Fallbacks <- MCFallbacks
  Bps = 10
  U32 = 64
  MaxRounds = 4
  MaxTime = 2
SYMMETRY MCSymmetry
PROPERTIES
  MinorityBounded
  AgreeingNotSlashed
CHECK_DEADLOCK FALSE
