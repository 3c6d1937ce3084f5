\* Parts of one run.  Channels: two among two parties of whom one is watchful, pauses at any
\* time; the clock reaches beyond every chain of disputes.  Timelock: two or three signers, two
\* operations, a delay floor of one day and a ceiling of three; the clock passes every window.
\* Monitoring: two checks of the alerts, four calls, a clock beyond the cooldown and the hour.
SPECIFICATION MCSpec
CONSTANTS
  alice = alice  bob = bob  crate = crate  r1 = r1  none = none
  Party = {alice, bob}
  Watchful = {alice}
  Product = {crate}
  Root = {r1}
  ZeroRoot = none
  WindowChoices = {0, 1, 2}
  MinWindow = 1
  MaxWindow = 1
  MaxChannels = 2
  MaxNonce = 2
  LastClose = 1
  MaxTime = 5
  s1 = s1  s2 = s2  s3 = s3  pause_main = pause_main
  Address = {s1, s2, s3}
  Action = {pause_main}
  ConfigChoices <- SomeConfigs
  DelayChoices = {0, 1, 2, 3}
  MinDelayFloor = 1
  MaxDelayCeiling = 3
  MaxOperations = 2
  LastTick = 4
  Watcher = {w1, w2}
  ErrorCode = {"internal", "other"}
  CriticalCode = {"internal"}
  CheckedCode = "internal"
  AlertRate = 1
  Cooldown = 2
  Hour = 2
  NeverAlerted = never
  ResponseTimes = {1, 2}
  ResponseCap = 2
  Percentiles = {50, 95}
  PoolUsages = {96}
  PoolAlert = 90
  MaxMonitored = 4
  MaxClock = 3
INVARIANTS LatestStateSettles PerformedOnceInWindow MonitoringHoldsUp
PROPERTIES ClosingSettles VetoStands
\* Clocks, nonces and operations are bounded.
CHECK_DEADLOCK FALSE
