\* Parts of one run: c1 and c2 are who calls in each, x1 and x2 what is called about.
SPECIFICATION MCSpec
\* Calls are over when their bound is reached.
CHECK_DEADLOCK FALSE
CONSTANTS
  dev = dev  crate = crate  loop = loop
  \* Three users, a credit and two trades of it.
  User = {c1, c2, c3}
  CreditId = {crate}
  TradeId = {x1, x2}
  FootprintRequest <- SomeFootprints
  MaxCuts = 1
  \* Two writers and three rows.
  Writer = {c1, c2}
  HttpRequest <- SomeRequests
  RetentionDays = 0
  MaxRows = 3
  MaxDays = 1
  MaxAlterations = 1
  \* Two sessions, two keys, three requests.
  Session = {c1, c2}
  UserId = {root, u1}
  KeyId = {x1, x2}
  NoRow = no_row
  Admin = root
  Roles = {"auditor"}
  Tiers = {"basic"}
  TierLimit <- BasicLimit
  Expiries = {0, no_row}
  InactiveDays = 0
  MaxDay = 1
  MaxAccessCalls = 3
  \* Two callers and two shipments between two places.
  Caller = {c1, c2}
  RouteId = {x1, x2}
  Place <- TwoPlaces
  Unknown = unknown
  Plans <- OnePlan
  DisruptedEdges <- OnePlan
  TimeScores = {100}
  Reports = {100}
  MaxJobs = 3
  MaxFailures = 1
  \* A sensor that feeds a twin, two clients and the loop.
  Agent = {c1, c2, loop}
  Sensor = {dev}
  SyncLoop = loop
  ThresholdRows <- SomeThresholds
  ReadingRows <- SomeReadings
  MaxIotCalls = 3
  MaxIotFaults = 1
  TwinId = {twin}
  SyncFrequency <- Frequencies
  HealthScore <- Scores
  ClientStates <- SomeStates
  HistoryCap = 1
  MaxTicks = 1
  \* Two clients, a product and two requirements.
  Inspector = {c1, c2}
  Good = {crate}
  RequirementId = {x1, x2}
  Regime = {"soc2", "halal"}
  FieldChoices = {{"id"}, {"id", "lot"}}
  DataChoices <- SomeData
  MaxRegCalls = 4
  MaxRegTroubles = 1
  \* The predefined rules and two more.
  RuleChoices <- SomeRules
  Events <- SomeEvents
  Words <- SomeWords
  Resembles <- SomeMatches
  MaxRules = 2
INVARIANTS TitleFollowsPayment SerialMarketAgrees VerifyTellsTruth RunsOnCurrentRights SignalsTraceReports HighScoreAlerted EveryBreachAlerted SerialHistoryBacksMetrics VerdictsStand RulesJudgeEvents
PROPERTY SerialTwinMovesOn
SYMMETRY Alike
