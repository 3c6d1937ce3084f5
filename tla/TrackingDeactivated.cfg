\* The instance of Products.cfg: any product, registered or not, active or not.
SPECIFICATION MCSpec
\* Calls, events and readings are over when their bound is reached.
CHECK_DEADLOCK FALSE
CONSTANTS
  p1 = p1  p2 = p2  alice = alice  bob = bob  carol = carol  coffee = coffee  none = none
  short = short  no_batch = no_batch
  ProductId = {p1, p2}
  Address = {alice, bob}
  Actor = {carol}
  NoOwner = none
  Word = {coffee}
  Short = short
  ConfigChoices <- SomeConfigs
  BatchChoices <- SomeBatches
  ChunkChoices = {2}
  NoBatch = no_batch
  MaxBatchSize = 3
  EventType = {"shipped", "received"}
  MaxEvents = 3
  EventTime <- LedgerTimes
  EventPlace <- Places
  PageLimits = {0, 2, 3}
  Filters <- SomeFilters
  MaxPageLimit = 2
  Q = 7919
  Hash <- SomeHash
  Secret = {2, 3, 5}
  Ring <- SomeRings
  Statement = {1, 2}
  Scalars = {4, 9}
  Handover = {p1, p2}
  MinRingSize = 2
  MaxRingSize = 4
  MaxRecords = 2
  MaxSignatures = 1
  Goods = {p1}
  QcAccount = {alice, bob}
  Parameter = {"temperature"}
  ReadingValues <- SomeValues
  Bands <- SomeBands
  NoThreshold = 1000
  Nobody = none
  MaxReadings = 2
  MaxCertificates = 1
  MaxLedger = 1
  Client = {alice, bob}
  CatalogProduct = {x1, x2}
  Owner = {owner}
  OwnedByNone = none
  BatchName = {lot}
  NoBatchNamed = no_batch
  RecallId = {recall}
  MaxCalls = 2
  MaxTroubles = 1
  Delta <- Deltas
  BatchId = {x1, x2}
  BatchNumber = {x1, x2}
  NoNumber = none
  BatchStatus = {"pending"}
  BatchClient = {alice, bob}
  Tolerance <- SomeTolerances
  Measured = {7}
  MaxBatchCalls = 3
  MaxBatchTroubles = 1
  List = {"products", "search", "batches", "events", "events by type", "credits", "trades", "recalls", "audit logs", "footprints", "verifications", "reports", "devices"}
  RowSort <- SomeSorts
  Filter <- SomeAsking
  Unasked = 0
  Instant = {1, 2}
  RowLimit = 3
  MaxWrites = 3
  Asked <- SomeAsked
  DefaultLimit = 1
  CapLimit = 2
PROPERTY NoEventsWhileInactive
SYMMETRY Alike
