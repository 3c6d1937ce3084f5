\* Two accounts that may hold and pass on every role, one of them the timelock's
\* signer, one operation of every kind, and every direct call in between.
SPECIFICATION GovernanceSpec
CONSTANTS
  alice = alice  bob = bob  ms = ms  tl = tl  ac = ac  up = up  none = none
  no_info = no_info
  Account = {alice, bob}
  Address = {alice}
  MultiSigAddr = ms
  TimelockAddr = tl
  AdminAddr = ac
  NoOne = none
  UpgradeAddr = up
  NoInfo = no_info
  VersionChoices <- SomeVersions
  Action <- EveryAction
  ConfigChoices <- OneConfig
  DelayChoices = {1}
  MinDelayFloor = 1
  MaxDelayCeiling = 1
  MaxOperations = 1
  LastTick = 1
PROPERTIES AdminsMoveTogether ExecutedMeansPerformed
\* The clock is bounded and the last operation leaves nothing to vote on.
CHECK_DEADLOCK FALSE
