SPECIFICATION FairSpec
CONSTANTS
  Pids = {1, 2}
  Words = {a}
  Limit = 2
  AllowBye = TRUE
  AllowDisconnect = TRUE
  MaxCommands = 2
INVARIANTS
  TypeOK
  MutualExclusion
  LatestDelivered
PROPERTIES
  EveryCommandServed
  SignalsHandled
CHECK_DEADLOCK FALSE
