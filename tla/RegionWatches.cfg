SPECIFICATION FairSpec
CONSTANTS
  Clients = {c1, c2}
  Areas <- MCAreas
  Locks <- MCLocks
  NoLock = NoLock
  NoArea = NoArea
  NoClient = NoClient
  NoAnswer = NoAnswer
  MaxSize = 2
  MaxWatches = 2
INVARIANTS TypeOK TellsTruth NoneLeftAsleep
PROPERTIES ImplementsWatchList MutexFreed
CHECK_DEADLOCK FALSE
