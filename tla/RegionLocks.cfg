SPECIFICATION FairSpec
CONSTANTS
  Clients = {c1, c2, c3}
  Requests <- MCRequests
  NoLock = NoLock
  NoRequest = NoRequest
  MaxSize = 3
  MaxIds = 3
INVARIANTS TypeOK NoConflict SizeExact NoneStranded UniqueIds ListingsExact
PROPERTIES ImplementsLockedMap WaitersServed
CHECK_DEADLOCK FALSE
