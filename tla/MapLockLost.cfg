SPECIFICATION FairSpec
CONSTANTS
  Procs = {p1, p2}
  Requests <- MCRequests
  Addresses = {a1, a2}
  Null = Null
  NoRequest = NoRequest
  MaxInterrupts = 0
PROPERTIES WaitersServed
CHECK_DEADLOCK FALSE
