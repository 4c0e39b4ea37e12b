SPECIFICATION Spec
CONSTANTS
  Procs = {p1, p2, p3}
  Requests <- MCRequests
  Addresses = {a1, a2, a3}
  Null = Null
  NoRequest = NoRequest
  MaxInterrupts = 1
SYMMETRY Symmetry
INVARIANTS TypeOK MemoryKept
PROPERTIES ImplementsLockedMap
CHECK_DEADLOCK FALSE
