SPECIFICATION Spec
CONSTANTS
  MaxNMess = 4
  MaxTotMessLen = 8
  Lengths = {1, 2, 3, 5}
  MaxSends = 8
INVARIANT
  LastRetrievesLatest
CHECK_DEADLOCK FALSE
