SPECIFICATION Spec
CONSTANTS
  MaxNMess = 4
  MaxTotMessLen = 8
  Lengths = {0, 1, 2, 3, 5}
  MaxSends = 8
INVARIANTS
  TypeOK
  LoopsStop
  LapIntact
  LastWithinLap
  LoopsAgree
CHECK_DEADLOCK FALSE
