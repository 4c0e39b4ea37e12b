SPECIFICATION ByeTextSpec
CONSTANTS
  Pids = {1, 2}
  Words <- MCWords
  NoWord = NoWord
  MaxFollower = 3
  Home <- MCHome
  AllowDisconnect = FALSE
INVARIANT
  NeverHung
CHECK_DEADLOCK FALSE
