SPECIFICATION Spec
CONSTANTS
  Pids = {1, 2}
  Words <- MCWords
  NoWord = NoWord
  MaxFollower = 4
  Home <- MCHome
  AllowDisconnect = TRUE
INVARIANTS
  TypeOK
  AllReachable
  NoDuplicates
  ListsAgree
  CountExact
  NeverHung
PROPERTIES
  ImplementsRegistry
CHECK_DEADLOCK FALSE
