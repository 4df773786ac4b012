SPECIFICATION Spec
CONSTANTS
  v1 = v1
  zero = zero
  Values <- MCValues
  Zero <- MCZero
  Blocks = 2
  HeaderWords = 4
  ReqAlignment = 1
  Backlog = 1
INVARIANTS
  TypeOK
  SuccessMeansDone
  TakesTurns
PROPERTIES
  RemovalIsNotBlocked
  ServerEnds
CHECK_DEADLOCK FALSE
