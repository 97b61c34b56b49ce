SPECIFICATION Spec
CONSTANTS
  Workers = {w1, w2}
  HallNumbers = {heartbeat, room, login}
  RoomNumber = room
  UserNumbers = {login}
  GameNumber = game
  OtherNumber = other
  MaxEvents = 3
  MaxChunks = 2
CHECK_DEADLOCK FALSE
INVARIANTS
  TypeOK
  NullsFollowed
  LogHasLock
  ConfusedOnlyAcross
  HandlesAccounted
  CountsBounded
PROPERTIES
  TableQuiet
