SPECIFICATION Spec
CONSTANTS
  Clients = {c1, c2}
  MaxDelay = 2
INVARIANTS
  TypeOK
  SilenceBound
  DeadIsDeleted
PROPERTY BeatingSurvives
