SPECIFICATION Spec
CONSTANTS
  c1 = c1
  c2 = c2
  c3 = c3
  Conns = {c1, c2, c3}
  Workers = {w1, w2}
  Listen = Listen
  None = None
  Backlog = 1
  MaxEvents = 2
  Parts = 2
  RecvPieces = 3
  ReplyParts = 2
  SendPieces = 3
  MaxRefused = 1
  Scripts <- MCScripts
  Unsteady <- MCUnsteady
SYMMETRY Symmetry
CHECK_DEADLOCK FALSE
INVARIANTS
  TypeOK
  BacklogAccounted
  FullBacklogHasEdge
  UnreadHasEdge
  EndHasEdge
  HandledInOrder
  AnswersWhole
