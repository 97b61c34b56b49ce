SPECIFICATION Spec
CONSTANTS
  Workers = {w1, w2}
  Main = main
  Conns = {c1, c2, c3}
  FDs = {1, 2}
  Objs = {o1, o2, o3}
  None = None
  NapTicks = 2
  Punctual = TRUE
  LostWrites = FALSE
  HeapReuse = FALSE
SYMMETRY Symmetry
INVARIANTS
  FreshDescriptor
  ClosedIsCondemned
  NoOrphanSession
CHECK_DEADLOCK FALSE
