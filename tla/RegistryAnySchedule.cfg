SPECIFICATION Spec
CONSTANTS
  Workers = {w1, w2}
  Main = main
  Conns = {c1, c2}
  FDs = {1, 2}
  Objs = {o1, o2}
  None = None
  NapTicks = 2
  Punctual = FALSE
  LostWrites = TRUE
  HeapReuse = TRUE
SYMMETRY Symmetry
INVARIANTS
  TypeOK
  RegistryOwnership
PROPERTIES
  ImplementsSessionTable
CHECK_DEADLOCK FALSE
