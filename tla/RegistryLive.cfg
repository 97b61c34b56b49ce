SPECIFICATION FairSpec
CONSTANTS
  Workers = {w1, w2}
  Main = main
  Conns = {c1, c2}
  FDs = {1}
  Objs = {o1, o2}
  None = None
  NapTicks = 2
  Punctual = FALSE
  LostWrites = TRUE
  HeapReuse = FALSE
PROPERTIES
  CondemnedDestroyed
  MainReturns
CHECK_DEADLOCK FALSE
