SPECIFICATION Spec
CONSTANTS
  Workers = {w1, w2}
  Sessions = {s1, s2}
  Tokens = {t1, t2}
  None = None
  Freed = Freed
SYMMETRY Symmetry
INVARIANTS
  TypeOK
  DuplicateNeedsRace
  CodeAccountedFor
  DanglingIsReplaced
CHECK_DEADLOCK FALSE
