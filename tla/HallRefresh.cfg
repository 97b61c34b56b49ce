SPECIFICATION Spec
CONSTANTS
  Workers = {w1}
  Sessions = {s1, s2}
  Tokens = {t1}
  None = None
  Freed = Freed
INVARIANT RefreshIsOfPlayer
CHECK_DEADLOCK FALSE
