SPECIFICATION Spec
CONSTANTS
  Workers = {w1, w2}
  Sessions = {s1, s2}
  Tokens = {t1}
  None = None
  Freed = Freed
INVARIANT OneSessionPerToken
CHECK_DEADLOCK FALSE
