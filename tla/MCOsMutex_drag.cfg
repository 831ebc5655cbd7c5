CONSTANTS
  t1 = t1
  t2 = t2
  t3 = t3
  Tasks = {t1, t2, t3}
  Objects = {m1, m2}
  PrioMax = 4
  None = None
  MaxNest = 2
  MaxRounds = 28
  MaxChanges = 0
  Base <- MCBase
SPECIFICATION Spec
INVARIANT NeverBelowBase
CHECK_DEADLOCK FALSE
