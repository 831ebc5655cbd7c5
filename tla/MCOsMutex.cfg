CONSTANTS
  t1 = t1
  t2 = t2
  t3 = t3
  Tasks = {t1, t2, t3}
  Objects = {m1, m2}
  PrioMax = 4
  None = None
  MaxNest = 2
  MaxRounds = 28
  MaxChanges = 1
  Base <- MCBase
SPECIFICATION Spec
INVARIANTS TypeOK OwnedByOne ToldTheTruth WalkEnds InheritsExactly
PROPERTY NoInversion
CHECK_DEADLOCK FALSE
