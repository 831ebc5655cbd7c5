CONSTANTS
  t1 = t1
  t2 = t2
  t3 = t3
  f1 = f1
  f2 = f2
  f3 = f3
  f4 = f4
  Tasks = {t1, t2, t3}
  Objects = {g1}
  Flags = {f1, f2, f3, f4}
  PrioMax = 2
  None = None
  Base <- MCBase
  Waits <- MCWaits
  Masks <- MCMasks
SPECIFICATION FairSpec
INVARIANTS TypeOK NotAsleepOnSetFlags
PROPERTIES IsEventFlags ReadiedReturns
CHECK_DEADLOCK FALSE
