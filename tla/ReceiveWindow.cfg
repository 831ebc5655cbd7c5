\* 2 us per tick, an offset of 5 ticks and a window of 4, and less time
\* stolen by other tasks than any of the two delays lasts.
SPECIFICATION FairSpec
CONSTANTS
  RxOffset = 10
  RxWindow = 8
  Word = 64
  Num = 1
  Den = 2
  MaxTx = 4
  MaxStolen = 4
  Cap = 36
INVARIANTS
  TypeOK
  OpensOnTime
  ListensLongEnough
  NeverSpinsInVain
PROPERTY WaitsEnd
