SPECIFICATION Spec
CONSTANTS
  FCMod = 3
  AcSeq <- MCAcSeq
  RxChannel = 11
  RxRequests = 2
  CommRequests = 2
  Frames <- AllFrames
  Faults <- AllFaults
  None = None
INVARIANTS
  TypeOK
  FreshFrameCounter
  SuccessSecuredAsNegotiated
  CommissioningOnGrantedChannel
  OneCommandAtATime
  NeverAsleepOnWork
  ReportNotMissed
PROPERTIES
  ReportedAfterSuccess
  ServesSafely
