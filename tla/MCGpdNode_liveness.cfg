SPECIFICATION FairSpec
CONSTANTS
  FCMod = 2
  AcSeq <- MCAcSeq
  RxChannel = 11
  RxRequests = 2
  CommRequests = 1
  Frames <- NoisyFrames
  Faults <- NoFaults
  None = None
INVARIANT SecuredWithDeviceKey
PROPERTIES
  ServesCommands
  TransientStatesPass
  CommissioningReported
