SPECIFICATION FairSpec
CONSTANTS
  FCMod = 2
  AcSeq <- MCAcSeq
  RxChannel = 11
  RxRequests = 2
  CommRequests = 1
  Frames <- SinkFrames
  Faults <- NoFaults
  None = None
PROPERTY ChannelConfigurationKept
