SPECIFICATION FairSpec
CONSTANTS
  kRingBufferCapacity = 3
  kRecvBufferSize = 2
  MaxBytes = 2
PROPERTY AvailableIsRead
CHECK_DEADLOCK FALSE
