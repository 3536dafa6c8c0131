SPECIFICATION Spec
CONSTANTS
  kRingBufferCapacity = 3
  kRecvBufferSize = 2
  MaxBytes = 7
INVARIANT RingInv
PROPERTY IsByteStream
CHECK_DEADLOCK FALSE
