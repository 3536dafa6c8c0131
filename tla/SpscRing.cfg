SPECIFICATION FairSpec
CONSTANTS
  Capacity = 4
  MaxBytes = 9
INVARIANTS
  RingInv
  SpansApart
PROPERTIES
  IsByteStream
  CommittedIsFed
CHECK_DEADLOCK FALSE
