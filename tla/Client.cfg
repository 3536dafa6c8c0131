SPECIFICATION ClientFairSpec
CONSTANTS
  kComputeWorkers = 2
  TotalTiles <- TwoThenOne
  RingPieces = 2
INVARIANTS
  IInv
  ClientInv
PROPERTIES
  IsRound
  IsReplies
  JobStableWhileRead
  ReceivedIsAnswered
  ClientEnds
CHECK_DEADLOCK FALSE
