SPECIFICATION RowFairSpec
CONSTANTS
  kComputeWorkers = 2
  TotalTiles <- ThreeOneTwo
  RingPieces = 2
PROPERTIES
  IsReplies
  ReceivedIsAnswered
  ClientEnds
CHECK_DEADLOCK FALSE
