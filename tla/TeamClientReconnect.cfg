SPECIFICATION FairSpec
CONSTANTS
  w1 = w1
  w2 = w2
  Workers <- TwoWorkers
  RingPieces = 2
  Challenges = 1
  Parts = 1
PROPERTY Reconnects
CHECK_DEADLOCK FALSE
