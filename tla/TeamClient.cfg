SPECIFICATION FairSpec
CONSTANTS
  w1 = w1
  w2 = w2
  Workers <- TwoWorkers
  RingPieces = 2
  Challenges = 3
  Parts = 2
INVARIANTS
  TeamInv
  AnsweredOnce
  Overtaking
  CutOnlyAtTheEnd
PROPERTIES
  QueueServed
  WorkersEnd
CHECK_DEADLOCK FALSE
