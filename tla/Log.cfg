SPECIFICATION LogSpec
CONSTANTS
  MaxEntries = 4
  MaxCrashes = 2
  n1 = n1
  n2 = n2
  none = none
  Names <- ThreeNames
  Empty <- none
  Latencies <- FewLatencies
  Answers <- TwoAnswers
  correctAnswer = 7
  INT_MAX = 6
  Null = Null
  Matrices <- SmallMatrices
  kModulo = 3
  kComputeTile = 2
  kComputeWorkers = 2
INVARIANTS
  ResultsInv
  AtMostOneTornPerCrash
  ShownWasTrue
  WinnerIsFastest
  Exact
CHECK_DEADLOCK FALSE
