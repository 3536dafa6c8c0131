SPECIFICATION ParsersSpec
CONSTANTS
  kMaxMatrixDim = 2
  Conversations <- PairsAndAnyText
INVARIANTS
  ParserInv
  AnswersIntact
  Prompt
  TeamAgrees
  V1Agrees
CHECK_DEADLOCK FALSE
