SPECIFICATION MCSpec
CONSTANTS
  c1 = c1
  c2 = c2
  Conns <- TwoConns
  Numbered <- TwoConns
  Plain <- TwoConns
  Split <- TwoConns
  Numbers = {3}
  MaxChallenges = 3
  Window = 1
  Mode = 2
  BurstEvery = 1
  BurstLength = 1
INVARIANTS
  BlastInv
  LogMatches
  StrangersOnlyAfterClose
SYMMETRY ConnSymmetry
CHECK_DEADLOCK FALSE
