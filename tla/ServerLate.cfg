SPECIFICATION MCSpec
CONSTANTS
  c1 = c1
  c2 = c2
  Conns <- First
  NameOf <- FirstName
  Numbered <- First
  Plain <- NoOne
  Split <- First
  Numbers = {3}
  MaxChallenges = 2
  Window = 1
INVARIANTS
  OnlyActive
CHECK_DEADLOCK FALSE
