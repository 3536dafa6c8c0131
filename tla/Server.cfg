SPECIFICATION MCFairSpec
CONSTANTS
  c1 = c1
  c2 = c2
  Conns <- Reconnecting
  NameOf <- SameName
  Numbered <- First
  Plain <- Reconnecting
  Split <- Reconnecting
  Numbers = {1, 2}
  MaxChallenges = 2
  Window = 1
INVARIANTS
  ServerInv
  LogMatches
  SentAsListed
PROPERTIES
  ChallengesLogged
  AcceptedIsServed
CHECK_DEADLOCK FALSE
