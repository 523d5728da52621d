SPECIFICATION FairSpec
CONSTANTS
  p1 = p1
  p2 = p2
  s1 = s1
  s2 = s2
  Players = {p1, p2}
  Slots <- TwoAndOne
  Timeout = 2
  MaxCrashes = 1
INVARIANTS NoGhosts
PROPERTIES NewestStaysRegistered FullTimeoutToReconnect AbandonedSessionEnds
CHECK_DEADLOCK FALSE
