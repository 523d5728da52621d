SPECIFICATION MCSpec
CONSTANTS
  Deadline = 3
  Window = 2
  MinInterval = 1
  MaxInterval = 4
  Increment = 1
  CommitTimes = {0, 1}
  RunTimes = {1}
  SlowCommit = 5
  SlowDispatch = 2
  MaxTrouble = 5
  s1 = s1
  s2 = s2
  None = None
  Sessions = {1}
  MaxMishaps = 2
  Slots = {r1, r2}
  Admins = {a1}
  Limit = 2
  Bought = 1
  MaxRows = 3
  MaxGrants = 1
  Grants <- AFew
  Callers = {c1, c2}
  Tokens = {1, 2, 3}
  Grace = 4
  MaxDelay = 2
  p1 = p1
  p2 = p2
  Retries = 1
  MaxBreaks = 1
INVARIANTS CreditsBalance StaysLoggedIn PushedIsThere NoSilentLag
PROPERTIES  InStepAgain PlayersReach PagesHear CallersAnswered
CHECK_DEADLOCK FALSE
