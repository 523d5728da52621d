SPECIFICATION MCSpec
CONSTANTS
  Ticks = 3
  Durations = {1, 2}
  MaxTime = 14
  MaxPauses = 3
  Verdicts = {v1}
  OfSession = {}
  MaxStir = 2
INVARIANTS ClockAccountsForPlay VerdictsShown 
CHECK_DEADLOCK FALSE
