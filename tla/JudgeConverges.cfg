SPECIFICATION FairSpec
CONSTANTS
  done = done
  current = current
  wide = wide
  s1 = s1
  s2 = s2
  Completed = {done}
  Interrupted = {}
  Passes = {wide}
  PairsOf <- ShortPass
  Deltas = {1}
  StableId = TRUE
  MaxCrashes = 1
  MaxReruns = 0
  MaxSuspensions = 1
  MaxSlow = 1
  MaxDisturbances = 1
PROPERTIES EventuallySettled JudgingConverges
CHECK_DEADLOCK FALSE
