SPECIFICATION FairSpec
CONSTANTS
  done = done
  current = current
  wide = wide
  s1 = s1
  s2 = s2
  Completed = {}
  Interrupted = {current}
  Passes = {}
  PairsOf <- OnePass
  Deltas = {1}
  StableId = FALSE
  MaxCrashes = 1
  MaxReruns = 0
  MaxSuspensions = 1
  MaxSlow = 0
  MaxDisturbances = 2
PROPERTIES AbandonedRunsClose
CHECK_DEADLOCK FALSE
