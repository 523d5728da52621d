SPECIFICATION Spec
CONSTANTS
  done = done
  current = current
  wide = wide
  s1 = s1
  s2 = s2
  Completed = {done}
  Interrupted = {current}
  Passes = {}
  PairsOf <- ShortPass
  Deltas = {1}
  StableId = TRUE
  MaxCrashes = 1
  MaxReruns = 1
  MaxSuspensions = 1
  MaxSlow = 1
  MaxDisturbances = 1
INVARIANTS PointsOnlyUnderVerdict RunningIsDriven OneDriver
CHECK_DEADLOCK FALSE
