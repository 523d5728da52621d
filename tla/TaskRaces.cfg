SPECIFICATION Spec
CONSTANTS
  a = a
  b = b
  a1 = a1
  a2 = a2
  b1 = b1
  Players = {a}
  Conns = {a1, a2}
  Owner <- OfA
  Projects <- All
  FirstRequest = 3
  MaxProbes = 4
  MaxFaults = 1
  MaxCrashes = 1
CONSTRAINT OneDisturbance
INVARIANTS PassMeansAnswer PaidTwiceOnlyByOverlap OneProbeOnceSuperseded BonusIsForCompleting
PROPERTIES KeepsOrder
CHECK_DEADLOCK FALSE
