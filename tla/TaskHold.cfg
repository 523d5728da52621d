SPECIFICATION SuccessiveSpec
CONSTANTS
  a = a
  b = b
  a1 = a1
  a2 = a2
  b1 = b1
  Players = {a}
  Conns = {a1, a2}
  Owner <- OfA
  Projects <- Holding
  FirstRequest = 3
  MaxProbes = 2
  MaxFaults = 0
  MaxCrashes = 0
PROPERTIES HeldIsReleased
CHECK_DEADLOCK FALSE
