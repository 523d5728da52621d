SPECIFICATION FairSpec
CONSTANTS
  p1 = p1
  p2 = p2
  MaxDisturbances = 0
  Players = {p1, p2}
  MaxPatches = 2
  MaxInFlight = 1
  MaxCrashes = 1
  Events = {"webCrash", "idle"}
PROPERTIES WebBackstop GameServerEnds LastFinisherEnds
CONSTRAINT PlayersOrDisturbances
CHECK_DEADLOCK FALSE
