SPECIFICATION Spec
CONSTANTS
  p1 = p1
  p2 = p2
  MaxDisturbances = 2
  Players = {p1}
  MaxPatches = 2
  MaxInFlight = 2
  MaxCrashes = 1
  Events = {"delete", "observer"}
INVARIANTS StampsFollowStatus OneChainPerEnding 
PROPERTIES KeepsPromise
CONSTRAINT FewDisturbances
CHECK_DEADLOCK FALSE
