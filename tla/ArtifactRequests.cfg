SPECIFICATION FairSpec
CONSTANTS
  ux = ux
  code = code
  shot = shot
  reshot = reshot
  lint = lint
  Judges = {ux, code}
  Captures = {shot, reshot}
  Commands = {lint}
  AsksOf <- Distinct
  KindOf <- AllImages
  Budget <- OneEach
  Limit = 2
  MaxRequests = 2
  MaxPolls = 2
  
PROPERTIES EveryWaitEnds
CONSTRAINT Few
CHECK_DEADLOCK FALSE
