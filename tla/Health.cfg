SPECIFICATION FairSpec
CONSTANTS
  work = work
  feat = feat
  gap = gap
  r1 = r1
  r2 = r2
  c1 = c1
  c2 = c2
  Commits = {work}
  Final = feat
  Missing = gap
  Reports = {r1, r2}
  CommitOf <- Both
  Closers = {c1, c2}
  MaxCrashes = 1
INVARIANTS PaidOnceOnBest
PROPERTIES EveryCheckpointSettles BonusFollowsClose
CONSTRAINT OneTwin
CHECK_DEADLOCK FALSE
