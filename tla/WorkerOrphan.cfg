SPECIFICATION FairSpec
CONSTANTS
  t1 = t1
  t2 = t2
  r1 = r1
  r2 = r2
  r3 = r3
  w1 = w1
  w2 = w2
  Task = {t1, t2}
  RunId = {r1, r2}
  Proc = {w1}
  TempTask = {t1}
  Level <- MCManualLevel
  DryRun <- MCDryRun
  MinGap <- MCMinGap
  RateLimits <- MCRateLimits
  DedupeWindow = 0
  ConfiguredLease = 1
  Timeout <- MCTimeout
  LeaseMargin = 1
  RunRetention = 0
  Horizon = 1
  ListLimit = 2
  MaxFaults = 1
PROPERTIES
  QueuedRunsServed
