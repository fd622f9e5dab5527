SPECIFICATION Spec
CONSTANTS
  t1 = t1
  r1 = r1
  r2 = r2
  r3 = r3
  c1 = c1
  c2 = c2
  c3 = c3
  Task = {t1}
  RunId = {r1, r2}
  Caller = {c1, c2}
  TempTask = {t1}
  Level <- MCLevel
  DryRun <- MCDryRun
  MinGap <- MCMinGap
  RateLimits <- MCRateLimits
  DedupeWindow = 1
  ConfiguredLease = 1
  Timeout <- MCTimeout
  LeaseMargin = 1
  RunRetention = 1
  Horizon = 2
  RecoverLimit = 1
  SnapshotReads = TRUE
SYMMETRY Symmetry
INVARIANTS
  TypeOK
  OneActiveUnlessBlind
  RunLimitsHeld
PROPERTIES
  NoRepeatWithinWindow
  ImplementsRunSlots
