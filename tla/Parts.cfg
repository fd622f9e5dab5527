SPECIFICATION PartSpec
CONSTANTS
  c1 = c1
  c2 = c2
  c3 = c3
  q1 = q1
  q2 = q2
  Source = {"s1", "s2"}
  Capability = {"p1"}
  Memory = {"m1", "m2"}
  Client = {c1, c2, c3}
  SourceDrafts <- MCSourceDrafts
  CapabilityDrafts <- MCCapabilityDrafts
  MemoryDrafts <- MCMemoryDrafts
  Registry <- MCRegistry
  ForgetLimit = 2
  Reader = {q1, q2}
  OwnFeeds <- MCOwnFeeds
  FeedTable <- MCFeedTable
  TableShare = 5
  FeedAnswers <- MCFeedAnswers
  ResearchRequests <- MCRequests
  CacheFloor = 2
  LastHour = 1
  Sections = 2
  SectionLimit = 1
  TableMax = 2
  Tasks <- MCTasks
  Brief <- MCBrief
  RegistryFiles <- MCRegistryFiles
  Webs <- MCWebs
  HookAnswers <- MCHookAnswers
  Checks <- MCChecks
  HealthAnswers <- MCHealthAnswers
  Printers <- MCPrinters
  PrinterAnswers <- MCPrinterAnswers
  BackupRules <- MCBackupRules
  BackupSets <- MCBackupSets
  Window = 1
  RecentLimit = 2
  MaxRuns = 3
  MaxDeliveryFaults = 1
CONSTRAINT OneKind
SYMMETRY SymmetricParts
INVARIANTS
  TypeOK
  PlanAgrees
  OpenPlanCanFinish
  CollisionsAreTwins
  ResearchTypeOK
  FailsOnlyByRepetition
  EmptyOnlyWithoutItems
  DeliveryTypeOK
  AlertsCollapsed
  SilentOnlyAfterFailure
  DigestSound
PROPERTIES
  DecisionsStand
