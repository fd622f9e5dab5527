SPECIFICATION Spec
CONSTANTS
  Docker = docker
  Source <- MCSource
  Check = {}
  Printer = {}
  Webhook = {}
  ListedIds = {}
  Sentence <- MCSentence
  Allowed <- MCAllowed
  Brief <- MCBrief
  Window = 2
  Recent = 2
  MaxIntakes = 2
  MaxEdits = 1
  MaxFaults = 1
CONSTRAINT TwoThings
INVARIANTS
  TypeOK
  AskedBeforeForwarded
  ConfirmedLastAsked
  GateCovers
  ForwardedFlagged
  AskedCanBeConfirmed
  RefusedForTask
