SPECIFICATION Spec
CONSTANTS
  Flag <- MCFlag
  Assignment <- MCAssignment
  MaxCount = 9
  MaxScan = 3
  ScanLimit = 1
  Classifier = {}
  MentionsTest = {}
  PathLike = {}
  ShortNoVerify = {}
  ShortValued = {}
  HooksOff = {}
  TestFileName = {}
  SnapshotName = {}
  PathOf <- MCPathOf
  Dialect <- MCDialect
  Agent = {"claude", "grok"}
INVARIANTS
  TypeOK
  GreenByStatus
  GreenBySummary
  NoFalseRed
  CountsAsRun
  ExitAsHappened
CHECK_DEADLOCK FALSE
