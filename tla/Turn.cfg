SPECIFICATION Spec
CONSTANTS
  Flag <- MCFlag
  Assignment = {"CI=1"}
  MaxCount = 9
  MaxScan = 20
  ScanLimit = 1
  Classifier <- MCClassifier
  MentionsTest = {}
  PathLike = {}
  ShortNoVerify = {}
  ShortValued = {}
  HooksOff = {}
  TestFileName = {"test"}
  SnapshotName = {}
  PathOf <- MCPathOf
  File <- MCFile
  AtStart <- MCAtStart
  Lines <- MCLines
  Root <- MCRoot
  Cwd <- MCCwd
  Scenario <- MCScenario
INVARIANTS
  TypeOK
  NothingRevertedTwice
  ReportedMeansUndone
  UndoneIsReported
  EndedGreenAsHappened
  DecidedAsVerified
  StreakIsLongest
CHECK_DEADLOCK FALSE
