CONSTANTS
  None = None  o1 = o1  o2 = o2  a1 = a1  a2 = a2  n1 = n1  n2 = n2  n3 = n3  x = x
  aws = aws  gcp = gcp  azure = azure
  Parts = {"durability", "bootstrap", "snapshots", "jetstream", "reports", "ledger", "intake"}
  AllowExample = FALSE
  Key <- Pair  Workload <- One  AllowTemporaryLocalPath = TRUE  RequireDistinctReviewer = TRUE
  MaxObservationAge = 1  MaxBackupAge = 1  MaxRestoreAge = 1  DurabilityTime = 3
  Cluster <- Pair  Object <- One
  SecretObservationAge = 1  MaxRefreshAge = 1  MaxRotationAge = 3  BootstrapTime = 4
  SnapshotName <- Pair  Size <- TwoSizes  MaxSnapshotAge = 1  MaxSkew = 1  SnapshotTime = 3
  Server <- Servers  MaxActive = 1  MaxLiveAge = 2  MaxMessages = 1  JetStreamTime = 2
  Scenario <- PowerLosses  Soak = "seven-day-soak"  MustPrecede <- FollowerFirst
  SevenDays = 2  MaxReportAge = 1  Tolerance = 0  ReportTime = 4
  FailureDomain <- Servers  RequireDistinct <- Servers  RequireDistinctFleetReviewer = TRUE
  Name <- Pair  Program <- One  Slug <- Spelled  Category <- Speaking
  Sender <- TwoOperators  Statuses <- StatusesUsed  MaxEvents = 3
  Call <- Servers  Digest <- TwoOperators  MaxTries = 2
  Laptop <- Laptops  NameOrder <- Alphabetical  Operator <- TwoOperators
  InitialRoles <- OneLeader  MovingRoles = {"fiducia"}  Specs <- GoodAndBad
  PlannerAllows = FALSE  ValidatorAllows = FALSE
  MaxObservations = 2  MaxElections = 1  MaxAttempts = 6  MaxFailures = 1
SPECIFICATION EvidenceSpec
SYMMETRY Symmetry
CHECK_DEADLOCK FALSE
INVARIANTS
  NeededKeysWereShown HeldValuesAreRecent BucketRestoresRecentState AnyOneLossLeavesQuorum
  LaunchIsEarned QuotaIsEarned RepeatedMailsAreBounded RepliesAgree
