CONSTANTS
  aws = aws  gcp = gcp  azure = azure  hetzner = hetzner  vultr = vultr  civo = civo
  Source <- Laptops
  TargetOf <- Clouds
  DeclaredOrder <- PolicyOrder
  RollbackWindow = 1
  MaxTroubles = 3
SPECIFICATION FairSpec
INVARIANTS PlanFitsCluster VotersAreCaughtUp SourcesRetained
PROPERTIES LeaderIsTransferredFirst MigrationCompletes
CHECK_DEADLOCK FALSE
