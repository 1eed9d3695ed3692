CONSTANTS
  aws = aws  gcp = gcp  azure = azure  hetzner = hetzner  vultr = vultr  civo = civo
  Source <- Laptops
  TargetOf <- Clouds
  DeclaredOrder <- PolicyOrder
  RollbackWindow = 1
  MaxTroubles = 3
SPECIFICATION Spec
PROPERTY RollbackSparesLeader
CHECK_DEADLOCK FALSE
