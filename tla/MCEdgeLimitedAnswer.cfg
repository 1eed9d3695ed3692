CONSTANTS
  q1 = q1  q2 = q2  east = east  west = west
  orgA = orgA  orgB = orgB  keyA = keyA  None = None
  Request <- OneRequest
  Region <- TwoRegions
  Distance <- TwoDistance
  NameOrder <- TwoNameOrder
  Identity <- Callers
  JwksTtl = 2  JwtTtl = 2  AuthTtl = 2  RefusalTtl = 1
  MaxFlight = 1  Expiry = 4  MaxTime = 4
SPECIFICATION MCSpec
CHECK_DEADLOCK FALSE
INVARIANT LimitedIsTold
