CONSTANTS
  h1 = h1  h2 = h2  r1 = r1  r2 = r2  w1 = w1  w2 = w2  w3 = w3
  NoLease = NoLease  Null = Null
  Holder <- TwoHolders
  TtlInput <- MCTtlInput
  MinTtl = 1  MaxTtl = 3
  Resource <- OneResource
  MaxTime = 2  MaxToken = 4
  MaxCalls <- FewCalls
  ClockMayRegress = TRUE
  MayAbandon = TRUE
  PatientResource <- TwoResources
  PatientMaxTime = 3  PatientMaxToken = 5
  PatientMaxCalls <- MoreCalls
  Writer <- ThreeWriters
  BlindWriter <- OneBlindWriter
  MaxOps = 1  MaxVersion = 3
SPECIFICATION UsesSpec
INVARIANTS TypeOK FencingInv BelieversAreFenced WaitingCallersExclude AcknowledgedIsKept WrittenAtMostOnce
PROPERTIES NewHolderOutranksAll LeasesAreFencedLock
CHECK_DEADLOCK FALSE
