CONSTANTS
  node = node  brain = brain  None = None
  NodeSet <- node
  BrainSet <- brain
  MaxReplicas = 2
  Matching <- OwnClaims
  MaxChanges = 2
  MaxFaults = 0
SPECIFICATION Spec
INVARIANT StorageReadyMeansBound
