CONSTANTS
  node = node  brain = brain  None = None
  NodeSet <- node
  BrainSet <- brain
  MaxReplicas = 1
  Matching <- OwnClaims
  MaxChanges = 3
  MaxFaults = 1
SPECIFICATION FairSpec
INVARIANT StatusIsOrderly
PROPERTIES StatusSettles PatchingStops
