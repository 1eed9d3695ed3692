CONSTANTS
  q1 = q1  q2 = q2  q3 = q3  k1 = k1  k2 = k2  None = None
  Key <- TwoKeys
  Request <- ThreeRequests
  Lifetimes <- ShortLife
  Freshness = 2  Timeout = 1  Capacity = 1
  MaxTime = 2
  ClockMayRegress = TRUE
  MayRestart = TRUE
SPECIFICATION MCSpec
CHECK_DEADLOCK FALSE
INVARIANTS IsolateIsOrderly AllowIsRecent
PROPERTIES DenialSticks EveryRequestEnds
