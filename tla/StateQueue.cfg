CONSTANTS
  v1 = v1
  v2 = v2
  Torn = Torn
  kN = 4
  Value <- MCValue
SPECIFICATION FairSpec
INVARIANTS
  MutatingIsPrivate
  PushReturn
PROPERTIES
  Refinement
  EveryPushIsSeen
  PushReturns
