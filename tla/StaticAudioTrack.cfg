CONSTANTS
  mFrameCount = 3
  MIN_LOOP = 2
  MaxLoops = 2
  FrameCount = 2
  Scenarios <- MCScenarios
SPECIFICATION FairSpec
INVARIANTS
  AccountsAgree
PROPERTIES
  PlaysInOrder
  PlaysToTheEnd
