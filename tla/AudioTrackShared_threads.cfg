CONSTANTS
  mFrameCount = 2
  mFrameCountP2 = 2
  Modulus = 8
  mMinimum = 0
  Scenarios <- MCThreads
  First = 6
SPECIFICATION MCSpec
INVARIANTS
  Integrity
  NeverCorrupt
  NoLostWakeup
PROPERTIES
  Refinement
