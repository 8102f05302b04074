CONSTANTS
  mFrameCount = 2
  mFrameCountP2 = 2
  Modulus = 8
  mMinimum = 0
  Scenarios <- MCInvalidated
  First = 6
SPECIFICATION MCSpec
INVARIANTS
  InvalidIsNoticed
