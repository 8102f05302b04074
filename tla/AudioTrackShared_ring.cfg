CONSTANTS
  mFrameCount = 3
  mFrameCountP2 = 4
  Modulus = 16
  mMinimum = 0
  Scenarios <- MCRing
  First = 14
SPECIFICATION MCFairSpec
PROPERTIES
  Refinement
  WriterGetsRoom
