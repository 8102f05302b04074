CONSTANTS
  w1 = w1
  w2 = w2
  Word <- MCWord
  Modulus = 16
  MAX_TRIES = 5
  MaxLag = 6
SPECIFICATION FairSpec
INVARIANTS
  AckIsTrue
PROPERTIES
  Refinement
  LastPushIsSeen
