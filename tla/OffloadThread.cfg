CONSTANTS
  t1 = t1
  t2 = t2
  None = None
  Track <- MCTrack
  Session <- MCSession
  HalSize = 2
  Sequences = 16
  MaxCalls <- MCCalls
SPECIFICATION MCFairSpec
CHECK_DEADLOCK FALSE
INVARIANTS
  AnswerIsAwaited
  WaitIsAnswered
PROPERTIES
  StoppedTrackLeaves
