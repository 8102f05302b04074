CONSTANTS
  f1 = f1
  n1 = n1
  f2 = f2
  n2 = n2
  Fast <- MCFast
  Normal <- MCNormal
  Static <- MCStatic
  mFrameCount = 2
  Latency = 2
  MaxTracks = 1
SPECIFICATION FairSpec
CHECK_DEADLOCK FALSE
INVARIANTS
  OutputsAreCounted
  NoIdleTrackActive
PROPERTIES
  ResetIsUnpolled
  StoppedTrackLeaves
