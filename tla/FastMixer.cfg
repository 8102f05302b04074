CONSTANTS
  t1 = t1
  t2 = t2
  NULL = NULL
  Track <- MCTrack
  nFastTracks = 1
  MaxGen = 4
  MaxColdGen = 1
  Scenarios <- MCScenarios
SPECIFICATION FairSpec
INVARIANTS
  NoDanglingTrack
  MixesCurrentTracks
  NoReusedState
  IdleIsQuiet
  FreeSlotIsUnused
PROPERTIES
  PushReturns
  PushedStateIsSeen
CHECK_DEADLOCK FALSE
