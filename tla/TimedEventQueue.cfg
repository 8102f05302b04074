CONSTANTS
  kWakelockMinDelay = 0
  MaxTime = 2
  MaxEvents = 4
  MaxDeaths = 1
SPECIFICATION Spec
CHECK_DEADLOCK FALSE
INVARIANTS
  FlushHandlesAll
  NoWakeLockLeak
PROPERTIES
  FiresWhenDue
