CONSTANTS
  l1 = l1
  l2 = l2
  h1 = h1
  h2 = h2
  c1 = c1
  c2 = c2
  t1 = t1
  u1 = u1
  t2 = t2
  None = None
  Looper = {l1, l2}
  Handler = {h1, h2}
  Scenarios <- MCScenarios
  Client = {c1, c2}
  Owner = {c1}
  LooperThread = {t1, u1, t2}
  LooperOf <- MCLooperOf
  ThreadOf <- MCThreadOf
  Awaits <- MCAwaits
  MaxTime = 1
SPECIFICATION FairSpec
CHECK_DEADLOCK FALSE
INVARIANTS
  NoOversleep
  ReplyWakesItsSender
PROPERTIES
  TakenInTurn
  CallsReturn
