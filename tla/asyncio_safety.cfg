SPECIFICATION FairSpec
CONSTANTS
  N = 3
  ev = ev
  Events = {ev}
  Carriers = {c1, c2}
  Edge = edge
  Programs <- SomePrograms
  Timer = Timer
  None = None
INVARIANTS
  SleepersKept
PROPERTIES
  AwaitsAnswer
