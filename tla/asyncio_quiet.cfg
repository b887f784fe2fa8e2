SPECIFICATION Spec
CONSTANTS
  N = 2
  ev = ev
  Events = {ev}
  Carriers = {c1, c2}
  Edge = edge
  Programs <- Ping
  Timer = Timer
  None = None
INVARIANT DeadlockIsReal
