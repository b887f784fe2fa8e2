SPECIFICATION Spec
CONSTANTS
  r1 = r1
  r2 = r2
  Runs = {r1, r2}
  Carriers = {c1, c2, c3}
  Edges = {}
  Main = main
  Watched = {}
  WakeOf <- SenderWakes
  SpawnOf <- NoSpawn
  Parkers = {r2}
  InitRing <- BothRuns
  Capacity = 4
  ForceCross = FALSE
  Stale = Stale
  NoRun = NoRun
  NoCarrier = NoCarrier
INVARIANT NoLostWake
