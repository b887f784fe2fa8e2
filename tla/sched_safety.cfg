SPECIFICATION Spec
CONSTANTS
  r1 = r1
  r2 = r2
  Runs = {r1, r2}
  Carriers = {c1, c2}
  Edges = {e1}
  Main = main
  Watched = {r2}
  WakeOf <- MutualWake
  SpawnOf <- MainSpawns
  Parkers = {r1, r2}
  InitRing <- MainFirst
  Capacity = 2
  ForceCross = FALSE
  Stale = Stale
  NoRun = NoRun
  NoCarrier = NoCarrier
INVARIANTS
  RunsHeld
  HandedOver
PROPERTIES
  KeepsPolicy
