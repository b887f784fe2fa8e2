SPECIFICATION FairSpec
CONSTANTS
  r1 = r1
  r2 = r2
  Runs = {r1, r2}
  Carriers = {c1, c2}
  Edges = {}
  Main = main
  Watched = {}
  WakeOf <- SenderWakes
  SpawnOf <- NoSpawn
  Parkers = {r2}
  InitRing <- StaleThenBoth
  Capacity = 4
  ForceCross = TRUE
  Stale = Stale
  NoRun = NoRun
  NoCarrier = NoCarrier
PROPERTIES
  Progress
  KeepsPolicy
