SPECIFICATION FairSpec
CONSTANTS
  r1 = r1
  r2 = r2
  Runs = {r1, r2}
  Carriers = {c1, c2}
  Edges = {e1}
  Main = main
  Watched = {r2}
  WakeOf <- SenderWakes
  SpawnOf <- NoSpawn
  Parkers = {r2}
  InitRing <- TwiceTheSame
  Capacity = 5
  ForceCross = FALSE
  Stale = Stale
  NoRun = NoRun
  NoCarrier = NoCarrier
PROPERTIES
  WatchdogRepairs
