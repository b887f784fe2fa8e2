SPECIFICATION FairSpec
CONSTANTS
  Procs = {p1, p2}
  Handles = {h1, h2, hx}
  StaleHandles = {hx}
  Capacity = 2
  Places = 2
  NoHandle = NoHandle
  Junk = Junk
PROPERTY CompactorGetsIn
