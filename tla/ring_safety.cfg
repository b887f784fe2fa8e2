SPECIFICATION FairSpec
CONSTANTS
  Procs = {p1, p2}
  Handles = {h1, h2, hx}
  StaleHandles = {hx}
  Capacity = 3
  Places = 3
  NoHandle = NoHandle
  Junk = Junk
INVARIANTS
  RingHeld
PROPERTIES
  QueueServed
