SPECIFICATION FairSpec
CONSTANTS
  c1 = c1
  c2 = c2
  Carriers = {c1, c2}
  Slots = 4
  SlotCount = 5
  Bytes = 26
  SizeOf <- Sizes
  Pinned = {4}
  Churn = {1}
  Reused = {2}
  HeldBy <- Held
  Values = {1}
  Scratch = {2, 3}
  MaxAllocs = 1
  MaxPasses = 2
  Moving = Moving
  Void = Void
INVARIANTS
  CellsHold
PROPERTIES
  ResolveAnswers
