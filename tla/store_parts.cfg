SPECIFICATION Spec
CONSTANT None = None
CHECK_DEADLOCK FALSE
INVARIANTS
  SuccessorStands
  SourceStands
  TreeStands
  PackagesHold
  SceneServed
  FloorsFit
  CityStands
PROPERTIES
  ComposedAnswers
  MemoriesAccrete
