SPECIFICATION Spec
CONSTANTS
  OBJ = 2
  MinWords = 3
  Ids <- MCIds
  Refs <- MCRefs
  Scenarios <- MCScenarios
INVARIANTS ObjectsConserved ObjectsGuarded MemoryCounted
CHECK_DEADLOCK FALSE
