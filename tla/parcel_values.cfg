SPECIFICATION Spec
CONSTANTS
  OBJ = 2
  MinWords = 3
  BlobLimit = 2
  Refs <- MCRefs
  Files <- MCFiles
  Cases <- MCCases
  Scenarios <- MCScenarios
INVARIANTS ValuesArrive ReaderOwnsDescriptors WorkSourceArrives
CHECK_DEADLOCK FALSE
