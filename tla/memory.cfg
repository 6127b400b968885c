SPECIFICATION CSpec
CONSTANTS
  Callers = {a, b}
  Sizes = {0, 1, 3, 5}
  HeapBytes = 11
  kMemoryAlign = 2
  PageSize = 4
  Threads = {t1, t2}
  Real = {r1, r2, r3}
  MayFail = TRUE
  MaxCount = 4
INVARIANTS ContentsKept RoomIsFound PointersGood MappingReleased
CHECK_DEADLOCK FALSE
