SPECIFICATION FairSpec
CONSTANTS
  Threads = {k1, k2, k3}
  Callers = {c1}
  MaxThreads = 2
  MaxJoins = 2
  None = None
INVARIANTS LifeCycleSound
PROPERTIES ShutdownTerminates
CHECK_DEADLOCK FALSE
