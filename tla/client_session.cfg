SPECIFICATION FairSpec
CONSTANTS
  Threads = {k1, k2, k3, k4}
  RemoteMaxThreads = 2
  MaxOutgoingThreads = 3
  MaxIncomingThreads = 2
  MaxSetups = 2
PROPERTIES ShutdownComplete
CHECK_DEADLOCK FALSE
