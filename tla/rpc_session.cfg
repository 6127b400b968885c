SPECIFICATION FairSpec
CONSTANTS
  Client = Client
  Server = Server
  tc1 = tc1
  tc2 = tc2
  ts1 = ts1
  ts2 = ts2
  root = root
  cb = cb
  NoThread = NoThread
  Root = root
  Threads <- MCThreads
  Local <- MCLocal
  Scenarios <- MCScenarios
  MaxId = 1
  MaxNodes = 5
  MaxPending = 2
  MaxAsyncNumber = 3
INVARIANTS ChecksThatHold NothingLeaks OnewaySequential
PROPERTIES RefinesRpcRefs CallsReturn
CHECK_DEADLOCK FALSE
