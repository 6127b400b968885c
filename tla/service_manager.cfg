SPECIFICATION FairSpec
CONSTANTS
  server = server
  client = client
  s1 = s1
  s2 = s2
  l1 = l1
  k1 = k1
  na = na
  nb = nb
  NoService = NoService
  Name = {na, nb}
  Proc = {server, client}
  Service = {s1, s2}
  Listener = {l1}
  Counter = {k1}
  Owner <- MCOwner
  Scenarios <- MCScenarios
  ServiceFor <- MCServiceFor
  CounterOf <- MCCounterOf
  CanAdd <- MCCanAdd
  CanFind <- MCCanFind
  MaxCallbacks = 2
  MaxInbox = 2
INVARIANTS ToldOfNews DeadAreForgotten RegistrationsAgree
PROPERTIES ExitsUnused UnusedServicesEnd
CHECK_DEADLOCK FALSE
