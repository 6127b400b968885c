SPECIFICATION FairSpec
CONSTANTS
  t1 = t1
  t2 = t2
  t3 = t3
  a1 = a1
  a2 = a2
  o1 = o1
  o2 = o2
  i1 = i1
  NoThread = NoThread
  Adder <- MCAdder
  Threads = {t1, t2, t3, a1, a2}
  Serving <- MCServing
  Outgoing <- MCOutgoing
  SetUps <- InUse
  MaxDepth = 3
  Budget = 5
INVARIANTS ConnectionsExclusive
PROPERTIES FindReturns
CHECK_DEADLOCK FALSE
