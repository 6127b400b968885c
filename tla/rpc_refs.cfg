SPECIFICATION Spec
CONSTANTS
  Client = Client
  Server = Server
  c1 = c1
  s1 = s1
  MaxRefs = 3
  Addr <- MCAddr
  Creator <- MCCreator
INVARIANTS Conservation NodeOutlivesReferences
CHECK_DEADLOCK FALSE
