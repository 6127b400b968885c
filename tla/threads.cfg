SPECIFICATION FairSpec
CONSTANTS
  Threads = {m, p1, p2, p3}
  MainThread = m
  Blockers = {b1, b2}
  Senders <- TwoSenders
  WorkSources = {8}
  Own <- ThisProcess
  None = None
  Scenarios <- ThreadScenarios
INVARIANTS PoolSound IdentityKept
PROPERTIES TokensRestore WaitersReturn
CHECK_DEADLOCK FALSE
