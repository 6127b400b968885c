SPECIFICATION FairSpec
CONSTANTS
  Threads = {a1, l1}
  Loopers = {l1}
  Handles = {h1}
  Proxies = {p1, p2}
  Recipients = {r1, r2}
  None = None
  Scenarios <- ProxyScenarios
INVARIANTS DriverCounts ProxiesNamed ToldOnlyWhileLinked NothingLeaks
PROPERTIES DeathsReported
CHECK_DEADLOCK FALSE
