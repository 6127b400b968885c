SPECIFICATION Spec
CONSTANTS
  Threads = {t1, t2, t3}
  Proxies = {1, 2, 3, 4}
  Links = {1, 2, 3, 4, 5}
  Classes = {c1, c2}
  Strangers = {c3}
  Cookies = {k1, k2}
  None = None
  Absent = Absent
  Scenarios <- NdkScenarios
INVARIANTS ProxiesHold AssociatedStays CookiesReleasedOnce DeathsTold
SYMMETRY Alike
CHECK_DEADLOCK FALSE
