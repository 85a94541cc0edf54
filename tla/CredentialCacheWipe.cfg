SPECIFICATION Spec
CONSTANTS
  Pods = {p1}
  AdminPods = {p1}
  Requests = {r1, r2}
  NoRequest = NoRequest
  MemTTL = 1
  HardExpiry = 2
  RedisTTL = 2
  MaxVersion = 1
  MaxFaults = 0
INVARIANTS KeyReachesUpstream
CHECK_DEADLOCK FALSE
