SPECIFICATION Spec
CONSTANTS
  Pods = {p1, p2}
  AdminPods = {p1}
  Requests = {r1, r2}
  NoRequest = NoRequest
  MemTTL = 1
  HardExpiry = 2
  RedisTTL = 2
  MaxVersion = 2
  MaxFaults = 1
INVARIANTS TypeOK
PROPERTIES StaleKeysDieOut LookupsEnd
CHECK_DEADLOCK FALSE
