SPECIFICATION Spec
CONSTANTS
  Clients = {c1, c2}
  Taps = {t1, t2}
  NoTap = NoTap
  MaxEvents = 3
  Cursors = {0, 1}
  BufSize = 1
  ReadCount = 2
INVARIANTS
  TypeOK
  OnlyNamedGaps
  NoLeakedTap
PROPERTIES
  DeliveredOrClosed
CHECK_DEADLOCK FALSE
