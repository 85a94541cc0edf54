SPECIFICATION CounterSpec
CONSTANTS
  Tokens = {t1}
  Cred = cr
  Calls = {c1, c2, c3}
  Initial <- InitialMC
  Amount <- AmountMC
  Refillable <- RefillableMC
  MaxIntervals = 2
  MaxFailures = 2
SYMMETRY SymmetryMC
INVARIANTS
  CounterTypeOK
  QuotaHolds
  RefusalsAreFree
CHECK_DEADLOCK FALSE
