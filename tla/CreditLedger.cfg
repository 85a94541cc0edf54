SPECIFICATION LedgerSpec
CONSTANTS
  Keys = {k1}
  NoKey = NoKey
  GrantAmounts = {2}
  SpendAmounts = {1, 3}
  Expiries = {1, 2, 4}
  MaxNow = 3
  MaxEntries = 4
INVARIANTS
  LedgerTypeOK
  ReplayConservesBalance
PROPERTIES
  SweepIsExact
  ImplementsAccount
CHECK_DEADLOCK FALSE
