SPECIFICATION Spec
CONSTANTS
  Gens = {1, 2, 3, 4, 5}
  OrgOf <- OrgOfMC
  Cost <- CostMC
  Orgs = {1, 2}
  Workers = {w1, w2}
  BatchSize = 2
  PartsPerCredit = 4
  Deposits <- DepositsMC
  MaxDeposits = 3
INVARIANTS
  TypeOK
  BalanceNonNegative
  DebitIsCumulative
  RowCreditsMatchLedger
  LocksAreOrdered
CHECK_DEADLOCK FALSE
