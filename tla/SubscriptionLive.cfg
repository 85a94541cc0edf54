SPECIFICATION Spec
CONSTANTS
  MaxSubs = 1
  Free = Free
  Basic = Basic
  Pro = Pro
  Plans <- PlansMC
  NoPlan = NoPlan
  Price <- PriceMC
  MonthlyCredits <- CreditsMC
  Refs = {r1}
  NoRef = NoRef
  Quotes = {q1}
  NoQuote = NoQuote
  Callers = {c1, c2}
  NoOne = NoOne
  Period = 2
  MaxRenewalAttempts = 2
  MaxOverdue = 1
  MaxCalls = 4
INVARIANTS
  UpgradeAppliedOnce
PROPERTIES
  DueSettles
CHECK_DEADLOCK FALSE
