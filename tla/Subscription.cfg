SPECIFICATION Spec
CONSTANTS
  MaxSubs = 2
  Free = Free
  Basic = Basic
  Pro = Pro
  Plans <- PlansMC
  NoPlan = NoPlan
  Price <- PriceMC
  MonthlyCredits <- CreditsMC
  Refs = {r1, r2}
  NoRef = NoRef
  Quotes = {q1}
  NoQuote = NoQuote
  Callers = {c1, c2}
  NoOne = NoOne
  Period = 1
  MaxRenewalAttempts = 2
  MaxOverdue = 0
  MaxCalls = 3
INVARIANTS
  TypeOK
  CarriedFacts
  OneGrantPerReference
  PaidPlanIsBacked
SYMMETRY SymmetryMC
CHECK_DEADLOCK FALSE
