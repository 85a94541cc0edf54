SPECIFICATION LiveSpec
CONSTANTS
  Main = main
  Messages = {m1}
  Jobs = {j1, j2}
  Asked <- MCAsked
  RepeatCount = 1
  MaxRuns = 3
  MaxBlank = 2
  MaxRecur = 1
  MaxLoad = 2
INVARIANTS TypeOK   ReservedIsOwned
PROPERTIES HandlersEnd DelegatesSettle
CHECK_DEADLOCK FALSE
