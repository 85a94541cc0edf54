SPECIFICATION Spec
CONSTANTS
  MaxBoxes = 3
  MaxUpgrades = 2
  MaxWrites = 1
  Callers = {c1, c2}
  Deliveries = {d1}
  MaxEvents = 3
INVARIANTS TypeOK   ActiveUpgradeIsDriven
CHECK_DEADLOCK FALSE
