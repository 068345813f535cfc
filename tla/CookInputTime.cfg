SPECIFICATION Spec
CONSTANTS
  IntMax = 400
  Characters = {"1", "3", "0", ":"}
  MaxLength = 4
CHECK_DEADLOCK FALSE
INVARIANTS
  RefusesShortMinutes
