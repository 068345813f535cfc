SPECIFICATION Spec
CONSTANTS
  IntMax = 400
  Characters = {"0"}
  MaxLength = 1
CHECK_DEADLOCK FALSE
INVARIANTS
  PowerAsCommented
