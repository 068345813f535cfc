SPECIFICATION Spec
CONSTANTS
  BufSize = 2
  PortSize = 3
  MaxWait = 5
  MaxTotal = 7
  QuietWindow = 3
  MaxLag = 2
  Horizon = 20
CHECK_DEADLOCK FALSE
INVARIANTS
  RunsUntilCancelled
