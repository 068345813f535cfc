SPECIFICATION LinkSpec
CONSTANTS
  KeyCount = 5
  Commands <- AllLines
  Wired <- WiredKeys
  ClockMayWrap = FALSE
  RxSize = 1
  TxSize = 2
  Raw <- Answerable
  Times <- GoodTimes
  Levels <- TwoLevels
  IntMax = 100
  KeyNamed <- Named
  CookTime = 0
  Power = 1
  Stop = 2
  SlowBoot = FALSE
  Glitches = FALSE
  RetryAfterFail = TRUE
PROPERTIES
  FullyAcknowledged
