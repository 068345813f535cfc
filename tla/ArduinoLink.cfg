SPECIFICATION LinkFairSpec
CONSTANTS
  KeyCount = 5
  Commands <- AllLines
  Wired <- WiredKeys
  ClockMayWrap = TRUE
  RxSize = 1
  TxSize = 2
  Raw <- AnyCommand
  Times <- AnyTimes
  Levels <- TwoLevels
  IntMax = 100
  KeyNamed <- Named
  CookTime = 0
  Power = 1
  Stop = 2
  SlowBoot = TRUE
  Glitches = TRUE
  RetryAfterFail = FALSE
CHECK_DEADLOCK FALSE
INVARIANTS
  LinkTypeOK
  KeysInOrder
PROPERTIES
  FullyAcknowledged
  NoStaleReply
  NeverSupersedesTap
  ReplyReachesCall
