SPECIFICATION Spec
CONSTANTS
  Letters = {"a", "A"}
  Lower <- Lowered
  MaxLine = 5
  MaxTokens = 2
  MaxSent = 7
CHECK_DEADLOCK FALSE
INVARIANTS
  TypeOK
  BufferIsTail
  TokensAreWords
