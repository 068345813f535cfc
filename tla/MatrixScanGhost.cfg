SPECIFICATION ScanSpec
CONSTANTS
  KeyCount = 3
  KeyMap <- Map
  RowCount = 2
  ColumnCount = 2
  ClockMod = 3
  DefaultPulseMs = 1
  SetupMs = 1
  Commands <- ScanCommands
  RxSize = 1
  TxSize = 1
  Strobes = {"HIGH"}
  Patience = "pass"
PROPERTIES
  OnlyPressedKey
