SPECIFICATION TSpec
CONSTANTS
  KeyCount = 4
  KeyMap <- Map
  RowCount = 1
  ColumnCount = 2
  ClockMod = 4
  DefaultPulseMs = 2
  SetupMs = 1
  MaxStall = 1
  MaxElapsed = 5
  Commands <- AllCommands
  RxSize = 1
  TxSize = 1
INVARIANTS
  TypeOK
  DrivenColumnIsActive
  NoPullUpOnIdleColumn
  PinsMatchPress
  MeasureOK
  NotHeldOn
PROPERTIES
  NotCutShort
  OneSwitchAtATime
  ServesProtocol
