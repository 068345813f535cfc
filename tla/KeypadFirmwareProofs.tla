-------------------------- MODULE KeypadFirmwareProofs --------------------------
(***************************************************************************)
(* Proofs about KeypadFirmware, for every key map, matrix and clock: type  *)
(* correctness, the invariants on the pins, and that the sketch implements *)
(* KeySwitch.                                                              *)
(***************************************************************************)
EXTENDS KeypadFirmware, TLAPS

(* Where the thread is determines what the locals hold ...                 *)
ReplyReady ==
  /\ pc = "process" => line \in Commands
  /\ pc \in {"print", "release", "float", "arm"} => reply \in Reply
  /\ reply = "OK: pressing" /\ pc \in {"release", "float", "arm"} =>
       line \in Commands /\ Starts(line)
  /\ pc \in {"arm", "couple", "drive", "sync", "copy"} => reply = "OK: pressing"

(* ... and whether a key is pressed.  A pressed key is always wired.       *)
PressWired ==
  /\ Active => InRange(keyIndex)
  /\ pc \in {"couple", "drive", "sync", "copy", "mirror", "expire", "release", "float"}
       => Active
  /\ pc \in {"setup", "arm"} => ~Active

(* A column is an output exactly while its key is pressed, but for the two *)
(* steps before it is switched over, and its latch is HIGH at most then.   *)
PinsExact ==
  /\ \A c \in Columns :
       colMode[c] = "OUTPUT"
         <=> Active /\ c = Column(keyIndex) /\ pc \notin {"couple", "drive"}
  /\ \A c \in Columns :
       colLatch[c] = "HIGH"
         => Active /\ c = Column(keyIndex) /\ pc \notin {"couple", "drive", "float"}

IInv == TypeOK /\ ReplyReady /\ PressWired /\ PinsExact

(* The state after power-up.                                               *)
LEMMA InitInv == Init => IInv
<1> USE FirmwareAssumption
<1> QED
  BY DEF Init, IInv, TypeOK, ReplyReady, PressWired, PinsExact, PC, Reply, Level, Mode,
         Time, Inputs, AllLow, Active, Idle, Rows, Columns, Keys, NoReply, NoLine

(* The words of the sketch's clock arithmetic stay within an unsigned long. *)
LEMMA ClockWord ==
  /\ 0 \in Time /\ Time \subseteq Int
  /\ \A n \in Int : n % ClockMod \in Time
  /\ \A m, n \in Time : (m + n) % ClockMod \in Time
<1>1. ClockMod \in Nat /\ ClockMod > 1
  BY FirmwareAssumption
<1> QED
  BY <1>1 DEF Time

(* A wired key has a row pin and a column pin.                             *)
LEMMA WiredKey ==
  ASSUME NEW k \in Keys, InRange(k)
  PROVE  Row(k) \in Rows /\ Column(k) \in Columns
<1>1. KeyMap[k].row \in Nat /\ KeyMap[k].column \in Nat
  BY FirmwareAssumption
<1> QED
  BY <1>1, FirmwareAssumption DEF InRange, Row, Column, Rows, Columns

(* The line at the start of a press names a key of the map, and asks for a *)
(* duration that fits the clock.                                           *)
LEMMA StartLine ==
  ASSUME NEW c \in Commands, Starts(c)
  PROVE  c.key \in Keys /\ HoldMs(c) \in Time
<1>1. c \in Command
  BY CommandAssumption
<1>2. c.key \in Keys
  BY <1>1 DEF Command, Starts
<1>3. c.ms \in Int
  BY <1>1 DEF Command
<1>4. c.ms % ClockMod \in Time /\ DefaultPulseMs \in Time /\ 0 \in Time
  <2>1. DefaultPulseMs \in Time
    BY FirmwareAssumption DEF Time
  <2> QED
    BY <1>3, <2>1, ClockWord
<1>5. HoldMs(c) \in Time
  BY <1>4 DEF HoldMs
<1> QED
  BY <1>2, <1>5

(* The first element of a queue and the rest.                              *)
LEMMA HeadAndTail ==
  ASSUME NEW S, NEW s \in Seq(S), s # <<>>
  PROVE  Head(s) \in S /\ Tail(s) \in Seq(S)
  OBVIOUS

(* Every step keeps the types: no word of the clock overflows, and no line *)
(* or reply comes from nowhere.                                            *)
LEMMA TypeNext == TypeOK /\ ReplyReady /\ PressWired /\ [Next]_vars => TypeOK'
<1> SUFFICES ASSUME TypeOK, ReplyReady, PressWired, [Next]_vars PROVE TypeOK'
  OBVIOUS
<1> USE DEF press, pins
<1>1. CASE SetupDiscard
  BY <1>1 DEF TypeOK, SetupDiscard
<1>2. CASE SetupFinish
  BY <1>2 DEF TypeOK, SetupFinish, setAllIdle, PC, Reply, Inputs, AllLow, Mode, Level
<1>3. CASE ReadLine
  BY <1>3 DEF TypeOK, ReadLine, PC
<1>4. CASE Blank
  BY <1>4 DEF TypeOK, Blank, PC
<1>5. CASE Inform
  BY <1>5 DEF TypeOK, Inform, Answer, PC, Reply
<1>6. CASE Status
  BY <1>6 DEF TypeOK, Status, Answer, PC, Reply
<1>7. CASE Reject
  BY <1>7 DEF TypeOK, Reject, Answer, PC, Reply
<1>8. CASE ReleaseNothing
  BY <1>8 DEF TypeOK, ReleaseNothing, Answer, PC, Reply
<1>9. CASE ReleaseCommand
  BY <1>9 DEF TypeOK, ReleaseCommand, PC, Reply
<1>10. CASE StartKeyPress
  BY <1>10 DEF TypeOK, StartKeyPress, PC, Reply
<1>11. CASE Arm
  <2>1. line \in Commands /\ Starts(line)
    BY <1>11 DEF Arm, ReplyReady
  <2>2. line.key \in Keys /\ HoldMs(line) \in Time
    BY <2>1, StartLine
  <2>3. Deadline(line) \in Time
    BY <2>2, ClockWord DEF Deadline, TypeOK
  <2>4. reply \in Reply
    BY <1>11 DEF Arm, ReplyReady
  <2>5. keyIndex' \in Keys \cup {Idle} /\ releaseDeadline' \in Time
    BY <1>11, <2>2, <2>3, ClockWord DEF Arm
  <2>6. pc' \in PC /\ reply' \in Reply \cup {NoReply} /\ line' = line
    BY <1>11, <2>4 DEF Arm, PC, Reply
  <2> QED
    BY <1>11, <2>5, <2>6 DEF Arm, TypeOK
<1>12. CASE Couple
  BY <1>12 DEF TypeOK, Couple, PC, Mode, Level
<1>13. CASE Drive
  BY <1>13 DEF TypeOK, Drive, PC, Mode
<1>14. CASE Sync
  <2>1. keyIndex \in Keys /\ InRange(keyIndex)
    BY <1>14 DEF Sync, PressWired, Active, TypeOK
  <2>2. rowLevel[Row(keyIndex)] \in Level
    BY <2>1, WiredKey DEF TypeOK
  <2> QED
    BY <1>14, <2>2 DEF Sync, SampleRow, PC, TypeOK
<1>15. CASE Copy
  BY <1>15 DEF TypeOK, Copy, WriteColumn, PC, Level
<1>16. CASE Maintain
  <2>1. keyIndex \in Keys /\ InRange(keyIndex)
    BY <1>16 DEF Maintain, PressWired, Active, TypeOK
  <2>2. rowLevel[Row(keyIndex)] \in Level
    BY <2>1, WiredKey DEF TypeOK
  <2> QED
    BY <1>16, <2>1, <2>2 DEF Maintain, SampleRow, PC, TypeOK
<1>17. CASE Mirror
  BY <1>17 DEF TypeOK, Mirror, WriteColumn, PC, Level
<1>18. CASE KeepPressing
  BY <1>18 DEF TypeOK, KeepPressing, PC
<1>19. CASE Expire
  BY <1>19 DEF TypeOK, Expire, PC, Reply
<1>20. CASE ReleaseLow
  BY <1>20 DEF TypeOK, ReleaseLow, PC, Level
<1>21. CASE ReleaseFloat
  <2>1. colMode' \in [Columns -> Mode]
    BY <1>21 DEF ReleaseFloat, Mode, TypeOK
  <2>2. pc' \in PC
    BY <1>21 DEF ReleaseFloat, PC
  <2>3. keyIndex' = Idle /\ releaseDeadline' \in Time
    BY <1>21, ClockWord DEF ReleaseFloat
  <2> QED
    BY <1>21, <2>1, <2>2, <2>3 DEF ReleaseFloat, TypeOK
<1>22. CASE PrintReply
  BY <1>22 DEF TypeOK, PrintReply, PC, ReplyReady
<1>23. CASE Reset
  BY <1>23, ClockWord DEF TypeOK, Reset, setAllIdle, PC, Inputs, AllLow, Mode, Level
<1>24. CASE Tick
  <2>1. clock' \in Time
    BY <1>24, ClockWord DEF Tick, TypeOK, Time
  <2> QED
    BY <1>24, <2>1 DEF Tick, TypeOK
<1>25. CASE HostReads
  <2>1. tx \in Seq(Reply) /\ tx # <<>>
    BY <1>25 DEF HostReads, TypeOK
  <2>2. tx' \in Seq(Reply)
    BY <1>25, <2>1, HeadAndTail DEF HostReads
  <2> QED
    BY <1>25, <2>2 DEF HostReads, TypeOK
<1>26. CASE \E r \in Rows, l \in Level : ScanRow(r, l)
  BY <1>26 DEF TypeOK, ScanRow
<1>27. CASE \E c \in Commands : HostSends(c)
  BY <1>27 DEF TypeOK, HostSends
<1>28. CASE UNCHANGED vars
  BY <1>28 DEF TypeOK, vars
<1> QED
  BY <1>1, <1>2, <1>3, <1>4, <1>5, <1>6, <1>7, <1>8, <1>9, <1>10, <1>11, <1>12, <1>13, <1>14, <1>15, <1>16, <1>17, <1>18, <1>19, <1>20, <1>21, <1>22, <1>23, <1>24, <1>25, <1>26, <1>27, <1>28 DEF Next, Sketch, Environment, Process

(* Every step keeps ReplyReady and PressWired: the thread reaches the pins *)
(* only with a wired key.                                                  *)
LEMMA FlowNext == TypeOK /\ ReplyReady /\ PressWired /\ [Next]_vars => ReplyReady' /\ PressWired'
<1> SUFFICES ASSUME TypeOK, ReplyReady, PressWired, [Next]_vars PROVE ReplyReady' /\ PressWired'
  OBVIOUS
<1> USE DEF ReplyReady, PressWired, Active, Reply, press, pins
<1>1. CASE SetupDiscard
  BY <1>1 DEF SetupDiscard
<1>2. CASE SetupFinish
  BY <1>2 DEF SetupFinish, setAllIdle
<1>3. CASE ReadLine
  <2>1. rx \in Seq(Commands) /\ rx # <<>>
    BY <1>3 DEF ReadLine, TypeOK
  <2>2. Head(rx) \in Commands
    BY <2>1, HeadAndTail
  <2> QED
    BY <1>3, <2>2 DEF ReadLine
<1>4. CASE Blank
  BY <1>4 DEF Blank
<1>5. CASE Inform
  BY <1>5 DEF Inform, Answer
<1>6. CASE Status
  BY <1>6 DEF Status, Answer
<1>7. CASE Reject
  BY <1>7 DEF Reject, Answer
<1>8. CASE ReleaseNothing
  BY <1>8 DEF ReleaseNothing, Answer
<1>9. CASE ReleaseCommand
  BY <1>9 DEF ReleaseCommand
<1>10. CASE StartKeyPress
  BY <1>10 DEF StartKeyPress
<1>11. CASE Arm
  <2>1. line.key # Idle
    BY <1>11 DEF Arm, Starts
  <2> QED
    BY <1>11, <2>1 DEF Arm, InRange, Row, Column
<1>12. CASE Couple
  BY <1>12 DEF Couple
<1>13. CASE Drive
  BY <1>13 DEF Drive
<1>14. CASE Sync
  BY <1>14 DEF Sync, SampleRow
<1>15. CASE Copy
  <2>1. reply' = reply /\ keyIndex' = keyIndex /\ pc' = "print"
    BY <1>15 DEF Copy, WriteColumn
  <2> QED
    BY <1>15, <2>1 DEF Copy, InRange, Row, Column
<1>16. CASE Maintain
  BY <1>16 DEF Maintain, SampleRow
<1>17. CASE Mirror
  BY <1>17 DEF Mirror, WriteColumn
<1>18. CASE KeepPressing
  BY <1>18 DEF KeepPressing
<1>19. CASE Expire
  BY <1>19 DEF Expire
<1>20. CASE ReleaseLow
  BY <1>20 DEF ReleaseLow
<1>21. CASE ReleaseFloat
  BY <1>21 DEF ReleaseFloat
<1>22. CASE PrintReply
  BY <1>22 DEF PrintReply
<1>23. CASE Reset
  BY <1>23 DEF Reset, setAllIdle
<1>24. CASE Tick
  BY <1>24 DEF Tick
<1>25. CASE HostReads
  BY <1>25 DEF HostReads
<1>26. CASE \E r \in Rows, l \in Level : ScanRow(r, l)
  BY <1>26 DEF ScanRow
<1>27. CASE \E c \in Commands : HostSends(c)
  BY <1>27 DEF HostSends
<1>28. CASE UNCHANGED vars
  BY <1>28 DEF vars
<1> QED
  BY <1>1, <1>2, <1>3, <1>4, <1>5, <1>6, <1>7, <1>8, <1>9, <1>10, <1>11, <1>12, <1>13, <1>14, <1>15, <1>16, <1>17, <1>18, <1>19, <1>20, <1>21, <1>22, <1>23, <1>24, <1>25, <1>26, <1>27, <1>28 DEF Next, Sketch, Environment, Process

(* Every step keeps PinsExact, the ones that stop half-way through a press *)
(* or a release included.                                                  *)
LEMMA PinsNext == TypeOK /\ PressWired /\ PinsExact /\ [Next]_vars => PinsExact'
<1> SUFFICES ASSUME TypeOK, PressWired, PinsExact, [Next]_vars PROVE PinsExact'
  OBVIOUS
<1> USE DEF TypeOK, PressWired, PinsExact, Active, press, pins
<1>1. CASE SetupDiscard
  BY <1>1 DEF SetupDiscard
<1>2. CASE SetupFinish
  BY <1>2 DEF SetupFinish, setAllIdle, Inputs, AllLow
<1>3. CASE ReadLine
  BY <1>3 DEF ReadLine
<1>4. CASE Blank
  BY <1>4 DEF Blank
<1>5. CASE Inform
  BY <1>5 DEF Inform, Answer
<1>6. CASE Status
  BY <1>6 DEF Status, Answer
<1>7. CASE Reject
  BY <1>7 DEF Reject, Answer
<1>8. CASE ReleaseNothing
  BY <1>8 DEF ReleaseNothing, Answer
<1>9. CASE ReleaseCommand
  BY <1>9 DEF ReleaseCommand
<1>10. CASE StartKeyPress
  BY <1>10 DEF StartKeyPress
<1>11. CASE Arm
  <2>1. ~Active
    BY <1>11 DEF Arm
  <2> QED
    BY <1>11, <2>1 DEF Arm
<1>12. CASE Couple
  BY <1>12 DEF Couple, Level
<1>13. CASE Drive
  BY <1>13 DEF Drive, Mode
<1>14. CASE Sync
  BY <1>14 DEF Sync, SampleRow
<1>15. CASE Copy
  <2>1. keyIndex \in Keys /\ InRange(keyIndex)
    BY <1>15 DEF Copy
  <2> QED
    BY <1>15, <2>1 DEF Copy, WriteColumn
<1>16. CASE Maintain
  BY <1>16 DEF Maintain, SampleRow
<1>17. CASE Mirror
  BY <1>17 DEF Mirror, WriteColumn
<1>18. CASE KeepPressing
  BY <1>18 DEF KeepPressing
<1>19. CASE Expire
  BY <1>19 DEF Expire
<1>20. CASE ReleaseLow
  BY <1>20 DEF ReleaseLow
<1>21. CASE ReleaseFloat
  BY <1>21 DEF ReleaseFloat
<1>22. CASE PrintReply
  BY <1>22 DEF PrintReply
<1>23. CASE Reset
  BY <1>23 DEF Reset, setAllIdle, Inputs, AllLow
<1>24. CASE Tick
  BY <1>24 DEF Tick
<1>25. CASE HostReads
  BY <1>25 DEF HostReads
<1>26. CASE \E r \in Rows, l \in Level : ScanRow(r, l)
  BY <1>26 DEF ScanRow
<1>27. CASE \E c \in Commands : HostSends(c)
  BY <1>27 DEF HostSends
<1>28. CASE UNCHANGED vars
  BY <1>28 DEF vars
<1> QED
  BY <1>1, <1>2, <1>3, <1>4, <1>5, <1>6, <1>7, <1>8, <1>9, <1>10, <1>11, <1>12, <1>13, <1>14, <1>15, <1>16, <1>17, <1>18, <1>19, <1>20, <1>21, <1>22, <1>23, <1>24, <1>25, <1>26, <1>27, <1>28 DEF Next, Sketch, Environment, Process

(* The state of a run of the sketch at any time.                           *)
LEMMA Inductive == Spec => []IInv
<1>1. IInv /\ [Next]_vars => IInv'
  BY TypeNext, FlowNext, PinsNext DEF IInv
<1> QED
  BY InitInv, <1>1, PTL DEF Spec

(* Every variable keeps its type: millis() and the deadline stay within    *)
(* the clock's range, and every active key is one of kKeyMap.              *)
THEOREM TypeCorrect == Spec => []TypeOK
<1>1. IInv => TypeOK
  BY DEF IInv
<1> QED
  BY Inductive, <1>1, PTL

(* Only the column of the key in g_activePress is ever an output.          *)
THEOREM OnlyActiveColumnDriven == Spec => []DrivenColumnIsActive
<1>1. IInv => DrivenColumnIsActive
  BY DEF IInv, PinsExact, DrivenColumnIsActive
<1> QED
  BY Inductive, <1>1, PTL

(* A column pin that is an input has its pull-up off.                      *)
THEOREM IdleColumnsFloat == Spec => []NoPullUpOnIdleColumn
<1>1. IInv => NoPullUpOnIdleColumn
  BY DEF IInv, TypeOK, PinsExact, NoPullUpOnIdleColumn, Level
<1> QED
  BY Inductive, <1>1, PTL

(* At the top of loop() the pins and g_activePress agree.                  *)
THEOREM LoopFindsPinsMatching == Spec => []PinsMatchPress
<1>1. ASSUME IInv PROVE PinsMatchPress
  <2>1. CASE pc = "loop" /\ Active
    <3>1. keyIndex \in Keys /\ InRange(keyIndex)
      BY <1>1, <2>1 DEF IInv, TypeOK, PressWired, Active
    <3>2. Column(keyIndex) \in Columns
      BY <3>1, WiredKey
    <3>3. {c \in Columns : colMode[c] = "OUTPUT"} = {Column(keyIndex)}
      BY <1>1, <2>1, <3>2 DEF IInv, PinsExact
    <3> QED
      BY <2>1, <3>1, <3>3 DEF PinsMatchPress
  <2>2. CASE pc = "loop" /\ ~Active
    BY <1>1, <2>2 DEF IInv, PinsExact, PinsMatchPress
  <2> QED
    BY <2>1, <2>2 DEF PinsMatchPress
<1> QED
  BY Inductive, <1>1, PTL

--------------------------------------------------------------------------------
(* What the control board sees: a key is closed from Drive on, and until   *)
(* ReleaseFloat or a reset.                                                *)
LEMMA ClosedKeyIs ==
  IInv => ClosedKey = (IF pc \in {"couple", "drive"} THEN Idle ELSE keyIndex)
<1> SUFFICES ASSUME IInv
             PROVE  ClosedKey = (IF pc \in {"couple", "drive"} THEN Idle ELSE keyIndex)
  OBVIOUS
<1>1. CASE Active
  <2>1. Column(keyIndex) \in Columns
    BY <1>1, WiredKey DEF IInv, TypeOK, PressWired, Active
  <2>2. (\E c \in Columns : c = Column(keyIndex) /\ colMode[c] = "OUTPUT")
          <=> pc \notin {"couple", "drive"}
    BY <1>1, <2>1 DEF IInv, PinsExact
  <2> QED
    BY <1>1, <2>2 DEF ClosedKey
<1>2. CASE ~Active
  BY <1>2 DEF ClosedKey, Active
<1> QED
  BY <1>1, <1>2

(* The sketch implements KeySwitch: whatever the host sends and whenever   *)
(* the deadline or a reset falls, one key at a time is closed, and it      *)
(* opens before the next one closes.                                       *)
THEOREM OneSwitch == Spec => OneSwitchAtATime
<1> DEFINE closed == IF pc \in {"couple", "drive"} THEN Idle ELSE keyIndex
<1>1. Init => Switch!Init
  BY DEF Init, Switch!Init, Switch!Open, ClosedKey, Active, Idle
<1>2. IInv /\ IInv' /\ [Next]_vars => [Switch!Next]_ClosedKey
  <2> SUFFICES ASSUME IInv, IInv', [Next]_vars
               PROVE  [Switch!Next]_ClosedKey
    OBVIOUS
  <2>1. ClosedKey = closed
    BY ClosedKeyIs
  <2>2. ClosedKey' = closed'
    <3>1. (IInv => ClosedKey = (IF pc \in {"couple", "drive"} THEN Idle ELSE keyIndex))'
      BY ClosedKeyIs, PTL
    <3> QED
      BY <3>1
  <2>3. \/ closed' = closed
        \/ closed = Idle /\ closed' \in Keys
        \/ closed # Idle /\ closed' = Idle
    <3> USE DEF press
    <3>1. CASE Drive
      BY <3>1 DEF Drive, IInv, TypeOK, PressWired, Active
    <3>2. CASE ReleaseFloat
      BY <3>2 DEF ReleaseFloat, IInv, PressWired, Active
    <3>3. CASE Reset
      BY <3>3 DEF Reset
    <3>4. CASE Arm
      BY <3>4 DEF Arm, IInv, PressWired, Active
    <3>5. CASE SetupDiscard \/ SetupFinish \/ ReadLine \/ Blank \/ Inform \/ Status \/ Reject
      BY <3>5 DEF SetupDiscard, SetupFinish, ReadLine, Blank, Inform, Status, Reject, Answer
    <3>6. CASE ReleaseNothing \/ ReleaseCommand \/ StartKeyPress \/ Couple \/ Sync \/ Copy
      BY <3>6 DEF ReleaseNothing, Answer, ReleaseCommand, StartKeyPress, Couple, Sync, Copy,
                  SampleRow, WriteColumn
    <3>7. CASE Maintain \/ Mirror \/ KeepPressing \/ Expire \/ ReleaseLow \/ PrintReply
      BY <3>7 DEF Maintain, Mirror, KeepPressing, Expire, ReleaseLow, PrintReply,
                  SampleRow, WriteColumn
    <3>8. CASE \/ Tick \/ HostReads
               \/ \E r \in Rows, l \in Level : ScanRow(r, l)
               \/ \E c \in Commands : HostSends(c)
      BY <3>8 DEF Tick, HostReads, ScanRow, HostSends
    <3>9. CASE UNCHANGED vars
      BY <3>9 DEF vars
    <3> QED
      BY <3>1, <3>2, <3>3, <3>4, <3>5, <3>6, <3>7, <3>8, <3>9
      DEF Next, Sketch, Environment, Process
  <2> QED
    BY <2>1, <2>2, <2>3
    DEF Switch!Next, Switch!Close, Switch!Release, Switch!Keys, Switch!Open, Keys, Idle
<1> QED
  BY <1>1, <1>2, Inductive, PTL DEF Spec, OneSwitchAtATime, Switch!Spec
================================================================================
