----------------------------- MODULE KeypadFirmware -----------------------------
(***************************************************************************)
(* The sketch MD1001LB_Controller.ino: setup(), loop(), the command        *)
(* dispatcher and the key press state machine, down to each pin write.     *)
(*                                                                         *)
(* The sketch is one thread.  What runs beside it is the control board     *)
(* scanning the rows, the millisecond counter, and the UART.  An action is *)
(* therefore one access to something these actors see or change (a pin,    *)
(* millis(), the serial port) with the local computation that follows it.  *)
(* A command line is its tokens as processCommand splits them; the serial  *)
(* port carries whole lines.                                               *)
(***************************************************************************)
EXTENDS KeypadCommands

CONSTANTS
  KeyMap,            \* kKeyMap: the row and the column of every key
  RowCount,          \* kRowCount
  ColumnCount,       \* kColumnCount
  ClockMod,          \* 2^32: unsigned long, the type of millis()
  DefaultPulseMs,    \* kDefaultPulseMs
  SetupMs,           \* how long setup() throws input away (250 ms)
  RxSize,            \* bound on command lines waiting in the receiver
  TxSize             \* reply lines the transmitter holds before println blocks

VARIABLES
  pc,                \* where the thread is
  keyIndex,          \* g_activePress.keyIndex, Idle when no key is pressed
  releaseDeadline,   \* g_activePress.releaseDeadline, 0 = until release
  line,              \* the command line being processed
  reply,             \* the reply line to print next
  level,             \* the local "state": the row level read last
  rowMode,           \* pinMode of the row pins
  colMode,           \* pinMode of the column pins
  colLatch,          \* what digitalWrite last put on each column pin
  rowLevel,          \* the level the control board drives on each row
  clock,             \* millis()
  rx,                \* command lines received and not yet read
  tx                 \* reply lines sent and not yet read by the host

press == <<keyIndex, releaseDeadline>>
pins  == <<rowMode, colMode, colLatch>>
vars  == <<pc, press, line, reply, level, pins, rowLevel, clock, rx, tx>>

--------------------------------------------------------------------------------
Rows    == 0 .. (RowCount - 1)
Columns == 0 .. (ColumnCount - 1)
Time    == 0 .. (ClockMod - 1)
Level   == {"LOW", "HIGH"}
Mode    == {"INPUT", "OUTPUT"}

NoLine  == [verb |-> "none", count |-> 0, key |-> Idle, ms |-> 0]
NoReply == "none"

PC == {"setup", "loop", "process", "release", "float", "arm", "couple", "drive",
       "sync", "copy", "mirror", "expire", "print"}

ASSUME FirmwareAssumption ==
  /\ KeyMap \in [Keys -> [row : Nat, column : Nat]]
  /\ RowCount \in Nat \ {0} /\ ColumnCount \in Nat \ {0}
  /\ ClockMod \in Nat /\ ClockMod > 1
  /\ DefaultPulseMs \in 1 .. (ClockMod - 1)
  /\ SetupMs \in Time
  /\ RxSize \in Nat \ {0} /\ TxSize \in Nat \ {0}

Row(k)     == KeyMap[k].row
Column(k)  == KeyMap[k].column
InRange(k) == Row(k) < RowCount /\ Column(k) < ColumnCount

Active == keyIndex # Idle

(* Mutant of HoldMs: the duration stays a signed number.                   *)
HoldMsSigned(c) ==
  IF c.verb = "hold" THEN 0
  ELSE IF c.count >= 3 /\ c.ms # 0 THEN c.ms
  ELSE DefaultPulseMs

(* The holdMs of startKeyPress.  toInt() gives a signed number that is     *)
(* stored in an unsigned long; a duration of 0 stands for the default one. *)
HoldMs(c) ==
  IF c.verb = "hold" THEN 0
  ELSE IF c.count >= 3 /\ c.ms % ClockMod # 0 THEN c.ms % ClockMod
  ELSE DefaultPulseMs

(* Mutant of Deadline: the sum is wider than millis().                     *)
DeadlineWide(c) == IF HoldMs(c) = 0 THEN 0 ELSE clock + HoldMs(c)

Deadline(c) == IF HoldMs(c) = 0 THEN 0 ELSE (clock + HoldMs(c)) % ClockMod

(* Mutants of Expired: one millisecond late, one early.                    *)
ExpiredLate  == releaseDeadline # 0 /\ clock > releaseDeadline
ExpiredEarly == releaseDeadline # 0 /\ clock + 1 >= releaseDeadline

Expired == releaseDeadline # 0 /\ clock >= releaseDeadline

(* High impedance: inputs whose latch is LOW, so without pull-up.          *)
Inputs(P) == [p \in P |-> "INPUT"]
AllLow    == [c \in Columns |-> "LOW"]

Init ==
  /\ pc = "setup"
  /\ keyIndex = Idle /\ releaseDeadline = 0
  /\ line = NoLine /\ reply = NoReply /\ level = "LOW"
  /\ rowMode = Inputs(Rows) /\ colMode = Inputs(Columns) /\ colLatch = AllLow
  /\ rowLevel \in [Rows -> Level]
  /\ clock = 0
  /\ rx = <<>> /\ tx = <<>>

--------------------------------------------------------------------------------
setAllIdle ==
  /\ rowMode' = Inputs(Rows)
  /\ colMode' = Inputs(Columns) /\ colLatch' = AllLow

(* setup(): input is thrown away until SetupMs have passed, then every pin *)
(* is made idle and the banner is printed.                                 *)
SetupDiscard ==
  /\ pc = "setup" /\ rx # <<>>
  /\ rx' = Tail(rx)
  /\ UNCHANGED <<pc, press, line, reply, level, pins, rowLevel, clock, tx>>

SetupFinish ==
  /\ pc = "setup" /\ clock >= SetupMs
  /\ setAllIdle
  /\ pc' = "print" /\ reply' = "text"
  /\ UNCHANGED <<press, line, level, rowLevel, clock, rx, tx>>

(* loop(): a complete line is taken before the active press is maintained. *)
ReadLine ==
  /\ pc = "loop" /\ rx # <<>>
  /\ line' = Head(rx) /\ rx' = Tail(rx)
  /\ pc' = "process"
  /\ UNCHANGED <<press, reply, level, pins, rowLevel, clock, tx>>

--------------------------------------------------------------------------------
(* processCommand: the verbs that only answer, and the errors.             *)
Answer(text) ==
  /\ reply' = text /\ pc' = "print"
  /\ UNCHANGED <<press, line, level, pins, rowLevel, clock, rx, tx>>

Blank ==
  /\ pc = "process" /\ line.verb = "blank"
  /\ line' = NoLine /\ pc' = "loop"
  /\ UNCHANGED <<press, reply, level, pins, rowLevel, clock, rx, tx>>

Inform == pc = "process" /\ line.verb \in {"help", "list"} /\ Answer("text")

Status == pc = "process" /\ line.verb = "status" /\ Answer("Status:")

Reject == pc = "process" /\ Rejected(line) /\ Answer("ERR")

ReleaseNothing ==
  pc = "process" /\ line.verb = "release" /\ ~Active /\ Answer("OK: nothing to release")

(* "release" while a key is pressed: releaseActivePress, then "OK".        *)
ReleaseCommand ==
  /\ pc = "process" /\ line.verb = "release" /\ Active
  /\ reply' = "OK" /\ pc' = "release"
  /\ UNCHANGED <<press, line, level, pins, rowLevel, clock, rx, tx>>

(* Mutant of StartKeyPress: the pressed key is not released first.         *)
StartOnTop ==
  /\ pc = "process" /\ Starts(line)
  /\ reply' = "OK: pressing" /\ pc' = "arm"
  /\ UNCHANGED <<press, line, level, pins, rowLevel, clock, rx, tx>>

(* startKeyPress first releases the key that is pressed, if there is one.  *)
StartKeyPress ==
  /\ pc = "process" /\ Starts(line)
  /\ reply' = "OK: pressing"
  /\ pc' = IF Active THEN "release" ELSE "arm"
  /\ UNCHANGED <<press, line, level, pins, rowLevel, clock, rx, tx>>

(* Mutant of Arm: a key outside the matrix is reported, but not dropped.   *)
ArmUnwired ==
  /\ pc = "arm"
  /\ keyIndex' = line.key /\ releaseDeadline' = Deadline(line)
  /\ IF InRange(line.key)
       THEN pc' = "couple" /\ UNCHANGED reply
       ELSE pc' = "print" /\ reply' = "ERR"
  /\ UNCHANGED <<line, level, pins, rowLevel, clock, rx, tx>>

(* startKeyPress, after the release: g_activePress is set and millis()     *)
(* read; a key outside the wired matrix is dropped again.                  *)
Arm ==
  /\ pc = "arm"
  /\ IF InRange(line.key)
       THEN /\ keyIndex' = line.key /\ releaseDeadline' = Deadline(line)
            /\ pc' = "couple" /\ UNCHANGED reply
       ELSE /\ keyIndex' = Idle /\ releaseDeadline' = 0
            /\ pc' = "print" /\ reply' = "ERR"
  /\ UNCHANGED <<line, level, pins, rowLevel, clock, rx, tx>>

Couple ==
  /\ pc = "couple"
  /\ rowMode' = [rowMode EXCEPT ![Row(keyIndex)] = "INPUT"]
  /\ colLatch' = [colLatch EXCEPT ![Column(keyIndex)] = "LOW"]
  /\ pc' = "drive"
  /\ UNCHANGED <<press, line, reply, level, colMode, rowLevel, clock, rx, tx>>

Drive ==
  /\ pc = "drive"
  /\ colMode' = [colMode EXCEPT ![Column(keyIndex)] = "OUTPUT"]
  /\ pc' = "sync"
  /\ UNCHANGED <<press, line, reply, level, rowMode, colLatch, rowLevel, clock, rx, tx>>

(* digitalRead of the key's row, then digitalWrite to its column; the scan *)
(* may move on in between.                                                 *)
SampleRow ==
  /\ level' = rowLevel[Row(keyIndex)]
  /\ UNCHANGED <<press, line, pins, rowLevel, clock, rx, tx>>

WriteColumn ==
  /\ colLatch' = [colLatch EXCEPT ![Column(keyIndex)] = level]
  /\ level' = "LOW"
  /\ UNCHANGED <<press, line, reply, rowMode, colMode, rowLevel, clock, rx, tx>>

Sync == pc = "sync" /\ pc' = "copy" /\ UNCHANGED reply /\ SampleRow
Copy == pc = "copy" /\ pc' = "print" /\ WriteColumn

--------------------------------------------------------------------------------
(* maintainActivePress: mirror the row, then look at the deadline.  With no *)
(* key pressed it returns at once and the loop has changed nothing.        *)
Maintain ==
  /\ pc = "loop" /\ rx = <<>> /\ Active
  /\ IF InRange(keyIndex)
       THEN pc' = "mirror" /\ UNCHANGED reply /\ SampleRow
       ELSE /\ pc' = "release" /\ reply' = "ERR"
            /\ UNCHANGED <<press, line, level, pins, rowLevel, clock, rx, tx>>

(* Mutant of Mirror: the level is read, but not written.                   *)
MirrorNothing ==
  /\ pc = "mirror" /\ pc' = "expire" /\ level' = "LOW"
  /\ UNCHANGED <<press, line, reply, pins, rowLevel, clock, rx, tx>>

Mirror == pc = "mirror" /\ pc' = "expire" /\ WriteColumn

KeepPressing ==
  /\ pc = "expire" /\ ~Expired
  /\ pc' = "loop"
  /\ UNCHANGED <<press, line, reply, level, pins, rowLevel, clock, rx, tx>>

Expire ==
  /\ pc = "expire" /\ Expired
  /\ pc' = "release" /\ reply' = "OK"
  /\ UNCHANGED <<press, line, level, pins, rowLevel, clock, rx, tx>>

(* Mutants of ReleaseLow and ReleaseFloat: the latch keeps its level, the  *)
(* column stays an output, the press that was to follow is forgotten.      *)
ReleaseAsIs ==
  /\ pc = "release" /\ pc' = "float"
  /\ UNCHANGED <<press, line, reply, level, pins, rowLevel, clock, rx, tx>>
ReleaseDriven ==
  /\ pc = "float"
  /\ keyIndex' = Idle /\ releaseDeadline' = 0
  /\ pc' = IF reply = "OK: pressing" THEN "arm" ELSE "print"
  /\ UNCHANGED <<line, reply, level, pins, rowLevel, clock, rx, tx>>
ReleaseOnly ==
  /\ pc = "float" /\ pc' = "print"
  /\ colMode' = [colMode EXCEPT ![Column(keyIndex)] = "INPUT"]
  /\ keyIndex' = Idle /\ releaseDeadline' = 0
  /\ UNCHANGED <<line, reply, level, rowMode, colLatch, rowLevel, clock, rx, tx>>

(* releaseActivePress and setColumnIdle: the column goes LOW, then back to *)
(* high impedance, and g_activePress is cleared.  The caller goes on to    *)
(* arm the next key or to print.                                           *)
ReleaseLow ==
  /\ pc = "release"
  /\ colLatch' = [colLatch EXCEPT ![Column(keyIndex)] = "LOW"]
  /\ pc' = "float"
  /\ UNCHANGED <<press, line, reply, level, rowMode, colMode, rowLevel, clock, rx, tx>>

ReleaseFloat ==
  /\ pc = "float"
  /\ colMode' = [colMode EXCEPT ![Column(keyIndex)] = "INPUT"]
  /\ keyIndex' = Idle /\ releaseDeadline' = 0
  /\ pc' = IF reply = "OK: pressing" THEN "arm" ELSE "print"
  /\ UNCHANGED <<line, reply, level, rowMode, colLatch, rowLevel, clock, rx, tx>>

(* Serial.println blocks while the transmit buffer is full.  With the      *)
(* reply printed the handler returns, and the line is forgotten.           *)
PrintReply ==
  /\ pc = "print" /\ Len(tx) < TxSize
  /\ tx' = Append(tx, reply) /\ reply' = NoReply
  /\ line' = NoLine /\ pc' = "loop"
  /\ UNCHANGED <<press, level, pins, rowLevel, clock, rx>>

--------------------------------------------------------------------------------
(* The environment.  The board is reset whenever the host opens the port,  *)
(* and by its button or a power glitch: the pins of the AVR become inputs, *)
(* the static variables and millis() start again, and the lines not yet    *)
(* read or sent are lost.                                                  *)
Reset ==
  /\ pc' = "setup"
  /\ keyIndex' = Idle /\ releaseDeadline' = 0
  /\ line' = NoLine /\ reply' = NoReply /\ level' = "LOW"
  /\ setAllIdle
  /\ clock' = 0
  /\ rx' = <<>>
  /\ \E n \in 0 .. Len(tx) : tx' = SubSeq(tx, 1, n)
  /\ UNCHANGED rowLevel

Tick ==
  /\ clock' = (clock + 1) % ClockMod
  /\ UNCHANGED <<pc, press, line, reply, level, pins, rowLevel, rx, tx>>

ScanRow(r, l) ==
  /\ rowLevel[r] # l
  /\ rowLevel' = [rowLevel EXCEPT ![r] = l]
  /\ UNCHANGED <<pc, press, line, reply, level, pins, clock, rx, tx>>

HostSends(c) ==
  /\ Len(rx) < RxSize
  /\ rx' = Append(rx, c)
  /\ UNCHANGED <<pc, press, line, reply, level, pins, rowLevel, clock, tx>>

HostReads ==
  /\ tx # <<>>
  /\ tx' = Tail(tx)
  /\ UNCHANGED <<pc, press, line, reply, level, pins, rowLevel, clock, rx>>

--------------------------------------------------------------------------------
Process ==
  \/ Blank \/ Inform \/ Status \/ Reject
  \/ ReleaseNothing \/ ReleaseCommand \/ StartKeyPress

(* One step of the sketch.                                                 *)
Sketch ==
  \/ SetupDiscard \/ SetupFinish \/ ReadLine \/ Process
  \/ Arm \/ Couple \/ Drive \/ Sync \/ Copy
  \/ Maintain \/ Mirror \/ KeepPressing \/ Expire
  \/ ReleaseLow \/ ReleaseFloat \/ PrintReply

Environment ==
  \/ Reset \/ Tick \/ HostReads
  \/ \E r \in Rows, l \in Level : ScanRow(r, l)
  \/ \E c \in Commands : HostSends(c)

Next == Sketch \/ Environment

Spec == Init /\ [][Next]_vars

--------------------------------------------------------------------------------
TypeOK ==
  /\ pc \in PC
  /\ keyIndex \in Keys \cup {Idle}
  /\ releaseDeadline \in Time
  /\ line \in Commands \cup {NoLine}
  /\ reply \in Reply \cup {NoReply}
  /\ level \in Level
  /\ rowMode \in [Rows -> Mode]
  /\ colMode \in [Columns -> Mode]
  /\ colLatch \in [Columns -> Level]
  /\ rowLevel \in [Rows -> Level]
  /\ clock \in Time
  /\ rx \in Seq(Commands)
  /\ tx \in Seq(Reply)

(* A column is driven only for the key that g_activePress names, so never  *)
(* two at once, whatever interrupts a press: a second press, a release,    *)
(* the deadline, a key outside the matrix, a reset.                        *)
DrivenColumnIsActive ==
  \A c \in Columns :
    colMode[c] = "OUTPUT" => Active /\ c = Column(keyIndex)

(* A pin that is an input keeps a LOW latch: on an AVR a HIGH latch would  *)
(* turn its pull-up on and load the board's line.  The order of the two    *)
(* writes in setColumnIdle and in startKeyPress is what guarantees it.     *)
NoPullUpOnIdleColumn ==
  \A c \in Columns : colMode[c] = "INPUT" => colLatch[c] = "LOW"

(* Whenever loop() comes round, the pins agree with g_activePress: a key   *)
(* reported as pressed drives its column, no key leaves none driven, and   *)
(* the range check of maintainActivePress can only succeed.                *)
PinsMatchPress ==
  pc = "loop" =>
    /\ {c \in Columns : colMode[c] = "OUTPUT"}
         = (IF Active THEN {Column(keyIndex)} ELSE {})
    /\ Active => InRange(keyIndex)

(* The pins as the control board sees them: which switch is closed.        *)
ClosedKey ==
  IF Active /\ \E c \in Columns : c = Column(keyIndex) /\ colMode[c] = "OUTPUT"
    THEN keyIndex ELSE Idle

Switch == INSTANCE KeySwitch WITH closed <- ClosedKey

(* The emulation is one switch at a time, break before make.               *)
OneSwitchAtATime == Switch!Spec

(* The sketch as the host sees it: a line is waiting until its effect is   *)
(* there, and from then on its reply is on the way.                        *)
Unanswered == line # NoLine /\ pc \in {"process", "release", "float", "arm"}
Answered   == pc \in {"couple", "drive", "sync", "copy", "print"}

Protocol == INSTANCE KeypadProtocol WITH
  Wired <- {k \in Keys : InRange(k)},
  ClockMayWrap <- TRUE,
  up    <- pc # "setup",
  key   <- keyIndex,
  timed <- releaseDeadline # 0,
  rx    <- IF Unanswered THEN <<line>> \o rx ELSE rx,
  tx    <- IF Answered THEN Append(tx, reply) ELSE tx

(* Every line but a blank one is answered once, in order, by the reply its *)
(* state calls for; a press ends by release, by a new press without a word *)
(* or by itself with "OK"; nothing else is ever sent.                      *)
ServesProtocol == Protocol!Spec
================================================================================
