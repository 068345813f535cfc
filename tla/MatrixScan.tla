-------------------------------- MODULE MatrixScan --------------------------------
(***************************************************************************)
(* The sketch and the microwave's control board on the same lines.  The    *)
(* board strobes one row after the other, HIGH or LOW, and reads the       *)
(* columns each time; a column nobody drives rests at the other level.     *)
(* The sketch copies levels: a key is seen if its row's level reaches its  *)
(* column in time, and a level that stays behind, or the LOW a press       *)
(* begins and ends with, may be seen as a key of another row.              *)
(***************************************************************************)
EXTENDS KeypadFirmware

CONSTANTS
  Strobes,         \* the levels that a board may strobe a row with
  Patience         \* what the board waits for before it reads: see Settled

VARIABLES
  strobe,          \* the level of a strobed row
  row,             \* the row that is strobed
  sampled,         \* the board has read the columns there
  seen,            \* the columns it last found closed, for each row
  mirrored         \* history: what the sketch has copied since the strobe

board == <<strobe, row, sampled, seen>>
svars == <<vars, board, mirrored>>

Rest == IF strobe = "HIGH" THEN "LOW" ELSE "HIGH"

ASSUME ScanAssumption ==
  /\ Strobes \subseteq Level /\ Patience \in {"copy", "pass", "none"}
  /\ \A k, m \in Keys : KeyMap[k] = KeyMap[m] => k = m

(* The rows' levels while row r is strobed, the level of a column.         *)
Scanning(r)    == [x \in Rows |-> IF x = r THEN strobe ELSE Rest]
ColumnLevel(c) == IF colMode[c] = "OUTPUT" THEN colLatch[c] ELSE Rest
Closed         == {c \in Columns : ColumnLevel(c) = strobe}

ScanInit ==
  /\ Init
  /\ strobe \in Strobes
  /\ row = 0 /\ rowLevel = Scanning(0)
  /\ sampled = FALSE /\ seen = [r \in Rows |-> {}]
  /\ mirrored = "no"

--------------------------------------------------------------------------------
(* The sketch: a digitalRead of the row, then the digitalWrite to the      *)
(* column, copy the level; a strobe in between makes them start again.     *)
ReadsRow     == pc' \in {"copy", "mirror"}
WritesColumn == pc \in {"copy", "mirror"}

SketchStep ==
  /\ Sketch
  /\ mirrored' = IF ReadsRow /\ mirrored = "no" THEN "read"
                 ELSE IF WritesColumn /\ mirrored = "read" THEN "yes"
                 ELSE mirrored
  /\ UNCHANGED board

Others ==
  /\ Tick \/ HostReads \/ Reset \/ \E c \in Commands : HostSends(c)
  /\ UNCHANGED <<board, mirrored>>

(* The board goes on to the next row once it has read the columns.         *)
StrobeNext ==
  /\ sampled
  /\ row' = (row + 1) % RowCount /\ rowLevel' = Scanning(row')
  /\ sampled' = FALSE /\ mirrored' = "no"
  /\ UNCHANGED <<strobe, seen, pc, press, line, reply, level, pins, clock, rx, tx>>

(* How long a row stays strobed is the board's choice: until the sketch    *)
(* has copied its level, if it drives a column ("copy"); for the time that *)
(* a pass of loop() takes, but while println waits for the transmitter     *)
(* there is no pass ("pass"); or for any time at all ("none").             *)
Printing == pc = "print" /\ Len(tx) = TxSize
Settled ==
  \/ \A c \in Columns : colMode[c] = "INPUT"
  \/ mirrored = "yes"
  \/ Patience = "pass" /\ Printing
  \/ Patience = "none"

Sample ==
  /\ ~sampled /\ Settled
  /\ sampled' = TRUE
  /\ seen' = [seen EXCEPT ![row] = Closed]
  /\ UNCHANGED <<vars, strobe, row, mirrored>>

Board == StrobeNext \/ Sample

ScanNext == SketchStep \/ Others \/ Board

ScanSpec == ScanInit /\ [][ScanNext]_svars

(* The board scans, the sketch never stops, the counter runs, the UART     *)
(* sends what it holds; setup() polls the clock without pause, so it sees  *)
(* the time pass.                                                          *)
ScanFairSpec ==
  /\ ScanSpec
  /\ WF_svars(SketchStep) /\ WF_svars(Board)
  /\ WF_svars(Tick /\ UNCHANGED <<board, mirrored>>)
  /\ WF_svars(HostReads /\ UNCHANGED <<board, mirrored>>)
  /\ SF_svars(SetupFinish /\ SketchStep)

--------------------------------------------------------------------------------
ScanTypeOK ==
  /\ strobe \in Level /\ row \in Rows /\ sampled \in BOOLEAN
  /\ rowLevel = Scanning(row)
  /\ seen \in [Rows -> SUBSET Columns]
  /\ mirrored \in {"no", "read", "yes"}

(* The LOW of a column that is driven before the first copy and after the  *)
(* last one is the level of a strobe, for a board that strobes LOW.        *)
Transient == strobe = "LOW" /\ pc \in {"sync", "copy", "float"}

(* What the board finds closed is the pressed key's column, and in no row  *)
(* but the key's once the sketch has copied its row in this strobe: no     *)
(* level that stays behind, from the scan of another row, from a press     *)
(* before or from a reset, is read as a key.  What remains is the strobe   *)
(* that the sketch has not copied yet, and the transients.                 *)
NoGhost ==
  [][Sample => \A c \in Closed :
       /\ Active /\ c = Column(keyIndex)
       /\ Row(keyIndex) = row \/ mirrored # "yes" \/ Transient]_svars

(* README.md: the signals are those of the key.  A column is never found   *)
(* closed in another row than the pressed key's.                           *)
OnlyPressedKey ==
  [][Sample => \A c \in Closed : Active /\ Row(keyIndex) = row]_svars

(* In a scan the board sees the key the sketch presses, and only that one; *)
(* and it sees none when none is pressed.                                  *)
Sees(k) ==
  seen = [r \in Rows |-> IF k # Idle /\ r = Row(k) THEN {Column(k)} ELSE {}]
SeesPressedKey ==
  \A k \in {m \in Keys : InRange(m)} \cup {Idle} :
    <>[](rx = <<>> /\ keyIndex = k) => <>[]Sees(k)
================================================================================
