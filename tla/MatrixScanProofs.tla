----------------------------- MODULE MatrixScanProofs -----------------------------
(***************************************************************************)
(* Proofs about MatrixScan, for every key map, matrix and clock, whichever *)
(* level the board strobes with and whether it waits or not: once its row  *)
(* is copied, the pressed key is found in no other row, but for the LOW of *)
(* a column at the two ends of a press.                                    *)
(***************************************************************************)
EXTENDS MatrixScan, KeypadFirmwareProofs

(* The level in the sketch's hand was read since the strobe ...            *)
Fresh ==
  mirrored # "no" /\ pc \in {"copy", "mirror"} => level = rowLevel[Row(keyIndex)]

(* ... and so was the one on the column it drives: a strobe's level there  *)
(* is that of its own row, or the LOW before and after the copies.         *)
Copied ==
  /\ mirrored = "yes" /\ Active /\ pc \notin {"couple", "drive"}
  /\ colLatch[Column(keyIndex)] = strobe
  => Row(keyIndex) = row \/ Transient

Scan == IInv /\ ScanTypeOK /\ Fresh /\ Copied

(* One row is at the strobe's level and the others at rest.                *)
LEMMA ScanningType ==
  ASSUME strobe \in Level
  PROVE  \A r \in Rows : Scanning(r) \in [Rows -> Level]
  BY DEF Scanning, Rest, Level

(* The next row is a row.                                                  *)
LEMMA NextRow == \A r \in Rows : (r + 1) % RowCount \in Rows
  BY FirmwareAssumption DEF Rows

(* The board starts its scan beside a sketch that starts.                  *)
LEMMA ScanInitInv == ScanInit => Scan
<1> SUFFICES ASSUME ScanInit PROVE Scan
  OBVIOUS
<1>1. 0 \in Rows
  BY FirmwareAssumption DEF Rows
<1>2. IInv
  BY InitInv DEF ScanInit
<1> QED
  BY <1>1, <1>2, ScanAssumption DEF ScanInit, Scan, ScanTypeOK, Fresh, Copied

(* The sketch's invariant survives the board's steps, which only change    *)
(* the levels of the rows.                                                 *)
LEMMA FirmwareStep == IInv /\ ScanTypeOK /\ [ScanNext]_svars => IInv'
<1> SUFFICES ASSUME IInv, ScanTypeOK, [ScanNext]_svars PROVE IInv'
  OBVIOUS
<1>1. CASE SketchStep \/ Others \/ UNCHANGED svars
  <2>1. [Next]_vars
    BY <1>1 DEF SketchStep, Others, Next, Environment, svars
  <2> QED
    BY <2>1, TypeNext, FlowNext, PinsNext DEF IInv
<1>2. CASE StrobeNext
  <2>1. rowLevel' \in [Rows -> Level]
    BY <1>2, NextRow, ScanningType DEF StrobeNext, ScanTypeOK
  <2>2. TypeOK'
    BY <1>2, <2>1 DEF StrobeNext, IInv, TypeOK, press, pins
  <2>3. ReplyReady' /\ PressWired'
    BY <1>2 DEF StrobeNext, IInv, ReplyReady, PressWired, Active, press
  <2>4. PinsExact'
    BY <1>2 DEF StrobeNext, IInv, PinsExact, Active, press, pins
  <2> QED
    BY <2>2, <2>3, <2>4 DEF IInv
<1>3. CASE Sample
  <2>1. [Next]_vars
    BY <1>3 DEF Sample
  <2> QED
    BY <2>1, TypeNext, FlowNext, PinsNext DEF IInv
<1> QED
  BY <1>1, <1>2, <1>3 DEF ScanNext, Board

(* The sketch drives no row and reads none but by digitalRead.             *)
LEMMA SketchLeavesRows == Sketch => UNCHANGED rowLevel
  BY DEF Sketch, Process, SetupDiscard, SetupFinish, ReadLine, Blank, Inform, Status,
         Reject, Answer, ReleaseNothing, ReleaseCommand, StartKeyPress, Arm, Couple,
         Drive, Sync, Copy, Maintain, SampleRow, Mirror, WriteColumn, KeepPressing,
         Expire, ReleaseLow, ReleaseFloat, PrintReply

(* The board knows which row it strobes, and what it has seen.             *)
LEMMA BoardStep == ScanTypeOK /\ [ScanNext]_svars => ScanTypeOK'
<1> SUFFICES ASSUME ScanTypeOK, [ScanNext]_svars PROVE ScanTypeOK'
  OBVIOUS
<1> USE DEF ScanTypeOK, Scanning, Rest, board
<1>1. CASE SketchStep
  <2>1. UNCHANGED rowLevel
    BY <1>1, SketchLeavesRows DEF SketchStep
  <2> QED
    BY <1>1, <2>1 DEF SketchStep
<1>2. CASE Others
  BY <1>2 DEF Others, Tick, HostReads, Reset, HostSends
<1>3. CASE StrobeNext
  BY <1>3, NextRow DEF StrobeNext
<1>4. CASE Sample
  BY <1>4 DEF Sample, Closed, vars
<1>5. CASE UNCHANGED svars
  BY <1>5 DEF svars, vars
<1> QED
  BY <1>1, <1>2, <1>3, <1>4, <1>5 DEF ScanNext, Board

(* A row at the strobe's level is the one that is strobed.                 *)
LEMMA StrobedRow ==
  ASSUME ScanTypeOK, NEW r \in Rows, rowLevel[r] = strobe
  PROVE  r = row
  BY DEF ScanTypeOK, Scanning, Rest, Level

(* A step of the sketch keeps the copy honest.                             *)
LEMMA CopyStep ==
  ASSUME Scan, SketchStep
  PROVE  Fresh' /\ Copied'
<1> USE DEF SketchStep, ReadsRow, WritesColumn, board, press, pins
<1>1. IInv /\ ScanTypeOK /\ Fresh /\ Copied /\ strobe \in Level
  BY DEF Scan, ScanTypeOK
<1>2. CASE Sync \/ Maintain
  <2>1. Fresh'
    BY <1>2 DEF Sync, Maintain, SampleRow, Fresh
  <2>2. UNCHANGED <<press, pins, row>> /\ (mirrored' = "yes" => mirrored = "yes")
    BY <1>2 DEF Sync, Maintain, SampleRow
  <2>3. pc \notin {"couple", "drive"} /\ (Transient => Transient')
    BY <1>2 DEF Sync, Maintain, Transient
  <2> QED
    BY <1>1, <2>1, <2>2, <2>3 DEF Copied, Active
<1>3. CASE Copy \/ Mirror
  <2>1. Fresh'
    BY <1>3 DEF Copy, Mirror, Fresh
  <2>2. keyIndex \in Keys /\ InRange(keyIndex)
    BY <1>1, <1>3 DEF Copy, Mirror, IInv, TypeOK, PressWired, Active
  <2>3. Column(keyIndex) \in Columns /\ Row(keyIndex) \in Rows
    BY <2>2, WiredKey
  <2>4. colLatch'[Column(keyIndex)] = level /\ UNCHANGED <<press, row, rowLevel>>
    BY <1>1, <1>3, <2>3 DEF Copy, Mirror, WriteColumn, IInv, TypeOK
  <2>5. mirrored' = "yes" => mirrored # "no"
    BY <1>1, <1>3 DEF Copy, Mirror, ScanTypeOK
  <2>6. mirrored # "no" /\ level = strobe => Row(keyIndex) = row
    BY <1>1, <1>3, <2>3, StrobedRow DEF Copy, Mirror, Fresh
  <2> QED
    BY <2>1, <2>4, <2>5, <2>6 DEF Copied
<1>4. CASE Couple \/ Arm
  BY <1>4 DEF Couple, Arm, Fresh, Copied, Active
<1>5. CASE Drive
  <2>1. keyIndex \in Keys /\ InRange(keyIndex)
    BY <1>1, <1>5 DEF Drive, IInv, TypeOK, PressWired, Active
  <2>2. Column(keyIndex) \in Columns
    BY <2>1, WiredKey
  <2>3. colLatch[Column(keyIndex)] # "HIGH"
    BY <1>1, <1>5, <2>2 DEF Drive, IInv, PinsExact
  <2>4. colLatch'[Column(keyIndex)] = strobe => Transient'
    BY <1>1, <1>5, <2>3 DEF Drive, Level, Transient
  <2> QED
    BY <1>5, <2>4 DEF Drive, Fresh, Copied
<1>6. CASE ReleaseLow
  <2>1. keyIndex \in Keys /\ InRange(keyIndex)
    BY <1>1, <1>6 DEF ReleaseLow, IInv, TypeOK, PressWired, Active
  <2>2. Column(keyIndex) \in Columns
    BY <2>1, WiredKey
  <2>3. colLatch'[Column(keyIndex)] = "LOW" /\ UNCHANGED press
    BY <1>1, <1>6, <2>2 DEF ReleaseLow, IInv, TypeOK
  <2>4. colLatch'[Column(keyIndex)] = strobe => Transient'
    BY <1>6, <2>3 DEF ReleaseLow, Transient
  <2> QED
    BY <1>6, <2>3, <2>4 DEF ReleaseLow, Fresh, Copied
<1>7. CASE ReleaseFloat
  BY <1>7 DEF ReleaseFloat, Fresh, Copied, Active
<1>8. CASE SetupDiscard \/ SetupFinish
  BY <1>1, <1>8 DEF SetupDiscard, SetupFinish, IInv, PressWired, Fresh, Copied, Active
<1>9. CASE ReadLine \/ Process \/ KeepPressing \/ Expire \/ PrintReply
  <2>1. /\ UNCHANGED <<press, pins, row>>
        /\ pc \notin {"copy", "mirror", "couple", "drive"} /\ ~Transient
        /\ pc' \notin {"copy", "mirror"}
    BY <1>9 DEF ReadLine, Process, Blank, Inform, Status, Reject, ReleaseNothing, Answer,
                ReleaseCommand, StartKeyPress, KeepPressing, Expire, PrintReply, Transient
  <2>2. mirrored' = mirrored
    BY <2>1
  <2> QED
    BY <1>1, <2>1, <2>2 DEF Fresh, Copied, Active
<1> QED
  BY <1>2, <1>3, <1>4, <1>5, <1>6, <1>7, <1>8, <1>9 DEF Sketch

(* Every step, the sketch's, the board's, the host's and a reset.          *)
LEMMA ScanStep == Scan /\ [ScanNext]_svars => Scan'
<1> SUFFICES ASSUME Scan, [ScanNext]_svars PROVE Scan'
  OBVIOUS
<1>1. IInv /\ ScanTypeOK /\ Fresh /\ Copied
  BY DEF Scan
<1>2. IInv' /\ ScanTypeOK'
  BY <1>1, FirmwareStep, BoardStep
<1>3. Fresh' /\ Copied'
  <2>1. CASE SketchStep
    BY <2>1, CopyStep
  <2>2. CASE StrobeNext
    BY <2>2 DEF StrobeNext, Fresh, Copied
  <2>3. CASE Sample
    BY <1>1, <2>3 DEF Sample, vars, press, pins, Fresh, Copied, Active, Transient
  <2>4. CASE Others
    BY <1>1, <2>4 DEF Others, Tick, HostReads, HostSends, Reset, board, press, pins,
                      Fresh, Copied, Active, Transient
  <2>5. CASE UNCHANGED svars
    BY <1>1, <2>5 DEF svars, vars, board, press, pins, Fresh, Copied, Active, Transient
  <2> QED
    BY <2>1, <2>2, <2>3, <2>4, <2>5 DEF ScanNext, Board
<1> QED
  BY <1>2, <1>3 DEF Scan

(* A column that is read closed is the pressed key's, and if the copy is   *)
(* in place the row is the key's too.                                      *)
LEMMA SampleHonest ==
  ASSUME Scan, Sample, NEW c \in Closed
  PROVE  /\ Active /\ c = Column(keyIndex)
         /\ Row(keyIndex) = row \/ mirrored # "yes" \/ Transient
<1>1. c \in Columns /\ colMode[c] = "OUTPUT" /\ colLatch[c] = strobe
  BY DEF Closed, ColumnLevel, Rest
<1>2. Active /\ c = Column(keyIndex) /\ pc \notin {"couple", "drive"}
  BY <1>1 DEF Scan, IInv, PinsExact
<1>3. mirrored = "yes" => Row(keyIndex) = row \/ Transient
  BY <1>1, <1>2 DEF Scan, Copied
<1> QED
  BY <1>2, <1>3

(* No ghost key but those two: whatever is pressed, released, replaced,    *)
(* timed out or reset between two strobes, HIGH or LOW, and however long   *)
(* the board leaves a row strobed.                                         *)
THEOREM NoGhostKey == ScanSpec => NoGhost
<1>1. Scan /\ [ScanNext]_svars =>
        [Sample => \A c \in Closed :
           /\ Active /\ c = Column(keyIndex)
           /\ Row(keyIndex) = row \/ mirrored # "yes" \/ Transient]_svars
  BY SampleHonest
<1> QED
  BY <1>1, ScanInitInv, ScanStep, PTL DEF ScanSpec, NoGhost
================================================================================
