---------------------------- MODULE PressTimingProofs ----------------------------
(***************************************************************************)
(* Proofs about PressTiming: for every clock width and every duration, a   *)
(* press that ends before the millisecond counter wraps lasts what it was  *)
(* given, and no more than one round of loop() longer.                     *)
(***************************************************************************)
EXTENDS PressTiming, KeypadFirmwareProofs

(* The measured press is a press of KeypadFirmware: the history variables  *)
(* only look on.                                                           *)
LEMMA MeasuredNext == [TNext]_tvars => [Next]_vars
  BY DEF TNext, MeasuredArm, MeasuredTick, Looked, Ended, Unmeasured, tvars,
         Next, Sketch, Environment, Process

(* A measured run of the sketch is a run of the sketch.                    *)
LEMMA MeasuredIsSketch == TSpec => Spec
<1>1. TInit => Init
  BY DEF TInit
<1> QED
  BY <1>1, MeasuredNext, PTL DEF TSpec, Spec

(* The clock shows the time of the press until it wraps, the deadline is   *)
(* computed from the two numbers the history keeps, and the time since the *)
(* deadline was last looked at is all the press can be late.               *)
ClockInv == Active /\ start + elapsed < ClockMod => clock = start + elapsed

DeadlineInv ==
  Active => releaseDeadline = IF want = 0 THEN 0 ELSE (start + want) % ClockMod

LateInv ==
  Timed /\ ~Stalled /\ start + want + MaxStall <= ClockMod => elapsed < want + stall

TInv == MeasureOK /\ ClockInv /\ DeadlineInv /\ LateInv

(* A time before the counter's wrap is its own reading.                    *)
LEMMA NoWrap == \A n \in Time : n % ClockMod = n
  BY FirmwareAssumption DEF Time

(* The measurements at power-up.                                           *)
LEMMA TInitInv == TInit => TInv
  BY FirmwareAssumption, TimingAssumption, ClockWord
  DEF TInit, Init, TInv, MeasureOK, ClockInv, DeadlineInv, LateInv, Timed, Active, Stalled

(* What a step that is not about the clock or the start or end of a press   *)
(* leaves as it was.                                                       *)
LEMMA UnmeasuredKeeps ==
  Unmeasured => UNCHANGED <<keyIndex, releaseDeadline, clock, start, want, elapsed, stall>>
<1> SUFFICES ASSUME Unmeasured
             PROVE  UNCHANGED <<keyIndex, releaseDeadline, clock, start, want, elapsed, stall>>
  OBVIOUS
<1> USE DEF measure, press
<1>0. UNCHANGED <<start, want, elapsed, stall>>
  BY DEF Unmeasured
<1>1. CASE SetupDiscard \/ SetupFinish \/ ReadLine \/ Process
  BY <1>0, <1>1 DEF SetupDiscard, SetupFinish, ReadLine, Process, Blank, Inform, Status,
     Reject, ReleaseNothing, Answer, ReleaseCommand, StartKeyPress
<1>2. CASE Couple \/ Drive \/ Sync \/ Copy
  BY <1>0, <1>2 DEF Couple, Drive, Sync, Copy, SampleRow, WriteColumn
<1>3. CASE Maintain \/ Mirror \/ Expire \/ ReleaseLow \/ PrintReply
  BY <1>0, <1>3 DEF Maintain, Mirror, Expire, ReleaseLow, PrintReply, SampleRow, WriteColumn
<1>4. CASE \/ HostReads
           \/ \E r \in Rows, l \in Level : ScanRow(r, l)
           \/ \E c \in Commands : HostSends(c)
  BY <1>0, <1>4 DEF HostReads, ScanRow, HostSends
<1> QED
  BY <1>1, <1>2, <1>3, <1>4 DEF Unmeasured

(* Every step keeps them.                                                  *)
LEMMA TNextInv == IInv /\ TInv /\ [TNext]_tvars => TInv'
<1> SUFFICES ASSUME IInv, TInv, [TNext]_tvars PROVE TInv'
  OBVIOUS
<1>c. /\ ClockMod \in Nat /\ ClockMod > 1 /\ Time = 0 .. (ClockMod - 1)
      /\ MaxStall \in Nat \ {0} /\ MaxElapsed \in Nat /\ MaxElapsed >= ClockMod + MaxStall
  BY FirmwareAssumption, TimingAssumption DEF Time
<1>t. clock \in Time
  BY DEF IInv, TypeOK
<1> USE DEF TInv, measure, press
<1>1. CASE MeasuredArm
  <2>1. CASE InRange(line.key)
    <3>1. line \in Commands /\ Starts(line)
      BY <1>1 DEF MeasuredArm, Arm, IInv, ReplyReady
    <3>2. HoldMs(line) \in Time
      BY <3>1, StartLine
    <3>3. /\ start' = clock /\ want' = HoldMs(line) /\ elapsed' = 0 /\ stall' = 0
          /\ clock' = clock /\ releaseDeadline' = Deadline(line)
      BY <1>1, <2>1 DEF MeasuredArm, Arm
    <3>4. MeasureOK'
      BY <1>c, <1>t, <3>2, <3>3 DEF MeasureOK
    <3>5. DeadlineInv'
      BY <3>3 DEF DeadlineInv, Deadline
    <3>6. ClockInv' /\ LateInv'
      BY <1>c, <1>t, <3>2, <3>3 DEF ClockInv, LateInv, Timed, Stalled
    <3> QED
      BY <3>4, <3>5, <3>6
  <2>2. CASE ~InRange(line.key)
    <3>1. keyIndex' = Idle /\ UNCHANGED measure
      BY <1>1, <2>2 DEF MeasuredArm, Arm
    <3>2. ~Active'
      BY <3>1 DEF Active
    <3> QED
      BY <3>1, <3>2 DEF MeasureOK, ClockInv, DeadlineInv, LateInv, Timed, Stalled
  <2> QED
    BY <2>1, <2>2
<1>2. CASE MeasuredTick
  <2>1. clock' = (clock + 1) % ClockMod /\ UNCHANGED <<keyIndex, releaseDeadline>>
    BY <1>2 DEF MeasuredTick, Tick
  <2>2. CASE Active
    <3>1. /\ stall' = IF Stalled THEN stall ELSE stall + 1
          /\ elapsed' = IF elapsed < MaxElapsed THEN elapsed + 1 ELSE elapsed
          /\ UNCHANGED <<start, want>>
      BY <1>2, <2>2 DEF MeasuredTick
    <3>2. MeasureOK'
      BY <1>c, <3>1 DEF MeasureOK, Stalled
    <3>3. ClockInv'
      <4> SUFFICES ASSUME start + elapsed' < ClockMod
                   PROVE  clock' = start + elapsed'
        BY <2>1, <3>1 DEF ClockInv
      <4>1. elapsed' = elapsed + 1 /\ start + elapsed < ClockMod
        BY <1>c, <3>1 DEF MeasureOK
      <4>2. clock = start + elapsed
        BY <2>2, <4>1 DEF ClockInv
      <4>3. clock + 1 \in Time
        BY <1>c, <1>t, <4>1, <4>2 DEF MeasureOK
      <4> QED
        BY <2>1, <4>1, <4>2, <4>3, NoWrap, <1>c DEF MeasureOK
    <3>4. DeadlineInv'
      BY <2>1, <3>1 DEF DeadlineInv, Active
    <3>5. LateInv'
      BY <1>c, <2>1, <2>2, <3>1 DEF LateInv, Timed, Active, MeasureOK, Stalled
    <3> QED
      BY <3>2, <3>3, <3>4, <3>5
  <2>3. CASE ~Active
    <3>1. UNCHANGED measure /\ ~Active'
      BY <1>2, <2>1, <2>3 DEF MeasuredTick, Active
    <3> QED
      BY <3>1 DEF MeasureOK, ClockInv, DeadlineInv, LateInv, Timed, Stalled
  <2> QED
    BY <2>2, <2>3
(* A look that does not release the key shows that the deadline is ahead.  *)
<1>3. CASE Looked
  <2>1. /\ UNCHANGED <<keyIndex, releaseDeadline, clock, start, want, elapsed>>
        /\ stall' = IF Stalled THEN stall ELSE 0
        /\ ~Expired
    BY <1>3 DEF Looked, KeepPressing
  <2>2. MeasureOK' /\ ClockInv' /\ DeadlineInv'
    BY <1>c, <2>1 DEF MeasureOK, ClockInv, DeadlineInv, Active, Stalled
  <2>3. LateInv'
    <3> SUFFICES ASSUME Timed, ~Stalled, start + want + MaxStall <= ClockMod
                 PROVE  elapsed < want
      BY <1>c, <2>1 DEF LateInv, Timed, Active, MeasureOK, Stalled
    <3>1. elapsed < want + stall /\ start + elapsed < ClockMod
      BY <1>c DEF LateInv, MeasureOK, Stalled
    <3>2. clock = start + elapsed
      BY <3>1 DEF ClockInv, Timed
    <3>3. start + want \in Time
      BY <1>c DEF MeasureOK
    <3>4. releaseDeadline = start + want
      BY <3>3, NoWrap DEF DeadlineInv, Timed
    <3>5. start + want # 0
      BY <1>c DEF Timed, MeasureOK
    <3> QED
      BY <1>c, <1>t, <2>1, <3>2, <3>4, <3>5 DEF Expired, MeasureOK
  <2> QED
    BY <2>2, <2>3
<1>4. CASE Ended
  <2>1. start' = 0 /\ want' = 0 /\ elapsed' = 0 /\ stall' = 0 /\ keyIndex' = Idle
    BY <1>4 DEF Ended, Forget, ReleaseFloat, Reset
  <2> QED
    BY <1>c, <2>1 DEF MeasureOK, ClockInv, DeadlineInv, LateInv, Timed, Active, Stalled
<1>5. CASE Unmeasured
  BY <1>5, UnmeasuredKeeps DEF MeasureOK, ClockInv, DeadlineInv, LateInv, Timed, Active, Stalled
<1>6. CASE UNCHANGED tvars
  BY <1>6 DEF tvars, vars, MeasureOK, ClockInv, DeadlineInv, LateInv, Timed, Active, Stalled
<1> QED
  BY <1>1, <1>2, <1>3, <1>4, <1>5, <1>6 DEF TNext

(* The state of a measured run at any time.                                *)
LEMMA TInductive == TSpec => [](IInv /\ TInv)
<1>1. TSpec => []IInv
  BY MeasuredIsSketch, Inductive, PTL
<1> QED
  BY <1>1, TInitInv, TNextInv, PTL DEF TSpec

(* The deadline releases no key that has not been pressed for its duration *)
(* (README.md, "press"), if the press ends before millis() wraps.          *)
THEOREM PressNotCutShort == TSpec => NotCutShort
<1>1. IInv /\ TInv /\ [TNext]_tvars => [Expire => (EndsBeforeWrap => elapsed >= want)]_tvars
  <2> SUFFICES ASSUME IInv, TInv, Expire, EndsBeforeWrap
               PROVE  elapsed >= want
    OBVIOUS
  <2>c. ClockMod \in Nat /\ Time = 0 .. (ClockMod - 1) /\ MaxElapsed \in Nat
    BY FirmwareAssumption, TimingAssumption DEF Time
  <2>1. MeasureOK /\ ClockInv /\ DeadlineInv /\ clock \in Time
    BY DEF IInv, TypeOK, TInv
  <2>2. Active /\ Expired
    BY DEF Expire, IInv, PressWired
  <2>3. start + want \in Time
    BY <2>c, <2>1 DEF MeasureOK, EndsBeforeWrap
  <2>4. want # 0 /\ releaseDeadline = start + want
    BY <2>1, <2>2, <2>3, NoWrap DEF DeadlineInv, Expired
  <2>5. clock >= start + want
    BY <2>2, <2>4 DEF Expired
  <2> QED
    BY <2>c, <2>1, <2>2, <2>5 DEF ClockInv, MeasureOK, EndsBeforeWrap
<1> QED
  BY <1>1, TInductive, PTL DEF TSpec, NotCutShort

(* Nor is it held on for more than MaxStall milliseconds, unless loop()    *)
(* has stalled for longer than that.                                       *)
THEOREM PressNotHeldOn == TSpec => []NotHeldOn
<1>1. TInv => NotHeldOn
  BY FirmwareAssumption, TimingAssumption DEF TInv, LateInv, MeasureOK, NotHeldOn, Stalled, Timed, Time
<1> QED
  BY <1>1, TInductive, PTL

(* Type correctness: no measurement leaves its range, and the duration a   *)
(* press is armed with is a number of the clock.                           *)
THEOREM MeasureTypes == TSpec => []MeasureOK
<1>1. TInv => MeasureOK
  BY DEF TInv
<1> QED
  BY <1>1, TInductive, PTL
================================================================================
