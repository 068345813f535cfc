------------------------------- MODULE PressTiming -------------------------------
(***************************************************************************)
(* How long a timed press lasts.  KeypadFirmware with history variables    *)
(* that measure the press in true milliseconds, next to the wrapping       *)
(* millis() the sketch decides by.  They forbid no step: they also note    *)
(* whether loop() has come round, that is, looked at the deadline, every   *)
(* MaxStall milliseconds of the press.  Serial input that arrives faster   *)
(* than it is handled, or a println that blocks, is what keeps it from it. *)
(***************************************************************************)
EXTENDS KeypadFirmware

CONSTANTS
  MaxStall,      \* milliseconds without a look after which the loop has stalled
  MaxElapsed     \* bound on the measured time; it stops counting there

VARIABLES
  start,         \* millis() when the press was armed
  want,          \* the holdMs it was armed with, 0 for a hold
  elapsed,       \* milliseconds since then
  stall          \* milliseconds since the last look; kept once loop() has stalled

measure == <<start, want, elapsed, stall>>
tvars   == <<vars, measure>>

ASSUME TimingAssumption ==
  /\ MaxStall \in Nat \ {0}
  /\ MaxElapsed \in Nat /\ MaxElapsed >= ClockMod + MaxStall

--------------------------------------------------------------------------------
TInit == Init /\ start = 0 /\ want = 0 /\ elapsed = 0 /\ stall = 0

Stalled == stall > MaxStall

Forget == start' = 0 /\ want' = 0 /\ elapsed' = 0 /\ stall' = 0

MeasuredArm ==
  /\ Arm
  /\ IF InRange(line.key)
       THEN start' = clock /\ want' = HoldMs(line) /\ elapsed' = 0 /\ stall' = 0
       ELSE UNCHANGED measure

MeasuredTick ==
  /\ Tick
  /\ IF Active
       THEN /\ stall' = IF Stalled THEN stall ELSE stall + 1
            /\ elapsed' = IF elapsed < MaxElapsed THEN elapsed + 1 ELSE elapsed
            /\ UNCHANGED <<start, want>>
       ELSE UNCHANGED measure

Looked ==
  /\ KeepPressing
  /\ stall' = IF Stalled THEN stall ELSE 0
  /\ UNCHANGED <<start, want, elapsed>>

Ended == (ReleaseFloat \/ Reset) /\ Forget

Unmeasured ==
  /\ \/ SetupDiscard \/ SetupFinish \/ ReadLine \/ Process
     \/ Couple \/ Drive \/ Sync \/ Copy
     \/ Maintain \/ Mirror \/ Expire \/ ReleaseLow \/ PrintReply
     \/ HostReads
     \/ \E r \in Rows, l \in Level : ScanRow(r, l)
     \/ \E c \in Commands : HostSends(c)
  /\ UNCHANGED measure

TNext == MeasuredArm \/ MeasuredTick \/ Looked \/ Ended \/ Unmeasured

TSpec == TInit /\ [][TNext]_tvars

--------------------------------------------------------------------------------
MeasureOK ==
  /\ start \in Time /\ want \in Time
  /\ elapsed \in 0 .. MaxElapsed /\ stall \in 0 .. (MaxStall + 1)

Timed == Active /\ want # 0

(* The deadline is a number of the clock that comes round again: only for  *)
(* a press that ends before the counter wraps does it mean what it should. *)
EndsBeforeWrap == start + want < ClockMod

(* A press that ends before the counter wraps is not cut short: when the   *)
(* deadline releases the key, the key has been pressed for its duration.   *)
NotCutShort == [][Expire => (EndsBeforeWrap => elapsed >= want)]_tvars

(* Nor is it held on: unless loop() has stalled, the deadline releases it  *)
(* at the first look after it has passed, if no look that is late but in   *)
(* time falls beyond the wrap.                                             *)
NotHeldOn ==
  Timed /\ ~Stalled /\ start + want + MaxStall <= ClockMod => elapsed < want + MaxStall

(* What README.md says of "press": the key is tapped for the provided      *)
(* duration.  So it has a deadline; but 0 means "until release", and the   *)
(* sum can be 0 on an unsigned long.                                       *)
PressHasDeadline == Timed => releaseDeadline # 0
================================================================================
