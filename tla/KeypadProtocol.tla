----------------------------- MODULE KeypadProtocol -----------------------------
(***************************************************************************)
(* What the sketch does as the host sees it over the serial port: one      *)
(* command line is one step, and its reply is on its way at once.  Time is *)
(* abstracted to the fact that a timed press ends by itself.               *)
(***************************************************************************)
EXTENDS KeypadCommands

CONSTANTS
  Wired,         \* the keys inside the wired matrix
  ClockMayWrap,  \* TRUE if a deadline may fall on the counter's wrap (0)
  RxSize,        \* bound on command lines waiting in the receiver
  TxSize         \* reply lines the transmitter holds before println blocks

VARIABLES
  up,            \* setup() is over
  key,           \* the pressed key, or Idle
  timed,         \* it has a deadline
  rx,            \* command lines sent to the sketch and not yet answered
  tx             \* reply lines on their way to the host

device == <<up, key, timed, rx, tx>>

ASSUME ProtocolAssumption ==
  /\ Wired \subseteq Keys
  /\ ClockMayWrap \in BOOLEAN
  /\ RxSize \in Nat \ {0} /\ TxSize \in Nat \ {0}

Off ==
  /\ up = FALSE
  /\ key = Idle /\ timed = FALSE
  /\ rx = <<>> /\ tx = <<>>

Pressing == key # Idle
LetGo    == key' = Idle /\ timed' = FALSE

--------------------------------------------------------------------------------
(* println returns only when the transmitter has room for the line.        *)
CanPrint == Len(tx) <= TxSize

(* setup(): input is thrown away, then the banner is printed.              *)
Discard ==
  /\ ~up /\ rx # <<>>
  /\ rx' = Tail(rx)
  /\ UNCHANGED <<up, key, timed, tx>>

Boot ==
  /\ ~up /\ CanPrint
  /\ up' = TRUE /\ tx' = Append(tx, "text")
  /\ UNCHANGED <<key, timed, rx>>

(* loop() takes the next line only when the last reply has left println.   *)
Waiting == up /\ rx # <<>> /\ CanPrint

Served(text) == rx' = Tail(rx) /\ tx' = Append(tx, text) /\ UNCHANGED up

Skip ==
  /\ Waiting /\ Head(rx).verb = "blank"
  /\ rx' = Tail(rx)
  /\ UNCHANGED <<up, key, timed, tx>>

(* Mutant of Respond: the status line has lost its prefix.                 *)
RespondUnmarked ==
  /\ Waiting
  /\ \/ Head(rx).verb \in {"help", "list"} /\ Served("text")
     \/ Head(rx).verb = "status" /\ Served("idle")
     \/ Rejected(Head(rx)) /\ Served("ERR")
     \/ Head(rx).verb = "release" /\ ~Pressing /\ Served("OK: nothing to release")
  /\ UNCHANGED <<key, timed>>

Respond ==
  /\ Waiting
  /\ \/ Head(rx).verb \in {"help", "list"} /\ Served("text")
     \/ Head(rx).verb = "status" /\ Served("Status:")
     \/ Rejected(Head(rx)) /\ Served("ERR")
     \/ Head(rx).verb = "release" /\ ~Pressing /\ Served("OK: nothing to release")
  /\ UNCHANGED <<key, timed>>

Release == Waiting /\ Head(rx).verb = "release" /\ Pressing /\ Served("OK") /\ LetGo

(* A new press first lets the old key go, whose "OK" is never sent.        *)
Supersede ==
  /\ Waiting /\ Starts(Head(rx)) /\ Pressing
  /\ LetGo
  /\ UNCHANGED <<up, rx, tx>>

(* Mutant of Press: the line stays in the command buffer.                  *)
PressAgain ==
  /\ Waiting /\ Starts(Head(rx)) /\ ~Pressing /\ Head(rx).key \in Wired
  /\ key' = Head(rx).key
  /\ timed' \in IF Head(rx).verb = "hold" THEN {FALSE}
                ELSE IF ClockMayWrap THEN BOOLEAN ELSE {TRUE}
  /\ tx' = Append(tx, "OK: pressing")
  /\ UNCHANGED <<up, rx>>

Press ==
  /\ Waiting /\ Starts(Head(rx)) /\ ~Pressing /\ Head(rx).key \in Wired
  /\ key' = Head(rx).key
  /\ timed' \in IF Head(rx).verb = "hold" THEN {FALSE}
                ELSE IF ClockMayWrap THEN BOOLEAN ELSE {TRUE}
  /\ Served("OK: pressing")

NotWired ==
  /\ Waiting /\ Starts(Head(rx)) /\ ~Pressing /\ Head(rx).key \notin Wired
  /\ Served("ERR")
  /\ UNCHANGED <<key, timed>>

Expire ==
  /\ Pressing /\ timed /\ CanPrint
  /\ LetGo
  /\ tx' = Append(tx, "OK")
  /\ UNCHANGED <<up, rx>>

--------------------------------------------------------------------------------
Reset ==
  /\ up' = FALSE /\ LetGo /\ rx' = <<>>
  /\ \E n \in 0 .. Len(tx) : tx' = SubSeq(tx, 1, n)

HostSends(c) ==
  /\ Len(rx) <= RxSize
  /\ rx' = Append(rx, c)
  /\ UNCHANGED <<up, key, timed, tx>>

HostReads ==
  /\ tx # <<>>
  /\ tx' = Tail(tx)
  /\ UNCHANGED <<up, key, timed, rx>>

Serve == Skip \/ Respond \/ Release \/ Supersede \/ Press \/ NotWired

Next ==
  \/ Discard \/ Boot \/ Serve \/ Expire
  \/ Reset \/ HostReads \/ \E c \in Commands : HostSends(c)

Spec == Off /\ [][Next]_device
================================================================================
