------------------------------- MODULE ArduinoLink -------------------------------
(***************************************************************************)
(* The host library arduino_link.cpp on one handle, composed with the      *)
(* sketch (KeypadProtocol) over the serial line.  send_raw_command writes  *)
(* a line and blocks on replies; run_microwave and stop_microwave are      *)
(* sequences of it.  The two FIFO queues of KeypadProtocol are the line:   *)
(* rx to the sketch, tx back, the latter with the port's own buffer.       *)
(***************************************************************************)
EXTENDS KeypadProtocol

CONSTANTS
  Raw,             \* the commands send_microwave_command is called with
  Times,           \* the time strings run_microwave is called with
  Levels,          \* the power levels
  IntMax,          \* the largest int
  KeyNamed,        \* the key a character of a time names, or Idle
  CookTime, Power, Stop,  \* keys of kKeyMap
  SlowBoot,        \* TRUE if the board may still boot 2 s after the open
  Glitches,        \* TRUE if the board may reset while the port is open
  RetryAfterFail   \* TRUE if the caller goes on after API_ERROR_SERIAL_FAIL

VARIABLES
  hpc,             \* where the caller's thread is
  call,            \* the API function it is in, or was in last
  todo,            \* the commands this call still has to send
  buf,             \* response_buf of send_raw_command
  result,          \* what the last call returned
  garbled,         \* the sketch holds part of a line whose write failed
  owed,            \* history: the keys each command of this call is to press
  pressed          \* history: the keys closed since each of them was written

host  == <<hpc, call, todo, buf, result, garbled, owed>>
lvars == <<device, host, pressed>>

--------------------------------------------------------------------------------
Success    == 0
SerialFail == -2
BadTimeStr == -3
None       == 1        \* no call has returned on this handle yet

(* A raw command: the line as the sketch will split it, and whether the    *)
(* string begins with "press" or "pulse", which is all the library looks   *)
(* at.  The sketch trims the line and ignores its case, find() does not.   *)
RawCommand == [line : Command, doubled : BOOLEAN]

Line(verb, count, k) == [verb |-> verb, count |-> count, key |-> k, ms |-> 0]
PressKey(k) == [line |-> Line("press", 2, k), doubled |-> TRUE]
Blank   == Line("blank", 0, Idle)
Unknown == Line("unknown", 1, Idle)

Cook == INSTANCE CookPlan

HPC == {"closed", "opening", "idle", "write", "read", "settle"}

ASSUME LinkAssumption ==
  /\ Raw \subseteq RawCommand
  /\ \A t \in Times : t \in Seq(DOMAIN KeyNamed)
  /\ \A c \in DOMAIN KeyNamed : KeyNamed[c] \in Keys \cup {Idle}
  /\ Levels \subseteq 0 .. 255
  /\ Cook!IntHoldsSeconds
  /\ CookTime \in Wired /\ Power \in Wired /\ Stop \in Wired
  /\ SlowBoot \in BOOLEAN /\ Glitches \in BOOLEAN /\ RetryAfterFail \in BOOLEAN

(* run_microwave: "Cook Time", the digits, "Power" n times.  A character   *)
(* of the time that is not a key gives a line that names none.             *)
CookSequence(digits, p) ==
  <<PressKey(CookTime)>>
    \o [i \in DOMAIN digits |-> PressKey(KeyNamed[digits[i]])]
    \o [i \in 1 .. Cook!PowerPresses(p) |-> PressKey(Power)]

(* The keys a line closes: one, or none.  The first element is for what is *)
(* closed before the first command of a call is written.                   *)
KeysOf(l)  == IF Starts(l) /\ l.key \in Wired THEN <<l.key>> ELSE <<>>
Owes(plan) == <<<<>>>> \o [i \in DOMAIN plan |-> KeysOf(plan[i].line)]

LinkInit ==
  /\ Off
  /\ hpc = "closed" /\ call = "none" /\ todo = <<>> /\ buf = <<>>
  /\ result = None /\ garbled = FALSE
  /\ owed = Owes(<<>>) /\ pressed = <<<<>>>>

--------------------------------------------------------------------------------
(* open_microwave_controller: opening the port resets the board; 2 seconds *)
(* later what has arrived is drained, and a newline sent, whose failure is *)
(* ignored.                                                                *)
Open ==
  /\ hpc = "closed" /\ hpc' = "opening"
  /\ Reset /\ garbled' = FALSE
  /\ UNCHANGED <<call, todo, buf, result, owed, pressed>>

Drain ==
  /\ hpc = "opening" /\ (up \/ SlowBoot)
  /\ tx' = <<>>
  /\ rx' \in {rx, Append(rx, Blank)}
  /\ hpc' = "idle" /\ result' = None
  /\ UNCHANGED <<up, key, timed, call, todo, buf, garbled, owed, pressed>>

Close ==
  /\ hpc = "idle" /\ hpc' = "closed"
  /\ call' = "close" /\ result' = Success
  /\ UNCHANGED <<device, todo, buf, garbled, owed, pressed>>

(* While the port is closed nobody keeps what the sketch sends.            *)
Unheard == hpc = "closed" /\ HostReads /\ UNCHANGED <<host, pressed>>

--------------------------------------------------------------------------------
(* An API call of the caller's thread, and its plan of raw commands.       *)
MayCall == hpc = "idle" /\ (result = SerialFail => RetryAfterFail)

Begin(name, plan) ==
  /\ MayCall
  /\ hpc' = "write" /\ call' = name /\ todo' = plan
  /\ owed' = Owes(plan) /\ pressed' = <<<<>>>>
  /\ UNCHANGED <<device, buf, result, garbled>>

SendCommand  == \E c \in Raw : Begin("send", <<c>>)
StopMicrowave == Begin("stop", <<PressKey(Stop)>>)
RunMicrowave ==
  \E t \in Times, p \in Levels :
    /\ Cook!ParseTime(t) # Cook!Refused
    /\ Begin("run", CookSequence(Cook!ParseTime(t), p))

RefuseTime ==
  /\ MayCall
  /\ \E t \in Times : Cook!ParseTime(t) = Cook!Refused
  /\ call' = "run" /\ result' = BadTimeStr
  /\ owed' = Owes(<<>>) /\ pressed' = <<<<>>>>
  /\ UNCHANGED <<device, hpc, todo, buf, garbled>>

(* send_raw_command.  The write; a line that follows a part of another one *)
(* reaches the sketch as one line it does not know.                        *)
Deliver ==
  /\ HostSends(IF garbled THEN Unknown ELSE Head(todo).line)
  /\ garbled' = FALSE
  /\ pressed' = Append(pressed, <<>>)

Write ==
  /\ hpc = "write" /\ hpc' = "read"
  /\ Deliver
  /\ UNCHANGED <<call, todo, buf, result, owed>>

(* read_until takes what the port holds, at least one line ...             *)
Receive ==
  /\ hpc = "read" /\ buf = <<>>
  /\ \E n \in 1 .. Len(tx) :
       buf' = SubSeq(tx, 1, n) /\ tx' = SubSeq(tx, n + 1, Len(tx))
  /\ UNCHANGED <<up, key, timed, rx, hpc, call, todo, result, garbled, owed, pressed>>

(* Mutants of Awaited: a press takes the first "OK" for the second one, or *)
(* every command waits for a bare "OK".                                    *)
AwaitedFirst(l) == l \in {"OK: pressing", "OK", "OK: nothing to release", "Status:"}
AwaitedBare(l)  == l = "OK"

(* ... and the loop looks at it line by line.  What follows the awaited    *)
(* line in response_buf is thrown away with it.                            *)
Awaited(l) ==
  IF Head(todo).doubled THEN l = "OK"
  ELSE l \in {"OK: pressing", "OK", "OK: nothing to release", "Status:"}

PassOver ==
  /\ hpc = "read" /\ buf # <<>> /\ ~Awaited(Head(buf))
  /\ buf' = Tail(buf)
  /\ UNCHANGED <<device, hpc, call, todo, result, garbled, owed, pressed>>

Acknowledge ==
  /\ hpc = "read" /\ buf # <<>> /\ Awaited(Head(buf))
  /\ buf' = <<>> /\ hpc' = "settle"
  /\ UNCHANGED <<device, call, todo, result, garbled, owed, pressed>>

(* The 150 ms of sleep, then the next command of the plan or the return.   *)
Settle ==
  /\ hpc = "settle"
  /\ todo' = Tail(todo)
  /\ IF Tail(todo) = <<>>
       THEN hpc' = "idle" /\ result' = Success
       ELSE hpc' = "write" /\ UNCHANGED result
  /\ UNCHANGED <<device, call, buf, garbled, owed, pressed>>

(* asio throws: from the write, with none, some or all of the line sent,   *)
(* or from a read.  The port stays open.                                   *)
Fail ==
  /\ hpc \in {"write", "read"}
  /\ \/ UNCHANGED <<device, garbled, pressed>>
     \/ hpc = "write" /\ garbled' = TRUE /\ UNCHANGED <<device, pressed>>
     \/ hpc = "write" /\ Deliver
  /\ hpc' = "idle" /\ result' = SerialFail /\ todo' = <<>> /\ buf' = <<>>
  /\ UNCHANGED <<call, owed>>

--------------------------------------------------------------------------------
(* The sketch's own steps; the keys it closes are recorded.                *)
Sketch ==
  /\ \/ (Discard \/ Boot \/ Skip \/ Respond \/ Release \/ Supersede \/ NotWired \/ Expire)
          /\ UNCHANGED pressed
     \/ Press /\ pressed' = [pressed EXCEPT ![Len(pressed)] = Append(@, key')]
  /\ UNCHANGED host

Glitch ==
  /\ Glitches /\ hpc # "closed"
  /\ Reset /\ garbled' = FALSE
  /\ UNCHANGED <<hpc, call, todo, buf, result, owed, pressed>>

Library == Write \/ Receive \/ PassOver \/ Acknowledge \/ Settle \/ Drain
Caller  == Open \/ Close \/ SendCommand \/ StopMicrowave \/ RunMicrowave \/ RefuseTime

LinkNext == Library \/ Caller \/ Fail \/ Unheard \/ Sketch \/ Glitch

LinkSpec == LinkInit /\ [][LinkNext]_lvars

(* The caller's thread and the sketch keep running, and the press of the   *)
(* sketch ends (PressTiming).  Nothing makes the caller call, the line     *)
(* fail or the board reset.                                                *)
LinkFairSpec == LinkSpec /\ WF_lvars(Library) /\ WF_lvars(Sketch)

--------------------------------------------------------------------------------
LinkTypeOK ==
  /\ up \in BOOLEAN /\ key \in Keys \cup {Idle} /\ timed \in BOOLEAN
  /\ rx \in Seq(Command) /\ tx \in Seq(Reply) /\ buf \in Seq(Reply)
  /\ hpc \in HPC /\ call \in {"none", "send", "run", "stop", "close"}
  /\ todo \in Seq(RawCommand)
  /\ result \in {Success, SerialFail, BadTimeStr, None}
  /\ garbled \in BOOLEAN
  /\ owed \in Seq(Seq(Keys)) /\ pressed \in Seq(Seq(Keys)) \ {<<>>}

(* send_raw_command blocks until its command is fully acknowledged: on     *)
(* success each command of the call has pressed its key, once and before   *)
(* the next one was written, nothing else has been pressed, and no timed   *)
(* press is still going on.                                                *)
Returns == hpc = "settle" /\ hpc' = "idle"

FullyAcknowledged == [][Returns => pressed = owed /\ ~timed]_lvars

(* And no reply is left on the line that a later call could take for its   *)
(* own: replies carry nothing that says which command they answer.         *)
NoStaleReply ==
  [][Returns => rx = <<>> /\ \A i \in DOMAIN tx : tx[i] = "text"]_lvars

(* Before that, and when it fails half way, the call has pressed a prefix  *)
(* of its keys: no key twice, none skipped, none of an earlier call, and   *)
(* only the last command written may be one that has not pressed yet.      *)
KeysInOrder ==
  call \in {"send", "run", "stop"} =>
    /\ Len(pressed) <= Len(owed)
    /\ \A i \in DOMAIN pressed :
         pressed[i] = owed[i] \/ (i = Len(pressed) /\ pressed[i] = <<>>)

(* A tap belongs to the command the library waits on: the sketch is never  *)
(* made to press the next key on top of one, which would cut it short.     *)
NeverSupersedesTap == [][Supersede => ~timed]_lvars

(* A command that is written to a board that is up is acknowledged, or its *)
(* call fails: whatever was on the line before it, a reply that the        *)
(* library recognises does arrive and is not passed over.  Excused are a   *)
(* reset meanwhile, a command that has no such reply (CallReturns), and a  *)
(* tap whose deadline fell on the wrap of millis() (PressHasDeadline).     *)
Recognised(c) ==
  \/ Starts(c.line) /\ c.line.key \in Wired /\ (c.doubled => c.line.verb = "press")
  \/ c.line.verb \in {"release", "status"} /\ ~c.doubled
Unanswerable == todo # <<>> /\ ~Recognised(Head(todo))
HeldForGood  ==
  /\ hpc = "read" /\ Head(todo).line.verb = "press"
  /\ key # Idle /\ ~timed /\ pressed[Len(pressed)] # <<>>

ReplyReachesCall ==
  (hpc = "write" /\ up) ~>
    (hpc \in {"settle", "idle"} \/ ~up \/ Unanswerable \/ HeldForGood)

(* A call returns, 0 on success or the code of a failure.                  *)
CallReturns == (hpc \in {"write", "read", "settle"}) ~> (hpc = "idle")
================================================================================
