-------------------------- MODULE KeypadProtocolProofs --------------------------
(***************************************************************************)
(* Proof that the sketch implements KeypadProtocol: what it does pin by    *)
(* pin is, to the host, one step for each command line.                    *)
(***************************************************************************)
EXTENDS KeypadFirmwareProofs

(* A command line is kept from ReadLine to its reply and no longer.  What  *)
(* ends a press is a release line, a deadline, or the line of a new press. *)
LineKept ==
  /\ pc \in {"setup", "loop", "mirror", "expire"} => line = NoLine
  /\ pc \in {"release", "float"} =>
       \/ reply = "OK: pressing"
       \/ reply = "OK" /\ line = NoLine /\ releaseDeadline # 0
       \/ reply = "OK" /\ line \in Commands /\ line.verb = "release"
  /\ ~Active => releaseDeadline = 0
  /\ Len(tx) <= TxSize

PInv == IInv /\ LineKept

(* NoLine is not a command line.                                           *)
LEMMA NoLineIsNone == NoLine \notin Commands
<1>1. NoLine \notin Command
  BY DEF NoLine, Command, Verb
<1> QED
  BY <1>1, CommandAssumption

(* Putting a line before a queue, and taking it off again.                 *)
LEMMA PushFront ==
  ASSUME NEW S, NEW e \in S, NEW s \in Seq(S)
  PROVE  /\ <<e>> \o s # <<>> /\ <<e>> \o s \in Seq(S)
         /\ Head(<<e>> \o s) = e /\ Tail(<<e>> \o s) = s
         /\ Len(<<e>> \o s) = Len(s) + 1
  OBVIOUS

(* A line added at the back of a queue does not reach its front.           *)
LEMMA PushBack ==
  ASSUME NEW S, NEW e \in S, NEW f \in S, NEW s \in Seq(S)
  PROVE  <<e>> \o Append(s, f) = Append(<<e>> \o s, f)
  OBVIOUS

(* A queue is its first line and the rest.                                 *)
LEMMA FrontAndRest ==
  ASSUME NEW S, NEW s \in Seq(S), s # <<>>
  PROVE  <<Head(s)>> \o Tail(s) = s /\ Len(Tail(s)) = Len(s) - 1
  OBVIOUS

(* The reader takes a reply from the front while one is added at the back. *)
LEMMA TakeAndAdd ==
  ASSUME NEW S, NEW e \in S, NEW s \in Seq(S), s # <<>>
  PROVE  Append(s, e) # <<>> /\ Tail(Append(s, e)) = Append(Tail(s), e)
  OBVIOUS

(* The first replies of a queue.                                           *)
LEMMA Cut ==
  ASSUME NEW S, NEW s \in Seq(S), NEW n \in 0 .. Len(s)
  PROVE  Len(SubSeq(s, 1, n)) = n /\ SubSeq(s, 1, n) \in Seq(S)
  OBVIOUS

(* A reset keeps the first replies, whether or not one more was to follow. *)
LEMMA CutAppend ==
  ASSUME NEW S, NEW e \in S, NEW s \in Seq(S), NEW n \in 0 .. Len(s)
  PROVE  /\ n \in 0 .. Len(Append(s, e))
         /\ SubSeq(Append(s, e), 1, n) = SubSeq(s, 1, n)
         /\ Len(SubSeq(s, 1, n)) = n
<1>1. Len(Append(s, e)) = Len(s) + 1
  OBVIOUS
<1>2. Append(s, e) \in Seq(S) /\ \A i \in 1 .. n : Append(s, e)[i] = s[i]
  OBVIOUS
<1>3. Len(SubSeq(s, 1, n)) = n /\ Len(SubSeq(Append(s, e), 1, n)) = n
  BY <1>1, <1>2
<1>4. \A i \in 1 .. n : SubSeq(s, 1, n)[i] = s[i]
  OBVIOUS
<1>5. \A i \in 1 .. n : SubSeq(Append(s, e), 1, n)[i] = Append(s, e)[i]
  BY <1>1, <1>2
<1>6. SubSeq(s, 1, n) \in Seq(S) /\ SubSeq(Append(s, e), 1, n) \in Seq(S)
  BY <1>1, <1>2
<1> QED
  BY <1>1, <1>2, <1>3, <1>4, <1>5, <1>6

--------------------------------------------------------------------------------
(* The transmitter never holds more than TxSize lines.                     *)
LEMMA RoomNext ==
  TypeOK /\ Len(tx) <= TxSize /\ (PrintReply \/ Reset \/ HostReads) => Len(tx') <= TxSize
<1> SUFFICES ASSUME TypeOK, Len(tx) <= TxSize, PrintReply \/ Reset \/ HostReads
             PROVE  Len(tx') <= TxSize
  OBVIOUS
<1>1. tx \in Seq(Reply) /\ TxSize \in Nat
  BY FirmwareAssumption DEF TypeOK
<1>2. Len(tx) \in Nat
  BY <1>1
<1>3. CASE PrintReply
  <2>1. Len(tx') = Len(tx) + 1 /\ Len(tx) < TxSize
    BY <1>1, <1>3 DEF PrintReply
  <2> QED
    BY <1>1, <1>2, <2>1
<1>4. CASE Reset
  <2>1. PICK n \in 0 .. Len(tx) : tx' = SubSeq(tx, 1, n)
    BY <1>4 DEF Reset
  <2>2. Len(tx') = n
    BY <1>1, <2>1, Cut
  <2> QED
    BY <1>1, <1>2, <2>2
<1>5. CASE HostReads
  <2>1. Len(tx') = Len(tx) - 1
    BY <1>1, <1>5, FrontAndRest DEF HostReads
  <2> QED
    BY <1>1, <1>2, <2>1
<1> QED
  BY <1>3, <1>4, <1>5

(* Every step of the sketch and of its environment keeps LineKept.         *)
LEMMA LineKeptNext == PInv /\ [Next]_vars => LineKept'
<1> SUFFICES ASSUME IInv, LineKept, [Next]_vars PROVE LineKept'
  BY DEF PInv
<1>0. PrintReply \/ Reset \/ HostReads => Len(tx') <= TxSize
  BY RoomNext DEF IInv, LineKept
<1> USE DEF LineKept, Active, press, pins
<1>1. CASE SetupDiscard \/ SetupFinish
  BY <1>1 DEF SetupDiscard, SetupFinish
<1>2. CASE ReadLine \/ Blank
  BY <1>2 DEF ReadLine, Blank
<1>3. CASE Inform \/ Status \/ Reject \/ ReleaseNothing
  BY <1>3 DEF Inform, Status, Reject, ReleaseNothing, Answer
<1>4. CASE ReleaseCommand \/ StartKeyPress
  BY <1>4 DEF ReleaseCommand, StartKeyPress, IInv, ReplyReady
<1>5. CASE Arm
  <2>1. InRange(line.key) => line.key # Idle
    BY <1>5 DEF Arm, IInv, ReplyReady, Starts
  <2> QED
    BY <1>5, <2>1 DEF Arm
<1>6. CASE Couple \/ Drive \/ Sync \/ Copy \/ Mirror
  BY <1>6 DEF Couple, Drive, Sync, Copy, Mirror, SampleRow, WriteColumn
<1>7. CASE Maintain
  BY <1>7 DEF Maintain, SampleRow, IInv, PressWired
<1>8. CASE KeepPressing \/ Expire
  BY <1>8 DEF KeepPressing, Expire, Expired
<1>9. CASE ReleaseLow \/ ReleaseFloat
  BY <1>9 DEF ReleaseLow, ReleaseFloat
<1>10. CASE PrintReply
  BY <1>0, <1>10 DEF PrintReply
<1>11. CASE Reset
  BY <1>0, <1>11 DEF Reset
<1>12. CASE HostReads
  BY <1>0, <1>12 DEF HostReads
<1>13. CASE \/ Tick
            \/ \E r \in Rows, l \in Level : ScanRow(r, l)
            \/ \E c \in Commands : HostSends(c)
  BY <1>13 DEF Tick, ScanRow, HostSends
<1>14. CASE UNCHANGED vars
  BY <1>14 DEF vars
<1> QED
  BY <1>1, <1>2, <1>3, <1>4, <1>5, <1>6, <1>7, <1>8, <1>9, <1>10, <1>11, <1>12, <1>13,
     <1>14 DEF Next, Sketch, Environment, Process

(* The inductive invariant of this module.                                 *)
LEMMA LineInductive == Spec => []PInv
<1>1. Init => PInv
  <2>1. Init => LineKept
    BY FirmwareAssumption DEF Init, LineKept, Active, NoLine
  <2> QED
    BY <2>1, InitInv DEF PInv
<1>2. PInv /\ [Next]_vars => PInv'
  BY TypeNext, FlowNext, PinsNext, LineKeptNext DEF PInv, IInv
<1> QED
  BY <1>1, <1>2, PTL DEF Spec

--------------------------------------------------------------------------------
(* What Protocol takes for rx and tx.                                      *)
Pending == IF Unanswered THEN <<line>> \o rx ELSE rx
Sent    == IF Answered THEN Append(tx, reply) ELSE tx

Hidden == UNCHANGED <<pc # "setup", keyIndex, releaseDeadline # 0, Pending, Sent>>

(* A step that changes none of these is no step of the protocol.           *)
LEMMA HiddenStep == Hidden => UNCHANGED Protocol!device
  BY DEF Hidden, Pending, Sent, Protocol!device

(* While a line is being processed it is the first of those pending, and   *)
(* the protocol may serve it.                                              *)
LEMMA AtLine ==
  PInv /\ pc \in {"process", "release", "float", "arm"} /\ line \in Commands =>
    /\ Pending # <<>> /\ Head(Pending) = line /\ Tail(Pending) = rx
    /\ Sent = tx
    /\ Protocol!Waiting
<1> SUFFICES ASSUME PInv, pc \in {"process", "release", "float", "arm"}, line \in Commands
             PROVE  /\ Pending # <<>> /\ Head(Pending) = line /\ Tail(Pending) = rx
                    /\ Sent = tx
                    /\ Protocol!Waiting
  OBVIOUS
<1>1. Unanswered /\ Pending = <<line>> \o rx
  BY NoLineIsNone DEF Pending, Unanswered
<1>2. rx \in Seq(Commands)
  BY DEF PInv, IInv, TypeOK
<1>3. Pending # <<>> /\ Head(Pending) = line /\ Tail(Pending) = rx
  BY <1>1, <1>2, PushFront
<1>4. ~Answered /\ Sent = tx
  BY DEF Answered, Sent
<1>5. Len(tx) <= TxSize
  BY DEF PInv, LineKept
<1> QED
  BY <1>3, <1>4, <1>5 DEF Protocol!Waiting, Protocol!CanPrint, Pending, Sent

(* The steps of the sketch that the host cannot tell from doing nothing.   *)
LEMMA HiddenSteps ==
  PInv /\ (\/ ReadLine \/ ReleaseCommand \/ StartKeyPress \/ Couple \/ Drive \/ Sync \/ Copy
           \/ Maintain \/ Mirror \/ KeepPressing \/ Expire \/ ReleaseLow \/ PrintReply
           \/ Tick \/ (\E r \in Rows, l \in Level : ScanRow(r, l)) \/ UNCHANGED vars)
    => Hidden
<1> USE DEF Hidden, Pending, Sent, Unanswered, Answered, press, pins
<1>1. ASSUME PInv, ReadLine PROVE Hidden
  <2>1. rx \in Seq(Commands) /\ rx # <<>>
    BY <1>1 DEF ReadLine, PInv, IInv, TypeOK
  <2>2. <<Head(rx)>> \o Tail(rx) = rx
    BY <2>1, FrontAndRest
  <2>3. Head(rx) # NoLine
    BY <2>1, HeadAndTail, NoLineIsNone
  <2> QED
    BY <1>1, <2>2, <2>3 DEF ReadLine
<1>2. ASSUME PInv, ReleaseCommand \/ StartKeyPress PROVE Hidden
  BY <1>2 DEF ReleaseCommand, StartKeyPress
<1>3. ASSUME PInv, Couple \/ Drive \/ Sync \/ Copy PROVE Hidden
  BY <1>3 DEF Couple, Drive, Sync, Copy, SampleRow, WriteColumn
<1>4. ASSUME PInv, Maintain PROVE Hidden
  BY <1>4 DEF Maintain, SampleRow, PInv, IInv, PressWired
<1>5. ASSUME PInv, Mirror \/ KeepPressing PROVE Hidden
  BY <1>5 DEF Mirror, KeepPressing, WriteColumn
<1>6. ASSUME PInv, Expire PROVE Hidden
  BY <1>6 DEF Expire, PInv, LineKept
<1>7. ASSUME PInv, ReleaseLow PROVE Hidden
  BY <1>7 DEF ReleaseLow
<1>8. ASSUME PInv, PrintReply PROVE Hidden
  BY <1>8 DEF PrintReply
<1>9. ASSUME PInv, Tick \/ \E r \in Rows, l \in Level : ScanRow(r, l) PROVE Hidden
  BY <1>9 DEF Tick, ScanRow
<1>10. ASSUME PInv, UNCHANGED vars PROVE Hidden
  BY <1>10 DEF vars
<1> QED
  BY <1>1, <1>2, <1>3, <1>4, <1>5, <1>6, <1>7, <1>8, <1>9, <1>10

(* setup() is Discard and Boot.                                            *)
LEMMA SetupSteps == PInv /\ (SetupDiscard \/ SetupFinish) => Protocol!Discard \/ Protocol!Boot
<1> USE DEF Unanswered, Answered, press, pins
<1>1. ASSUME PInv, SetupDiscard PROVE Protocol!Discard
  BY <1>1 DEF SetupDiscard, Protocol!Discard
<1>2. ASSUME PInv, SetupFinish PROVE Protocol!Boot
  BY <1>2 DEF SetupFinish, Protocol!Boot, Protocol!CanPrint, PInv, LineKept
<1> QED
  BY <1>1, <1>2

(* A blank line is Skip, and a line that only answers is Respond.          *)
LEMMA AnswerSteps ==
  PInv /\ (Blank \/ Inform \/ Status \/ Reject \/ ReleaseNothing)
    => Protocol!Skip \/ Protocol!Respond
<1> SUFFICES ASSUME PInv, Blank \/ Inform \/ Status \/ Reject \/ ReleaseNothing
             PROVE  Protocol!Skip \/ Protocol!Respond
  OBVIOUS
<1> USE DEF Unanswered, Answered, press, pins
<1>1. pc = "process" /\ line \in Commands
  BY DEF Blank, Inform, Status, Reject, ReleaseNothing, PInv, IInv, ReplyReady
<1>2. /\ Head(Pending) = line /\ Tail(Pending) = rx /\ Sent = tx
      /\ Protocol!Waiting
  BY <1>1, AtLine
<1>3. CASE Blank
  BY <1>1, <1>2, <1>3 DEF Blank, Protocol!Skip, Pending, Sent
<1>4. CASE Inform \/ Status \/ Reject \/ ReleaseNothing
  <2>1. Pending' = Tail(Pending) /\ Sent' = Append(Sent, reply')
        /\ UNCHANGED <<keyIndex, releaseDeadline>> /\ pc' = "print"
    BY <1>2, <1>4 DEF Inform, Status, Reject, ReleaseNothing, Answer, Pending, Sent
  <2>2. \/ line.verb \in {"help", "list"} /\ reply' = "text"
        \/ line.verb = "status" /\ reply' = "Status:"
        \/ Rejected(line) /\ reply' = "ERR"
        \/ line.verb = "release" /\ ~Active /\ reply' = "OK: nothing to release"
    BY <1>4 DEF Inform, Status, Reject, ReleaseNothing, Answer
  <2>3. Rejected(line) => Protocol!Rejected(line)
    BY DEF Rejected, Starts, Idle, Protocol!Rejected, Protocol!Starts, Protocol!Idle
  <2> QED
    BY <1>1, <1>2, <2>1, <2>2, <2>3
       DEF Protocol!Respond, Protocol!Served, Protocol!Pressing, Protocol!Idle, Active, Idle,
           Pending, Sent
<1> QED
  BY <1>3, <1>4

(* Arm is Press, or NotWired for a key outside the matrix.                 *)
LEMMA ArmSteps == PInv /\ Arm => Protocol!Press \/ Protocol!NotWired
<1> SUFFICES ASSUME PInv, Arm PROVE Protocol!Press \/ Protocol!NotWired
  OBVIOUS
<1> USE DEF press, pins
<1>1. pc = "arm" /\ line \in Commands /\ Starts(line) /\ reply = "OK: pressing"
  BY DEF Arm, PInv, IInv, ReplyReady
<1>2. /\ Head(Pending) = line /\ Tail(Pending) = rx /\ Sent = tx
      /\ Protocol!Waiting
  BY <1>1, AtLine
<1>3. keyIndex = Idle /\ releaseDeadline = 0
  BY <1>1 DEF PInv, IInv, PressWired, LineKept, Active
<1>4. line.key \in Keys /\ Protocol!Starts(line)
  BY <1>1, StartLine DEF Starts, Idle, Protocol!Starts, Protocol!Idle
<1>5. /\ Pending' = Tail(Pending) /\ Sent' = Append(Sent, reply')
      /\ pc # "setup" /\ pc' # "setup"
  BY <1>1, <1>2 DEF Arm, Pending, Sent, Unanswered, Answered
<1>6. CASE InRange(line.key)
  <2>1. keyIndex' = line.key /\ releaseDeadline' = Deadline(line) /\ reply' = "OK: pressing"
    BY <1>1, <1>6 DEF Arm
  <2>2. line.verb = "hold" => Deadline(line) = 0
    BY DEF Deadline, HoldMs
  <2>3. line.key \in {k \in Keys : InRange(k)}
    BY <1>4, <1>6
  <2>4. (releaseDeadline' # 0) \in IF line.verb = "hold" THEN {FALSE} ELSE BOOLEAN
    BY <2>1, <2>2
  <2> QED
    BY <1>2, <1>3, <1>4, <1>5, <2>1, <2>3, <2>4
       DEF Protocol!Press, Protocol!Served, Protocol!Pressing, Protocol!Idle, Idle,
           Pending, Sent
<1>7. CASE ~InRange(line.key)
  <2>1. keyIndex' = Idle /\ releaseDeadline' = 0 /\ reply' = "ERR"
    BY <1>7 DEF Arm
  <2>2. line.key \notin {k \in Keys : InRange(k)}
    BY <1>7
  <2> QED
    BY <1>2, <1>3, <1>4, <1>5, <2>1, <2>2
       DEF Protocol!NotWired, Protocol!Served, Protocol!Pressing, Protocol!Idle, Idle,
           Pending, Sent
<1> QED
  BY <1>6, <1>7

(* A key is let go for a new press, for its deadline or for a release.     *)
LEMMA ReleaseSteps ==
  PInv /\ ReleaseFloat => Protocol!Supersede \/ Protocol!Expire \/ Protocol!Release
<1> SUFFICES ASSUME PInv, ReleaseFloat
             PROVE  Protocol!Supersede \/ Protocol!Expire \/ Protocol!Release
  OBVIOUS
<1> USE DEF press, pins
<1>1. pc = "float" /\ keyIndex # Idle /\ keyIndex' = Idle /\ releaseDeadline' = 0
      /\ UNCHANGED <<line, reply, rx, tx>>
  BY DEF ReleaseFloat, PInv, IInv, PressWired, Active
<1>2. Protocol!Pressing /\ Protocol!LetGo /\ pc' # "setup"
  BY <1>1 DEF Protocol!Pressing, Protocol!LetGo, Protocol!Idle, Idle, ReleaseFloat
<1>3. CASE reply = "OK: pressing"
  <2>1. line \in Commands /\ Starts(line) /\ pc' = "arm"
    BY <1>1, <1>3 DEF PInv, IInv, ReplyReady, ReleaseFloat
  <2>2. Head(Pending) = line /\ Protocol!Waiting
    BY <1>1, <2>1, AtLine
  <2>3. Protocol!Starts(line)
    BY <2>1 DEF Starts, Idle, Protocol!Starts, Protocol!Idle
  <2>4. UNCHANGED <<Pending, Sent>>
    BY <1>1, <2>1 DEF Pending, Sent, Unanswered, Answered
  <2> QED
    BY <1>1, <1>2, <2>2, <2>3, <2>4 DEF Protocol!Supersede, Pending, Sent
<1>4. CASE reply = "OK" /\ line = NoLine /\ releaseDeadline # 0
  <2>1. UNCHANGED Pending /\ Sent = tx /\ Sent' = Append(tx, "OK") /\ Len(tx) <= TxSize
    BY <1>1, <1>4
       DEF Pending, Sent, Unanswered, Answered, ReleaseFloat, PInv, LineKept
  <2> QED
    BY <1>1, <1>2, <1>4, <2>1 DEF Protocol!Expire, Protocol!CanPrint, Pending, Sent
<1>5. CASE reply = "OK" /\ line \in Commands /\ line.verb = "release"
  <2>1. /\ Head(Pending) = line /\ Tail(Pending) = rx /\ Sent = tx
        /\ Protocol!Waiting
    BY <1>1, <1>5, AtLine
  <2>2. Pending' = Tail(Pending) /\ Sent' = Append(Sent, "OK")
    BY <1>1, <1>5, <2>1 DEF Pending, Sent, Unanswered, Answered, ReleaseFloat
  <2> QED
    BY <1>1, <1>2, <1>5, <2>1, <2>2
       DEF Protocol!Release, Protocol!Served, Pending, Sent
<1> QED
  BY <1>1, <1>3, <1>4, <1>5 DEF PInv, LineKept

(* A reset cuts the replies short, the one being printed included.         *)
LEMMA ResetStep == PInv /\ Reset => Protocol!Reset
<1> SUFFICES ASSUME PInv, Reset PROVE Protocol!Reset
  OBVIOUS
<1>1. PICK n \in 0 .. Len(tx) : tx' = SubSeq(tx, 1, n)
  BY DEF Reset
<1>2. tx \in Seq(Reply) /\ (Answered => reply \in Reply)
  BY DEF PInv, IInv, TypeOK, ReplyReady, Answered, Reply
<1>3. n \in 0 .. Len(Sent) /\ tx' = SubSeq(Sent, 1, n)
  BY <1>1, <1>2, CutAppend DEF Sent
<1>4. pc' = "setup" /\ keyIndex' = Idle /\ releaseDeadline' = 0 /\ rx' = <<>>
  BY DEF Reset
<1>5. Pending' = <<>> /\ Sent' = tx'
  BY <1>4 DEF Pending, Sent, Unanswered, Answered
<1> QED
  BY <1>3, <1>4, <1>5
     DEF Protocol!Reset, Protocol!LetGo, Protocol!Idle, Idle, Pending, Sent

(* The host sends behind the line being processed, and reads ahead of the  *)
(* reply being printed.                                                    *)
LEMMA HostSteps ==
  PInv /\ (HostReads \/ \E c \in Commands : HostSends(c))
    => Protocol!HostReads \/ \E c \in Commands : Protocol!HostSends(c)
<1> USE DEF press, pins
<1>1. ASSUME PInv, HostReads PROVE Protocol!HostReads
  <2>1. tx \in Seq(Reply) /\ (Answered => reply \in Reply)
    BY <1>1 DEF PInv, IInv, TypeOK, ReplyReady, Answered, Reply
  <2>2. Sent # <<>> /\ Sent' = Tail(Sent)
    BY <1>1, <2>1, TakeAndAdd DEF HostReads, Sent, Answered
  <2> QED
    BY <1>1, <2>2 DEF HostReads, Protocol!HostReads, Sent, Unanswered
<1>2. ASSUME PInv, NEW c \in Commands, HostSends(c) PROVE Protocol!HostSends(c)
  <2>1. rx \in Seq(Commands) /\ RxSize \in Nat /\ (Unanswered => line \in Commands)
    BY <1>2, FirmwareAssumption DEF PInv, IInv, TypeOK, Unanswered
  <2>2. Len(Pending) <= RxSize /\ Pending' = Append(Pending, c)
    <3>1. Len(rx) \in Nat /\ Len(rx) < RxSize /\ rx' = Append(rx, c) /\ UNCHANGED <<pc, line>>
      BY <1>2, <2>1 DEF HostSends
    <3>2. CASE Unanswered
      <4>1. Len(<<line>> \o rx) = Len(rx) + 1
        BY <2>1, <3>2, PushFront
      <4>2. <<line>> \o Append(rx, c) = Append(<<line>> \o rx, c)
        BY <2>1, <3>2, PushBack
      <4>3. Len(Pending) <= RxSize
        BY <2>1, <3>1, <3>2, <4>1 DEF Pending
      <4> QED
        BY <3>1, <3>2, <4>2, <4>3 DEF Pending, Unanswered
    <3>3. CASE ~Unanswered
      BY <2>1, <3>1, <3>3 DEF Pending, Unanswered
    <3> QED
      BY <3>2, <3>3
  <2> QED
    BY <1>2, <2>2 DEF HostSends, Protocol!HostSends, Pending, Answered
<1> QED
  BY <1>1, <1>2

(* The sketch implements KeypadProtocol: for every key map, set of command *)
(* lines and buffer size, each line that is not blank gets the one reply   *)
(* its state calls for, in order, and nothing else is ever sent but the    *)
(* banner and the "OK" of a deadline.                                      *)
THEOREM ServesHost == Spec => ServesProtocol
<1>1. Init => Protocol!Off
  BY DEF Init, Protocol!Off, Protocol!Idle, Idle, Unanswered, Answered
<1>2. PInv /\ [Next]_vars => [Protocol!Next]_(Protocol!device)
  <2> SUFFICES ASSUME PInv, [Next]_vars PROVE Protocol!Next \/ UNCHANGED Protocol!device
    OBVIOUS
  <2>1. Hidden \/ Protocol!Next
    BY HiddenSteps, SetupSteps, AnswerSteps, ArmSteps, ReleaseSteps, ResetStep, HostSteps
       DEF Next, Sketch, Environment, Process, Protocol!Next, Protocol!Serve
  <2> QED
    BY <2>1, HiddenStep
<1> QED
  BY LineInductive, <1>1, <1>2, PTL DEF Spec, ServesProtocol, Protocol!Spec
================================================================================
