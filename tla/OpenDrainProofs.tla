----------------------------- MODULE OpenDrainProofs -----------------------------
(***************************************************************************)
(* The drain of open_microwave_controller, for every buffer size, duration *)
(* and delay: the handlers that are under way, the count asio keeps of     *)
(* them, and the announcement of input.  The properties are not inductive  *)
(* by themselves: a handler that runs is out of the queue but still        *)
(* counted (k = 1 in IoOk(s, k)), and that an event is queued once depends *)
(* on the port coming before the reactor's task in the queue (PortFirst).  *)
(* One lemma for each function of AsioLoop; the steps only combine them.   *)
(* The second half is about time and order: when the timers are over, and  *)
(* what is ahead of their handlers in the queue (InTime).                  *)
(***************************************************************************)
EXTENDS OpenDrain, SequenceTheorems, TLAPS

(* The parts of the invariant, of a state s of the io_context: no two      *)
(* entries for the same operation; what two states share but the queue; an *)
(* event of the port comes before the next round of the reactor.           *)
Distinct(s) == \A i, j \in DOMAIN s.queue : s.queue[i].op = s.queue[j].op => i = j

Same(r, s) ==
  /\ r.work = s.work /\ r.stopped = s.stopped /\ r.reads = s.reads
  /\ r.expiry = s.expiry /\ r.port = s.port /\ r.hungup = s.hungup /\ r.edge = s.edge

PortFirst(s) ==
  \A i, j \in DOMAIN s.queue : s.queue[i].op = "port" /\ s.queue[j].op = "task" => i < j

(* An entry that is put into the queue: nothing else is, and an operation  *)
(* that was not there is still there once.                                 *)
LEMMA PostQueue ==
  ASSUME NEW s \in Io, NEW o \in Op \cup {"port", "task"}, NEW e \in {"ok", "aborted", "error"}
  PROVE  /\ Post(s, o, e) \in Io /\ Same(Post(s, o, e), s)
         /\ \A p : Queued(Post(s, o, e), p) <=> Queued(s, p) \/ p = o
         /\ Distinct(s) /\ ~Queued(s, o) => Distinct(Post(s, o, e))
         /\ PortFirst(s) /\ o # "port" => PortFirst(Post(s, o, e))
         /\ PortFirst(s) /\ ~Queued(s, "task") => PortFirst(Post(s, o, e))
  <1> DEFINE r == Post(s, o, e)
             x == [op |-> o, ec |-> e]
             q == Append(s.queue, x)
  <1>1. x \in Entry /\ s.queue \in Seq(Entry)
    BY DEF Io, Entry
  <1>2. q \in Seq(Entry) /\ Len(q) = Len(s.queue) + 1 /\ q[Len(q)] = x
        /\ \A i \in 1 .. Len(s.queue) : q[i] = s.queue[i]
    BY <1>1
  <1>3. r.queue = q /\ r \in Io /\ Same(r, s)
    BY <1>2 DEF Post, Io, Same
  <1>4. DOMAIN s.queue = 1 .. Len(s.queue) /\ DOMAIN r.queue = 1 .. (Len(s.queue) + 1)
        /\ Len(s.queue) \in Nat
    BY <1>1, <1>2, <1>3
  <1>5. x.op = o /\ \A i \in DOMAIN s.queue : r.queue[i] = s.queue[i]
    BY <1>2, <1>3, <1>4
  <1>6. r.queue[Len(s.queue) + 1] = x
    BY <1>2, <1>3
  <1> HIDE DEF r, x, q
  <1>7. \A p : Queued(r, p) <=> Queued(s, p) \/ p = o
    BY <1>4, <1>5, <1>6 DEF Queued
  <1>8. Distinct(s) /\ ~Queued(s, o) => Distinct(r)
    BY <1>4, <1>5, <1>6 DEF Distinct, Queued
  <1>9. PortFirst(s) /\ (o # "port" \/ ~Queued(s, "task")) => PortFirst(r)
    BY <1>4, <1>5, <1>6 DEF PortFirst, Queued
  <1> QED BY <1>3, <1>7, <1>8, <1>9 DEF r

(* The head that is taken from the queue: the others stay, in their order. *)
LEMMA PopQueue ==
  ASSUME NEW s \in Io, s.queue # <<>>
  PROVE  /\ Pop(s) \in Io /\ Same(Pop(s), s)
         /\ Distinct(s) => /\ Distinct(Pop(s))
                           /\ \A p : Queued(Pop(s), p) <=> Queued(s, p) /\ p # Head(s.queue).op
         /\ PortFirst(s) => PortFirst(Pop(s))
  <1> DEFINE r == Pop(s)
             n == Len(s.queue)
  <1>1. s.queue \in Seq(Entry) /\ n \in Nat /\ n > 0 /\ DOMAIN s.queue = 1 .. n
    BY DEF Io
  <1>2. r.queue = Tail(s.queue) /\ r \in Io /\ Same(r, s)
    <2>1. Tail(s.queue) \in Seq(Entry)
      BY <1>1, HeadTailProperties
    <2> QED BY <2>1 DEF Pop, Io, Same
  <1>3. DOMAIN r.queue = 1 .. (n - 1) /\ \A i \in 1 .. (n - 1) : r.queue[i] = s.queue[i + 1]
    BY <1>1, <1>2
  <1>4. Head(s.queue) = s.queue[1]
    BY <1>1
  <1> HIDE DEF r, n
  <1>5. \A i \in 1 .. n : i = 1 \/ (i - 1 \in 1 .. (n - 1) /\ (i - 1) + 1 = i)
    BY <1>1
  <1>6. Distinct(s) => Distinct(r)
    <2> SUFFICES ASSUME Distinct(s),
                        NEW i \in 1 .. (n - 1), NEW j \in 1 .. (n - 1),
                        r.queue[i].op = r.queue[j].op
                 PROVE  i = j
      BY <1>3 DEF Distinct
    <2>1. i + 1 \in DOMAIN s.queue /\ j + 1 \in DOMAIN s.queue
      BY <1>1
    <2>2. i + 1 = j + 1
      BY <2>1, <1>3 DEF Distinct
    <2> QED BY <2>2, <1>1
  <1>7. Distinct(s) => \A p : Queued(r, p) <=> Queued(s, p) /\ p # Head(s.queue).op
    <2> SUFFICES ASSUME Distinct(s), NEW p
                 PROVE  Queued(r, p) <=> Queued(s, p) /\ p # Head(s.queue).op
      OBVIOUS
    <2>1. ASSUME Queued(r, p) PROVE Queued(s, p) /\ p # Head(s.queue).op
      <3>1. PICK i \in 1 .. (n - 1) : r.queue[i].op = p
        BY <2>1, <1>3 DEF Queued
      <3>2. s.queue[i + 1].op = p /\ i + 1 \in 1 .. n /\ i + 1 # 1
        BY <3>1, <1>3, <1>1
      <3> QED BY <3>2, <1>1, <1>4 DEF Queued, Distinct
    <2>2. ASSUME Queued(s, p), p # Head(s.queue).op PROVE Queued(r, p)
      <3>1. PICK i \in 1 .. n : s.queue[i].op = p
        BY <2>2, <1>1 DEF Queued
      <3>2. i - 1 \in 1 .. (n - 1) /\ r.queue[i - 1].op = p
        BY <3>1, <1>3, <1>4, <1>5, <2>2
      <3> QED BY <3>2, <1>3 DEF Queued
    <2> QED BY <2>1, <2>2
  <1>8. PortFirst(s) => PortFirst(r)
    <2> SUFFICES ASSUME PortFirst(s),
                        NEW i \in 1 .. (n - 1), NEW j \in 1 .. (n - 1),
                        r.queue[i].op = "port", r.queue[j].op = "task"
                 PROVE  i < j
      BY <1>3 DEF PortFirst
    <2>1. i + 1 \in DOMAIN s.queue /\ j + 1 \in DOMAIN s.queue
      BY <1>1
    <2>2. i + 1 < j + 1
      BY <2>1, <1>3 DEF PortFirst
    <2> QED BY <2>2, <1>1
  <1> QED BY <1>2, <1>6, <1>7, <1>8 DEF r

--------------------------------------------------------------------------------
(* No lost input; waiting or queued, not both; the handlers still to run.  *)
NoLost(s) == s.reads > 0 /\ Readable(s) => s.edge \/ Queued(s, "port")
Apart(s)  == \A o \in Op : ~(Waiting(s, o) /\ Queued(s, o))
Count(s)  ==
  One(Outstanding(s, "max")) + One(Outstanding(s, "quiet")) + One(Outstanding(s, "read"))

(* The io_context while k handlers run.                                    *)
IoOk(s, k) ==
  /\ s \in Io /\ s.reads \in {0, 1}
  /\ Distinct(s) /\ PortFirst(s) /\ Apart(s)
  /\ s.work = k + Count(s)

(* The earliest of the expiries exists.                                    *)
LEMMA AlarmIsInt ==
  ASSUME NEW s \in Io, NEW t \in Nat
  PROVE  NextAlarm(s, t) \in Int
  <1> DEFINE wake == {s.expiry[u] : u \in {v \in Timers : Waits(s, v)}} \cup {t + MaxWait}
  <1>1. t + MaxWait \in Int /\ s.expiry["max"] \in Int /\ s.expiry["quiet"] \in Int
    BY LoopAssumption DEF Io, Timers
  <1>2. wake \subseteq {s.expiry["max"], s.expiry["quiet"], t + MaxWait} /\ t + MaxWait \in wake
    BY DEF Timers
  <1> HIDE DEF wake
  <1>3. \E e \in wake : \A d \in wake : e <= d
    BY <1>1, <1>2
  <1>4. (CHOOSE e \in wake : \A d \in wake : e <= d) \in wake
    BY <1>3
  <1>5. (CHOOSE e \in wake : \A d \in wake : e <= d) \in Int
    BY <1>1, <1>2, <1>4
  <1> QED BY <1>5 DEF NextAlarm, wake

(* Setting the timerfd changes nothing else.                               *)
LEMMA SetAlarmOk ==
  ASSUME NEW s \in Io, NEW t \in Nat
  PROVE  /\ SetAlarm(s, t) \in Io
         /\ \A f \in {"queue", "work", "stopped", "reads", "expiry", "port", "hungup", "edge"} :
               SetAlarm(s, t)[f] = s[f]
  BY AlarmIsInt DEF SetAlarm, Io

(* A timer that is not under way can be started: one more operation.       *)
LEMMA StartWaitOk ==
  ASSUME NEW s, NEW k \in Nat, IoOk(s, k), NEW t \in Timers, ~Outstanding(s, t),
         NEW at \in Nat, NEW n \in Nat
  PROVE  LET r == StartWait(s, t, at, n)
         IN  /\ IoOk(r, k)
             /\ r.queue = s.queue /\ r.reads = s.reads /\ r.stopped = s.stopped
             /\ r.port = s.port /\ r.hungup = s.hungup /\ r.edge = s.edge
             /\ \A u \in Timers : Waits(r, u) <=> Waits(s, u) \/ u = t
  <1> DEFINE q == Start(Enqueue(CancelWait(s, t), t, at))
             r == StartWait(s, t, at, n)
  <1>1. s \in Io /\ ~Waits(s, t) /\ t \in Op /\ t # "read" /\ ~Queued(s, t)
    BY DEF IoOk, Outstanding, Waiting, Timers, Op
  <1>2. q = [[s EXCEPT !.expiry = [s.expiry EXCEPT ![t] = at]] EXCEPT !.work = s.work + 1]
    BY <1>1 DEF Start, Enqueue, CancelWait, Io
  <1>2a. [s.expiry EXCEPT ![t] = at] \in [Timers -> Int] /\ s.work + 1 \in Int
    BY <1>1 DEF Io
  <1>3. /\ q \in Io /\ q.queue = s.queue /\ q.reads = s.reads /\ q.stopped = s.stopped
        /\ q.port = s.port /\ q.hungup = s.hungup /\ q.edge = s.edge
        /\ q.work = s.work + 1 /\ q.expiry = [s.expiry EXCEPT ![t] = at]
    <2> DEFINE x == [s.expiry EXCEPT ![t] = at]
    <2> HIDE DEF x
    <2> QED BY <1>1, <1>2, <1>2a DEF Io, x
  <1>4. r = q \/ r = SetAlarm(q, n)
    BY DEF StartWait
  <1> HIDE DEF q, r
  <1>5. /\ r \in Io /\ r.queue = s.queue /\ r.reads = s.reads /\ r.stopped = s.stopped
        /\ r.port = s.port /\ r.hungup = s.hungup /\ r.edge = s.edge
        /\ r.work = s.work + 1 /\ r.expiry = [s.expiry EXCEPT ![t] = at]
    BY <1>3, <1>4, SetAlarmOk
  <1>6. \A u \in Timers : Waits(r, u) <=> Waits(s, u) \/ u = t
    BY <1>1, <1>5 DEF Waits, NoWait, Io
  <1>7. \A o \in Op : Waiting(r, o) <=> Waiting(s, o) \/ o = t
    BY <1>1, <1>5, <1>6 DEF Waiting, Op
  <1>8. \A o : Queued(r, o) <=> Queued(s, o)
    BY <1>5 DEF Queued
  <1>9. \A o \in Op : Outstanding(r, o) <=> Outstanding(s, o) \/ o = t
    BY <1>7, <1>8 DEF Outstanding
  <1>10. Distinct(r) /\ PortFirst(r) /\ Apart(r)
    BY <1>1, <1>5, <1>7, <1>8 DEF IoOk, Distinct, PortFirst, Apart
  <1>11. Count(r) = Count(s) + 1
    <2>1. /\ Outstanding(r, "max") <=> Outstanding(s, "max") \/ t = "max"
          /\ Outstanding(r, "quiet") <=> Outstanding(s, "quiet") \/ t = "quiet"
          /\ Outstanding(r, "read") <=> Outstanding(s, "read")
      BY <1>9, <1>1 DEF Op, Timers
    <2>2. t \in {"max", "quiet"} /\ ~Outstanding(s, t)
      BY DEF Timers
    <2> QED BY <2>1, <2>2 DEF Count, One
  <1>12. r.work = k + Count(r)
    BY <1>5, <1>11 DEF IoOk, Count, One
  <1>13. IoOk(r, k)
    BY <1>5, <1>10, <1>12 DEF IoOk
  <1> QED BY <1>13, <1>5, <1>6 DEF r

(* The number of outstanding operations depends on which are; one more is  *)
(* counted as one.                                                         *)
LEMMA CountIs ==
  ASSUME NEW r, NEW s
  PROVE  /\ Count(s) \in Int
         /\ (\A o \in Op : Outstanding(r, o) <=> Outstanding(s, o)) => Count(r) = Count(s)
         /\ \A u \in Op :
              ~Outstanding(s, u) /\ (\A o \in Op : Outstanding(r, o) <=> Outstanding(s, o) \/ o = u)
                => Count(r) = Count(s) + 1
  <1>1. \A u : u \in Op <=> u = "max" \/ u = "quiet" \/ u = "read"
    BY DEF Op, Timers
  <1> QED BY <1>1 DEF Count, One

(* Reading from the port changes only what it holds.                       *)
LEMMA ReadOk ==
  ASSUME NEW s \in Io
  PROVE  /\ Read(s) \in Io
         /\ Read(s).queue = s.queue /\ Read(s).reads = s.reads /\ Read(s).work = s.work
         /\ Read(s).stopped = s.stopped /\ Read(s).expiry = s.expiry
         /\ Read(s).hungup = s.hungup /\ Read(s).edge = s.edge
  <1> DEFINE p == IF s.hungup \/ s.port <= BufSize THEN 0 ELSE s.port - BufSize
  <1>1. p \in 0 .. PortSize
    BY LoopAssumption DEF Io
  <1>2. Read(s) = [s EXCEPT !.port = p]
    BY DEF Read
  <1> HIDE DEF p
  <1> QED BY <1>1, <1>2 DEF Io

(* work_started counts, and changes nothing else.                          *)
LEMMA StartOk ==
  ASSUME NEW s \in Io
  PROVE  /\ Start(s) \in Io /\ Start(s).work = s.work + 1
         /\ Start(s).queue = s.queue /\ Start(s).reads = s.reads
         /\ Start(s).stopped = s.stopped /\ Start(s).expiry = s.expiry
         /\ Start(s).port = s.port /\ Start(s).hungup = s.hungup /\ Start(s).edge = s.edge
  BY DEF Start, Io

(* A read can be started if none is under way: if it waits, the port had   *)
(* no input.                                                               *)
LEMMA StartReadOk ==
  ASSUME NEW s, NEW k \in Nat, IoOk(s, k), ~Outstanding(s, "read")
  PROVE  IoOk(StartRead(s), k) /\ NoLost(StartRead(s)) /\ StartRead(s).stopped = s.stopped
  <1> DEFINE r == StartRead(s)
             w == Read(s)
             p == Post(w, "read", ReadResult(s))
  <1>1. s \in Io /\ s.reads = 0 /\ ~Queued(s, "read") /\ s.work \in Int
    BY DEF IoOk, Outstanding, Waiting, Io
  <1>2. CASE Readable(s)
    <2>1. r = Start(p)
      BY <1>1, <1>2 DEF StartRead
    <2>2. w \in Io /\ w.queue = s.queue /\ w.reads = 0 /\ w.work = s.work /\ w.stopped = s.stopped
          /\ w.expiry = s.expiry
      BY <1>1, ReadOk
    <2>3. Distinct(w) /\ PortFirst(w) /\ \A o : Queued(w, o) <=> Queued(s, o)
      BY <2>2 DEF IoOk, Distinct, PortFirst, Queued
    <2>4. ReadResult(s) \in {"ok", "aborted", "error"} /\ "read" \in Op \cup {"port", "task"}
      BY DEF ReadResult, Op
    <2> HIDE DEF w
    <2>5. /\ p \in Io /\ Same(p, w) /\ Distinct(p) /\ PortFirst(p)
          /\ \A o : Queued(p, o) <=> Queued(s, o) \/ o = "read"
      BY <1>1, <2>2, <2>3, <2>4, PostQueue
    <2> HIDE DEF p, r
    <2>6. /\ r \in Io /\ r.queue = p.queue /\ r.reads = 0 /\ r.expiry = s.expiry
          /\ r.stopped = s.stopped /\ r.work = s.work + 1
      BY <2>1, <2>2, <2>5, StartOk DEF Same
    <2>7. Distinct(r) /\ PortFirst(r) /\ \A o : Queued(r, o) <=> Queued(s, o) \/ o = "read"
      BY <2>5, <2>6 DEF Distinct, PortFirst, Queued
    <2>8. \A o \in Op : Waiting(r, o) <=> Waiting(s, o)
      BY <1>1, <2>6 DEF Waiting, Waits
    <2>9. Apart(r) /\ \A o \in Op : Outstanding(r, o) <=> Outstanding(s, o) \/ o = "read"
      BY <1>1, <2>7, <2>8 DEF Apart, IoOk, Outstanding, Waiting
    <2>10. Count(r) = Count(s) + 1 /\ Count(s) \in Int
      BY <2>9, CountIs DEF Op
    <2> QED BY <2>6, <2>7, <2>9, <2>10 DEF IoOk, NoLost, r
  <1>3. CASE ~Readable(s)
    <2> DEFINE b == [s EXCEPT !.reads = s.reads + 1]
    <2>1. r = Start(b)
      BY <1>1, <1>3 DEF StartRead
    <2>2. s.reads + 1 = 1 /\ 1 \in Nat
      BY <1>1
    <2> HIDE DEF p, r, w
    <2>3. /\ b \in Io /\ b.queue = s.queue /\ b.reads = 1 /\ b.expiry = s.expiry
          /\ b.stopped = s.stopped /\ b.work = s.work
          /\ b.port = s.port /\ b.hungup = s.hungup
      BY <1>1, <2>2 DEF Io
    <2> HIDE DEF b
    <2>6. /\ r \in Io /\ r.queue = s.queue /\ r.reads = 1 /\ r.expiry = s.expiry
          /\ r.stopped = s.stopped /\ r.work = s.work + 1
          /\ r.port = s.port /\ r.hungup = s.hungup
      BY <2>1, <2>3, StartOk
    <2>7. Distinct(r) /\ PortFirst(r) /\ \A o : Queued(r, o) <=> Queued(s, o)
      BY <2>6 DEF Distinct, PortFirst, Queued, IoOk
    <2>8. \A o \in Op : Waiting(r, o) <=> Waiting(s, o) \/ o = "read"
      BY <1>1, <2>6 DEF Waiting, Waits
    <2>9. Apart(r) /\ \A o \in Op : Outstanding(r, o) <=> Outstanding(s, o) \/ o = "read"
      BY <1>1, <2>7, <2>8 DEF Apart, IoOk, Outstanding, Waiting
    <2>10. Count(r) = Count(s) + 1 /\ Count(s) \in Int
      BY <2>9, CountIs DEF Op
    <2>11. ~Readable(r)
      BY <1>3, <2>6 DEF Readable
    <2> QED BY <2>6, <2>7, <2>9, <2>10, <2>11 DEF IoOk, NoLost, r
  <1> QED BY <1>2, <1>3

(* A cancelled read is queued in place of the one that waited.             *)
LEMMA CancelPortOk ==
  ASSUME NEW s, NEW k \in Nat, IoOk(s, k)
  PROVE  IoOk(CancelPort(s), k) /\ NoLost(CancelPort(s)) /\ CancelPort(s).stopped = s.stopped
  <1> DEFINE r == CancelPort(s)
             x == [i \in 1 .. s.reads |-> [op |-> "read", ec |-> "aborted"]]
             p == Post(s, "read", "aborted")
  <1>1. s \in Io /\ s.queue \in Seq(Entry) /\ s.reads \in {0, 1}
    BY DEF IoOk, Io
  <1>2. r = [s EXCEPT !.queue = s.queue \o x, !.reads = 0]
    BY DEF CancelPort
  <1>3. CASE s.reads = 0
    <2>1. x = <<>>
      BY <1>3
    <2>2. s.queue \o x = s.queue
      BY <1>1, <2>1, ConcatEmptySeq
    <2>3. r = s
      BY <1>1, <1>2, <1>3, <2>2 DEF Io
    <2> QED BY <1>3, <2>3 DEF NoLost
  <1>4. CASE s.reads = 1
    <2>1. x = <<[op |-> "read", ec |-> "aborted"]>>
      BY <1>4
    <2>2. s.queue \o x = Append(s.queue, [op |-> "read", ec |-> "aborted"])
      BY <1>1, <2>1, AppendIsConcat DEF Entry, Op
    <2>3. r = [p EXCEPT !.reads = 0]
      BY <1>1, <1>2, <2>2 DEF Post, Io
    <2>4. ~Queued(s, "read") /\ Waiting(s, "read")
      BY <1>4 DEF IoOk, Apart, Waiting, Op
    <2>5. /\ p \in Io /\ Same(p, s) /\ Distinct(p) /\ PortFirst(p)
          /\ \A o : Queued(p, o) <=> Queued(s, o) \/ o = "read"
      BY <1>1, <2>4, PostQueue DEF IoOk, Op
    <2> HIDE DEF p, r, x
    <2>6. /\ r \in Io /\ r.queue = p.queue /\ r.reads = 0 /\ r.expiry = s.expiry
          /\ r.stopped = s.stopped /\ r.work = s.work
      BY <1>1, <2>3, <2>5 DEF Same, Io
    <2>7. Distinct(r) /\ PortFirst(r) /\ \A o : Queued(r, o) <=> Queued(s, o) \/ o = "read"
      BY <2>5, <2>6 DEF Distinct, PortFirst, Queued
    <2>8. \A o \in Op : Waiting(r, o) <=> Waiting(s, o) /\ o # "read"
      BY <1>1, <2>6 DEF Waiting, Waits
    <2>9. Apart(r) /\ \A o \in Op : Outstanding(r, o) <=> Outstanding(s, o)
      BY <2>4, <2>7, <2>8 DEF Apart, IoOk, Outstanding
    <2>10. Count(r) = Count(s)
      BY <2>9, CountIs
    <2> QED BY <2>6, <2>7, <2>9, <2>10 DEF IoOk, NoLost, r
  <1> QED BY <1>1, <1>3, <1>4

(* The scheduler's clean-up restores the count that the running handler    *)
(* had kept up, and stops the loop when it is 0.                           *)
LEMMA FinishOk ==
  ASSUME NEW s, IoOk(s, 1)
  PROVE  LET r == Finish(s)
         IN  IoOk(r, 0) /\ (NoLost(s) => NoLost(r)) /\ (r.stopped => r.work = 0)
  <1> DEFINE r == Finish(s)
  <1>1. s \in Io /\ s.work \in Int
    BY DEF IoOk, Io
  <1>2. /\ r \in Io /\ r.work = s.work - 1 /\ (r.stopped <=> s.work = 1)
        /\ r.queue = s.queue /\ r.reads = s.reads /\ r.expiry = s.expiry
        /\ r.port = s.port /\ r.hungup = s.hungup /\ r.edge = s.edge
    <2> DEFINE w == s.work - 1
               e == s.work = 1
    <2>1. w \in Int /\ e \in BOOLEAN
      BY <1>1
    <2>2. r = [s EXCEPT !.work = w, !.stopped = e]
      BY DEF Finish
    <2> HIDE DEF w, e, r
    <2>3. /\ r \in Io /\ r.work = w /\ r.stopped = e
          /\ r.queue = s.queue /\ r.reads = s.reads /\ r.expiry = s.expiry
          /\ r.port = s.port /\ r.hungup = s.hungup /\ r.edge = s.edge
      BY <1>1, <2>1, <2>2 DEF Io
    <2> QED BY <2>3 DEF w, e
  <1> HIDE DEF r
  <1>3. Distinct(r) /\ PortFirst(r) /\ \A o : Queued(r, o) <=> Queued(s, o)
    BY <1>2 DEF IoOk, Distinct, PortFirst, Queued
  <1>4. \A o \in Op : Waiting(r, o) <=> Waiting(s, o)
    BY <1>2 DEF Waiting, Waits
  <1>5. Apart(r) /\ \A o \in Op : Outstanding(r, o) <=> Outstanding(s, o)
    BY <1>3, <1>4 DEF Apart, IoOk, Outstanding
  <1>6. Count(r) = Count(s) /\ Count(s) \in Int
    BY <1>5, CountIs
  <1>7. NoLost(s) => NoLost(r)
    BY <1>2, <1>3 DEF NoLost, Readable
  <1> QED BY <1>1, <1>2, <1>3, <1>5, <1>6, <1>7 DEF IoOk, r

(* What the scheduler takes from its queue: a completed operation is still *)
(* counted, but no longer outstanding; when the reactor's turn comes, the  *)
(* port is not in the queue.                                               *)
LEMMA PopOk ==
  ASSUME NEW s, IoOk(s, 0), s.queue # <<>>
  PROVE  LET r == Pop(s)
             h == Head(s.queue).op
         IN  /\ Same(r, s)
             /\ h \in Op => IoOk(r, 1) /\ ~Outstanding(r, h)
             /\ h \notin Op => IoOk(r, 0)
             /\ h # "port" /\ NoLost(s) => NoLost(r)
             /\ h = "task" => ~Queued(r, "port") /\ ~Queued(r, "task")
  <1> DEFINE r == Pop(s)
             h == Head(s.queue).op
  <1>1. s \in Io /\ Distinct(s) /\ PortFirst(s)
    BY DEF IoOk
  <1>2. /\ r \in Io /\ Same(r, s) /\ Distinct(r) /\ PortFirst(r)
        /\ \A o : Queued(r, o) <=> Queued(s, o) /\ o # h
    BY <1>1, PopQueue
  <1>3. s.queue \in Seq(Entry) /\ Len(s.queue) \in Nat \ {0} /\ s.queue[1].op = h
    BY <1>1 DEF Io
  <1>4. DOMAIN s.queue = 1 .. Len(s.queue) /\ Queued(s, h)
    BY <1>3 DEF Queued
  <1> HIDE DEF r, h
  <1>5. \A o \in Op : Waiting(r, o) <=> Waiting(s, o)
    BY <1>2 DEF Waiting, Waits, Same
  <1>6. Apart(r)
    BY <1>2, <1>5 DEF IoOk, Apart
  <1>7. s.work = Count(s) /\ r.work = s.work /\ r.reads \in {0, 1}
    <2>1. Count(s) \in Int
      BY CountIs
    <2> QED BY <2>1, <1>2 DEF IoOk, Same
  <1>8. ASSUME h \in Op PROVE IoOk(r, 1) /\ ~Outstanding(r, h)
    <2>1. ~Outstanding(r, h)
      BY <1>2, <1>4, <1>5, <1>8 DEF IoOk, Apart, Outstanding
    <2>2. \A o \in Op : Outstanding(s, o) <=> Outstanding(r, o) \/ o = h
      BY <1>2, <1>4, <1>5 DEF Outstanding
    <2>3. Count(s) = Count(r) + 1 /\ Count(r) \in Int
      BY <1>8, <2>1, <2>2, CountIs
    <2> QED BY <1>2, <1>6, <1>7, <2>1, <2>3 DEF IoOk
  <1>9. ASSUME h \notin Op PROVE IoOk(r, 0)
    <2>1. \A o \in Op : Outstanding(r, o) <=> Outstanding(s, o)
      BY <1>2, <1>5, <1>9 DEF Outstanding
    <2>2. Count(r) = Count(s) /\ Count(r) \in Int
      BY <2>1, CountIs
    <2> QED BY <1>2, <1>6, <1>7, <2>2 DEF IoOk
  <1>10. h # "port" /\ NoLost(s) => NoLost(r)
    BY <1>2 DEF NoLost, Readable, Same
  <1>11. ASSUME h = "task" PROVE ~Queued(r, "port") /\ ~Queued(r, "task")
    <2>1. ~Queued(s, "port")
      <3> SUFFICES ASSUME NEW i \in DOMAIN s.queue, s.queue[i].op = "port" PROVE FALSE
        BY DEF Queued
      <3>1. i < 1
        BY <1>1, <1>3, <1>4, <1>11 DEF PortFirst
      <3> QED BY <3>1, <1>3, <1>4
    <2> QED BY <2>1, <1>2, <1>11
  <1> QED BY <1>2, <1>8, <1>9, <1>10, <1>11 DEF r, h

(* An event that completes the read: as if the operation had been queued.  *)
LEMMA PerformIoOk ==
  ASSUME NEW s, IoOk(s, 0), Performs(s)
  PROVE  /\ IoOk(PerformIo(s), 1) /\ ~Outstanding(PerformIo(s), "read")
         /\ NoLost(PerformIo(s)) /\ PerformIo(s).stopped = s.stopped
  <1> DEFINE b == [s EXCEPT !.reads = s.reads - 1]
             r == PerformIo(s)
  <1>1. s \in Io /\ s.reads = 1 /\ Waiting(s, "read")
    BY DEF IoOk, Performs, Waiting
  <1>2. /\ b \in Io /\ b.queue = s.queue /\ b.reads = 0 /\ b.expiry = s.expiry
        /\ b.stopped = s.stopped /\ b.work = s.work
    BY <1>1 DEF Io
  <1>3. r = Read(b)
    BY DEF PerformIo
  <1> HIDE DEF b, r
  <1>4. /\ r \in Io /\ r.queue = s.queue /\ r.reads = 0 /\ r.expiry = s.expiry
        /\ r.stopped = s.stopped /\ r.work = s.work
    BY <1>2, <1>3, ReadOk
  <1>5. Distinct(r) /\ PortFirst(r) /\ \A o : Queued(r, o) <=> Queued(s, o)
    BY <1>4 DEF IoOk, Distinct, PortFirst, Queued
  <1>6. \A o \in Op : Waiting(r, o) <=> Waiting(s, o) /\ o # "read"
    BY <1>4 DEF Waiting, Waits
  <1>7. ~Queued(s, "read")
    BY <1>1 DEF IoOk, Apart, Op
  <1>8. /\ Apart(r) /\ ~Outstanding(r, "read") /\ "read" \in Op
        /\ \A o \in Op : Outstanding(s, o) <=> Outstanding(r, o) \/ o = "read"
    BY <1>1, <1>5, <1>6, <1>7 DEF IoOk, Apart, Outstanding, Op
  <1>9. Count(s) = Count(r) + 1 /\ Count(r) \in Int
    BY <1>8, CountIs
  <1> QED BY <1>4, <1>5, <1>8, <1>9 DEF IoOk, NoLost, r

(* What the timers leave alone.                                            *)
Alike(r, s) ==
  /\ r.reads = s.reads /\ r.port = s.port /\ r.hungup = s.hungup
  /\ r.edge = s.edge /\ r.stopped = s.stopped
  /\ \A o \in {"port", "task"} : Queued(r, o) <=> Queued(s, o)

(* A wait that is over is queued; nothing else changes.                    *)
LEMMA ExpireOk ==
  ASSUME NEW s, IoOk(s, 0), NEW t \in Timers, NEW n \in Nat
  PROVE  IoOk(Expire(s, t, n), 0) /\ Alike(Expire(s, t, n), s)
  <1> DEFINE b == [s EXCEPT !.expiry = [s.expiry EXCEPT ![t] = NoWait]]
             r == Post(b, t, "ok")
  <1>1. s \in Io /\ t \in Op /\ t # "read" /\ t # "port" /\ t # "task"
    BY DEF IoOk, Op, Timers
  <1>2. CASE Waits(s, t) /\ s.expiry[t] <= n
    <2>1. Expire(s, t, n) = r
      BY <1>1, <1>2 DEF Expire, Io
    <2>2. [s.expiry EXCEPT ![t] = NoWait] \in [Timers -> Int]
      BY <1>1 DEF Io, NoWait
    <2>3. b \in Io /\ b.queue = s.queue /\ b.expiry = [s.expiry EXCEPT ![t] = NoWait]
          /\ b.work = s.work /\ b.reads = s.reads /\ b.port = s.port /\ b.hungup = s.hungup
          /\ b.edge = s.edge /\ b.stopped = s.stopped
      <3> DEFINE x == [s.expiry EXCEPT ![t] = NoWait]
      <3> HIDE DEF x
      <3> QED BY <1>1, <2>2 DEF Io, x
    <2> HIDE DEF b
    <2>4. Distinct(b) /\ PortFirst(b) /\ \A o : Queued(b, o) <=> Queued(s, o)
      BY <2>3 DEF IoOk, Distinct, PortFirst, Queued
    <2>5. Waiting(s, t) /\ ~Queued(s, t)
      BY <1>1, <1>2 DEF IoOk, Apart, Waiting
    <2>6. /\ r \in Io /\ Same(r, b) /\ Distinct(r) /\ PortFirst(r)
          /\ \A o : Queued(r, o) <=> Queued(s, o) \/ o = t
      BY <1>1, <2>3, <2>4, <2>5, PostQueue
    <2> HIDE DEF r
    <2>7. \A o \in Op : Waiting(r, o) <=> Waiting(s, o) /\ o # t
      <3>1. r.reads = s.reads /\ r.expiry = [s.expiry EXCEPT ![t] = NoWait]
        BY <2>3, <2>6 DEF Same
      <3>2. \A u \in Timers : Waits(r, u) <=> Waits(s, u) /\ u # t
        BY <1>1, <3>1 DEF Waits, Io
      <3> QED BY <1>1, <3>1, <3>2 DEF Waiting, Op
    <2>8. Apart(r) /\ \A o \in Op : Outstanding(r, o) <=> Outstanding(s, o)
      BY <2>5, <2>6, <2>7 DEF IoOk, Apart, Outstanding
    <2>9. Count(r) = Count(s)
      BY <2>8, CountIs
    <2>10. IoOk(r, 0)
      BY <2>3, <2>6, <2>8, <2>9 DEF IoOk, Same
    <2>11. Alike(r, s)
      BY <1>1, <2>3, <2>6 DEF Alike, Same
    <2> QED BY <2>1, <2>10, <2>11
  <1>3. CASE ~(Waits(s, t) /\ s.expiry[t] <= n)
    BY <1>3 DEF Expire, Alike
  <1> QED BY <1>2, <1>3

(* The same for both timers, the alarm included.                           *)
LEMMA TimersOk ==
  ASSUME NEW s, IoOk(s, 0), NEW n \in Nat
  PROVE  LET r == SetAlarm(GetReadyTimers(s, n), n)
         IN  IoOk(r, 0) /\ Alike(r, s)
  <1>1. "max" \in Timers /\ "quiet" \in Timers
    BY DEF Timers
  <1>2. \A t \in Timers : IoOk(Expire(s, t, n), 0) /\ Alike(Expire(s, t, n), s)
    BY ExpireOk
  <1>3. \A t \in Timers, u \in Timers :
          /\ IoOk(Expire(Expire(s, t, n), u, n), 0)
          /\ Alike(Expire(Expire(s, t, n), u, n), Expire(s, t, n))
    BY <1>2, ExpireOk
  <1> DEFINE g == GetReadyTimers(s, n)
             r == SetAlarm(g, n)
  <1>4. IoOk(g, 0) /\ Alike(g, s)
    BY <1>1, <1>2, <1>3 DEF GetReadyTimers, Alike
  <1> HIDE DEF g
  <1>5. g \in Io
    BY <1>4 DEF IoOk
  <1>6. /\ r \in Io /\ r.queue = g.queue /\ r.work = g.work /\ r.stopped = g.stopped
        /\ r.reads = g.reads /\ r.expiry = g.expiry /\ r.port = g.port
        /\ r.hungup = g.hungup /\ r.edge = g.edge
    BY <1>5, SetAlarmOk
  <1> HIDE DEF r
  <1>7. \A o : Queued(r, o) <=> Queued(g, o)
    BY <1>6 DEF Queued
  <1>8. \A o : Waiting(r, o) <=> Waiting(g, o)
    BY <1>6 DEF Waiting, Waits
  <1>9. \A o : Outstanding(r, o) <=> Outstanding(g, o)
    BY <1>7, <1>8 DEF Outstanding
  <1>10. Count(r) = Count(g)
    BY <1>9, CountIs
  <1>11. IoOk(r, 0)
    BY <1>4, <1>6, <1>7, <1>8, <1>10 DEF IoOk, Distinct, PortFirst, Apart
  <1>12. Alike(r, s)
    BY <1>4, <1>6, <1>7 DEF Alike
  <1> QED BY <1>11, <1>12 DEF r, g

(* A round of the reactor: an edge it uses up is in the queue as an event. *)
LEMMA RunTaskOk ==
  ASSUME NEW s, IoOk(s, 0), NoLost(s), s.queue # <<>>, Head(s.queue).op = "task", NEW n \in Nat
  PROVE  IoOk(RunTask(s, n), 0) /\ NoLost(RunTask(s, n)) /\ RunTask(s, n).stopped = s.stopped
  <1> DEFINE p == Pop(s)
             e == IF PortReady(p) THEN Post(p, "port", "ok") ELSE p
             g == IF TimerReady(p, n) THEN SetAlarm(GetReadyTimers(e, n), n) ELSE e
             c == [g EXCEPT !.edge = FALSE]
             r == Post(c, "task", "ok")
  <1>1. /\ IoOk(p, 0) /\ NoLost(p) /\ p.stopped = s.stopped
        /\ ~Queued(p, "port") /\ ~Queued(p, "task")
    BY PopOk DEF Same, Op, Timers
  <1>2. RunTask(s, n) = r
    BY DEF RunTask, Poll
  <1> HIDE DEF p
  <1>3. /\ IoOk(e, 0) /\ e.stopped = s.stopped /\ ~Queued(e, "task")
        /\ e.reads = p.reads /\ e.port = p.port /\ e.hungup = p.hungup
        /\ Queued(e, "port") <=> PortReady(p)
    <2>1. CASE PortReady(p)
      <3> DEFINE q == Post(p, "port", "ok")
      <3>1. /\ q \in Io /\ Same(q, p) /\ Distinct(q) /\ PortFirst(q)
            /\ \A o : Queued(q, o) <=> Queued(p, o) \/ o = "port"
        <4>1. p \in Io /\ Distinct(p) /\ PortFirst(p)
          BY <1>1 DEF IoOk
        <4> QED BY <1>1, <4>1, PostQueue
      <3> HIDE DEF q
      <3>2. \A o \in Op : /\ Waiting(q, o) <=> Waiting(p, o)
                          /\ Queued(q, o) <=> Queued(p, o)
        <4>1. \A o \in Op : o # "port"
          BY DEF Op, Timers
        <4>2. \A o \in Op : Waiting(q, o) <=> Waiting(p, o)
          BY <3>1 DEF Waiting, Waits, Same
        <4>3. \A o \in Op : Queued(q, o) <=> Queued(p, o)
          BY ONLY <3>1, <4>1
        <4> QED BY <4>2, <4>3
      <3>3. Apart(q) /\ \A o \in Op : Outstanding(q, o) <=> Outstanding(p, o)
        BY <1>1, <3>2 DEF IoOk, Apart, Outstanding
      <3>4. Count(q) = Count(p)
        BY <3>3, CountIs
      <3>5. IoOk(q, 0)
        BY <1>1, <3>1, <3>3, <3>4 DEF IoOk, Same
      <3>6. e = q
        BY <2>1 DEF q
      <3> QED BY <1>1, <2>1, <3>1, <3>5, <3>6 DEF Same
    <2>2. CASE ~PortReady(p)
      BY <1>1, <2>2
    <2> QED BY <2>1, <2>2
  <1> HIDE DEF e
  <1>4. /\ IoOk(g, 0) /\ g.stopped = s.stopped /\ ~Queued(g, "task")
        /\ g.reads = p.reads /\ g.port = p.port /\ g.hungup = p.hungup
        /\ Queued(g, "port") <=> PortReady(p)
    BY <1>3, TimersOk DEF Alike
  <1> HIDE DEF g
  <1>5. /\ c \in Io /\ c.queue = g.queue /\ c.work = g.work /\ c.stopped = g.stopped
        /\ c.reads = g.reads /\ c.expiry = g.expiry /\ c.port = g.port
        /\ c.hungup = g.hungup
    BY <1>4 DEF IoOk, Io
  <1> HIDE DEF c
  <1>6. Distinct(c) /\ PortFirst(c) /\ \A o : Queued(c, o) <=> Queued(g, o)
    BY <1>4, <1>5 DEF IoOk, Distinct, PortFirst, Queued
  <1>7. /\ r \in Io /\ Same(r, c) /\ Distinct(r) /\ PortFirst(r)
        /\ \A o : Queued(r, o) <=> Queued(g, o) \/ o = "task"
    <2>1. ~Queued(c, "task")
      BY <1>4, <1>6
    <2> QED BY <1>5, <1>6, <2>1, PostQueue
  <1> HIDE DEF r
  <1>8. \A o \in Op : /\ Waiting(r, o) <=> Waiting(g, o)
                      /\ Queued(r, o) <=> Queued(g, o)
    <2>1. \A o \in Op : o # "task"
      BY DEF Op, Timers
    <2>2. \A o \in Op : Waiting(r, o) <=> Waiting(g, o)
      BY <1>5, <1>7 DEF Waiting, Waits, Same
    <2>3. \A o \in Op : Queued(r, o) <=> Queued(g, o)
      BY ONLY <1>7, <2>1
    <2> QED BY <2>2, <2>3
  <1>9. Apart(r) /\ \A o \in Op : Outstanding(r, o) <=> Outstanding(g, o)
    BY <1>4, <1>8 DEF IoOk, Apart, Outstanding
  <1>10. Count(r) = Count(g)
    BY <1>9, CountIs
  <1>11. IoOk(r, 0)
    BY <1>4, <1>5, <1>7, <1>9, <1>10 DEF IoOk, Same
  <1>12. NoLost(r)
    <2> SUFFICES ASSUME r.reads > 0, Readable(r) PROVE Queued(r, "port")
      BY DEF NoLost
    <2>1. p.reads > 0 /\ Readable(p)
      BY <1>4, <1>5, <1>7 DEF Readable, Same
    <2>2. PortReady(p)
      BY <1>1, <2>1 DEF NoLost, PortReady
    <2> QED BY <1>4, <1>7, <2>2
  <1> QED BY <1>2, <1>4, <1>5, <1>7, <1>11, <1>12 DEF Same

(* The read's handler cancels, starts the next read or does neither.       *)
LEMMA CompletedOk ==
  ASSUME NEW s, IoOk(s, 1), ~Outstanding(s, "read"), NoLost(s), ~s.stopped,
         NEW ec, Completed(s, ec)
  PROVE  IoOk(io', 0) /\ NoLost(io') /\ (io'.stopped => io'.work = 0)
  <1>1. CASE io' = Finish(s)
    BY <1>1, FinishOk
  <1>2. CASE io' = Finish(CancelPort(s))
    BY <1>2, CancelPortOk, FinishOk
  <1>3. CASE io' = Finish(StartRead(s))
    BY <1>3, StartReadOk, FinishOk
  <1> QED BY <1>1, <1>2, <1>3 DEF Completed

(* Input and hang-ups come with an edge.                                   *)
LEMMA InputOk ==
  ASSUME NEW s, IoOk(s, 0), NEW r \in Io,
         r.queue = s.queue, r.work = s.work, r.reads = s.reads, r.expiry = s.expiry, r.edge
  PROVE  IoOk(r, 0) /\ NoLost(r)
  <1>3. Distinct(r) /\ PortFirst(r) /\ \A o : Queued(r, o) <=> Queued(s, o)
    BY DEF IoOk, Distinct, PortFirst, Queued
  <1>4. \A o \in Op : Waiting(r, o) <=> Waiting(s, o)
    BY DEF Waiting, Waits
  <1>5. Apart(r) /\ \A o \in Op : Outstanding(r, o) <=> Outstanding(s, o)
    BY <1>3, <1>4 DEF IoOk, Apart, Outstanding
  <1>6. Count(r) = Count(s)
    BY <1>5, CountIs
  <1> QED BY <1>3, <1>5, <1>6 DEF IoOk, NoLost

--------------------------------------------------------------------------------
(* The inductive invariant: between the rounds of io.run() no handler      *)
(* runs; the loop stops when the count is 0, and not before it has begun.  *)
DrainInv ==
  /\ pc \in {"start", "run", "returned"}
  /\ done \in BOOLEAN /\ lastData \in Nat /\ now \in Nat
  /\ lag \in 0 .. MaxLag /\ late \in Nat
  /\ IoOk(io, 0) /\ NoLost(io)
  /\ io.stopped => io.work = 0
  /\ pc = "start" => ~io.stopped /\ \A o \in Op : ~Outstanding(io, o)
  /\ pc = "returned" => io.stopped

(* The io_context is new when the drain begins.                            *)
LEMMA DrainStarts == Init => DrainInv
  <1> SUFFICES ASSUME Init PROVE DrainInv
    OBVIOUS
  <1>1. PICK n \in 0 .. PortSize : io = Fresh(n)
    BY DEF Init
  <1>2. /\ io.queue = <<[op |-> "task", ec |-> "ok"]>> /\ io.work = 0 /\ io.stopped = FALSE
        /\ io.reads = 0 /\ io.expiry = [t \in Timers |-> NoWait]
    BY <1>1 DEF Fresh
  <1>3. [op |-> "task", ec |-> "ok"] \in Entry /\ NoWait \in Int
    BY DEF Entry, NoWait
  <1>4. io \in Io
    BY <1>1, <1>3, LoopAssumption DEF Fresh, Io
  <1>5. DOMAIN io.queue = {1} /\ io.queue[1].op = "task"
    BY <1>2
  <1>6. Distinct(io) /\ PortFirst(io) /\ \A o \in Op : ~Queued(io, o)
    BY <1>5 DEF Distinct, PortFirst, Queued, Op, Timers
  <1>7. \A o \in Op : ~Waiting(io, o)
    BY <1>2 DEF Waiting, Waits, Op
  <1>8. Apart(io) /\ \A o \in Op : ~Outstanding(io, o)
    BY <1>6, <1>7 DEF Apart, Outstanding
  <1>9. Count(io) = 0
    BY <1>8 DEF Count, One, Op, Timers
  <1>10. IoOk(io, 0) /\ NoLost(io)
    BY <1>2, <1>4, <1>6, <1>8, <1>9 DEF IoOk, NoLost
  <1>11. 0 \in 0 .. MaxLag /\ ~io.stopped
    BY <1>2, DrainAssumption
  <1> QED BY <1>8, <1>10, <1>11 DEF DrainInv, Init

(* Each round of io.run(), the clock and the line preserve the invariant.  *)
LEMMA DrainSteps == DrainInv /\ [Next]_vars => DrainInv'
  <1> SUFFICES ASSUME DrainInv, [Next]_vars PROVE DrainInv'
    OBVIOUS
  <1> USE DEF DrainInv
  <1>0. io \in Io /\ MaxTotal \in Nat /\ QuietWindow \in Nat /\ MaxLag \in Nat
    BY DrainAssumption DEF IoOk
  <1>1. CASE Begin
    <2> DEFINE a == StartWait(io, "max", now + MaxTotal, now)
               b == StartWait(a, "quiet", now + QuietWindow, now)
    <2>1. "max" \in Timers /\ "quiet" \in Timers /\ now + MaxTotal \in Nat
          /\ now + QuietWindow \in Nat
      BY <1>0 DEF Timers
    <2>2. \A o \in Op : ~Outstanding(io, o)
      BY <1>1 DEF Begin
    <2>3. /\ IoOk(a, 0) /\ a.queue = io.queue /\ a.reads = io.reads /\ a.stopped = io.stopped
          /\ \A u \in Timers : Waits(a, u) <=> Waits(io, u) \/ u = "max"
      BY <2>1, <2>2, StartWaitOk DEF Op
    <2> HIDE DEF a
    <2>4. ~Outstanding(a, "quiet") /\ ~Outstanding(a, "read")
      BY <2>1, <2>2, <2>3 DEF Outstanding, Waiting, Queued, Op
    <2>5. /\ IoOk(b, 0) /\ b.queue = a.queue /\ b.reads = a.reads /\ b.stopped = a.stopped
      BY <2>1, <2>3, <2>4, StartWaitOk
    <2> HIDE DEF b
    <2>6. ~Outstanding(b, "read")
      BY <2>4, <2>5 DEF Outstanding, Waiting, Queued
    <2>7. IoOk(io', 0) /\ NoLost(io') /\ io'.stopped = io.stopped
      BY <1>1, <2>3, <2>5, <2>6, StartReadOk DEF Begin, a, b
    <2> QED BY <1>1, <2>7 DEF Begin
  <1>2. CASE Return
    BY <1>2 DEF Return
  <1>3. CASE Task
    <2>1. io.queue # <<>> /\ Head(io.queue).op = "task" /\ ~io.stopped /\ pc = "run"
      BY <1>3 DEF Task, Runs
    <2>2. IoOk(io', 0) /\ NoLost(io') /\ ~io'.stopped
      BY <1>3, <2>1, RunTaskOk DEF Task
    <2> QED BY <1>0, <1>3, <2>1, <2>2 DEF Task
  <1>4. CASE MaxHandler
    <2>1. io.queue # <<>> /\ Head(io.queue).op = "max" /\ "max" \in Op /\ ~io.stopped /\ pc = "run"
      BY <1>4 DEF MaxHandler, Runs, Op, Timers
    <2>2. IoOk(Pop(io), 1) /\ NoLost(Pop(io))
      BY <2>1, PopOk
    <2>3. PICK s : io' = Finish(s) /\ (s = Pop(io) \/ s = CancelPort(Pop(io)))
      BY <1>4 DEF MaxHandler
    <2>4. IoOk(s, 1) /\ NoLost(s)
      BY <2>2, <2>3, CancelPortOk
    <2>5. IoOk(io', 0) /\ NoLost(io') /\ (io'.stopped => io'.work = 0)
      BY <2>3, <2>4, FinishOk
    <2> QED BY <1>4, <2>1, <2>5 DEF MaxHandler
  <1>5. CASE QuietHandler
    <2>1. /\ io.queue # <<>> /\ Head(io.queue).op = "quiet" /\ "quiet" \in Op
          /\ "quiet" \in Timers /\ ~io.stopped /\ pc = "run"
      BY <1>5 DEF QuietHandler, Runs, Op, Timers
    <2>2. IoOk(Pop(io), 1) /\ NoLost(Pop(io)) /\ ~Outstanding(Pop(io), "quiet")
      BY <2>1, PopOk
    <2>3. PICK s : /\ io' = Finish(s)
                   /\ \/ s = Pop(io) \/ s = CancelPort(Pop(io))
                      \/ s = StartWait(Pop(io), "quiet", now + QuietWindow, now)
      BY <1>5 DEF QuietHandler
    <2>4. ASSUME s = StartWait(Pop(io), "quiet", now + QuietWindow, now)
          PROVE  IoOk(s, 1) /\ NoLost(s)
      <3>1. now + QuietWindow \in Nat
        BY <1>0
      <3>2. /\ IoOk(s, 1) /\ s.queue = Pop(io).queue /\ s.reads = Pop(io).reads
            /\ s.port = Pop(io).port /\ s.hungup = Pop(io).hungup /\ s.edge = Pop(io).edge
        BY <2>1, <2>2, <2>4, <3>1, StartWaitOk
      <3>3. NoLost(s)
        BY <2>2, <3>2 DEF NoLost, Readable, Queued
      <3> QED BY <3>2, <3>3
    <2>5. ASSUME s = Pop(io) \/ s = CancelPort(Pop(io))
          PROVE  IoOk(s, 1) /\ NoLost(s)
      BY <2>2, <2>5, CancelPortOk
    <2>6. IoOk(io', 0) /\ NoLost(io') /\ (io'.stopped => io'.work = 0)
      BY <2>3, <2>4, <2>5, FinishOk
    <2>7. done' \in BOOLEAN
      BY <1>5 DEF QuietHandler, Quiet
    <2> QED BY <1>5, <2>1, <2>6, <2>7 DEF QuietHandler
  <1>6. ASSUME NEW s, NEW ec, Completed(s, ec), IoOk(s, 1), ~Outstanding(s, "read"),
               NoLost(s), ~s.stopped, pc = "run", UNCHANGED <<pc, now, lag, late>>
        PROVE  DrainInv'
    <2>1. IoOk(io', 0) /\ NoLost(io') /\ (io'.stopped => io'.work = 0)
      BY <1>6, CompletedOk
    <2>2. done' \in BOOLEAN /\ lastData' \in Nat
      BY <1>6 DEF Completed
    <2> QED BY <1>6, <2>1, <2>2
  <1>7. CASE ReadHandler
    <2>1. io.queue # <<>> /\ Head(io.queue).op = "read" /\ "read" \in Op /\ ~io.stopped /\ pc = "run"
      BY <1>7 DEF ReadHandler, Runs, Op
    <2>2. /\ IoOk(Pop(io), 1) /\ NoLost(Pop(io)) /\ ~Outstanding(Pop(io), "read")
          /\ Pop(io).stopped = io.stopped
      BY <2>1, PopOk DEF Same
    <2> QED BY <1>6, <1>7, <2>1, <2>2 DEF ReadHandler
  <1>8. CASE PortEvent \/ PortIdle
    <2>1. io.queue # <<>> /\ Head(io.queue).op = "port" /\ "port" \notin Op /\ ~io.stopped /\ pc = "run"
      BY <1>8 DEF PortEvent, PortIdle, Runs, Op, Timers
    <2>2. IoOk(Pop(io), 0) /\ Pop(io).stopped = io.stopped
      BY <2>1, PopOk DEF Same
    <2>3. CASE PortEvent
      <3>1. Performs(Pop(io)) /\ Completed(PerformIo(Pop(io)), ReadResult(io))
        BY <2>3 DEF PortEvent
      <3>2. /\ IoOk(PerformIo(Pop(io)), 1) /\ ~Outstanding(PerformIo(Pop(io)), "read")
            /\ NoLost(PerformIo(Pop(io))) /\ PerformIo(Pop(io)).stopped = io.stopped
        BY <2>2, <3>1, PerformIoOk
      <3> QED BY <1>6, <2>1, <2>3, <3>1, <3>2 DEF PortEvent
    <2>4. CASE PortIdle
      <3>1. io' = Pop(io) /\ NoLost(Pop(io))
        BY <2>4 DEF PortIdle, Performs, NoLost
      <3> QED BY <2>1, <2>2, <2>4, <3>1 DEF PortIdle
    <2> QED BY <1>8, <2>3, <2>4
  <1>9. CASE Tick
    <2>1. now + 1 \in Nat /\ (Busy => lag + 1 \in 0 .. MaxLag) /\ 0 \in 0 .. MaxLag
      BY <1>0, <1>9 DEF Tick
    <2> QED BY <1>9, <2>1 DEF Tick
  <1>10. CASE Arrive
    <2>1. io.port + 1 \in 0 .. PortSize
      BY <1>0, <1>10, LoopAssumption DEF Arrive, Io
    <2>2. /\ io' \in Io /\ io'.queue = io.queue /\ io'.work = io.work /\ io'.reads = io.reads
          /\ io'.expiry = io.expiry /\ io'.stopped = io.stopped /\ io'.edge
      BY <1>0, <1>10, <2>1 DEF Arrive, Io
    <2>3. IoOk(io', 0) /\ NoLost(io')
      BY <2>2, InputOk
    <2> QED BY <1>10, <2>2, <2>3 DEF Arrive
  <1>11. CASE HangUp
    <2>2. /\ io' \in Io /\ io'.queue = io.queue /\ io'.work = io.work /\ io'.reads = io.reads
          /\ io'.expiry = io.expiry /\ io'.stopped = io.stopped /\ io'.edge
      BY <1>0, <1>11 DEF HangUp, Io
    <2>3. IoOk(io', 0) /\ NoLost(io')
      BY <2>2, InputOk
    <2> QED BY <1>11, <2>2, <2>3 DEF HangUp
  <1>12. CASE UNCHANGED vars
    BY <1>12 DEF vars
  <1> QED
    BY <1>1, <1>2, <1>3, <1>4, <1>5, <1>7, <1>8, <1>9, <1>10, <1>11, <1>12 DEF Next, Loop

(* The inductive invariant holds for all buffer sizes, durations and       *)
(* delays.                                                                 *)
THEOREM DrainInvariant == Spec => []DrainInv
  BY DrainStarts, DrainSteps, PTL DEF Spec

(* A count of 0 means that nothing is outstanding.                         *)
LEMMA CountZero ==
  ASSUME NEW s, Count(s) = 0
  PROVE  \A o \in Op : ~Outstanding(s, o)
  BY DEF Count, One, Op, Timers

(* Type correctness of the drain.                                          *)
THEOREM DrainTypes == Spec => []TypeOK
  <1>1. DrainInv => TypeOK
    BY DEF DrainInv, TypeOK, IoOk
  <1> QED BY <1>1, DrainInvariant, PTL

(* There is one read into drain_buf at a time, no timer is started again   *)
(* before its handler has run, and the reactor's own entries are queued    *)
(* once.                                                                   *)
THEOREM OneHandlerEach == Spec => []OneOfEach
  <1>1. DrainInv => OneOfEach
    BY DEF DrainInv, OneOfEach, IoOk, Distinct, Apart
  <1> QED BY <1>1, DrainInvariant, PTL

(* outstanding_work_ is the number of handlers still to run.               *)
THEOREM CountMatches == Spec => []WorkIsOutstanding
  <1>1. DrainInv => WorkIsOutstanding
    <2>1. Count(io) \in Int
      BY CountIs
    <2> QED BY <2>1 DEF DrainInv, WorkIsOutstanding, IoOk, Count
  <1> QED BY <1>1, DrainInvariant, PTL

(* When io.run() returns no handler is left that refers to the locals of   *)
(* open_microwave_controller.                                              *)
THEOREM NoHandlerOutlives == Spec => []NothingOutlivesOpen
  <1>1. ASSUME DrainInv, pc = "returned" PROVE \A o \in Op : ~Outstanding(io, o)
    <2>1. Count(io) \in Int
      BY CountIs
    <2>2. Count(io) = 0
      BY <1>1, <2>1 DEF DrainInv, IoOk
    <2> QED BY <2>2, CountZero
  <1>2. DrainInv => NothingOutlivesOpen
    BY <1>1 DEF NothingOutlivesOpen
  <1> QED BY <1>2, DrainInvariant, PTL

(* Input for a waiting read is never lost between two looks of an edge-    *)
(* triggered epoll.                                                        *)
THEOREM InputIsAnnounced == Spec => []NoLostInput
  <1>1. DrainInv => NoLostInput
    BY DEF DrainInv, NoLostInput, NoLost
  <1> QED BY <1>1, DrainInvariant, PTL

--------------------------------------------------------------------------------
(* An entry for o is ahead of one for p in the queue; none was cancelled.  *)
Before(s, o, p) ==
  \E i, j \in DOMAIN s.queue : i < j /\ s.queue[i].op = o /\ s.queue[j].op = p
NoneAborted(s) == \A i \in DOMAIN s.queue : s.queue[i].ec # "aborted"

(* What is ahead of what is in the queue.                                  *)
LEMMA BeforeQueued ==
  ASSUME NEW s, NEW o, NEW p, Before(s, o, p)
  PROVE  Queued(s, o) /\ Queued(s, p)
  BY DEF Before, Queued

(* A new entry is behind all others, and the timerfd is left alone.        *)
LEMMA PostOrder ==
  ASSUME NEW s \in Io, NEW o \in Op \cup {"port", "task"}, NEW e \in {"ok", "aborted", "error"}
  PROVE  /\ Post(s, o, e).alarm = s.alarm
         /\ \A p, q : Before(Post(s, o, e), p, q) <=> Before(s, p, q) \/ (q = o /\ Queued(s, p))
         /\ NoneAborted(s) /\ e # "aborted" => NoneAborted(Post(s, o, e))
  <1> DEFINE r == Post(s, o, e)
             x == [op |-> o, ec |-> e]
             n == Len(s.queue)
  <1>1. x \in Entry /\ s.queue \in Seq(Entry) /\ n \in Nat
    BY DEF Io, Entry
  <1>2. r.queue = Append(s.queue, x) /\ r.alarm = s.alarm
    BY <1>1 DEF Post, Io
  <1>3. /\ DOMAIN s.queue = 1 .. n /\ DOMAIN r.queue = 1 .. (n + 1)
        /\ r.queue[n + 1] = x /\ \A i \in 1 .. n : r.queue[i] = s.queue[i]
    BY <1>1, <1>2
  <1>4. x.op = o /\ x.ec = e
    OBVIOUS
  <1> HIDE DEF r, x, n
  <1>5. ASSUME NEW p, NEW q PROVE Before(r, p, q) <=> Before(s, p, q) \/ (q = o /\ Queued(s, p))
    <2>1. ASSUME Before(r, p, q) PROVE Before(s, p, q) \/ (q = o /\ Queued(s, p))
      <3>1. PICK i \in 1 .. (n + 1), j \in 1 .. (n + 1) :
              i < j /\ r.queue[i].op = p /\ r.queue[j].op = q
        BY <2>1, <1>3 DEF Before
      <3>2. i \in 1 .. n /\ (j \in 1 .. n \/ j = n + 1)
        BY <1>1, <3>1
      <3> QED BY <3>1, <3>2, <1>3, <1>4 DEF Before, Queued
    <2>2. ASSUME Before(s, p, q) PROVE Before(r, p, q)
      <3>1. PICK i \in 1 .. n, j \in 1 .. n : i < j /\ s.queue[i].op = p /\ s.queue[j].op = q
        BY <2>2, <1>3 DEF Before
      <3>2. i \in 1 .. (n + 1) /\ j \in 1 .. (n + 1)
        BY <1>1, <3>1
      <3> QED BY <3>1, <3>2, <1>3 DEF Before
    <2>3. ASSUME q = o, Queued(s, p) PROVE Before(r, p, q)
      <3>1. PICK i \in 1 .. n : s.queue[i].op = p
        BY <2>3, <1>3 DEF Queued
      <3>2. i \in 1 .. (n + 1) /\ n + 1 \in 1 .. (n + 1) /\ i < n + 1
        BY <1>1, <3>1
      <3> QED BY <2>3, <3>1, <3>2, <1>3, <1>4 DEF Before
    <2> QED BY <2>1, <2>2, <2>3
  <1>6. NoneAborted(s) /\ e # "aborted" => NoneAborted(r)
    BY <1>1, <1>3, <1>4 DEF NoneAborted
  <1> QED BY <1>2, <1>5, <1>6 DEF r

(* Nothing is ahead of the head; without it the others keep their order.   *)
LEMMA PopOrder ==
  ASSUME NEW s \in Io, Distinct(s), s.queue # <<>>
  PROVE  LET h == Head(s.queue).op
         IN  /\ Pop(s).alarm = s.alarm
             /\ \A p, q : Before(Pop(s), p, q) <=> Before(s, p, q) /\ p # h
             /\ \A p : ~Before(s, p, h)
             /\ \A p : Queued(s, p) /\ p # h => Before(s, h, p)
             /\ Queued(s, h)
             /\ NoneAborted(s) => NoneAborted(Pop(s)) /\ Head(s.queue).ec # "aborted"
  <1> DEFINE r == Pop(s)
             h == Head(s.queue).op
             n == Len(s.queue)
  <1>1. s.queue \in Seq(Entry) /\ n \in Nat /\ n > 0 /\ DOMAIN s.queue = 1 .. n
    BY DEF Io
  <1>2. r.queue = Tail(s.queue) /\ r.alarm = s.alarm
    BY DEF Pop, Io
  <1>3. DOMAIN r.queue = 1 .. (n - 1) /\ \A i \in 1 .. (n - 1) : r.queue[i] = s.queue[i + 1]
    BY <1>1, <1>2
  <1>4. h = s.queue[1].op /\ Head(s.queue) = s.queue[1] /\ 1 \in 1 .. n
    BY <1>1
  <1> HIDE DEF r, h, n
  <1>5. \A i \in 1 .. n : i = 1 <=> s.queue[i].op = h
    BY <1>1, <1>4 DEF Distinct
  <1>6. ASSUME NEW p, NEW q PROVE Before(r, p, q) <=> Before(s, p, q) /\ p # h
    <2>1. ASSUME Before(r, p, q) PROVE Before(s, p, q) /\ p # h
      <3>1. PICK i \in 1 .. (n - 1), j \in 1 .. (n - 1) :
              i < j /\ r.queue[i].op = p /\ r.queue[j].op = q
        BY <2>1, <1>3 DEF Before
      <3>2. /\ i + 1 \in 1 .. n /\ j + 1 \in 1 .. n /\ i + 1 < j + 1 /\ i + 1 # 1
            /\ s.queue[i + 1].op = p /\ s.queue[j + 1].op = q
        BY <1>1, <1>3, <3>1
      <3> QED BY <3>2, <1>1, <1>5 DEF Before
    <2>2. ASSUME Before(s, p, q), p # h PROVE Before(r, p, q)
      <3>1. PICK i \in 1 .. n, j \in 1 .. n : i < j /\ s.queue[i].op = p /\ s.queue[j].op = q
        BY <2>2, <1>1 DEF Before
      <3>2. i # 1
        BY <2>2, <3>1, <1>5
      <3>3. /\ i - 1 \in 1 .. (n - 1) /\ j - 1 \in 1 .. (n - 1) /\ i - 1 < j - 1
            /\ (i - 1) + 1 = i /\ (j - 1) + 1 = j
        BY <1>1, <3>1, <3>2
      <3>4. r.queue[i - 1].op = p /\ r.queue[j - 1].op = q
        BY <1>3, <3>1, <3>3
      <3> QED BY <3>3, <3>4, <1>3 DEF Before
    <2> QED BY <2>1, <2>2
  <1>7. ASSUME NEW p PROVE ~Before(s, p, h) /\ (Queued(s, p) /\ p # h => Before(s, h, p))
    <2>1. ASSUME Before(s, p, h) PROVE FALSE
      <3>1. PICK i \in 1 .. n, j \in 1 .. n : i < j /\ s.queue[j].op = h
        BY <2>1, <1>1 DEF Before
      <3> QED BY <3>1, <1>1, <1>5
    <2>2. ASSUME Queued(s, p), p # h PROVE Before(s, h, p)
      <3>1. PICK j \in 1 .. n : s.queue[j].op = p
        BY <2>2, <1>1 DEF Queued
      <3>2. 1 < j
        BY <3>1, <2>2, <1>1, <1>5
      <3> QED BY <3>1, <3>2, <1>1, <1>4 DEF Before
    <2> QED BY <2>1, <2>2
  <1>8. NoneAborted(s) => NoneAborted(r) /\ Head(s.queue).ec # "aborted"
    <2> SUFFICES ASSUME NoneAborted(s) PROVE NoneAborted(r) /\ Head(s.queue).ec # "aborted"
      OBVIOUS
    <2>1. \A i \in 1 .. (n - 1) : i + 1 \in 1 .. n
      BY <1>1
    <2> QED BY <2>1, <1>1, <1>3, <1>4 DEF NoneAborted
  <1>9. Queued(s, h)
    BY <1>1, <1>4 DEF Queued
  <1> QED BY <1>2, <1>6, <1>7, <1>8, <1>9 DEF r, h

--------------------------------------------------------------------------------
(* What the calls on the port leave alone: the timers, and the queue but   *)
(* for a read at its end.                                                  *)
TimersKept(r, s) ==
  /\ r.expiry = s.expiry /\ r.alarm = s.alarm
  /\ \A o : o # "read" => (Queued(r, o) <=> Queued(s, o))
  /\ \A o, p : p # "read" => (Before(r, o, p) <=> Before(s, o, p))

(* A state with the same queue and timers.                                 *)
LEMMA QueueKept ==
  ASSUME NEW r, NEW s, r.queue = s.queue
  PROVE  /\ \A o : Queued(r, o) <=> Queued(s, o)
         /\ \A o, p : Before(r, o, p) <=> Before(s, o, p)
         /\ NoneAborted(r) <=> NoneAborted(s)
         /\ r.expiry = s.expiry /\ r.alarm = s.alarm => TimersKept(r, s)
  BY DEF Queued, Before, NoneAborted, TimersKept

(* port.cancel() does not touch the timers, nor does it leave a read.      *)
LEMMA CancelPortOrder ==
  ASSUME NEW s \in Io, s.reads \in {0, 1}
  PROVE  TimersKept(CancelPort(s), s) /\ CancelPort(s).reads = 0
  <1> DEFINE r == CancelPort(s)
             x == [i \in 1 .. s.reads |-> [op |-> "read", ec |-> "aborted"]]
             p == Post(s, "read", "aborted")
  <1>1. s.queue \in Seq(Entry)
    BY DEF Io
  <1>2. r = [s EXCEPT !.queue = s.queue \o x, !.reads = 0]
    BY DEF CancelPort
  <1>3. r.reads = 0 /\ r.expiry = s.expiry /\ r.alarm = s.alarm /\ r.queue = s.queue \o x
    <2> HIDE DEF x, r
    <2> QED BY <1>2 DEF Io
  <1>4. CASE s.reads = 0
    <2>1. x = <<>>
      BY <1>4
    <2>2. r.queue = s.queue
      BY <1>1, <1>3, <2>1, ConcatEmptySeq
    <2> HIDE DEF r, x
    <2> QED BY <1>3, <2>2, QueueKept DEF r
  <1>5. CASE s.reads = 1
    <2>1. x = <<[op |-> "read", ec |-> "aborted"]>>
      BY <1>5
    <2>2. s.queue \o x = Append(s.queue, [op |-> "read", ec |-> "aborted"])
      BY <1>1, <2>1, AppendIsConcat DEF Entry, Op
    <2>3. p.queue = Append(s.queue, [op |-> "read", ec |-> "aborted"])
      BY <1>1 DEF Post, Io
    <2>4. /\ \A o : Queued(p, o) <=> Queued(s, o) \/ o = "read"
          /\ \A o, q : Before(p, o, q) <=> Before(s, o, q) \/ (q = "read" /\ Queued(s, o))
      <3>1. "read" \in Op
        BY DEF Op
      <3> QED BY <3>1, PostQueue, PostOrder
    <2>5. r.queue = p.queue
      BY <1>3, <2>2, <2>3
    <2> HIDE DEF r, p, x
    <2>6. /\ \A o : Queued(r, o) <=> Queued(p, o)
          /\ \A o, q : Before(r, o, q) <=> Before(p, o, q)
      BY <2>5, QueueKept
    <2>7. /\ \A o : o # "read" => (Queued(r, o) <=> Queued(s, o))
          /\ \A o, q : q # "read" => (Before(r, o, q) <=> Before(s, o, q))
      <3>1. ASSUME NEW o, o # "read" PROVE Queued(r, o) <=> Queued(s, o)
        BY ONLY <2>4, <2>6, <3>1, Zenon
      <3>2. ASSUME NEW o, NEW q, q # "read" PROVE Before(r, o, q) <=> Before(s, o, q)
        BY ONLY <2>4, <2>6, <3>2, Zenon
      <3> QED BY <3>1, <3>2
    <2>8. TimersKept(r, s)
      BY <1>3, <2>7 DEF TimersKept
    <2> QED BY <1>3, <2>8 DEF r
  <1> QED BY <1>4, <1>5

(* A read from the port, and the count, touch neither queue nor timers.    *)
LEMMA ReadAlarm ==
  ASSUME NEW s \in Io
  PROVE  /\ Read(s).alarm = s.alarm /\ Read(s).port <= s.port
         /\ Start(s).alarm = s.alarm
  <1> DEFINE p == IF s.hungup \/ s.port <= BufSize THEN 0 ELSE s.port - BufSize
  <1>1. p <= s.port
    BY LoopAssumption DEF Io
  <1>2. Read(s) = [s EXCEPT !.port = p]
    BY DEF Read
  <1> HIDE DEF p
  <1>3. Read(s).alarm = s.alarm /\ Read(s).port <= s.port
    BY <1>1, <1>2 DEF Io
  <1> QED BY <1>3 DEF Start, Io

(* A read that is started is under way, and cancels nothing.               *)
LEMMA StartReadOrder ==
  ASSUME NEW s \in Io, s.reads = 0
  PROVE  LET r == StartRead(s)
         IN  /\ TimersKept(r, s) /\ Outstanding(r, "read")
             /\ NoneAborted(s) => NoneAborted(r)
  <1> DEFINE r == StartRead(s)
             w == Read(s)
             p == Post(w, "read", ReadResult(s))
  <1>1. CASE Readable(s)
    <2>1. r = Start(p)
      BY <1>1 DEF StartRead
    <2>2. w \in Io /\ w.queue = s.queue /\ w.expiry = s.expiry /\ w.alarm = s.alarm
      BY ReadOk, ReadAlarm
    <2>3. ReadResult(s) \in {"ok", "error"} /\ "read" \in Op
      BY DEF ReadResult, Op
    <2> HIDE DEF w
    <2>4. /\ p \in Io /\ p.expiry = w.expiry /\ p.alarm = w.alarm
          /\ \A o : Queued(p, o) <=> Queued(w, o) \/ o = "read"
          /\ \A o, q : Before(p, o, q) <=> Before(w, o, q) \/ (q = "read" /\ Queued(w, o))
          /\ NoneAborted(w) => NoneAborted(p)
      BY <2>2, <2>3, PostQueue, PostOrder DEF Same
    <2> HIDE DEF p, r
    <2>5. r.queue = p.queue /\ r.expiry = p.expiry /\ r.alarm = p.alarm
      BY <2>1, <2>4, StartOk, ReadAlarm
    <2>6. /\ \A o : Queued(r, o) <=> Queued(p, o)
          /\ \A o, q : Before(r, o, q) <=> Before(p, o, q)
          /\ NoneAborted(r) <=> NoneAborted(p)
      BY <2>5, QueueKept
    <2>7. /\ \A o : Queued(w, o) <=> Queued(s, o)
          /\ \A o, q : Before(w, o, q) <=> Before(s, o, q)
          /\ NoneAborted(w) <=> NoneAborted(s)
      BY <2>2, QueueKept
    <2>8. /\ \A o : o # "read" => (Queued(r, o) <=> Queued(s, o))
          /\ \A o, q : q # "read" => (Before(r, o, q) <=> Before(s, o, q))
      <3>1. ASSUME NEW o, o # "read" PROVE Queued(r, o) <=> Queued(s, o)
        BY ONLY <2>4, <2>6, <2>7, <3>1, Zenon
      <3>2. ASSUME NEW o, NEW q, q # "read" PROVE Before(r, o, q) <=> Before(s, o, q)
        BY ONLY <2>4, <2>6, <2>7, <3>2, Zenon
      <3> QED BY <3>1, <3>2
    <2>9. TimersKept(r, s)
      BY <2>2, <2>4, <2>5, <2>8 DEF TimersKept
    <2> QED BY <2>4, <2>6, <2>7, <2>9 DEF Outstanding, r
  <1>2. CASE ~Readable(s)
    <2> DEFINE b == [s EXCEPT !.reads = s.reads + 1]
    <2>1. r = Start(b)
      BY <1>2 DEF StartRead
    <2>2. s.reads + 1 = 1 /\ 1 \in Nat
      OBVIOUS
    <2> HIDE DEF p, r, w
    <2>3. b \in Io /\ b.queue = s.queue /\ b.reads = 1 /\ b.expiry = s.expiry /\ b.alarm = s.alarm
      BY <2>2 DEF Io
    <2> HIDE DEF b
    <2>4. r.queue = s.queue /\ r.reads = 1 /\ r.expiry = s.expiry /\ r.alarm = s.alarm
      BY <2>1, <2>3, StartOk, ReadAlarm
    <2>5. TimersKept(r, s) /\ (NoneAborted(r) <=> NoneAborted(s))
      BY <2>4, QueueKept
    <2> QED BY <2>4, <2>5 DEF Outstanding, Waiting, r
  <1> QED BY <1>1, <1>2

(* work_cleanup stops the loop with the last operation, and only then.     *)
LEMMA FinishOrder ==
  ASSUME NEW s \in Io
  PROVE  LET r == Finish(s)
         IN  /\ TimersKept(r, s)
             /\ Queued(r, "read") <=> Queued(s, "read")
             /\ \A o : Before(r, o, "read") <=> Before(s, o, "read")
             /\ NoneAborted(r) <=> NoneAborted(s)
             /\ r.reads = s.reads /\ r.port = s.port
             /\ r.stopped <=> r.work = 0
  <1> DEFINE r == Finish(s)
             w == s.work - 1
             e == s.work = 1
  <1>1. s.work \in Int /\ w \in Int /\ e \in BOOLEAN /\ (e <=> w = 0)
    BY DEF Io
  <1>2. r = [s EXCEPT !.work = w, !.stopped = e]
    BY DEF Finish
  <1> HIDE DEF w, e, r
  <1>3. /\ r.queue = s.queue /\ r.expiry = s.expiry /\ r.alarm = s.alarm
        /\ r.reads = s.reads /\ r.port = s.port /\ r.work = w /\ r.stopped = e
    BY <1>2 DEF Io
  <1> QED BY <1>1, <1>3, QueueKept DEF r

(* The event that completes a read takes it from the descriptor.           *)
LEMMA PerformIoOrder ==
  ASSUME NEW s \in Io, s.reads = 1
  PROVE  LET r == PerformIo(s)
         IN  /\ r \in Io /\ r.queue = s.queue /\ r.expiry = s.expiry /\ r.alarm = s.alarm
             /\ r.reads = 0
  <1> DEFINE b == [s EXCEPT !.reads = s.reads - 1]
             r == PerformIo(s)
  <1>1. /\ b \in Io /\ b.queue = s.queue /\ b.reads = 0 /\ b.expiry = s.expiry
        /\ b.alarm = s.alarm
    BY DEF Io
  <1>2. r = Read(b)
    BY DEF PerformIo
  <1> HIDE DEF b, r
  <1> QED BY <1>1, <1>2, ReadOk, ReadAlarm DEF r

--------------------------------------------------------------------------------
(* No wait is over before the timerfd fires.                               *)
AlarmInTime(s) == \A t \in Timers : Waits(s, t) => s.alarm <= s.expiry[t]

(* The timerfd is set to the earliest expiry, or to fire before.           *)
LEMMA NextAlarmEarly ==
  ASSUME NEW s \in Io, NEW n \in Nat, NEW t \in Timers, Waits(s, t), n <= s.expiry[t]
  PROVE  NextAlarm(s, n) <= s.expiry[t]
  <1> DEFINE wake == {s.expiry[u] : u \in {v \in Timers : Waits(s, v)}} \cup {n + MaxWait}
             first == CHOOSE e \in wake : \A d \in wake : e <= d
  <1>1. n + MaxWait \in Int /\ s.expiry["max"] \in Int /\ s.expiry["quiet"] \in Int
        /\ s.expiry[t] \in Int
    BY LoopAssumption DEF Io, Timers
  <1>2. wake \subseteq {s.expiry["max"], s.expiry["quiet"], n + MaxWait} /\ n + MaxWait \in wake
        /\ s.expiry[t] \in wake
    BY DEF Timers
  <1> HIDE DEF wake
  <1>3. \E e \in wake : \A d \in wake : e <= d
    BY <1>1, <1>2
  <1>4. first \in wake /\ \A d \in wake : first <= d
    BY <1>3
  <1>5. first <= s.expiry[t] /\ first \in Int
    BY <1>1, <1>2, <1>4
  <1>6. NextAlarm(s, n) = IF first < n THEN n ELSE first
    BY DEF NextAlarm, wake
  <1> HIDE DEF first
  <1> QED BY <1>1, <1>5, <1>6

(* A wait that is started expires when it was told to, and in time.        *)
LEMMA StartWaitAlarm ==
  ASSUME NEW s \in Io, NEW t \in Timers, ~Waits(s, t), NEW at \in Nat, NEW n \in Nat,
         n <= at, AlarmInTime(s)
  PROVE  LET r == StartWait(s, t, at, n)
         IN  /\ AlarmInTime(r) /\ r.queue = s.queue
             /\ r.expiry = [s.expiry EXCEPT ![t] = at] /\ r.reads = s.reads
             /\ r.port = s.port /\ r \in Io
  <1> DEFINE x == [s.expiry EXCEPT ![t] = at]
             q == [s EXCEPT !.expiry = x, !.work = s.work + 1]
             r == StartWait(s, t, at, n)
             first == \A u \in Timers \ {t} : Waits(q, u) => at < q.expiry[u]
  <1>1. x \in [Timers -> Int] /\ x[t] = at /\ (\A u \in Timers \ {t} : x[u] = s.expiry[u])
        /\ s.work + 1 \in Int
    BY DEF Io
  <1>2. Start(Enqueue(CancelWait(s, t), t, at)) = q
    BY DEF Start, Enqueue, CancelWait, Io
  <1> HIDE DEF x
  <1>3. /\ q \in Io /\ q.queue = s.queue /\ q.expiry = x /\ q.alarm = s.alarm
        /\ q.reads = s.reads /\ q.port = s.port
    BY <1>1 DEF Io
  <1>4. r = IF first THEN SetAlarm(q, n) ELSE q
    BY <1>2 DEF StartWait
  <1>5. CASE first
    <2>1. r = [q EXCEPT !.alarm = NextAlarm(q, n)] /\ NextAlarm(q, n) \in Int
      BY <1>3, <1>4, <1>5, AlarmIsInt DEF SetAlarm
    <2>2. \A u \in Timers : Waits(q, u) => n <= q.expiry[u]
      <3> SUFFICES ASSUME NEW u \in Timers, Waits(q, u) PROVE n <= q.expiry[u]
        OBVIOUS
      <3>1. CASE u = t
        BY <3>1, <1>1, <1>3
      <3>2. CASE u # t
        <4>1. at < q.expiry[u]
          BY <3>2, <1>5
        <4>2. q.expiry[u] \in Int
          BY <1>1, <1>3
        <4> QED BY <4>1, <4>2
      <3> QED BY <3>1, <3>2
    <2>3. \A u \in Timers : Waits(q, u) => NextAlarm(q, n) <= q.expiry[u]
      BY <1>3, <2>2, NextAlarmEarly
    <2> HIDE DEF q, first
    <2>4. /\ r.queue = q.queue /\ r.expiry = q.expiry /\ r.alarm = NextAlarm(q, n)
          /\ r.reads = q.reads /\ r.port = q.port /\ r \in Io
      <3> HIDE DEF r
      <3> QED BY <1>3, <2>1 DEF Io
    <2>5. AlarmInTime(r)
      BY <2>3, <2>4 DEF AlarmInTime, Waits
    <2> QED BY <1>3, <2>4, <2>5 DEF x
  <1>6. CASE ~first
    <2>1. PICK u \in Timers \ {t} : Waits(q, u) /\ ~(at < q.expiry[u])
      BY <1>6
    <2>2. Waits(s, u) /\ q.expiry[u] = s.expiry[u] /\ s.expiry[u] \in Int /\ s.alarm \in Int
      BY <1>1, <1>3, <2>1 DEF Waits, Io
    <2>3. s.alarm <= at
      BY <2>1, <2>2 DEF AlarmInTime
    <2> HIDE DEF q, first
    <2>4. AlarmInTime(q)
      <3> SUFFICES ASSUME NEW v \in Timers, Waits(q, v) PROVE q.alarm <= q.expiry[v]
        BY DEF AlarmInTime
      <3>1. CASE v = t
        BY <3>1, <1>1, <1>3, <2>3
      <3>2. CASE v # t
        BY <3>2, <1>1, <1>3 DEF AlarmInTime, Waits
      <3> QED BY <3>1, <3>2
    <2> QED BY <1>3, <1>4, <1>6, <2>4 DEF x
  <1> QED BY <1>5, <1>6

(* What the timers do to the queue: those that are over are put behind     *)
(* what is there; the others wait on.                                      *)
Fired(r, s, t, n) ==
  /\ Waits(r, t) <=> Waits(s, t) /\ n < s.expiry[t]
  /\ Waits(r, t) => r.expiry[t] = s.expiry[t]
  /\ Queued(r, t) <=> Queued(s, t) \/ (Waits(s, t) /\ s.expiry[t] <= n)
  /\ \A o : Queued(s, o) /\ Waits(s, t) /\ s.expiry[t] <= n => Before(r, o, t)

Behind(r, s) ==
  /\ r.work = s.work /\ (NoneAborted(s) => NoneAborted(r))
  /\ \A o : o \notin Timers => (Queued(r, o) <=> Queued(s, o))
  /\ \A o : Queued(s, o) => Queued(r, o)
  /\ \A o, p : Before(s, o, p) => Before(r, o, p)

(* One timer.                                                              *)
LEMMA ExpireOrder ==
  ASSUME NEW s \in Io, NEW t \in Timers, NEW n \in Nat
  PROVE  LET r == Expire(s, t, n)
         IN  /\ r \in Io /\ Fired(r, s, t, n) /\ Behind(r, s)
             /\ \A u \in Timers \ {t} : /\ r.expiry[u] = s.expiry[u]
                                        /\ Waits(r, u) <=> Waits(s, u)
                                        /\ Queued(r, u) <=> Queued(s, u)
  <1> DEFINE x == [s.expiry EXCEPT ![t] = NoWait]
             b == [s EXCEPT !.expiry = x]
             r == Post(b, t, "ok")
  <1>1. /\ x \in [Timers -> Int] /\ x[t] = NoWait /\ s.expiry[t] \in Int
        /\ \A u \in Timers \ {t} : x[u] = s.expiry[u]
    BY DEF Io, NoWait
  <1>2. CASE Waits(s, t) /\ s.expiry[t] <= n
    <2>1. Expire(s, t, n) = r
      BY <1>2 DEF Expire, Io
    <2> HIDE DEF x
    <2>2. b \in Io /\ b.queue = s.queue /\ b.expiry = x /\ b.work = s.work
      BY <1>1 DEF Io
    <2> HIDE DEF b
    <2>3. /\ \A o : Queued(b, o) <=> Queued(s, o)
          /\ \A o, p : Before(b, o, p) <=> Before(s, o, p)
          /\ NoneAborted(b) <=> NoneAborted(s)
      BY <2>2, QueueKept
    <2>4. /\ r \in Io /\ r.expiry = x /\ r.work = s.work
          /\ \A o : Queued(r, o) <=> Queued(b, o) \/ o = t
          /\ \A o, p : Before(r, o, p) <=> Before(b, o, p) \/ (p = t /\ Queued(b, o))
          /\ NoneAborted(b) => NoneAborted(r)
      <3>1. t \in Op \cup {"port", "task"}
        BY DEF Op
      <3> QED BY <2>2, <3>1, PostQueue, PostOrder DEF Same
    <2> HIDE DEF r
    <2>5. ~Waits(r, t) /\ Queued(r, t)
      BY <1>1, <2>4 DEF Waits
    <2>6. \A o : Queued(s, o) => Before(r, o, t)
      BY ONLY <2>3, <2>4
    <2>7. ~(n < s.expiry[t])
      BY <1>1, <1>2
    <2>8. Fired(r, s, t, n)
      BY <1>2, <2>5, <2>6, <2>7 DEF Fired
    <2>9. /\ \A o : o # t => (Queued(r, o) <=> Queued(s, o))
          /\ \A o : Queued(s, o) => Queued(r, o)
          /\ \A o, p : Before(s, o, p) => Before(r, o, p)
      BY ONLY <2>3, <2>4
    <2>10. Behind(r, s)
      BY <2>3, <2>4, <2>9 DEF Behind
    <2>11. ASSUME NEW u \in Timers \ {t}
           PROVE  /\ r.expiry[u] = s.expiry[u]
                  /\ Waits(r, u) <=> Waits(s, u)
                  /\ Queued(r, u) <=> Queued(s, u)
      BY <1>1, <2>4, <2>9 DEF Waits
    <2> QED BY <2>1, <2>4, <2>8, <2>10, <2>11
  <1>3. CASE ~(Waits(s, t) /\ s.expiry[t] <= n)
    <2>1. Expire(s, t, n) = s
      BY <1>3 DEF Expire
    <2>2. Waits(s, t) => n < s.expiry[t]
      BY <1>1, <1>3
    <2>3. Fired(s, s, t, n) /\ Behind(s, s)
      BY <1>3, <2>2 DEF Fired, Behind
    <2> QED BY <2>1, <2>3
  <1> QED BY <1>2, <1>3

(* Both, in either order.                                                  *)
LEMMA TwoTimers ==
  ASSUME NEW s \in Io, NEW n \in Nat, NEW t \in Timers, NEW u \in Timers, t # u
  PROVE  LET r == Expire(Expire(s, t, n), u, n)
         IN  r \in Io /\ Behind(r, s) /\ \A v \in Timers : Fired(r, s, v, n)
  <1> DEFINE e == Expire(s, t, n)
             r == Expire(e, u, n)
  <1>1. /\ e \in Io /\ Fired(e, s, t, n) /\ Behind(e, s)
        /\ e.expiry[u] = s.expiry[u] /\ (Waits(e, u) <=> Waits(s, u))
        /\ Queued(e, u) <=> Queued(s, u)
    BY ExpireOrder
  <1> HIDE DEF e
  <1>2. /\ r \in Io /\ Fired(r, e, u, n) /\ Behind(r, e)
        /\ r.expiry[t] = e.expiry[t] /\ (Waits(r, t) <=> Waits(e, t))
        /\ Queued(r, t) <=> Queued(e, t)
    BY <1>1, ExpireOrder
  <1> HIDE DEF r
  <1>3. Behind(r, s)
    <2>1. /\ \A o : o \notin Timers => (Queued(r, o) <=> Queued(s, o))
          /\ \A o : Queued(s, o) => Queued(r, o)
          /\ \A o, p : Before(s, o, p) => Before(r, o, p)
      BY <1>1, <1>2 DEF Behind
    <2> QED BY <1>1, <1>2, <2>1 DEF Behind
  <1>4. Fired(r, s, t, n)
    BY <1>1, <1>2 DEF Fired, Behind
  <1>5. Fired(r, s, u, n)
    BY <1>1, <1>2 DEF Fired, Behind
  <1>6. \A v \in Timers : v = t \/ v = u
    BY DEF Timers
  <1> QED BY <1>2, <1>3, <1>4, <1>5, <1>6 DEF r, e

(* A round of the reactor.  Timers that are over come behind the port's    *)
(* event and the reads that are there, and before the next round; those    *)
(* that wait are not over, and the timerfd fires in time for them.         *)
LEMMA RunTaskOrder ==
  ASSUME NEW s, IoOk(s, 0), s.queue # <<>>, Head(s.queue).op = "task", NEW n \in Nat,
         AlarmInTime(s), \A t \in Timers : ~Before(s, "task", t)
  PROVE  LET r == RunTask(s, n)
         IN  /\ AlarmInTime(r) /\ Queued(r, "task") /\ \A o : o # "task" => ~Before(r, "task", o)
             /\ r.reads = s.reads /\ r.port = s.port /\ r.work = s.work
             /\ Queued(r, "read") <=> Queued(s, "read")
             /\ NoneAborted(s) => NoneAborted(r)
             /\ \A t \in Timers :
                  /\ ~Queued(s, t)
                  /\ Waits(r, t) <=> Waits(s, t) /\ n < s.expiry[t]
                  /\ Waits(r, t) => r.expiry[t] = s.expiry[t]
                  /\ Queued(r, t) <=> Waits(s, t) /\ s.expiry[t] <= n
                  /\ Queued(r, t) /\ Queued(s, "read") => Before(r, "read", t)
                  /\ Queued(r, t) /\ PortReady(s) => Before(r, "port", t)
  <1> DEFINE p == Pop(s)
             e == IF PortReady(p) THEN Post(p, "port", "ok") ELSE p
             x == GetReadyTimers(e, n)
             g == IF TimerReady(p, n) THEN SetAlarm(x, n) ELSE e
             c == [g EXCEPT !.edge = FALSE]
             r == Post(c, "task", "ok")
  <1>1. /\ p \in Io /\ Same(p, s) /\ p.alarm = s.alarm
        /\ \A o : Queued(p, o) <=> Queued(s, o) /\ o # "task"
        /\ \A t \in Timers : ~Queued(s, t)
        /\ NoneAborted(s) => NoneAborted(p)
    <2>1. s \in Io /\ Distinct(s)
      BY DEF IoOk
    <2>2. \A t \in Timers : t # "task"
      BY DEF Timers
    <2> QED BY <2>1, <2>2, PopQueue, PopOrder
  <1>2. RunTask(s, n) = r
    BY DEF RunTask, Poll
  <1>3. PortReady(p) <=> PortReady(s)
    BY <1>1 DEF PortReady, Readable, Same
  <1> HIDE DEF p
  <1>4. /\ e \in Io /\ e.expiry = s.expiry /\ e.alarm = s.alarm /\ e.reads = s.reads
        /\ e.port = s.port /\ e.work = s.work
        /\ \A o : o # "port" => (Queued(e, o) <=> Queued(p, o))
        /\ PortReady(s) => Queued(e, "port")
        /\ NoneAborted(s) => NoneAborted(e)
    <2>1. CASE PortReady(p)
      <3> DEFINE q == Post(p, "port", "ok")
      <3>1. /\ q \in Io /\ Same(q, p) /\ q.alarm = p.alarm
            /\ \A o : Queued(q, o) <=> Queued(p, o) \/ o = "port"
            /\ NoneAborted(p) => NoneAborted(q)
        BY <1>1, PostQueue, PostOrder
      <3>2. e = q
        BY <2>1
      <3> HIDE DEF q, e
      <3>3. \A o : o # "port" => (Queued(q, o) <=> Queued(p, o))
        BY ONLY <3>1
      <3> QED BY <1>1, <3>1, <3>2, <3>3 DEF Same
    <2>2. CASE ~PortReady(p)
      <3>1. e = p
        BY <2>2
      <3> HIDE DEF e
      <3> QED BY <1>1, <1>3, <2>2, <3>1 DEF Same
    <2> QED BY <2>1, <2>2
  <1> HIDE DEF e
  <1>5. /\ x \in Io /\ Behind(x, e) /\ \A t \in Timers : Fired(x, e, t, n)
        /\ x.reads = e.reads /\ x.port = e.port
    <2>1. "max" \in Timers /\ "quiet" \in Timers
      BY DEF Timers
    <2>2. \A a \in Io, t \in Timers :
            Expire(a, t, n).reads = a.reads /\ Expire(a, t, n).port = a.port
      <3> TAKE a \in Io, t \in Timers
      <3>1. Expire(a, t, n) = a \/ Expire(a, t, n) = Post([a EXCEPT !.expiry[t] = NoWait], t, "ok")
        BY DEF Expire
      <3> QED BY <3>1 DEF Post, Io
    <2>3. \A t \in Timers : Expire(e, t, n) \in Io
      BY <1>4, ExpireOrder
    <2>4. x = Expire(Expire(e, "quiet", n), "max", n) \/ x = Expire(Expire(e, "max", n), "quiet", n)
      BY DEF GetReadyTimers
    <2> HIDE DEF x
    <2> QED BY <1>4, <2>1, <2>2, <2>3, <2>4, TwoTimers
  <1> HIDE DEF x
  <1>6. /\ g \in Io /\ Behind(g, e) /\ AlarmInTime(g)
        /\ \A t \in Timers : Fired(g, e, t, n)
        /\ g.reads = e.reads /\ g.port = e.port
    <2>1. CASE TimerReady(p, n)
      <3> DEFINE y == SetAlarm(x, n)
      <3>1. /\ y \in Io /\ y.queue = x.queue /\ y.expiry = x.expiry /\ y.work = x.work
            /\ y.reads = x.reads /\ y.port = x.port
        BY <1>5, SetAlarmOk
      <3>2. y.alarm = NextAlarm(x, n)
        BY <1>5, AlarmIsInt DEF SetAlarm, Io
      <3>3. g = y
        BY <2>1
      <3> HIDE DEF y, g
      <3>4. /\ \A o : Queued(y, o) <=> Queued(x, o)
            /\ \A o, q : Before(y, o, q) <=> Before(x, o, q)
            /\ NoneAborted(y) <=> NoneAborted(x)
        BY <3>1, QueueKept
      <3>5. Behind(y, e)
        BY <1>5, <3>1, <3>4 DEF Behind
      <3>6. \A t \in Timers : Fired(y, e, t, n)
        BY <1>5, <3>1, <3>4 DEF Fired, Waits
      <3>7. \A t \in Timers : Waits(y, t) => y.alarm <= y.expiry[t]
        <4> TAKE t \in Timers
        <4> HAVE Waits(y, t)
        <4>1. Waits(x, t) /\ n < x.expiry[t] /\ x.expiry[t] \in Int
          BY <1>5, <3>1 DEF Waits, Fired, Io
        <4>2. n <= x.expiry[t]
          BY <4>1
        <4>3. NextAlarm(x, n) <= x.expiry[t]
          BY <1>5, <4>1, <4>2, NextAlarmEarly
        <4> QED BY <3>1, <3>2, <4>3
      <3> QED BY <1>5, <3>1, <3>3, <3>5, <3>6, <3>7 DEF AlarmInTime
    <2>2. CASE ~TimerReady(p, n)
      <3>1. g = e
        BY <2>2
      <3> HIDE DEF g
      <3>2. n < e.alarm /\ e.alarm \in Int
        BY <1>1, <1>4, <2>2 DEF TimerReady, Io
      <3>3. ASSUME NEW t \in Timers, Waits(e, t)
            PROVE  n < e.expiry[t] /\ ~(e.expiry[t] <= n) /\ e.alarm <= e.expiry[t]
        <4>1. e.expiry[t] \in Int /\ e.alarm <= e.expiry[t]
          BY <1>4, <3>3 DEF AlarmInTime, Waits, Io
        <4> QED BY <3>2, <4>1
      <3>4. \A t \in Timers : Fired(e, e, t, n)
        BY <3>3 DEF Fired
      <3> QED BY <1>4, <3>1, <3>3, <3>4 DEF AlarmInTime, Behind
    <2> QED BY <2>1, <2>2
  <1> HIDE DEF g
  <1>7. /\ c \in Io /\ c.queue = g.queue /\ c.expiry = g.expiry /\ c.work = g.work
        /\ c.reads = g.reads /\ c.port = g.port /\ c.alarm = g.alarm
    BY <1>6 DEF Io
  <1> HIDE DEF c
  <1>8. /\ \A o : Queued(c, o) <=> Queued(g, o)
        /\ \A o, q : Before(c, o, q) <=> Before(g, o, q)
        /\ NoneAborted(c) <=> NoneAborted(g)
    BY <1>7, QueueKept
  <1>9. /\ Same(r, c) /\ r.alarm = c.alarm
        /\ \A o : Queued(r, o) <=> Queued(c, o) \/ o = "task"
        /\ \A o, q : Before(r, o, q) <=> Before(c, o, q) \/ (q = "task" /\ Queued(c, o))
        /\ NoneAborted(c) => NoneAborted(r)
    BY <1>7, PostQueue, PostOrder
  <1> HIDE DEF r
  <1>10. "task" \notin Timers /\ "read" \notin Timers /\ "port" \notin Timers
    BY DEF Timers
  <1>11. ~Queued(c, "task")
    BY <1>1, <1>4, <1>6, <1>8, <1>10 DEF Behind
  <1>12. Queued(r, "task") /\ \A o : o # "task" => ~Before(r, "task", o)
    BY <1>9, <1>11, BeforeQueued
  <1>13. AlarmInTime(r) /\ r.reads = s.reads /\ r.port = s.port /\ r.work = s.work
    BY <1>4, <1>6, <1>7, <1>9 DEF Same, AlarmInTime, Waits, Behind
  <1>14. /\ Queued(r, "read") <=> Queued(s, "read")
         /\ NoneAborted(s) => NoneAborted(r)
    BY <1>1, <1>4, <1>6, <1>8, <1>9, <1>10 DEF Behind
  <1>15. ASSUME NEW t \in Timers
         PROVE  /\ ~Queued(s, t)
                /\ Waits(r, t) <=> Waits(s, t) /\ n < s.expiry[t]
                /\ Waits(r, t) => r.expiry[t] = s.expiry[t]
                /\ Queued(r, t) <=> Waits(s, t) /\ s.expiry[t] <= n
                /\ Queued(r, t) /\ Queued(s, "read") => Before(r, "read", t)
                /\ Queued(r, t) /\ PortReady(s) => Before(r, "port", t)
    <2>1. t # "task" /\ t # "port"
      BY <1>10
    <2>2. Fired(g, e, t, n) /\ ~Queued(e, t) /\ ~Queued(s, t)
      BY <1>1, <1>4, <1>6, <2>1
    <2>3. /\ Waits(r, t) <=> Waits(g, t)
          /\ r.expiry[t] = g.expiry[t] /\ e.expiry[t] = s.expiry[t]
          /\ Waits(e, t) <=> Waits(s, t)
      BY <1>4, <1>7, <1>9 DEF Waits, Same
    <2>4. Queued(r, t) <=> Queued(g, t)
      BY <1>8, <1>9, <2>1
    <2>5. Queued(s, "read") => Queued(e, "read")
      BY <1>1, <1>4
    <2>6. \A o : Before(g, o, t) => Before(r, o, t)
      BY <1>8, <1>9
    <2> QED BY <1>4, <2>2, <2>3, <2>4, <2>5, <2>6 DEF Fired
  <1> QED BY <1>2, <1>12, <1>13, <1>14, <1>15

--------------------------------------------------------------------------------
(* The timers: each has its time, and is handled before the next round of  *)
(* the reactor but one; the work of a round is behind it by then.          *)
TimersInTime ==
  /\ pc = "start" => now = 0 /\ lag = 0 /\ ~done
  /\ Queued(io, "task") /\ AlarmInTime(io)
  /\ \A t \in Timers : ~Before(io, "task", t)
  /\ \A t \in Timers : Waits(io, t) => 0 <= io.expiry[t] /\ now <= io.expiry[t] + lag
  /\ Waits(io, "max") => io.expiry["max"] = MaxTotal
  /\ Waits(io, "quiet") => io.expiry["quiet"] <= MaxTotal + QuietWindow + 2 * MaxLag

(* What is under way, and until when at the latest.                        *)
EndsByThen ==
  pc # "start" =>
    /\ ~Waits(io, "max") => now >= MaxTotal
    /\ ~done => Outstanding(io, "max") /\ Outstanding(io, "read")
    /\ done => io.reads = 0
    /\ Queued(io, "max") => now <= MaxTotal + MaxLag + lag
    /\ Queued(io, "quiet") => now <= MaxTotal + QuietWindow + 3 * MaxLag + lag
    /\ done /\ Queued(io, "read") => now <= MaxTotal + 2 * MaxLag + lag
    /\ done /\ Before(io, "task", "read") => now <= MaxTotal + MaxLag + lag
    /\ io.stopped <=> io.work = 0
    /\ io.stopped => now <= MaxTotal + QuietWindow + 3 * MaxLag + lag

(* When the quiet timer is over, either nothing was unread at the last     *)
(* round of the reactor, or a read is handled before it, or has just been. *)
HeardFirst ==
  /\ lastData <= now
  /\ ~done => NoneAborted(io)
  /\ Queued(io, "quiet") /\ ~done =>
       \/ now - lastData <= lag
       \/ io.port <= late
       \/ Before(io, "read", "quiet")
       \/ Before(io, "port", "quiet") /\ io.reads > 0

InTime == DrainInv /\ TimersInTime /\ EndsByThen /\ HeardFirst

(* When the drain begins nothing is under way and no time has passed.      *)
LEMMA InTimeStarts == Init => InTime
  <1> SUFFICES ASSUME Init PROVE InTime
    OBVIOUS
  <1>1. DrainInv
    BY DrainStarts
  <1>2. PICK n \in 0 .. PortSize : io = Fresh(n)
    BY DEF Init
  <1>3. /\ io.queue = <<[op |-> "task", ec |-> "ok"]>> /\ io.expiry = [t \in Timers |-> NoWait]
    BY <1>2 DEF Fresh
  <1>4. DOMAIN io.queue = {1} /\ io.queue[1].op = "task" /\ io.queue[1].ec = "ok"
    BY <1>3
  <1>5. /\ Queued(io, "task") /\ ~Queued(io, "quiet") /\ NoneAborted(io)
        /\ \A o, p : ~Before(io, o, p)
    BY <1>4 DEF Queued, Before, NoneAborted
  <1>6. \A t \in Timers : ~Waits(io, t)
    BY <1>3 DEF Waits
  <1>7. TimersInTime
    BY <1>5, <1>6 DEF TimersInTime, AlarmInTime, Init, Timers
  <1>8. EndsByThen /\ HeardFirst
    BY <1>5 DEF EndsByThen, HeardFirst, Init
  <1> QED BY <1>1, <1>7, <1>8 DEF InTime

(* While the drain goes on it is not later than this.                      *)
LEMMA NotYetDone ==
  ASSUME InTime, pc # "start", ~done
  PROVE  now <= MaxTotal + MaxLag + lag
  BY DrainAssumption DEF InTime, DrainInv, TimersInTime, EndsByThen, Outstanding, Waiting, Timers

(* A handler's part: what it does to the timers is what matters.           *)
LEMMA TimersOfHandler ==
  ASSUME InTime, pc = "run", pc' = "run", UNCHANGED <<now, lag>>,
         NEW s, TimersKept(s, Pop(io)), TimersKept(io', s), io.queue # <<>>,
         Head(io.queue).op # "task"
  PROVE  /\ TimersInTime'
         /\ io'.expiry = io.expiry
         /\ \A o : o # "read" => (Queued(io', o) <=> Queued(io, o) /\ o # Head(io.queue).op)
         /\ \A o, p : p # "read" => (Before(io', o, p) <=> Before(io, o, p) /\ o # Head(io.queue).op)
  <1> DEFINE h == Head(io.queue).op
             p == Pop(io)
  <1>1. io \in Io /\ Distinct(io)
    BY DEF InTime, DrainInv, IoOk
  <1>2. /\ p.expiry = io.expiry /\ p.alarm = io.alarm
        /\ \A o : Queued(p, o) <=> Queued(io, o) /\ o # h
        /\ \A o, q : Before(p, o, q) <=> Before(io, o, q) /\ o # h
    BY <1>1, PopQueue, PopOrder DEF Same
  <1> HIDE DEF p, h
  <1>3. io'.expiry = io.expiry /\ io'.alarm = io.alarm
    BY <1>2 DEF TimersKept, p
  <1>4. \A o : o # "read" => (Queued(io', o) <=> Queued(io, o) /\ o # h)
    BY <1>2 DEF TimersKept, p
  <1>5. \A o, q : q # "read" => (Before(io', o, q) <=> Before(io, o, q) /\ o # h)
    BY <1>2 DEF TimersKept, p
  <1>6. TimersInTime'
    BY <1>3, <1>4, <1>5 DEF InTime, TimersInTime, AlarmInTime, Waits, Timers, h
  <1> QED BY <1>3, <1>4, <1>5, <1>6 DEF h

(* The constants are numbers, and what the invariant says of the state of  *)
(* the io_context in a round.                                              *)
LEMMA RoundFacts ==
  ASSUME InTime
  PROVE  /\ MaxTotal \in Nat /\ QuietWindow \in Nat /\ MaxLag \in Nat /\ MaxLag < QuietWindow
         /\ 0 < MaxTotal
         /\ now \in Nat /\ lag \in Nat /\ lag <= MaxLag /\ lastData \in Nat /\ late \in Nat
         /\ io \in Io /\ Distinct(io) /\ io.reads \in {0, 1} /\ IoOk(io, 0)
         /\ done \in BOOLEAN
         /\ TimersInTime /\ EndsByThen /\ HeardFirst
  BY DrainAssumption DEF InTime, DrainInv, IoOk

(* Both timers and the first read are under way when io.run() begins.      *)
LEMMA BeginInTime == InTime /\ Begin => TimersInTime' /\ EndsByThen' /\ HeardFirst'
  <1> SUFFICES ASSUME InTime, Begin PROVE TimersInTime' /\ EndsByThen' /\ HeardFirst'
    OBVIOUS
  <1> USE RoundFacts
  <1> DEFINE a == StartWait(io, "max", now + MaxTotal, now)
             b == StartWait(a, "quiet", now + QuietWindow, now)
  <1>1. pc = "start" /\ now = 0 /\ lag = 0 /\ ~done /\ pc' = "run" /\ io' = StartRead(b)
        /\ UNCHANGED <<done, now, lag, late>> /\ lastData' = now
        /\ Queued(io, "task") /\ AlarmInTime(io) /\ NoneAborted(io)
        /\ "max" \in Timers /\ "quiet" \in Timers /\ "max" # "quiet"
    BY DEF Begin, TimersInTime, HeardFirst, Timers
  <1>2. /\ \A t \in Timers : ~Outstanding(io, t) /\ ~Waits(io, t) /\ ~Queued(io, t)
        /\ io.reads = 0
    BY <1>1 DEF InTime, DrainInv, Outstanding, Waiting, Op, Timers
  <1>3. /\ a \in Io /\ AlarmInTime(a) /\ a.queue = io.queue /\ a.reads = io.reads
        /\ a.expiry = [io.expiry EXCEPT !["max"] = MaxTotal]
    BY <1>1, <1>2, StartWaitAlarm
  <1>4. io.expiry \in [Timers -> Int]
    BY DEF Io
  <1> HIDE DEF a
  <1>5. ~Waits(a, "quiet")
    BY <1>1, <1>2, <1>3, <1>4 DEF Waits
  <1>6. /\ b \in Io /\ AlarmInTime(b) /\ b.queue = io.queue /\ b.reads = 0
        /\ b.expiry = [a.expiry EXCEPT !["quiet"] = QuietWindow]
    BY <1>1, <1>2, <1>3, <1>5, StartWaitAlarm
  <1> HIDE DEF b
  <1>7. b.expiry["max"] = MaxTotal /\ b.expiry["quiet"] = QuietWindow
    BY <1>1, <1>3, <1>4, <1>6
  <1>8. TimersKept(io', b) /\ Outstanding(io', "read") /\ (NoneAborted(b) => NoneAborted(io'))
    BY <1>1, <1>6, StartReadOrder
  <1>9. /\ \A o : Queued(b, o) <=> Queued(io, o)
        /\ \A o, p : Before(b, o, p) <=> Before(io, o, p)
        /\ NoneAborted(b) <=> NoneAborted(io)
    BY <1>6, QueueKept
  <1>10. /\ io'.expiry["max"] = MaxTotal /\ io'.expiry["quiet"] = QuietWindow
         /\ AlarmInTime(io') /\ Waits(io', "max")
         /\ Queued(io', "task") /\ ~Queued(io', "max") /\ ~Queued(io', "quiet")
         /\ \A t \in Timers : ~Before(io', "task", t)
    <2>1. io'.expiry = b.expiry /\ io'.alarm = b.alarm
      BY <1>8 DEF TimersKept
    <2>2. AlarmInTime(io') /\ Waits(io', "max")
      BY <1>6, <1>7, <2>1 DEF AlarmInTime, Waits, NoWait
    <2>3. Queued(io', "task") /\ ~Queued(io', "max") /\ ~Queued(io', "quiet")
      BY <1>1, <1>2, <1>8, <1>9 DEF TimersKept
    <2>4. \A t \in Timers : ~Before(io', "task", t)
      BY <2>3, BeforeQueued DEF Timers
    <2> QED BY <1>7, <2>1, <2>2, <2>3, <2>4
  <1>11. TimersInTime'
    <2>1. QuietWindow <= MaxTotal + QuietWindow + 2 * MaxLag /\ 0 <= QuietWindow + 0 /\ 0 <= MaxTotal + 0
      OBVIOUS
    <2> QED BY <1>1, <1>10, <2>1 DEF TimersInTime, Timers
  <1>12. io'.stopped = FALSE /\ io'.work # 0
    <2>1. DrainInv' 
      BY DrainSteps DEF InTime, Next, Loop
    <2>2. Count(io') = io'.work /\ Count(io') # 0
      <3>1. io'.work = 0 + Count(io') /\ Count(io') \in Int
        BY <2>1, CountIs DEF DrainInv, IoOk
      <3>2. Count(io') # 0
        BY <1>8, CountZero DEF Op
      <3> QED BY <3>1, <3>2
    <2> QED BY <2>1, <2>2 DEF DrainInv, IoOk, Io
  <1>13. EndsByThen'
    BY <1>1, <1>8, <1>10, <1>12 DEF EndsByThen, Outstanding, Waiting
  <1>14. HeardFirst'
    BY <1>1, <1>8, <1>9, <1>10 DEF HeardFirst
  <1> QED BY <1>11, <1>13, <1>14

(* A round of the reactor: waits that are over go into the queue behind    *)
(* what the port has, and nothing is late any more.                        *)
LEMMA TaskInTime == InTime /\ Task => TimersInTime' /\ EndsByThen' /\ HeardFirst'
  <1> SUFFICES ASSUME InTime, Task PROVE TimersInTime' /\ EndsByThen' /\ HeardFirst'
    OBVIOUS
  <1> USE RoundFacts
  <1>1. /\ pc = "run" /\ ~io.stopped /\ io.queue # <<>> /\ Head(io.queue).op = "task"
        /\ io' = RunTask(io, now) /\ lag' = 0 /\ late' = 0
        /\ UNCHANGED <<pc, done, lastData, now>>
    BY DEF Task, Runs
  <1>2. AlarmInTime(io) /\ \A t \in Timers : ~Before(io, "task", t)
    BY DEF TimersInTime
  <1>3. /\ AlarmInTime(io') /\ Queued(io', "task") /\ \A o : o # "task" => ~Before(io', "task", o)
        /\ io'.reads = io.reads /\ io'.port = io.port /\ io'.work = io.work
        /\ Queued(io', "read") <=> Queued(io, "read")
        /\ NoneAborted(io) => NoneAborted(io')
    BY <1>1, <1>2, RunTaskOrder
  <1>4. \A t \in Timers :
          /\ ~Queued(io, t)
          /\ Waits(io', t) <=> Waits(io, t) /\ now < io.expiry[t]
          /\ Waits(io', t) => io'.expiry[t] = io.expiry[t]
          /\ Queued(io', t) <=> Waits(io, t) /\ io.expiry[t] <= now
          /\ Queued(io', t) /\ Queued(io, "read") => Before(io', "read", t)
          /\ Queued(io', t) /\ PortReady(io) => Before(io', "port", t)
    BY <1>1, <1>2, RunTaskOrder
  <1>5. io'.stopped = FALSE
    <2>1. IoOk(io, 0) /\ NoLost(io) /\ now \in Nat /\ io.stopped \in BOOLEAN
      BY DEF InTime, DrainInv, Io
    <2>2. RunTask(io, now).stopped = io.stopped
      BY <1>1, <2>1, RunTaskOk
    <2> QED BY <1>1, <2>1, <2>2
  <1>6. "max" \in Timers /\ "quiet" \in Timers /\ "task" \notin Timers /\ "read" # "task"
        /\ io.expiry["max"] \in Int /\ io.expiry["quiet"] \in Int
    BY DEF Timers, Io
  <1>7. TimersInTime'
    <2>1. \A t \in Timers : Waits(io', t) => 0 <= io'.expiry[t] /\ now <= io'.expiry[t] + 0
      <3> SUFFICES ASSUME NEW t \in Timers, Waits(io', t)
                   PROVE  0 <= io'.expiry[t] /\ now <= io'.expiry[t] + 0
        OBVIOUS
      <3>1. io'.expiry[t] = io.expiry[t] /\ now < io.expiry[t] /\ io.expiry[t] \in Int
        BY <1>4 DEF Io
      <3> QED BY <3>1
    <2>2. \A t \in Timers : ~Before(io', "task", t)
      BY <1>3, <1>6
    <2>3. /\ Waits(io', "max") => io'.expiry["max"] = MaxTotal
          /\ Waits(io', "quiet") => io'.expiry["quiet"] <= MaxTotal + QuietWindow + 2 * MaxLag
      BY <1>4, <1>6 DEF TimersInTime
    <2> QED BY <1>1, <1>3, <2>1, <2>2, <2>3 DEF TimersInTime
  <1>8. EndsByThen'
    <2>1. ~Waits(io', "max") => now >= MaxTotal
      BY <1>1, <1>4, <1>6 DEF EndsByThen, TimersInTime
    <2>2. ~done => Outstanding(io', "max") /\ Outstanding(io', "read")
      <3>1. Outstanding(io, "max") => Outstanding(io', "max")
        BY <1>4, <1>6 DEF Outstanding, Waiting
      <3>2. Outstanding(io, "read") => Outstanding(io', "read")
        BY <1>3 DEF Outstanding, Waiting
      <3> QED BY <1>1, <3>1, <3>2 DEF EndsByThen
    <2>3. Queued(io', "max") => now <= MaxTotal + MaxLag + 0
      <3>1. Queued(io', "max") => now <= MaxTotal + lag
        BY <1>4, <1>6 DEF TimersInTime
      <3> QED BY <3>1
    <2>4. Queued(io', "quiet") => now <= MaxTotal + QuietWindow + 3 * MaxLag + 0
      <3>1. Queued(io', "quiet") => now <= io.expiry["quiet"] + lag
                                    /\ io.expiry["quiet"] <= MaxTotal + QuietWindow + 2 * MaxLag
        BY <1>4, <1>6 DEF TimersInTime
      <3> QED BY <3>1, <1>6
    <2>5. done /\ Queued(io', "read") => now <= MaxTotal + 2 * MaxLag + 0
      <3>1. Queued(io', "read") => Before(io, "task", "read")
        BY <1>1, <1>3, <1>6, PopOrder
      <3>2. done /\ Queued(io', "read") => now <= MaxTotal + MaxLag + lag
        BY <1>1, <3>1 DEF EndsByThen
      <3> QED BY <3>2
    <2>6. ~Before(io', "task", "read")
      BY <1>3
    <2>7. io'.work # 0
      BY <1>1, <1>3 DEF EndsByThen
    <2> QED BY <1>1, <1>3, <1>5, <2>1, <2>2, <2>3, <2>4, <2>5, <2>6, <2>7 DEF EndsByThen
  <1>9. HeardFirst'
    <2>1. ASSUME Queued(io', "quiet"), ~done
          PROVE  \/ io'.port <= late'
                 \/ Before(io', "read", "quiet")
                 \/ Before(io', "port", "quiet") /\ io'.reads > 0
      <3>1. CASE Queued(io, "read")
        BY <1>4, <1>6, <2>1, <3>1
      <3>2. CASE io.port = 0
        BY <1>1, <1>3, <3>2
      <3>3. CASE ~Queued(io, "read") /\ io.port # 0
        <4>1. io.reads > 0
          BY <1>1, <2>1, <3>3 DEF EndsByThen, Outstanding, Waiting
        <4>2. Readable(io)
          BY <3>3 DEF Readable, Io
        <4>3. ~Queued(io, "port")
          <5>1. "port" # "task" /\ (Queued(io, "port") => Before(io, "task", "port"))
            BY <1>1, PopOrder
          <5>2. ~Before(io, "task", "port")
            <6> SUFFICES ASSUME NEW i \in DOMAIN io.queue, NEW j \in DOMAIN io.queue, i < j,
                                io.queue[i].op = "task", io.queue[j].op = "port"
                         PROVE  FALSE
              BY DEF Before
            <6>1. j < i
              BY DEF IoOk, PortFirst
            <6>2. DOMAIN io.queue = 1 .. Len(io.queue) /\ Len(io.queue) \in Nat
              BY DEF Io
            <6> QED BY <6>1, <6>2
          <5> QED BY <5>1, <5>2
        <4>4. PortReady(io)
          BY <4>1, <4>2, <4>3 DEF InTime, DrainInv, NoLost, PortReady
        <4> QED BY <1>3, <1>4, <1>6, <2>1, <4>1, <4>4
      <3> QED BY <3>1, <3>2, <3>3
    <2> QED BY <1>1, <1>3, <2>1 DEF HeardFirst
  <1> QED BY <1>7, <1>8, <1>9

(* max_timer has fired: max_total is over, and by one round at most.       *)
LEMMA MaxHandlerInTime == InTime /\ MaxHandler => TimersInTime' /\ EndsByThen' /\ HeardFirst'
  <1> SUFFICES ASSUME InTime, MaxHandler PROVE TimersInTime' /\ EndsByThen' /\ HeardFirst'
    OBVIOUS
  <1> USE RoundFacts
  <1> DEFINE p == Pop(io)
             s == IF done THEN p ELSE CancelPort(p)
  <1>1. /\ pc = "run" /\ pc' = "run" /\ ~io.stopped /\ io.queue # <<>>
        /\ Head(io.queue).op = "max" /\ done' = TRUE
        /\ UNCHANGED <<lastData, now, lag, late>>
    BY DEF MaxHandler, Runs
  <1>2. io' = Finish(s)
    BY DEF MaxHandler
  <1>3. /\ p \in Io /\ p.reads = io.reads
        /\ Queued(p, "read") <=> Queued(io, "read")
        /\ \A o, q : Before(p, o, q) => Before(io, o, q)
    BY <1>1, PopQueue, PopOrder DEF Same
  <1> HIDE DEF p
  <1>4. /\ s \in Io /\ TimersKept(s, p) /\ s.reads = 0
        /\ done => s = p
    <2>1. CASE done
      BY <2>1, <1>1, <1>3 DEF EndsByThen, TimersKept
    <2>2. CASE ~done
      <3>1. IoOk(p, 1)
        BY <1>1, PopOk DEF p, Op, Timers
      <3> QED BY <2>2, <1>3, <3>1, CancelPortOrder, CancelPortOk DEF IoOk
    <2> QED BY <2>1, <2>2
  <1> HIDE DEF s
  <1>5. /\ TimersKept(io', s) /\ io'.reads = 0
        /\ Queued(io', "read") <=> Queued(s, "read")
        /\ \A o : Before(io', o, "read") <=> Before(s, o, "read")
        /\ io'.stopped <=> io'.work = 0
    BY <1>2, <1>4, FinishOrder
  <1>6. /\ TimersInTime' /\ io'.expiry = io.expiry
        /\ Queued(io', "max") => FALSE
        /\ Queued(io', "quiet") => Queued(io, "quiet")
    BY <1>1, <1>4, <1>5, TimersOfHandler DEF p
  <1>7. now <= MaxTotal + MaxLag + lag /\ now >= MaxTotal
    <2>1. Queued(io, "max") /\ ~Waits(io, "max")
      <3>1. Queued(io, "max")
        BY <1>1, PopOrder
      <3> QED BY <3>1 DEF IoOk, Apart, Waiting, Op, Timers
    <2> QED BY <1>1, <2>1 DEF EndsByThen
  <1>8. now <= MaxTotal + QuietWindow + 3 * MaxLag + lag /\ now <= MaxTotal + 2 * MaxLag + lag
    BY <1>7
  <1>9. Queued(io', "quiet") => now <= MaxTotal + QuietWindow + 3 * MaxLag + lag
    BY <1>8
  <1>10. EndsByThen'
    BY <1>1, <1>5, <1>6, <1>7, <1>8 DEF EndsByThen
  <1>11. HeardFirst'
    BY <1>1 DEF HeardFirst
  <1> QED BY <1>6, <1>10, <1>11

(* quiet_timer has fired: the drain ends, or max_total is not over and one *)
(* more quiet window begins.                                               *)
LEMMA QuietHandlerInTime == InTime /\ QuietHandler => TimersInTime' /\ EndsByThen' /\ HeardFirst'
  <1> SUFFICES ASSUME InTime, QuietHandler PROVE TimersInTime' /\ EndsByThen' /\ HeardFirst'
    OBVIOUS
  <1> USE RoundFacts
  <1> DEFINE p == Pop(io)
             w == StartWait(p, "quiet", now + QuietWindow, now)
             s == IF done THEN p ELSE IF Quiet THEN CancelPort(p) ELSE w
  <1>1. /\ pc = "run" /\ pc' = "run" /\ ~io.stopped /\ io.queue # <<>>
        /\ Head(io.queue).op = "quiet" /\ (done' <=> done \/ Quiet) /\ done' \in BOOLEAN
        /\ UNCHANGED <<lastData, now, lag, late>>
    BY DEF QuietHandler, Runs, Quiet
  <1>2. io' = Finish(s)
    BY DEF QuietHandler
  <1>3. /\ p \in Io /\ p.reads = io.reads /\ p.expiry = io.expiry /\ p.alarm = io.alarm
        /\ \A o : Queued(p, o) <=> Queued(io, o) /\ o # "quiet"
        /\ \A o, q : Before(p, o, q) <=> Before(io, o, q) /\ o # "quiet"
        /\ NoneAborted(io) => NoneAborted(p)
        /\ Queued(io, "quiet")
    BY <1>1, PopQueue, PopOrder DEF Same
  <1>4. IoOk(p, 1) /\ ~Outstanding(p, "quiet")
    BY <1>1, PopOk DEF Op, Timers
  <1> HIDE DEF p
  <1>5. ~Waits(p, "quiet") /\ ~Waits(io, "quiet")
    BY <1>3, <1>4 DEF Outstanding, Waiting, Waits
  <1>6. now <= MaxTotal + QuietWindow + 3 * MaxLag + lag
    BY <1>1, <1>3 DEF EndsByThen
  <1>7. ~done => now <= MaxTotal + MaxLag + lag
    BY <1>1, NotYetDone
  <1>8. ~done => Outstanding(io, "max") /\ Outstanding(io, "read")
    BY <1>1 DEF EndsByThen
  <1>9. CASE done \/ Quiet
    <2>1. s = IF done THEN p ELSE CancelPort(p)
      BY <1>9
    <2> HIDE DEF w, s
    <2>2. /\ s \in Io /\ TimersKept(s, p) /\ s.reads = 0 /\ (done => s = p)
      <3>1. CASE done
        BY <2>1, <3>1, <1>1, <1>3 DEF EndsByThen, TimersKept
      <3>2. CASE ~done
        BY <2>1, <3>2, <1>3, <1>4, CancelPortOrder, CancelPortOk DEF IoOk
      <3> QED BY <3>1, <3>2
    <2>3. /\ TimersKept(io', s) /\ io'.reads = 0
          /\ Queued(io', "read") <=> Queued(s, "read")
          /\ \A o : Before(io', o, "read") <=> Before(s, o, "read")
          /\ io'.stopped <=> io'.work = 0
      BY <1>2, <2>2, FinishOrder
    <2>4. /\ TimersInTime' /\ io'.expiry = io.expiry
          /\ Queued(io', "max") => Queued(io, "max")
          /\ ~Queued(io', "quiet")
      BY <1>1, <2>2, <2>3, TimersOfHandler DEF p
    <2>5. ~Waits(io', "max") => now >= MaxTotal
      BY <1>1, <2>4 DEF EndsByThen, Waits
    <2>6. /\ Queued(io', "read") => now <= MaxTotal + 2 * MaxLag + lag
          /\ Before(io', "task", "read") => now <= MaxTotal + MaxLag + lag
      <3>1. CASE done
        BY <3>1, <1>1, <1>3, <2>2, <2>3 DEF EndsByThen
      <3>2. CASE ~done
        BY <3>2, <1>7
      <3> QED BY <3>1, <3>2
    <2>7. EndsByThen'
      BY <1>1, <1>6, <1>9, <2>3, <2>4, <2>5, <2>6 DEF EndsByThen
    <2>8. HeardFirst'
      BY <1>1, <1>9, <2>4 DEF HeardFirst
    <2> QED BY <2>4, <2>7, <2>8
  <1>10. CASE ~(done \/ Quiet)
    <2>1. s = w
      BY <1>10
    <2>2. AlarmInTime(p)
      BY <1>3 DEF TimersInTime, AlarmInTime, Waits
    <2>3. /\ w \in Io /\ AlarmInTime(w) /\ w.queue = p.queue /\ w.reads = p.reads
          /\ w.expiry = [p.expiry EXCEPT !["quiet"] = now + QuietWindow]
      BY <1>3, <1>5, <2>2, StartWaitAlarm DEF Timers
    <2> HIDE DEF w, s
    <2>4. /\ w.expiry["quiet"] = now + QuietWindow /\ w.expiry["max"] = io.expiry["max"]
          /\ Waits(w, "max") <=> Waits(io, "max")
      BY <1>3, <2>3 DEF Io, Waits, Timers
    <2>5. /\ TimersKept(io', w) /\ io'.reads = w.reads
          /\ Queued(io', "read") <=> Queued(w, "read")
          /\ NoneAborted(io') <=> NoneAborted(w)
          /\ io'.stopped <=> io'.work = 0
      BY <1>2, <2>1, <2>3, FinishOrder
    <2>6. /\ \A o : Queued(w, o) <=> Queued(p, o)
          /\ \A o, q : Before(w, o, q) <=> Before(p, o, q)
          /\ NoneAborted(w) <=> NoneAborted(p)
      BY <2>3, QueueKept
    <2>7. /\ Queued(io', "task") /\ ~Queued(io', "quiet")
          /\ Queued(io', "max") <=> Queued(io, "max")
          /\ Queued(io', "read") <=> Queued(io, "read")
          /\ \A t \in Timers : ~Before(io', "task", t)
      <3>1. \A t \in Timers : t # "read"
        BY DEF Timers
      <3> QED BY <1>3, <2>5, <2>6, <3>1 DEF TimersKept, TimersInTime
    <2>8. /\ io'.expiry["quiet"] = now + QuietWindow /\ io'.expiry["max"] = io.expiry["max"]
          /\ Waits(io', "max") <=> Waits(io, "max")
          /\ AlarmInTime(io')
      <3>1. io'.expiry = w.expiry /\ io'.alarm = w.alarm
        BY <2>5 DEF TimersKept
      <3> QED BY <2>3, <2>4, <3>1 DEF AlarmInTime, Waits
    <2>9. TimersInTime'
      <3>1. now + QuietWindow <= MaxTotal + QuietWindow + 2 * MaxLag
            /\ 0 <= now + QuietWindow /\ now <= now + QuietWindow + lag
        BY <1>7, <1>10
      <3>2. \A t \in Timers : Waits(io', t) => 0 <= io'.expiry[t] /\ now <= io'.expiry[t] + lag
        BY <2>8, <3>1 DEF TimersInTime, Timers
      <3> QED BY <1>1, <2>7, <2>8, <3>1, <3>2 DEF TimersInTime
    <2>10. Outstanding(io', "max") /\ Outstanding(io', "read")
      BY <1>3, <1>8, <1>10, <2>3, <2>5, <2>7, <2>8 DEF Outstanding, Waiting
    <2>11. ~Waits(io', "max") => now >= MaxTotal
      BY <1>1, <2>8 DEF EndsByThen
    <2>12. EndsByThen'
      BY <1>1, <1>6, <1>7, <1>10, <2>5, <2>7, <2>10, <2>11 DEF EndsByThen
    <2>13. HeardFirst'
      BY <1>1, <1>3, <1>10, <2>5, <2>6, <2>7 DEF HeardFirst
    <2> QED BY <2>9, <2>12, <2>13
  <1> QED BY <1>9, <1>10

(* A read has completed, by a handler from the queue or by an event of the *)
(* port; s is the io_context its handler finds.  It is in time, either way *)
(* of what it then does, and data it heard is heard now.                   *)
LEMMA CompletedInTime ==
  ASSUME InTime, pc = "run", pc' = "run", UNCHANGED <<now, lag, late>>, io.queue # <<>>,
         Head(io.queue).op \in {"read", "port"},
         NEW s, IoOk(s, 1), ~Outstanding(s, "read"), TimersKept(s, Pop(io)),
         NoneAborted(Pop(io)) => NoneAborted(s),
         done => now <= MaxTotal + 2 * MaxLag + lag,
         NEW ec, ec \in {"ok", "aborted", "error"}, ~done => ec # "aborted", Completed(s, ec)
  PROVE  TimersInTime' /\ EndsByThen' /\ HeardFirst'
  <1> USE RoundFacts
  <1> DEFINE r == IF done \/ ec = "aborted" THEN s
                  ELSE IF ec = "error" THEN CancelPort(s) ELSE StartRead(s)
  <1>0. s \in Io /\ s.reads = 0 /\ ~Queued(s, "read")
    BY DEF IoOk, Outstanding, Waiting
  <1>1. /\ io' = Finish(r) /\ (done' <=> done \/ ec = "error") /\ done' \in BOOLEAN
        /\ lastData' = IF ~done /\ ec = "ok" THEN now ELSE lastData
    BY DEF Completed
  <1>2. r \in Io /\ TimersKept(r, s)
    <2>1. CASE r = s
      BY <2>1, <1>0 DEF TimersKept
    <2>2. CASE r = CancelPort(s)
      BY <2>2, <1>0, CancelPortOk, CancelPortOrder DEF IoOk
    <2>3. CASE r = StartRead(s)
      BY <2>3, <1>0, StartReadOk, StartReadOrder DEF IoOk
    <2> QED BY <2>1, <2>2, <2>3
  <1>3. /\ done => ~Queued(r, "read")
        /\ done' => r.reads = 0
        /\ ~done' => Outstanding(r, "read") /\ (NoneAborted(s) => NoneAborted(r))
    <2>1. CASE done
      BY <2>1, <1>0, <1>1
    <2>2. CASE ~done /\ ec = "error"
      <3>1. r = CancelPort(s)
        BY <2>2
      <3> HIDE DEF r
      <3> QED BY <2>2, <3>1, <1>0, <1>1, CancelPortOrder
    <2>3. CASE ~done /\ ec = "ok"
      <3>1. r = StartRead(s)
        BY <2>3
      <3> HIDE DEF r
      <3> QED BY <2>3, <3>1, <1>0, <1>1, StartReadOrder
    <2> QED BY <2>1, <2>2, <2>3
  <1> HIDE DEF r
  <1>4. /\ TimersKept(io', r) /\ io'.reads = r.reads
        /\ Queued(io', "read") <=> Queued(r, "read")
        /\ NoneAborted(io') <=> NoneAborted(r)
        /\ io'.stopped <=> io'.work = 0
    BY <1>1, <1>2, FinishOrder
  <1>5. TimersKept(io', s)
    BY <1>2, <1>4 DEF TimersKept
  <1>6. /\ TimersInTime' /\ io'.expiry = io.expiry
        /\ \A o : o # "read" => (Queued(io', o) <=> Queued(io, o) /\ o # Head(io.queue).op)
    BY <1>5, TimersOfHandler
  <1>7. /\ Queued(io', "max") <=> Queued(io, "max")
        /\ Queued(io', "quiet") <=> Queued(io, "quiet")
    BY <1>6
  <1>8. now <= MaxTotal + 2 * MaxLag + lag /\ (~done => now <= MaxTotal + MaxLag + lag)
    <2>1. ~done => now <= MaxTotal + MaxLag + lag
      BY NotYetDone
    <2> QED BY <2>1
  <1>9. now <= MaxTotal + QuietWindow + 3 * MaxLag + lag
    BY <1>8
  <1>10. done /\ Before(io', "task", "read") => FALSE
    BY <1>3, <1>4, BeforeQueued
  <1>11. ~done' => Outstanding(io', "max") /\ Outstanding(io', "read")
    <2> SUFFICES ASSUME ~done' PROVE Outstanding(io', "max") /\ Outstanding(io', "read")
      OBVIOUS
    <2>1. Outstanding(io, "max")
      BY <1>1 DEF EndsByThen
    <2>2. Outstanding(io', "max")
      BY <2>1, <1>6, <1>7 DEF Outstanding, Waiting, Waits
    <2> QED BY <2>2, <1>3, <1>4 DEF Outstanding, Waiting
  <1>12. EndsByThen'
    <2>1. ~Waits(io', "max") => now >= MaxTotal
      BY <1>6 DEF EndsByThen, Waits
    <2>2. Queued(io', "max") => now <= MaxTotal + MaxLag + lag
      BY <1>7 DEF EndsByThen
    <2>3. done' /\ Before(io', "task", "read") => now <= MaxTotal + MaxLag + lag
      BY <1>8, <1>10
    <2> QED BY <1>3, <1>4, <1>8, <1>9, <1>11, <2>1, <2>2, <2>3 DEF EndsByThen
  <1>13. HeardFirst'
    <2>1. ~done' => NoneAborted(io')
      <3>1. ~done' => NoneAborted(Pop(io))
        BY <1>1, PopOrder DEF HeardFirst
      <3> QED BY <3>1, <1>3, <1>4
    <2>2. ~done' => lastData' = now
      BY <1>1
    <2>3. lastData' <= now /\ now - now <= lag
      BY <1>1 DEF HeardFirst
    <2> QED BY <2>1, <2>2, <2>3 DEF HeardFirst
  <1> QED BY <1>6, <1>12, <1>13

(* The read's handler.                                                     *)
LEMMA ReadHandlerInTime == InTime /\ ReadHandler => TimersInTime' /\ EndsByThen' /\ HeardFirst'
  <1> SUFFICES ASSUME InTime, ReadHandler PROVE TimersInTime' /\ EndsByThen' /\ HeardFirst'
    OBVIOUS
  <1> USE RoundFacts
  <1> DEFINE s == Pop(io)
             ec == Head(io.queue).ec
  <1>1. /\ pc = "run" /\ pc' = "run" /\ ~io.stopped /\ io.queue # <<>>
        /\ Head(io.queue).op = "read" /\ Completed(s, ec)
        /\ UNCHANGED <<now, lag, late>>
    BY DEF ReadHandler, Runs
  <1>2. /\ IoOk(s, 1) /\ ~Outstanding(s, "read") /\ TimersKept(s, Pop(io))
        /\ Queued(io, "read")
    BY <1>1, PopOk, PopOrder DEF Op, TimersKept
  <1>3. ec \in {"ok", "aborted", "error"}
    <2>1. Head(io.queue) \in Entry
      BY <1>1 DEF Io
    <2> QED BY <2>1 DEF Entry
  <1>4. ~done => ec # "aborted"
    BY <1>1, PopOrder DEF HeardFirst
  <1>5. done => now <= MaxTotal + 2 * MaxLag + lag
    BY <1>1, <1>2 DEF EndsByThen
  <1> HIDE DEF s, ec
  <1>6. NoneAborted(Pop(io)) => NoneAborted(s)
    BY DEF s
  <1> QED BY <1>1, <1>2, <1>3, <1>4, <1>5, <1>6, CompletedInTime

(* The port's event, with a read that waits for it.                        *)
LEMMA PortEventInTime == InTime /\ PortEvent => TimersInTime' /\ EndsByThen' /\ HeardFirst'
  <1> SUFFICES ASSUME InTime, PortEvent PROVE TimersInTime' /\ EndsByThen' /\ HeardFirst'
    OBVIOUS
  <1> USE RoundFacts
  <1> DEFINE p == Pop(io)
             s == PerformIo(p)
  <1>1. /\ pc = "run" /\ pc' = "run" /\ ~io.stopped /\ io.queue # <<>>
        /\ Head(io.queue).op = "port" /\ Completed(s, ReadResult(io)) /\ Performs(p)
        /\ UNCHANGED <<now, lag, late>>
    BY DEF PortEvent, Runs
  <1>2. IoOk(p, 0) /\ p \in Io /\ p.reads = io.reads
    BY <1>1, PopOk DEF Same, IoOk, Op, Timers
  <1>3. p.reads = 1 /\ ~done
    BY <1>1, <1>2 DEF Performs, EndsByThen
  <1>4. IoOk(s, 1) /\ ~Outstanding(s, "read")
    BY <1>1, <1>2, PerformIoOk
  <1>5. /\ s \in Io /\ s.queue = p.queue /\ s.expiry = p.expiry /\ s.alarm = p.alarm /\ s.reads = 0
    BY <1>2, <1>3, PerformIoOrder
  <1>6. ReadResult(io) \in {"ok", "error"}
    BY DEF ReadResult
  <1> HIDE DEF s
  <1>7. TimersKept(s, p) /\ (NoneAborted(s) <=> NoneAborted(p))
    BY <1>5, QueueKept
  <1> QED BY <1>1, <1>3, <1>4, <1>6, <1>7, CompletedInTime

(* The port's event without one.                                           *)
LEMMA PortIdleInTime == InTime /\ PortIdle => TimersInTime' /\ EndsByThen' /\ HeardFirst'
  <1> SUFFICES ASSUME InTime, PortIdle PROVE TimersInTime' /\ EndsByThen' /\ HeardFirst'
    OBVIOUS
  <1> USE RoundFacts
  <1>1. /\ pc = "run" /\ pc' = "run" /\ ~io.stopped /\ io.queue # <<>>
        /\ Head(io.queue).op = "port" /\ io' = Pop(io) /\ ~Performs(io')
        /\ UNCHANGED <<done, lastData, now, lag, late>>
    BY DEF PortIdle, Runs
  <1>2. /\ io' \in Io /\ Same(io', io)
        /\ \A o : Queued(io', o) <=> Queued(io, o) /\ o # "port"
        /\ \A o, q : Before(io', o, q) <=> Before(io, o, q) /\ o # "port"
        /\ NoneAborted(io) => NoneAborted(io')
    BY <1>1, PopQueue, PopOrder
  <1>3. TimersKept(io', Pop(io))
    BY <1>1 DEF TimersKept
  <1>4. TimersInTime'
    BY <1>1, <1>3, TimersOfHandler
  <1>5. EndsByThen'
    BY <1>1, <1>2 DEF EndsByThen, Outstanding, Waiting, Waits, Same
  <1>6. io'.reads > 0 => io'.port <= late
    BY <1>1, <1>2 DEF Performs, Readable, Io
  <1>7. HeardFirst'
    BY <1>1, <1>2, <1>6 DEF HeardFirst, Same
  <1> QED BY <1>4, <1>5, <1>7

--------------------------------------------------------------------------------
(* While something is to be done the thread does not sleep.                *)
LEMMA BusyWith ==
  ASSUME io \in Io, Queued(io, "task"), NEW o, Queued(io, o), o # "task"
  PROVE  Busy
  <1>1. PICK i \in DOMAIN io.queue : io.queue[i].op = "task"
    BY DEF Queued
  <1>2. PICK j \in DOMAIN io.queue : io.queue[j].op = o
    BY DEF Queued
  <1>3. i # j
    BY <1>1, <1>2
  <1>4. io.queue \in Seq(Entry)
    BY DEF Io
  <1>5. Len(io.queue) # 1
    BY <1>3, <1>4
  <1> QED BY <1>5 DEF Busy, Blocked

(* The clock: what is late is still counted by lag, since there is work.   *)
LEMMA TickInTime == InTime /\ Tick => TimersInTime' /\ EndsByThen' /\ HeardFirst'
  <1> SUFFICES ASSUME InTime, Tick PROVE TimersInTime' /\ EndsByThen' /\ HeardFirst'
    OBVIOUS
  <1> USE RoundFacts
  <1>1. /\ pc = "run" /\ pc' = "run" /\ now' = now + 1 /\ (lag' = IF Busy THEN lag + 1 ELSE 0)
        /\ UNCHANGED <<io, done, lastData, late>>
    BY DEF Tick
  <1>2. lag' \in Nat /\ Queued(io, "task") /\ AlarmInTime(io)
    BY <1>1 DEF TimersInTime
  <1>3. (\E o : o # "task" /\ Queued(io, o)) => lag' = lag + 1
    BY <1>1, <1>2, BusyWith
  <1>4. io.stopped => lag' = lag + 1
    BY <1>1 DEF Busy, Blocked
  <1>5. ASSUME NEW t \in Timers, Waits(io, t) PROVE 0 <= io.expiry[t] /\ now' <= io.expiry[t] + lag'
    <2>1. io.expiry[t] \in Int /\ io.alarm \in Int
      BY DEF Io
    <2>2. 0 <= io.expiry[t] /\ now <= io.expiry[t] + lag /\ io.alarm <= io.expiry[t]
      BY <1>5 DEF TimersInTime, AlarmInTime
    <2>3. CASE Busy
      BY <1>1, <2>1, <2>2, <2>3
    <2>4. CASE ~Busy
      <3>1. now < io.alarm
        BY <2>1, <2>4 DEF Busy, Blocked, TimerReady
      <3> QED BY <1>1, <2>1, <2>2, <2>4, <3>1
    <2> QED BY <2>3, <2>4
  <1>6. TimersInTime'
    BY <1>1, <1>5 DEF TimersInTime, AlarmInTime, Waits, Queued, Before
  <1>7. /\ Queued(io, "max") => lag' = lag + 1
        /\ Queued(io, "quiet") => lag' = lag + 1
        /\ Queued(io, "read") => lag' = lag + 1
        /\ Before(io, "task", "read") => lag' = lag + 1
    BY <1>3, BeforeQueued
  <1>8. EndsByThen'
    <2>1. ~Waits(io, "max") => now' >= MaxTotal
      BY <1>1 DEF EndsByThen
    <2>2. /\ Queued(io, "max") => now' <= MaxTotal + MaxLag + lag'
          /\ Queued(io, "quiet") => now' <= MaxTotal + QuietWindow + 3 * MaxLag + lag'
          /\ done /\ Queued(io, "read") => now' <= MaxTotal + 2 * MaxLag + lag'
          /\ done /\ Before(io, "task", "read") => now' <= MaxTotal + MaxLag + lag'
          /\ io.stopped => now' <= MaxTotal + QuietWindow + 3 * MaxLag + lag'
      BY <1>1, <1>4, <1>7 DEF EndsByThen
    <2> QED BY <1>1, <2>1, <2>2 DEF EndsByThen, Outstanding, Waiting, Waits, Queued, Before
  <1>9. HeardFirst'
    <2>1. lastData <= now'
      BY <1>1 DEF HeardFirst
    <2>2. Queued(io, "quiet") /\ now - lastData <= lag => now' - lastData <= lag'
      BY <1>1, <1>7
    <2> QED BY <1>1, <2>1, <2>2 DEF HeardFirst, NoneAborted, Queued, Before
  <1> QED BY <1>6, <1>8, <1>9

(* What comes over the line only sets the edge and is counted as late.     *)
LEMMA LineInTime == InTime /\ (Arrive \/ HangUp) => TimersInTime' /\ EndsByThen' /\ HeardFirst'
  <1> SUFFICES ASSUME InTime, Arrive \/ HangUp PROVE TimersInTime' /\ EndsByThen' /\ HeardFirst'
    OBVIOUS
  <1> USE RoundFacts
  <1>1. /\ pc = "run" /\ pc' = "run" /\ UNCHANGED <<done, lastData, now, lag>>
        /\ io'.queue = io.queue /\ io'.expiry = io.expiry /\ io'.alarm = io.alarm
        /\ io'.reads = io.reads /\ io'.work = io.work /\ io'.stopped = io.stopped
        /\ (io.port <= late => io'.port <= late')
    <2>1. CASE Arrive
      <3>1. io.port \in Nat /\ io.port + 1 \in Nat
        BY DEF Io
      <3>2. io'.port = io.port + 1 /\ late' = late + 1
        BY <2>1 DEF Arrive, Io
      <3>3. io.port <= late => io'.port <= late'
        BY <3>1, <3>2
      <3> QED BY <2>1, <3>3 DEF Arrive, Io
    <2>2. CASE HangUp
      BY <2>2 DEF HangUp, Io
    <2> QED BY <2>1, <2>2
  <1>2. /\ \A o : Queued(io', o) <=> Queued(io, o)
        /\ \A o, p : Before(io', o, p) <=> Before(io, o, p)
        /\ NoneAborted(io') <=> NoneAborted(io)
    BY <1>1, QueueKept
  <1>3. TimersInTime'
    BY <1>1, <1>2 DEF TimersInTime, AlarmInTime, Waits
  <1>4. EndsByThen'
    BY <1>1, <1>2 DEF EndsByThen, Outstanding, Waiting, Waits
  <1>5. HeardFirst'
    BY <1>1, <1>2 DEF HeardFirst
  <1> QED BY <1>3, <1>4, <1>5

(* The drain is in time with every step.                                   *)
LEMMA InTimeSteps == InTime /\ [Next]_vars => InTime'
  <1> SUFFICES ASSUME InTime, [Next]_vars PROVE InTime'
    OBVIOUS
  <1>1. DrainInv'
    BY DrainSteps DEF InTime
  <1>2. CASE Return
    BY <1>2, <1>1 DEF Return, InTime, TimersInTime, EndsByThen, HeardFirst
  <1>3. CASE UNCHANGED vars
    BY <1>3, <1>1 DEF vars, InTime, TimersInTime, EndsByThen, HeardFirst
  <1> QED
    BY <1>1, <1>2, <1>3, BeginInTime, TaskInTime, MaxHandlerInTime, QuietHandlerInTime,
       ReadHandlerInTime, PortEventInTime, PortIdleInTime, TickInTime, LineInTime
    DEF Next, Loop, InTime

(* The times and the order hold for all durations and delays.              *)
THEOREM DrainInTime == Spec => []InTime
  BY InTimeStarts, InTimeSteps, PTL DEF Spec

(* max_total and one quiet window bound the drain, but for the rounds that *)
(* are late.                                                               *)
THEOREM DrainEndsInTime == Spec => []EndsInTime
  <1>1. ASSUME InTime PROVE EndsInTime
    <2> USE RoundFacts DEF EndsInTime
    <2>1. CASE pc = "start"
      BY <2>1, <1>1 DEF TimersInTime
    <2>2. CASE pc # "start" /\ io.stopped
      BY <2>2, <1>1 DEF EndsByThen
    <2>3. CASE pc # "start" /\ ~io.stopped
      <3>1. Count(io) # 0
        <4>1. io.work # 0 /\ io.work = 0 + Count(io)
          BY <2>3, <1>1 DEF EndsByThen, IoOk
        <4> QED BY <4>1, CountIs
      <3>2. \/ Outstanding(io, "max") \/ Outstanding(io, "quiet") \/ Outstanding(io, "read")
        BY <3>1 DEF Count, One
      <3>3. CASE Waits(io, "max")
        BY <3>3, <1>1 DEF TimersInTime, Timers
      <3>4. CASE Queued(io, "max")
        BY <3>4, <2>3, <1>1 DEF EndsByThen
      <3>5. CASE Waits(io, "quiet")
        <4>1. io.expiry["quiet"] \in Int
          BY <1>1 DEF Io, Timers
        <4> QED BY <3>5, <4>1, <1>1 DEF TimersInTime, Timers
      <3>6. CASE Queued(io, "quiet")
        BY <3>6, <2>3, <1>1 DEF EndsByThen
      <3>7. CASE done /\ Outstanding(io, "read")
        BY <3>7, <2>3, <1>1 DEF EndsByThen, Outstanding, Waiting
      <3>8. CASE ~done
        <4>1. now <= MaxTotal + MaxLag + lag
          BY <3>8, <2>3, <1>1, NotYetDone
        <4> QED BY <4>1, <1>1
      <3> QED BY <3>2, <3>3, <3>4, <3>5, <3>6, <3>7, <3>8 DEF Outstanding, Waiting
    <2> QED BY <2>1, <2>2, <2>3
  <1> QED BY <1>1, DrainInTime, PTL

(* Nor does any drain return before max_total, on a quiet line or after an *)
(* error of the port: nothing cancels max_timer, and io.run() waits for it *)
(* although comments (arduino_link.cpp 198-199 and 266) give the drain two *)
(* timers and let them end it.                                             *)
LastsMaxTotal == pc = "returned" => now >= MaxTotal

THEOREM DrainLastsMaxTotal == Spec => []LastsMaxTotal
  <1>1. ASSUME InTime, pc = "returned" PROVE now >= MaxTotal
    <2>1. io.stopped /\ io.work = 0 /\ io.work = 0 + Count(io)
      BY <1>1 DEF InTime, DrainInv, IoOk
    <2>2. Count(io) = 0
      BY <2>1, CountIs
    <2>3. ~Waits(io, "max")
      BY <2>2, CountZero DEF Outstanding, Waiting, Op, Timers
    <2> QED BY <2>3, <1>1, RoundFacts DEF EndsByThen
  <1>2. InTime => LastsMaxTotal
    BY <1>1 DEF LastsMaxTotal
  <1> QED BY <1>2, DrainInTime, PTL

(* When the quiet timer ends the drain nothing is left unread but what     *)
(* came since the last round of the reactor.                               *)
THEOREM DrainIsQuiet == Spec => QuietIsQuiet
  <1>1. ASSUME InTime, [Next]_vars, QuietEnds PROVE io.port <= late
    <2> USE RoundFacts
    <2>1. /\ pc = "run" /\ ~io.stopped /\ io.queue # <<>> /\ Head(io.queue).op = "quiet"
          /\ ~done /\ done'
      BY <1>1 DEF QuietEnds, Runs
    <2>2. QuietHandler
      BY <1>1, <2>1 DEF Next, Loop, vars, Begin, Return, Task, MaxHandler, ReadHandler,
                        PortEvent, PortIdle, Tick, Arrive, HangUp, Runs
    <2>3. ~(now - lastData <= lag)
      <3>1. now - lastData >= QuietWindow
        BY <2>1, <2>2 DEF QuietHandler, Quiet
      <3> QED BY <1>1, <3>1
    <2>4. io \in Io /\ Distinct(io)
      BY <1>1
    <2>5. Queued(io, "quiet") /\ \A o : ~Before(io, o, "quiet")
      <3>1. /\ Queued(io, Head(io.queue).op)
            /\ \A o : ~Before(io, o, Head(io.queue).op)
        BY <2>1, <2>4, PopOrder
      <3> QED BY <2>1, <3>1
    <2>6. HeardFirst
      BY <1>1
    <2> QED BY <2>1, <2>3, <2>5, <2>6 DEF HeardFirst
  <1>2. InTime /\ [Next]_vars => [QuietEnds => io.port <= late]_vars
    BY <1>1
  <1> QED BY <1>2, DrainInTime, PTL DEF Spec, QuietIsQuiet
================================================================================
