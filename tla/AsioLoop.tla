-------------------------------- MODULE AsioLoop --------------------------------
(***************************************************************************)
(* asio's io_context on Linux as open_microwave_controller uses it: one    *)
(* thread in run(), one descriptor (the serial port) and two timers.  The  *)
(* scheduler's queue holds completed operations, the descriptor when epoll *)
(* has reported it, and the task: one round of the epoll reactor.  What an *)
(* asio call does to the io_context is a function of its state.            *)
(***************************************************************************)
EXTENDS Integers, Sequences

CONSTANTS
  BufSize,         \* bytes a read takes at most (256)
  PortSize,        \* bytes the driver of the port holds
  MaxWait          \* the longest the reactor sleeps (5 minutes)

ASSUME LoopAssumption ==
  /\ BufSize \in Nat \ {0} /\ PortSize \in Nat \ {0}
  /\ MaxWait \in Nat \ {0}

Timers == {"max", "quiet"}
Op     == Timers \cup {"read"}
Entry  == [op : Op \cup {"port", "task"}, ec : {"ok", "aborted", "error"}]
NoWait == -1

(* scheduler: queue, work (outstanding_work_), stopped.  descriptor_state: *)
(* reads, the operations waiting for input.  timer_queue: expiry.  Kernel: *)
(* port (unread bytes), hungup, edge (an event epoll has not reported yet) *)
(* and alarm (when the timerfd fires).                                     *)
Io == [queue : Seq(Entry), work : Int, stopped : BOOLEAN,
       reads : Nat, expiry : [Timers -> Int],
       port : 0 .. PortSize, hungup : BOOLEAN, edge : BOOLEAN, alarm : Int]

Fresh(n) ==
  [queue |-> <<[op |-> "task", ec |-> "ok"]>>, work |-> 0, stopped |-> FALSE,
   reads |-> 0, expiry |-> [t \in Timers |-> NoWait],
   port |-> n, hungup |-> FALSE, edge |-> TRUE, alarm |-> MaxWait]

Waits(s, t)  == s.expiry[t] # NoWait
Queued(s, o) == \E i \in DOMAIN s.queue : s.queue[i].op = o
Readable(s)  == s.port > 0 \/ s.hungup

--------------------------------------------------------------------------------
Post(s, o, e) == [s EXCEPT !.queue = Append(@, [op |-> o, ec |-> e])]
Start(s)      == [s EXCEPT !.work = @ + 1]
Pop(s)        == [s EXCEPT !.queue = Tail(@)]

(* Mutant of Finish: the last operation does not stop the loop.            *)
FinishOnly(s) == [s EXCEPT !.work = @ - 1]

(* work_cleanup: the operation is done; the last one stops the loop.       *)
Finish(s) == [s EXCEPT !.work = @ - 1, !.stopped = (s.work = 1)]

ReadResult(s) == IF s.hungup THEN "error" ELSE "ok"

(* Mutant of Read: the count is not limited to what is there.              *)
ReadFull(s) == [s EXCEPT !.port = IF s.hungup THEN 0 ELSE @ - BufSize]

(* A read of up to BufSize bytes; after a hang-up it fails.                *)
Read(s) == [s EXCEPT !.port = IF s.hungup \/ @ <= BufSize THEN 0 ELSE @ - BufSize]

(* Mutant of StartRead: it waits for the next event without trying.        *)
StartReadLater(s) == Start([s EXCEPT !.reads = @ + 1])

(* async_read_some: input that is there is read at once and the completion *)
(* posted; otherwise the operation waits at the descriptor, behind those   *)
(* that wait already.                                                      *)
StartRead(s) ==
  IF s.reads = 0 /\ Readable(s)
    THEN Start(Post(Read(s), "read", ReadResult(s)))
    ELSE Start([s EXCEPT !.reads = @ + 1])

(* Mutant of CancelPort: the operation is completed, but still waits.      *)
CancelPortKept(s) ==
  [s EXCEPT !.queue = @ \o [i \in 1 .. s.reads |-> [op |-> "read", ec |-> "aborted"]]]

(* port.cancel(): a waiting read completes with operation_aborted.         *)
CancelPort(s) ==
  [s EXCEPT !.queue = @ \o [i \in 1 .. s.reads |-> [op |-> "read", ec |-> "aborted"]],
            !.reads = 0]

--------------------------------------------------------------------------------
(* When the timerfd is to fire: at the first expiry, which may be past,    *)
(* and after MaxWait at the latest.                                        *)
NextAlarm(s, now) ==
  LET wake == {s.expiry[t] : t \in {u \in Timers : Waits(s, u)}} \cup {now + MaxWait}
      first == CHOOSE e \in wake : \A d \in wake : e <= d
  IN  IF first < now THEN now ELSE first

SetAlarm(s, now) == [s EXCEPT !.alarm = NextAlarm(s, now)]

CancelWait(s, t) ==
  IF Waits(s, t) THEN Post([s EXCEPT !.expiry[t] = NoWait], t, "aborted") ELSE s

Enqueue(s, t, at) == [s EXCEPT !.expiry[t] = at]

(* expires_after cancels a wait that is pending; async_wait queues the new *)
(* one, and sets the timerfd if it has become the first to expire.         *)
StartWait(s, t, at, now) ==
  LET queued == Start(Enqueue(CancelWait(s, t), t, at))
      first  == \A u \in Timers \ {t} : Waits(queued, u) => at < queued.expiry[u]
  IN  IF first THEN SetAlarm(queued, now) ELSE queued

(* get_ready_timers: the waits that are over complete, the earlier first.  *)
Expire(s, t, now) ==
  IF Waits(s, t) /\ s.expiry[t] <= now
    THEN Post([s EXCEPT !.expiry[t] = NoWait], t, "ok")
    ELSE s

GetReadyTimers(s, now) ==
  IF s.expiry["quiet"] < s.expiry["max"]
    THEN Expire(Expire(s, "quiet", now), "max", now)
    ELSE Expire(Expire(s, "max", now), "quiet", now)

--------------------------------------------------------------------------------
PortReady(s)       == s.edge /\ Readable(s)
TimerReady(s, now) == now >= s.alarm

(* The thread sleeps in epoll_wait: nothing is queued, nothing ready.      *)
Blocked(s, now) ==
  ~s.stopped /\ Len(s.queue) = 1 /\ ~PortReady(s) /\ ~TimerReady(s, now)

(* Mutant of Poll: the timers are looked at before the descriptor.         *)
PollTimersFirst(s, now) ==
  LET timers == IF TimerReady(s, now) THEN SetAlarm(GetReadyTimers(s, now), now) ELSE s
      events == IF PortReady(s) THEN Post(timers, "port", "ok") ELSE timers
  IN  [events EXCEPT !.edge = FALSE]

(* One round of epoll_reactor::run: the descriptor, if epoll reports it,   *)
(* then the timers, if the timerfd has fired.                              *)
Poll(s, now) ==
  LET events == IF PortReady(s) THEN Post(s, "port", "ok") ELSE s
      timers == IF TimerReady(s, now) THEN SetAlarm(GetReadyTimers(events, now), now)
                ELSE events
  IN  [timers EXCEPT !.edge = FALSE]

(* The task goes back to the end of the queue.                             *)
RunTask(s, now) == Post(Poll(Pop(s), now), "task", "ok")

(* perform_io: with the event a waiting read can complete.                 *)
Performs(s)  == s.reads > 0 /\ Readable(s)
PerformIo(s) == Read([s EXCEPT !.reads = @ - 1])
================================================================================
