-------------------------------- MODULE OpenDrain --------------------------------
(***************************************************************************)
(* The drain at the end of open_microwave_controller: what the board sent  *)
(* while it booted is read and thrown away until the line has been quiet   *)
(* for quiet_window, and for max_total at most.  Three asynchronous        *)
(* operations, whose handlers refer to locals of the function, run in      *)
(* io.run(); an action is one round of that loop: a handler, or the        *)
(* reactor.                                                                *)
(***************************************************************************)
EXTENDS AsioLoop

CONSTANTS
  MaxTotal,        \* max_total (400 ms)
  QuietWindow,     \* quiet_window (120 ms)
  MaxLag,          \* how long the thread leaves the reactor alone while it has work
  Horizon          \* bound on the clock, beyond the end of every drain

VARIABLES
  pc,              \* where open_microwave_controller is
  io,              \* session->io, with the port and the two timers
  done,            \* the local "done"
  lastData,        \* the local "last_data"
  now,             \* steady_clock
  lag,             \* milliseconds of work since the last round of the reactor
  late             \* history: bytes received since that round

vars == <<pc, io, done, lastData, now, lag, late>>

ASSUME DrainAssumption ==
  /\ MaxTotal \in Nat \ {0} /\ QuietWindow \in Nat \ {0}
  /\ MaxLag \in 0 .. (QuietWindow - 1)
  /\ Horizon \in Nat /\ Horizon > MaxTotal + QuietWindow + 4 * MaxLag

Init ==
  /\ pc = "start"
  /\ \E n \in 0 .. PortSize : io = Fresh(n)
  /\ done = FALSE /\ lastData = 0 /\ now = 0
  /\ lag = 0 /\ late = 0

--------------------------------------------------------------------------------
(* Both timers are started, then the first read; then io.run() begins.     *)
Begin ==
  /\ pc = "start" /\ pc' = "run"
  /\ LET max   == StartWait(io, "max", now + MaxTotal, now)
         quiet == StartWait(max, "quiet", now + QuietWindow, now)
     IN  io' = StartRead(quiet)
  /\ lastData' = now
  /\ UNCHANGED <<done, now, lag, late>>

Runs(o) == pc = "run" /\ ~io.stopped /\ io.queue # <<>> /\ Head(io.queue).op = o

Task ==
  /\ Runs("task") /\ ~Blocked(io, now)
  /\ io' = RunTask(io, now)
  /\ lag' = 0 /\ late' = 0
  /\ UNCHANGED <<pc, done, lastData, now>>

(* Mutant of MaxHandler: the flag is not set, so the quiet timer goes on.  *)
MaxHandlerUnset ==
  /\ Runs("max")
  /\ io' = Finish(IF done THEN Pop(io) ELSE CancelPort(Pop(io)))
  /\ UNCHANGED <<pc, done, lastData, now, lag, late>>

MaxHandler ==
  /\ Runs("max")
  /\ done' = TRUE
  /\ io' = Finish(IF done THEN Pop(io) ELSE CancelPort(Pop(io)))
  /\ UNCHANGED <<pc, lastData, now, lag, late>>

Quiet == now - lastData >= QuietWindow

QuietHandler ==
  /\ Runs("quiet")
  /\ done' = (done \/ Quiet)
  /\ io' = Finish(IF done THEN Pop(io)
                  ELSE IF Quiet THEN CancelPort(Pop(io))
                  ELSE StartWait(Pop(io), "quiet", now + QuietWindow, now))
  /\ UNCHANGED <<pc, lastData, now, lag, late>>

(* The read's handler, with s the io_context it finds.                     *)
Completed(s, ec) ==
  /\ done' = (done \/ ec = "error")
  /\ lastData' = IF ~done /\ ec = "ok" THEN now ELSE lastData
  /\ io' = Finish(IF done \/ ec = "aborted" THEN s
                  ELSE IF ec = "error" THEN CancelPort(s)
                  ELSE StartRead(s))

ReadHandler ==
  /\ Runs("read")
  /\ Completed(Pop(io), Head(io.queue).ec)
  /\ UNCHANGED <<pc, now, lag, late>>

(* An event on the port: the waiting read completes and its handler runs   *)
(* in its place, or there is none and nothing happens.                     *)
PortEvent ==
  /\ Runs("port") /\ Performs(Pop(io))
  /\ Completed(PerformIo(Pop(io)), ReadResult(io))
  /\ UNCHANGED <<pc, now, lag, late>>

(* Mutant of PortIdle: the scheduler counts an operation as done although  *)
(* the event has completed none.                                           *)
PortIdleCounted ==
  /\ Runs("port") /\ ~Performs(Pop(io))
  /\ io' = Finish(Pop(io))
  /\ UNCHANGED <<pc, done, lastData, now, lag, late>>

PortIdle ==
  /\ Runs("port") /\ ~Performs(Pop(io))
  /\ io' = Pop(io)
  /\ UNCHANGED <<pc, done, lastData, now, lag, late>>

(* io.run() returns, and a newline is sent.                                *)
Return ==
  /\ pc = "run" /\ io.stopped
  /\ pc' = "returned"
  /\ UNCHANGED <<io, done, lastData, now, lag, late>>

Loop ==
  \/ Begin \/ Return \/ Task
  \/ MaxHandler \/ QuietHandler \/ ReadHandler \/ PortEvent \/ PortIdle

--------------------------------------------------------------------------------
(* The clock; while the thread has work it reaches the reactor in time.    *)
Busy == ~Blocked(io, now)

Tick ==
  /\ pc = "run" /\ (Busy => lag < MaxLag) /\ now < Horizon
  /\ now' = now + 1
  /\ lag' = IF Busy THEN lag + 1 ELSE 0
  /\ UNCHANGED <<pc, io, done, lastData, late>>

Arrive ==
  /\ pc = "run" /\ io.port < PortSize /\ ~io.hungup
  /\ io' = [io EXCEPT !.port = @ + 1, !.edge = TRUE]
  /\ late' = late + 1
  /\ UNCHANGED <<pc, done, lastData, now, lag>>

HangUp ==
  /\ pc = "run" /\ ~io.hungup
  /\ io' = [io EXCEPT !.hungup = TRUE, !.edge = TRUE]
  /\ UNCHANGED <<pc, done, lastData, now, lag, late>>

Next == Loop \/ Tick \/ Arrive \/ HangUp

Spec == Init /\ [][Next]_vars

(* The thread runs and the clock does; nothing makes the board send.       *)
FairSpec == Spec /\ WF_vars(Loop) /\ WF_vars(Tick)

--------------------------------------------------------------------------------
TypeOK ==
  /\ pc \in {"start", "run", "returned"}
  /\ io \in Io
  /\ done \in BOOLEAN /\ lastData \in Nat /\ now \in Nat
  /\ lag \in 0 .. MaxLag /\ late \in Nat

One(b) == IF b THEN 1 ELSE 0
Waiting(s, o)     == IF o = "read" THEN s.reads > 0 ELSE Waits(s, o)
Outstanding(s, o) == Waiting(s, o) \/ Queued(s, o)

(* No handler is under way twice: there is one read into drain_buf at a    *)
(* time, and a timer is not started again before its handler has run.  The *)
(* reactor relies on the same of the descriptor's own entry.               *)
OneOfEach ==
  /\ io.reads <= 1
  /\ \A i, j \in DOMAIN io.queue : io.queue[i].op = io.queue[j].op => i = j
  /\ \A o \in Op : ~(Waiting(io, o) /\ Queued(io, o))

(* The count that ends io.run() is the number of handlers still to run,    *)
(* although the descriptor's events complete operations on their own.      *)
WorkIsOutstanding ==
  io.work = One(Outstanding(io, "max")) + One(Outstanding(io, "quiet"))
              + One(Outstanding(io, "read"))

(* The handlers refer to locals of open_microwave_controller: when io.run  *)
(* returns, none is left to be run by a later use of the io_context.       *)
NothingOutlivesOpen == pc = "returned" => \A o \in Op : ~Outstanding(io, o)

(* Input for a waiting read is always announced: epoll is edge-triggered,  *)
(* and reports nothing for bytes that were there when it last reported.    *)
NoLostInput ==
  io.reads > 0 /\ Readable(io) => io.edge \/ Queued(io, "port")

(* When the quiet timer ends the drain, the line is quiet: what is still   *)
(* unread arrived after the last look at the port, with the timer due.     *)
QuietEnds == Runs("quiet") /\ ~done /\ done'
QuietIsQuiet == [][QuietEnds => io.port <= late]_vars

(* max_total bounds the drain: once it is over, at most one quiet window   *)
(* that was started before is waited for.                                  *)
EndsInTime == now <= MaxTotal + QuietWindow + 4 * MaxLag

(* The comments on the drain give it two timers, a max-total time and a    *)
(* quiet window, and io.run() runs until they cancel the read.  So, on a   *)
(* port that works, it does not sleep again when one of them has.          *)
RunsUntilCancelled ==
  pc = "run" /\ done /\ ~io.hungup /\ ~Outstanding(io, "read") => ~Blocked(io, now)

(* open_microwave_controller does return, however much the board sends and *)
(* whenever the port fails.                                                *)
DrainEnds == <>(pc = "returned")
================================================================================
