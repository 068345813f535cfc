# Verification of the MD1001LB microwave keypad controller

The repository drives a Midea MD1001LB microwave from a computer. An Arduino
takes the place of the membrane keypad and closes one key of the 7 x 4 matrix
at a time; a host library sends it one-line commands over a serial port and
turns "3:30 at 50 %" into a sequence of key presses. This directory holds TLA+
models of both, of the part of asio the library's asynchronous code runs on and
of the control board's scan, the TLC runs that check them, and TLAPS proofs
of what they promise.

## 1. The system

| part | source | state it keeps | operations |
|---|---|---|---|
| press state machine and pins | `MD1001LB_Controller.ino` 62-102, 259-344 | `g_activePress` (key, deadline), pin modes and latches | `setup`, `startKeyPress`, `maintainActivePress`, `releaseActivePress`, `setColumnIdle`, `setAllIdle` |
| command handling | `.ino` 104-257 | `g_commandBuffer` | `loop`, `processCommand`, `printHelp`, `listKeys`, `findKeyIndex` |
| keypad matrix and scan | `.ino` 3-60, the control board | levels of rows and columns | the board strobes rows and reads columns |
| host library, calls | `arduino_link.cpp` 44-116, 280-383 | a `MicrowaveSession`: the open port | `send_raw_command`, `send_`, `run_`, `stop_`, `close_...` |
| host library, opening | `arduino_link.cpp` 164-278 | two timers, a pending read | `open_microwave_controller` with its drain |
| host library, arguments | `arduino_link.cpp` 118-155, 335-346 | none | `parse_time_to_digits`, the number of power presses |
| tester | `main_tester.cpp` | none | a script of calls on real hardware |
| asio's run loop | `lib/asio`, `detail/impl/scheduler.ipp`, `epoll_reactor.ipp`, `timer_queue.hpp`, `descriptor_ops.ipp` | the queue of completed operations, the count of outstanding ones, the waits of timers and descriptor | `io_context::run`, `async_read_some`, `async_wait`, `expires_after`, `cancel` |
| rest of asio | `lib/asio` | vendored | `write`, `read_until`, serial port options |

**How they interact.** The library writes a line and blocks in `read_until`
until it has seen the reply it waits for. The sketch is one thread that
alternates between serial input and the active press; it answers `press` twice,
when the key goes down (`OK: pressing ...`) and when the deadline releases it
(`OK`), and everything else once. The sketch shares the row and column lines
with the control board, which scans without regard to it, and the millisecond
counter with nobody, but the counter wraps. Opening the port resets the sketch.
While a handle is opened, three handlers (two timers and a read) start and
cancel each other in asio's run loop; they share locals of the function that
runs the loop.

**What is hard.**

* *The pins.* A press writes a latch, a mode, reads a row and writes a column;
  a second press, `release`, the deadline or a reset may come between any two.
  The columns must never be driven twice or left driven, and no pull-up may
  come on.
* *The deadline.* It is a sum on a wrapping counter, one of whose values (0)
  has another meaning; `loop()` looks at it only when it has no input.
* *Matching replies.* Replies carry no reference to their command. The library
  decides from its own string how many to expect, and throws away what it has
  read beyond them.
* *The board's scan.* The sketch imitates a switch by copying the level of a
  row to a column. The board strobes another row at any time, and a level that
  stays behind is a key of the wrong row.
* *Bytes.* Lines that are too long, or cut by `setup()` or a reset, leave a
  tail that is a line of its own.
* *Opening.* A read may complete as a timer fires; a completion that is queued
  cannot be cancelled; epoll announces input once only; the run loop ends when
  a count of outstanding operations says so.
* *Failure.* The port can fail in the middle of a line, the board can reset, a
  command can fall into `setup()`, which discards its input; the library has no
  timeouts.

**What makes each part correct.** Sketch: pins and `g_activePress` agree, one
switch at a time, break before make; a press lasts what it was given; each line
has one effect and the reply that tells it. Library: success means that exactly
the keys of the call went down, in order, to the end; a failure means a prefix
of them; a call returns. Arguments: a time is taken digit for digit or refused.
Scan: the board sees the key that is pressed, and no other. Bytes: what is
processed is what was sent, or the tail of it that is known; a line that is too
long gets an error. Opening: it ends in time and leaves no handler behind, and
when it stops reading before its time is over the line is quiet.

## 2. The modules

| module | models |
|---|---|
| `KeypadCommands` | command lines as tokens, kinds of replies |
| `KeySwitch` | abstract: at most one key closed, open before the next closes |
| `KeypadFirmware` | the sketch, one action per access to a pin, the clock or the port |
| `CommandLine` | `loop()`'s line buffer and the tokenizer, byte by byte |
| `MatrixScan` | `KeypadFirmware` on the lines of a board that strobes and samples |
| `PressTiming` | `KeypadFirmware` with history variables that measure a press |
| `KeypadProtocol` | abstract: the sketch as the host sees it, one action per command line |
| `CookPlan` | `parse_time_to_digits` with `std::stoi`, number of power presses |
| `CookInput` | every level, and every time string up to a length, for `CookPlan` |
| `ArduinoLink` | the library on one handle, composed with `KeypadProtocol` |
| `AsioLoop` | what an asio call or a round of `io_context::run` does, as functions of its state |
| `OpenDrain` | the drain of `open_microwave_controller` on `AsioLoop`, one action per handler or round |
| `MC*` | instances for TLC: key maps, command sets, strings |
| `KeypadFirmwareProofs`, `MatrixScanProofs`, `KeypadProtocolProofs`, `PressTimingProofs`, `ArduinoLinkProofs`, `OpenDrainProofs`, `CookInputProofs`, `CommandLineProofs` | theorems |

`KeypadFirmware` implements `KeySwitch` (the refinement mapping `ClosedKey` is
what the pins show) and `KeypadProtocol` (the mapping appends to `rx` the line
in hand until it has taken effect, and to `tx` the reply from then on). So
`ArduinoLink` can compose the library with the small protocol, and what it
shows carries over to the sketch itself. `CommandLine` is the step before: from
bytes to the tokens of which `KeypadCommands` makes its records. In
`ArduinoLink` the whole drain is one step (`Drain`), which `OpenDrain` takes
apart.

### KeypadFirmware

The sketch is sequential code, so an action is one access to something another
actor sees or changes, with the local computation after it; `pc` says where the
thread is. `StartKeyPress`, `Arm`, `Couple`, `Drive`, `Sync`, `Copy` are
`startKeyPress` from top to bottom; `ReleaseLow` and `ReleaseFloat` are the two
writes of `setColumnIdle` inside `releaseActivePress`, whoever called it (the
pending `reply` says where the caller goes on); `Maintain`, `Mirror`, then
`Expire` or `KeepPressing` are `maintainActivePress`; `PrintReply` is
`Serial.println`, which blocks while the transmitter is full. `Sync`/`Copy` and
`Maintain`/`Mirror` are kept apart because the board may strobe another row
between `digitalRead` and `digitalWrite`. The environment may at any time reset
the board, let the clock run, change a row, send a line or read a reply.

A command line is a record of what the tokenizer yields: verb, number of
tokens, key or `Idle`, and the number `toInt()` makes of the third token. The
several lines `help`, `list` and the banner print are one reply, `"text"`. The
deadline is computed modulo `ClockMod` (2^32 in the code).

The range check in `maintainActivePress` can never fail: `startKeyPress` has
dropped such a key. `PinsMatchPress` states this, and its proof does not need
the check.

### PressTiming

`start`, `want`, `elapsed` measure a press in true milliseconds. `stall` counts
those since `loop()` last looked at the deadline. These are pure history: they
forbid no step of the sketch or of the clock. The code does not bound how long
serial input or a blocked `println` keeps `loop()` busy, so the model does not
either: a press in which a look was more than `MaxStall` late is `Stalled`, and
`NotHeldOn` says what it says for presses that are not. `NotCutShort` holds with
any stall.

### ArduinoLink

`hpc` is the caller's thread: `write`, `read` (the loop of `send_raw_command`),
`settle` (the 150 ms of sleep), `idle` between calls, `opening`, `closed`.
`todo` is the rest of the plan of the call: one command for
`send_microwave_command` and `stop_microwave`, Cook Time, digits and Power for
`run_microwave`. `Receive` takes any number of lines that have arrived,
`Acknowledge` throws away what follows the awaited one with `response_buf`.
`Fail` is an exception of asio: from a write of which nothing, all or a part
was sent (`garbled`: the sketch then holds half a line, and takes the next one
with it as one line it does not know), or from a read. `owed` and `pressed` are
history, with one element for each command of the call and one before them: the
keys that command is to close (one, or none), and those that were closed from
the moment it was written until the next one was. So a key that comes too late,
into the time of the next command, shows up in the wrong element. A raw command
carries `doubled`, whether the string begins with `press` or `pulse`, next to
what the sketch makes of it, since the two ends decide by different rules: the
library compares the first characters as they are, the sketch trims the line and
ignores its case. The commands of `link` have one line on which they disagree, a
`pressx 3` that only the library takes for a press: the sketch does not know it,
and the call blocks on its error. A `PRESS 3`, which only the sketch takes for
one, is acknowledged too early; the runs and the theorems leave it out (see
section 5).

`ReplyReachesCall` is the liveness of one command: on a board that is up when
the line is written, the reply reaches the call, or the call fails. It excuses,
by name, a reset in between, a command to which the sketch has no reply the
library recognises (`Unanswerable`), and a tap that became a hold at the wrap of
`millis()` (`HeldForGood`). `CallReturns` is what the header promises of a
whole call, without excuses; `link_error` refutes it.

The 2 s of sleep in `open_microwave_controller` are the guard of `Drain`: the
board has booted, unless `SlowBoot` allows that it has not. `Glitches` allows
resets while the port is open. `RetryAfterFail` is the caller: whether it uses
a handle again after `API_ERROR_SERIAL_FAIL`, or closes and reopens it.

### CookPlan, CookInput

Strings are sequences of characters, because the properties tell characters
apart. `Stoi` skips blanks, takes a sign and the longest run of digits, ignores
the rest, and throws without a digit or out of range, as `std::stoi` does.
What the repository says of the two calculations and what they do differ, and
both are stated. `RefusesShortMinutes` is what test 4 of the tester expects of
`1:30`; `TakesMinutesSeconds` is what the code does: it takes minutes of any
length. `PowerAsCommented` is the comment over the calculation (90 % is one
press, 10 % is nine); `OnePressMore` is the code: two presses for 90 %, ten for
10 %, and none for 100 and every value that is not a multiple of ten from 10 to
90. The first of each pair is violated by a run, the second is a theorem.

### CommandLine

Bytes arrive one at a time and are stored, dropped with an error when the
buffer is full, ignored (carriage returns) or thrown away (`setup()`); a
newline makes a line of them, which is tokenized while `processCommand` runs.
`sent` (what the host has sent since its last newline), `lost` (how much of it
`setup()` or a reset swallowed) and `errors` are history: `BufferIsTail` says
which tail of what the host sent is in the buffer, and that one error reply was
sent for each time a line became too long, none for what `setup()` or a reset
swallowed. `TakeToken` is a pass of
the tokenizer's loop, which walks with indices, as the code does;
`TokensAreWords` compares what the passes keep with a definition by the longest
runs of characters between blanks (`FirstWords`). The tokenizer splits at blanks only, while
`trim` strips tabs too; that is modelled as it is.

### MatrixScan

`rowLevel` of `KeypadFirmware` is driven by a board that strobes one row,
samples the columns and goes on. The repository fixes neither the level of a
strobe nor how long it lasts, so both are parameters: `strobe` is any of
`Strobes`, and a column nobody drives rests at the other level; `Patience` says
what the board waits for before it reads a driven column. `"copy"`: until the
sketch has copied the row (a pass of `loop()` takes some tens of microseconds, a
strobe about a millisecond; that is an assumption about the board); `"pass"`:
the same, but not while `println` waits for the transmitter, when there is no
pass to wait for; `"none"`: for nothing.

`NoGhost` needs no assumption. Whatever the board reads as closed is the column
of the pressed key, and it reads it in the key's row, but for two exceptions
that the property names: the sketch has not copied this strobe yet, and
`Transient`. The latter is for a board that strobes LOW: `startKeyPress` puts
the column LOW before it has read the row (`.ino` 283-288), and `setColumnIdle`
before it lets the column go (333-334), and such a board reads that LOW as a
key of whatever row it strobes. `OnlyPressedKey` is the same without exceptions;
`matrix_ghost` refutes it for a board that strobes HIGH, where only the first
exception is left. `SeesPressedKey` is where `Patience` matters: a board that
does not wait for the copy may not see the key.

### AsioLoop, OpenDrain

What `open_microwave_controller` relies on is in asio, so that is modelled from
asio's source as it is built on Linux (epoll, timerfd, one thread). `Io` is the
state of the `io_context` with its one descriptor and the two timers: the
scheduler's queue, in which completed operations, the descriptor (when epoll
has reported it) and the reactor's task take turns; `work`, the count of
outstanding operations whose return to 0 stops the loop; `reads`, operations
that wait at the descriptor; `expiry`, the waits of the timers; and the
kernel's side: unread bytes, a hang-up, `edge` (an event epoll has still to
report) and `alarm` (when the timerfd fires). `StartRead` tries the read at
once and posts the completion, or waits; `CancelPort` posts
`operation_aborted`; a timer's completion that is queued stays so. `Poll` is a
round of `epoll_reactor::run`; `PerformIo` and `Finish` are what
`do_run_one` and `perform_io` do around a handler, with the count they correct
when an event completed no operation.

In `OpenDrain` an action is one round of `do_run_one`: one of the three
handlers, an event on the port, which completes the read in its place, or a
round of the reactor. Bytes and a hang-up come at any moment. `lag` bounds the
time from one round of the reactor to the next while there is work
(`MaxLag`; the sleeping thread needs no bound): the code does a few
microseconds of work between two rounds, and `QuietIsQuiet` and `EndsInTime`
are statements about time, so some bound has to be in them.

The comments say that the drain runs until its timers cancel the read, one of
them after a quiet window (`RunsUntilCancelled`). The quiet timer does cancel
the read, but nothing cancels `max_timer`, and `io.run()` sleeps on until it is
due: `drain_quiet`. So a drain lasts `max_total` at least (`DrainLastsMaxTotal`)
and one quiet window longer at most (`EndsInTime`).

## 3. The runs

| run | result | shows |
|---|---|---|
| `firmware` | pass | types; `DrivenColumnIsActive`, `NoPullUpOnIdleColumn`, `PinsMatchPress`; `NotCutShort`, `NotHeldOn`, the length of a press that ends before the counter wraps; the sketch implements `KeySwitch` and `KeypadProtocol` |
| `timing_deadline` | violated | `PressHasDeadline`: a tap can become an endless hold |
| `link` | pass | `FullyAcknowledged`, `NoStaleReply`, `KeysInOrder`, `NeverSupersedesTap`, `ReplyReachesCall`, with slow boots, resets and serial errors, for lines in small letters without leading blanks |
| `link_error` | violated | `CallReturns`, by `run_microwave("3:3a")`, to which the sketch answers `ERR` |
| `link_retry` | violated | `FullyAcknowledged` when the caller goes on after a serial error |
| `cook_time` | violated | `RefusesShortMinutes`: `1:30` is taken |
| `cook_power` | violated | `PowerAsCommented`: one press more than the comment says |
| `command_line` | pass | `BufferIsTail`, `TokensAreWords` on every byte stream, with overlong and cut lines |
| `open_drain` | pass | `OneOfEach`, `WorkIsOutstanding`, `NothingOutlivesOpen`, `NoLostInput`, `QuietIsQuiet`, `EndsInTime`, `DrainEnds` |
| `drain_quiet` | violated | `RunsUntilCancelled`: a quiet line does not shorten the open |
| `matrix` | pass | `NoGhost`, `SeesPressedKey` while the board waits for a copy, for strobes of both levels |
| `matrix_ghost` | violated | `OnlyPressedKey` when `println` blocks while a key is held, for HIGH strobes |

Each violated run checks a statement of the documentation, a comment or a test,
quoted with its line under `findings` in `PROJECT.json`.

Mutants (operators named in `PROJECT.json`, each next to the definition it
stands in for) are plausible slips in the code; every property of a passing run
is violated under one of them.

**Bounds.** `firmware` (and `timing_deadline`, the same instance): one row and
two columns with two keys in one column, one in the other and one outside the
matrix is the smallest in which a press can disturb another key's column, share
it, or be out of range; what a row's level does to the columns is the business
of `matrix`. `ClockMod` 4 with durations 2 (the default) and -1 (which becomes
3) has presses that end before, on and after the wrap, and deadlines that fall
on 0. A look may be `MaxStall` 1 late before the press counts as stalled, and the
measured time stops at 5 = `ClockMod + MaxStall`. One line waiting and one reply
in the transmitter suffice for back-to-back commands and a blocked `println`;
every verb, and both error paths of `press`, are among the commands. `link`: two lines on the
way to the sketch, three back, plans of up to six presses, levels 90 and 100;
any more lines in flight would need a caller that does not wait. The commands
are a press, a hold, a release and a status that can be acknowledged, and six
lines that cannot. A deadline may fall on the counter's wrap, so that a tap
never ends (`ClockMayWrap`), in `link`; the other library runs leave that defect
out, so that each shows one cause. `cook_time`: the strings of up to four
characters of `1:30`. `cook_power`: all 256 levels. `command_line`: lines of up
to 5 characters of which the buffer drops the sixth, two tokens kept of up to
four, and at most 7 characters between two newlines, so that an overlong line
leaves a tail; two letters (one a capital), blank, tab and carriage return.
`open_drain`: a buffer of 2 and a port of 3, so that one read does not empty
it; a total of 7 and a window of 3, so that the quiet timer is started up to
three times and the last window may overlap the total (400 and 120 ms in the
code); reads of up to 2 ms lag; the reactor wakes after 5 at the latest (5
minutes), so that it also wakes for nothing; `Horizon` is beyond the end of
every drain, as `EndsInTime` confirms; `drain_quiet` has the same bounds.
`matrix`: two rows and columns and three keys, two in one column and two in one
row, so that a level that stays behind can be read as either neighbour.

**Fairness.** `matrix`: the sketch's thread and the board never stop, the
counter runs, the UART sends what it holds, and `setup()`, which polls
`millis()` without pause, sees the time pass (`SF(SetupFinish)`: a wrapping
model clock would otherwise hide the moment; the real one takes 49 days to come
round). `open_drain`: the thread in `io.run()` runs and the clock does; nothing
makes the board send. `link` and `link_error`: the caller's thread and
the sketch run. That includes that a timed press ends, which `NotHeldOn` bounds
and `timing_deadline` shows not to hold at the counter's wrap: `link` lets that
happen, and `ReplyReachesCall` excuses it; `link_error` has `ClockMayWrap =
FALSE`, so that its counterexample is the missing check for `ERR` alone. No
fairness makes the caller call, the line fail or the board reset.

`CHECK_DEADLOCK FALSE` is set in `link` (a call blocked on a reply that never
comes is a state the system really stays in), in `cook_time` and `cook_power` (a
string of full length is not extended), in `open_drain` and `drain_quiet` (the
function returns) and in `command_line` (a line of `MaxSent` characters is not
extended).

## 4. What is proved

For every key map, matrix size, clock width, duration, buffer size, plan and
command set, under the assumptions `CommandAssumption`, `FirmwareAssumption`,
`ProtocolAssumption`, `LinkAssumption`, `LoopAssumption`, `DrainAssumption`,
`LineAssumption`, `ScanAssumption` (the constants are what their names say; a
clock of at least two values; an int that holds 59; no two keys at one crossing)
and, for timing, `TimingAssumption` (`MaxElapsed` is at least `ClockMod +
MaxStall`, so that measuring does not stop too early).

* `KeypadFirmwareProofs`. The invariants on the pins are not inductive: that
  the column of a key is driven depends on where the thread is, and on the row
  and column being there at all. `IInv` adds `ReplyReady` (what `line` and
  `reply` hold at each `pc`; it is what makes the key of `Arm` a key of the
  map), `PressWired` (an active key is wired; at which `pc` a key is active)
  and `PinsExact` (which columns are outputs, and which latches may be HIGH,
  exactly, at each `pc`). Lemmas `TypeNext`, `FlowNext` and `PinsNext` prove
  each part over every action; `TypeCorrect`, `OnlyActiveColumnDriven`,
  `IdleColumnsFloat` and `LoopFindsPinsMatching` follow. `OneSwitch` proves
  that the sketch implements `KeySwitch`: under `IInv`, `ClosedKey` is the
  active key except before `Drive` (`ClosedKeyIs`), so only `Drive`,
  `ReleaseFloat` and a reset change it.
* `MatrixScanProofs`. `NoGhostKey` proves `NoGhost` for every key map and
  matrix, strobes of either level and a board of any patience. `Scan` adds to
  `IInv` that the level in the sketch's hand was read since the strobe, if it
  notes that it was (`Fresh`), and that the driven column then shows the level
  of its row (`Copied`), but for the LOW it begins and ends with; `PinsExact`
  does the rest: no other column is driven, and the latch is LOW when the column
  is switched over.
* `PressTimingProofs`. `TInv` says that the clock is `start + elapsed` until it
  wraps, that the deadline is the sum of the two recorded numbers, and that
  `elapsed < want + stall` unless `Stalled`. The last one is restored at each
  look because a look that does not release the key has seen a clock below the
  deadline. From it `PressNotCutShort` and `PressNotHeldOn`, both for presses
  that end before the wrap; `timing_deadline` shows that they need that premise.
* `KeypadProtocolProofs`. `ServesHost` proves that the sketch implements
  `KeypadProtocol`, for every buffer size too. `LineKept` strengthens `IInv`:
  the line in hand is kept from `ReadLine` to its reply and no longer, a key
  that is being let go is so for a release line, a deadline or a new press, and
  no key means no deadline. Then `HiddenSteps` shows which actions the host
  cannot tell from nothing, and one lemma for each of the others which step of
  the protocol it is (`Arm` is `Press` or `NotWired`, `ReleaseFloat` is
  `Supersede`, `Expire` or `Release`, and so on).

* `ArduinoLinkProofs`. For a caller that stops after a serial failure and whose
  presses begin with `press` (`Careful`; `link_retry` shows that the first is
  needed, and a `PRESS` in capitals is acknowledged before it ends), and with
  slow boots, resets and serial errors: `LinkTypeOK`, `KeysInOrder`,
  `FullyAcknowledged`, `NoStaleReply`, `NeverSupersedesTap`. `LinkInv` is why:
  of the lines on their way at most the last is not blank (`OneLine`), and a
  timed press has no line behind it (`TapAlone`); the two histories agree up to
  the command written last, and a line on its way has pressed nothing
  (`InFlight`); between calls and commands the line is quiet, and during a read
  the command is either on its way with nothing but texts under way (`Pending`),
  or gone, and then the reply the library waits for is the last one that means
  anything (`Closing` in `Gone`). Each half of the last disjunct is kept only
  because of the other: a second command while the first is `Pending` would
  break it. One lemma for each step of the library and of the sketch. That a
  time's prefix before the colon has a length is a `CHOOSE`; `SpanInLength`
  shows by well-foundedness that there is one.
* `OpenDrainProofs`. `TypeOK`, `OneOfEach`, `WorkIsOutstanding`,
  `NothingOutlivesOpen`, `NoLostInput` of the drain, for every buffer, window
  and lag. They are one invariant (`DrainInv`, with `IoOk(io, 0)`): the count
  is right because no operation is under way twice, and no operation is because
  a handler starts its own again only while it runs (`IoOk(s, 1)`: out of the
  queue, still counted); input is announced because the descriptor's event
  comes before the next round of the reactor (`PortFirst`). One lemma for each
  function of `AsioLoop`; the actions only combine them.

* The same module proves the drain's two statements about time, for all
  durations and delays with `MaxLag < QuietWindow`. `InTime` adds three parts
  to `DrainInv`. `TimersInTime`: a timer that waits is at most `lag` late, and
  the reactor's alarm is never set later than the first of them. `EndsByThen`:
  for each handler that is queued, the time by which it is run; once `done` is
  set no read waits, and at most one window that was started before is left.
  `HeardFirst`: when the quiet timer is queued, either the last data is younger
  than `lag`, or all that is unread came since the last round, or a read or the
  descriptor's event stands before it in the queue, and its handler will start
  the window again. `DrainEndsInTime` and `DrainIsQuiet` follow, and
  `DrainLastsMaxTotal`, the lower bound: the count is 0 only when the wait of
  `max_timer` is over.
* `CookInputProofs`. `OtherLengthsRefused`, for times of every length
  over every alphabet, and `MinutesSecondsTaken`, for every int that holds 59
  (`IntHoldsSeconds`); `PowerPressedOnceMore`, the number of presses for every
  level there is, so also where the comment counts differently. There is nothing
  inductive about the system here (the input is only typed); the proof is about `Stoi` and `Span`. A string of digits is read
  to its end (`StoiOfDigits`), and what a time means follows from the place of
  its first colon (`ParseAt`).
* `CommandLineProofs`. `LineTypes`, `BufferHoldsTail`, `TokensAreFirstWords`
  for every alphabet, buffer and number of tokens. `BufferIsTail` becomes
  inductive with two facts about where the thread is: nothing has been read
  while `setup()` runs (`NothingRead`), and the tokens are those of the buffer
  while `processCommand` does (`Tokenized`). A character that is stored makes
  the tail one longer, or, when the buffer is full, ends it and counts one error
  (`StoreTail`, by division with remainder); a carriage return changes nothing
  of what is stored (`StoredAppend`). For the tokenizer, `Taken` says of the
  state between two passes that exactly the words before `start` have been kept
  and that a word begins at `start`; `TakeTokenKeeps` proves a pass to preserve
  it, `NextWord` where the pass leads.

Induction over strings or passes is done by least counterexample: of the
prefixes for which a recursive function does not exist, or for which its value
is wrong, one would be the shortest (`LeastNumber`, from the well-foundedness of
the natural numbers). The induction theorems of the library, which take the
statement as a parameter, are out of the provers' reach.

Every invariant and action property the passing runs check is a theorem, most of
them for more than the run's instance. The exceptions: liveness
(`SeesPressedKey`, `ReplyReachesCall`, `DrainEnds`) is only model-checked, as it
is outside the prover's reach; and the properties of `ArduinoLink` are proved
for a `Careful` caller, which the run `link` has.

## 5. Not modelled, and the plan

Left out for good:

* the tester, a linear script against real hardware, build files, the wording
  of help texts;
* of asio, everything `arduino_link.cpp` never instantiates: it makes up all but
  four of the repository's source files and nearly all of its lines (sockets,
  resolvers, SSL, coroutines, executors, other reactors), so the share of all
  lines that is modelled stays small although nearly every line of the sketch
  and the library is. Of the part that is used, `write`, `read_until` and the
  port options are in `ArduinoLink` as what they do for the library, and the
  run loop, the epoll reactor, the timers and the descriptor are in `AsioLoop`,
  as one thread uses them. Not in it: several threads in `run()` (locks,
  wake-ups through the interrupter), writes through the reactor, `poll`,
  `fork`, `shutdown`. A build on Windows uses I/O completion ports instead: the
  handlers of `OpenDrain` are the same, the order in which they are queued is
  not.
* The sketch's UART receiver losing bytes when its 64-byte buffer is full; the
  library has one command on its way at a time, and only the caller of
  `send_microwave_command` could make one that long. Exceptions for want of memory.
* In `OpenDrain`: an end of file and an I/O error on the port are one event,
  the hang-up; a read of 0 bytes without an error (its branch in the code
  starts another read) cannot come out of asio on POSIX, where 0 bytes are
  an end of file.

Planned, in order: what `run_microwave` sends for a time and a level, as a
theorem about `CookPlan`'s plans (the keys spell the time); handles over open and close, with
the value `close` returns (`arduino_link.h` 44 says non-zero on success, the
code returns 0) and a held key that outlives the session; two sessions at once,
which share the static `drain_buf`.

Differences between code and documents that were noticed and have no run of
their own:

* `arduino_link.cpp` 47-48 says that `send_raw_command` waits for the second
  `OK` of a press; with `PRESS 3` (or a blank before `press`), which the sketch
  takes as a press, line 67 does not find `press` at the start, and the call
  returns at the first (`Careful`).
* `run_microwave` ends with the Power presses (`arduino_link.cpp` 365-369) and
  never presses Start; `arduino_link.h` says that it runs the microwave, and the
  tester waits for it to run (`main_tester.cpp` 100).
* `README.md` 47-48 says that only `release` ends a hold, but any press does.
* A press whose deadline lies past the wrap of `millis()` is released at once
  (`.ino` 311), the same defect as `timing_deadline` in the other direction.
* The LOW with which a press begins and ends can be read as a key by a board
  that strobes LOW (`Transient`); whether the MD1001LB's does, the repository
  does not say.
