# yaasa-go in TLA+

Specifications, model-checking runs and machine-checked proofs for yaasa-go: a
command line, a background daemon and a C library that drive a standing desk over
Bluetooth Low Energy. Paths below are relative to `src/`.

## The system

| Part | Source | State it keeps | Operations |
|---|---|---|---|
| Command server | `internal/ipc/server.go` | listener, `dispatchMu`, `cancelCurrent`, `quitCh` | accept, register and preempt, dispatch, answer, quit |
| Daemon lifecycle | `cmd/yaasa/main.go:74-156`, `internal/ipc/unix.go` | the process, the socket file, the default address | connect, listen, serve, clean up |
| Desk | `desk/desk.go`, `desk/monitor.go`, `desk/commands.go`, `desk/stats.go` | cached height and statistics, two listener registries | commands, `CurrentHeight`, `WaitForHeight`, `WaitForPreset`, `FetchSitStandTime`, the notification fan-out |
| Frame codec | `internal/protocol/packet.go` | none | `MakeCommand`, `DecodeResponses` |
| CoreBluetooth adapter | `desk/adapter_darwin.go` | pending connects, per-operation channels, the notification callback | scan, connect, discover, subscribe, write, read, disconnect |
| tinygo adapter | `desk/adapter_other.go` | none of its own | the same, by calls into a library |
| C library | `clib/clib.go` | desk handles, listener tokens, command-cancel functions | the exported functions |
| Client | `internal/ipc/client.go` | one connection | one request, one response |
| Command line | `cmd/yaasa/main.go` | none | starts daemons, sends requests, turns Ctrl-C into a stop |

How they interact: a command dials the daemon's socket, starting a daemon when
nobody answers, and sends one request. The server runs each connection in a
goroutine of its own; the desk is driven by the one that holds `dispatchMu`.
Driving means writing frames at intervals and waiting for what the BLE goroutine
hands out: notifications come through the adapter's callback, the decoder and the
listener registry to the channel of the waiting call.

What is hard here:

* *Concurrency.* Newer requests preempt older ones through cancelled contexts and a
  mutex; callbacks run outside the locks, from copies; the adapter's callbacks do not
  say which call they answer.
* *Failure.* Every write may fail, in the middle of a motion too. The motor runs on
  until it is stopped or the firmware loses patience. Daemons crash and leave files.
* *Ordering.* Stop against pulses of older commands, cache against registration,
  disconnect events against the next connect.
* *Time.* Pulses every 200 ms against a firmware that gives up after about 250 ms; a
  quiescence timer that any height arms; writes that wait for buffer space; timeouts, and
  deadlines on both ends of a connection.

What makes each part correct:

* server: the newest command always runs, an acknowledged stop is final, the desk is
  left at rest, every client is answered, quit quits;
* motion: pulses come in time, a call that says so has arrived, a call that is over
  leaves a desk that comes to rest, a cancelled call ends soon, every call ends;
* command line: a command that exits leaves no motion of its own, an interrupted one
  exits, a command that starts a daemon is served;
* daemon: a running daemon is reachable, stale files are no obstacle, clean exits
  leave nothing;
* desk: a listener is registered exactly as long as its call and called once for each
  notification meanwhile, arrivals are not missed, a query takes the first notification it
  is handed;
* codec: what is found is a frame, and frames are found;
* adapter: the delegate never blocks, an operation ends with its own event, a failed
  connect leaves no link;
* C library: a wait can be cancelled while it runs, what is registered for a call goes
  with it, a call that returned is not what keeps the desk moving.

`PROJECT.json` lists the hazards line by line, with the properties that cover them.

## Modules

| Module | What it is |
|---|---|
| `LatestWins` | abstract: one desk, the latest command takes it, only overtaken commands are dropped |
| `CommandServer` | `server.go` with `daemonCmd`'s shutdown, the motion loops without real time |
| `CommandLine` | command-line processes as clients of `CommandServer`: one request, and a stop on Ctrl-C |
| `MCCommandServer`, `MCCommandLine` | sets of commands and the symmetry for its runs |
| `CommandServerProofs` | the inductive invariant, the safety properties and both refinements, proved |
| `CommandLineProofs` | `CommandLine` implements `CommandServer`; `ExitMeansRest`, proved |
| `MotionCall` | abstract: a call drives the desk while it is under way, returns once, and leaves it to rest |
| `MotionLoop` | one motion call in discrete time, with the firmware it drives |
| `MotionLoopProofs` | its timing invariants, its answers and the refinement, proved |
| `DaemonSocket` | daemon processes and their socket file |
| `DaemonClients` | commands that look for a daemon, start one and poll for it, with `DaemonSocket` |
| `DaemonSocketProofs` | types, `ReachableWhenAlone` and `CleanExitsLeaveNothing`, without and with commands, proved |
| `NotificationFanout`, `MCNotificationFanout` | the caches, the listener registries and the waiting calls of one `Desk`; their symmetry |
| `NotificationFanoutProofs` | its inductive invariant and all its safety properties, proved |
| `FrameDecoder`, `MCFrameDecoder` | `DecodeResponses`, one loop iteration per step; the byte sequences of its runs |
| `FrameDecoderProofs` | `OnlyFrames` and `FramesFound` for every value, proved |
| `DarwinAdapter` | one process, one desk, CoreBluetooth as an environment |
| `DarwinAdapterProofs` | its inductive invariant and all its safety properties, proved |
| `CLibrary` | the exported functions of the C library, called by threads at will |
| `CLibraryProofs` | its inductive invariant, its safety properties and its refinement, proved |

### CommandServer

`pc[r]` is the program counter of the goroutine `handle` runs for connection `r`:
`new`, `accepted` (reading), `waiting` (for `dispatchMu`), `locked` (before
`ctx.Err()`), the places of `dispatch`, `reply`, `closing` (quit), `release`, `done`.
`cancelled`, `current`, `holder`, `quitCh` and `listening` are the contexts,
`s.cancelCurrent`, `s.dispatchMu`, `s.quitCh` and the listener. `motor` is the request
whose pulse keeps the desk moving, `stopLost` says that the last ignored `Stop()`
failed. `stamp` and `clock` are history: the order in which requests passed the
`cancelMu` section.

One action is one step between two points where another goroutine can interfere:
`Register` is the whole `cancelMu` section, `Lock` the mutex, `Bail` and `Begin` the two
sides of the `ctx.Err()` check, `Wake`, `FirstPulse`, `Tick`, `StopWrite`, `Write` and
`Query` the writes. `CtxDone`, `Deadline`, `TickFails` and `Arrived` are the branches
of the select loops of `dispatch`, `WaitForHeight` and `WaitForPreset`; all of them
lead to the same `Stop`. Go's `select` picks any ready branch, so `Tick` may be taken
although the context is cancelled. `Release` merges the deferred unlock, cancel and
close: the own context means nothing to others by then. A failed write
never left the host (`adapter_darwin.go:477-485`). `MotorHalts` is the firmware: it
may stop the motor at any time. Timers are steps that are always possible.

`LatestWins` sees `waiting` and `locked` as pending, everything from `Begin` to
`Release` as running, and `Bail` as the drop. `ImplementsLatestWins` is the refinement.
`MotionsAreCalls` is another, one per connection: a motion command is called until its first
pulse, driving until its stop is written, then over.

### CommandLine

Extends `CommandServer`: its requests are the connections of the processes in `Shells` and
of anybody else. `Run` is the dial and the sending half of `Client.Do`, `Finish` its
return; `Interrupt`, `SendStop`, `StopAnswered` and `Drain` are `runInterruptible` in its
order: the stop goes out on a connection of its own, any end of it will do, and the process
then waits for its first request. Commands that are not motions die of the signal and their
request goes on. `GiveUp` is the client's deadline, at any moment. `ServerStep` is any step
of `CommandServer` that leaves these connections to their owners.

### MotionLoop

One call, alone with the desk, from `Wake` to its last write, in units of time that `Pass`
lets go by. `kind` is the function: "timed" is `up`/`down` of the server, "move"
`WaitForHeight`, "preset" `WaitForPreset`. `timers` holds what is left of the sleep between
wake writes, of the ticker, of the deadline and of the quiescence timer; `ticked`, `inbox`
and `armed` are the ticker's channel, the height channel and `quiescenceTimer # nil`.
`CtxDone`, `Deadline`, `Arrived`, `QuietOver`, `Tick` and `HeightReceived` are the branches
of the three `select` statements, taken in any order when several are ready. `late` counts
the units for which something was ready and not taken: at most `Jitter`, and at most
`MaxStall` more while a write waits for buffer space (`Lag`).

The firmware (`motor`, `pos`, `step`, `since`; `ReceivePulse`, `ReceiveStop`, `RunDesk`) is
not in the repository. It follows `docs/protocol.md:103-128` and is an external
assumption: it starts up to `MaxStart` after a pulse, reports each position it passes,
stops at its goal, on a stop, or when the last pulse is more than `Gap` ago. `strays` are
the heights that a 0x07 of the keep-alive or of `ConnectWith` triggers seconds later. A
write may fail, get lost or wait, `MaxFaults` times in all (`NotReceived`, `Lag`);
`Flawless` says that none has so far. `Die` is the end of the process.

`MotionCall` is what `CommandServer` and `CLibrary` take a motion for, which is checked and
proved there as well (`MotionsAreCalls`): the three models of one motion, with time and with
concurrency, keep one promise. `Phase`, the result once there is one, and a motor that
starts or moves are the refinement mapping.

### DaemonSocket

`at[d]` follows `daemonCmd`: connecting (nothing is cleaned up if that fails, the
removal is deferred only afterwards), probing, unlinking, binding, serving, closing,
cleaning. `file` names the daemon whose `bind` made the file: that decides whom a
dial reaches. Closing a Go Unix listener unlinks the path and then closes the
descriptor, and `daemonCmd` removes the path once more. `Crash` ends a process
anywhere. `alone` is history: since `d` bound, no other process was past its probe.

`DaemonClients` adds the commands: `Ask` is the first dial, `StartDetached` starts one of
`Daemons` and lets go of it, `Poll` is a dial that is answered, by any daemon, `Expire` the
end of the polling.

### NotificationFanout

`Store`, `Snapshot`, `CallBack`, `Handled` are `handleNotification` for one frame,
of either topic: heights and sit/stand times, each with its cache and its list of
listeners. `Enter`, `Register`, `FirstWrite`, `Receive`, `Quiesce`, `GiveUp`,
`Unregister` are a call of `CurrentHeight` ("probe"), `WaitForHeight` ("move"),
`WaitForPreset` ("preset") or `FetchSitStandTime` ("fetch"), or a listener of the
library's user for one topic ("watch") or the other ("track"). The notifications of a
topic are numbered in the order they arrive; `close` says whether a height is near the
target. `Discipline` states what callers do: `"nested"` is a single thread, which runs
one waiting function at a time and removes its listeners in reverse order, as the daemon
does under `dispatchMu`; `"any"` is threads at will. Several calls waiting at once happen
only under `"any"`. Channels are sequences bounded by the channel's capacity; a full
channel drops.

`first`, `due` and `near` are history. `first` is the notification that will be the first
to be copied after the call registered (`Upcoming`): the one in hand, when it is stored and
not yet copied, or the next. `due` is the one the call's callback is to run for next. The
properties are about copies and not about arrivals because the copy is what decides:
`handleNotification` stores a value under one mutex and copies the listeners under another,
and a listener that registers in between is called for a value stored before it was there.

### FrameDecoder

`Skip`, `Cut`, `Reject`, `Emit`, `Finish` are the paths through the loop of
`DecodeResponses`. Buffers are concatenations of pieces. The reference is
`FrameAt`: the bytes at a position are what `MakeCommand`'s framing builds. `AllFrames`, what a
clean value is, asks for payloads of at most 255 bytes: the length is one byte, and a frame
built around more would announce less than it holds.

### DarwinAdapter

An attempt is one `ConnectWith` and what follows on its connection; a process makes
one at a time. `pending`, `mail`, `chan`, `cb`, `delegate` are `m.pending`, `Connect`'s
channel, the four per-operation channels, `notifyCB` and the delegate of the
peripheral. `Enlist`, `Call`, `TimeOut`, `GiveUp`, `Result` are `Connect` up to
`connected:`; `Issue`, `Answered`, `Expired` are any attribute operation, and `Ready`
and `Leads` say which one comes where. CoreBluetooth and the desk are the environment:
`work` (connects and cancels, worked off in order), `asked` (attribute requests,
answered in order while the link is up), `link`, `streaming`. The delegate's
callbacks happen with the environment's steps. When the stack works off a cancel, which
may be long after it was asked, the link is down at once. That a real link may go down only
after the next connect was taken up is left out; no property depends on it. Tokens in the channels carry the number
of the operation they answer, which the program does not have; `late`, `mistaken`,
`clean` and `lost` are history. The six strings of the device information service
are one repeated read.

`OwnEvents`, `NoNotificationLost` and `NoOrphanFromRest` are stated for attempts that each
began with the stack at rest (`FromRest`). Without that the third is violated by two
attempts (`darwin_reconnect`), and the other two by four: connects that were given up
stay with the stack, a later attempt gets the "connected" event of one of them, and the
link its predecessor subscribed on is still there when it takes over the callbacks.

### CLibrary

A call is one invocation of an exported function by some thread: `Enter`, `Resolve` or
`Panic` (the handle is looked up), then the steps of its function. `cancels` is
`cmdCancels`, `tokens` is `cancelHandles`; a token is named by the call that added the
listener. Registering, taking and deleting are one action each, as their mutexes make
them; calling the function taken (`Fire`) is another. `yaasa_wait_for_height` and
`yaasa_wait_for_preset` are one operation, "wait", which differs from "move" where the
code does: it is cancellable, it does not stop after a failed first pulse, it ignores
the error of its stop. `MotionsAreCalls` maps each of them to `MotionCall`. Two rules are
the caller's, not the code's (`Usable`): no call on a handle before it was returned or after
its disconnect was begun. `yaasa_cancel_listener` takes a token and no handle, so they do
not bind it. A write that succeeds after the link went down is dropped by the stack. What
the desk does with its listeners is `NotificationFanout`; here a listener's cancel function has run once or not.

## Runs

| Run | Module, bounds | Shows |
|---|---|---|
| `server` | `MCCommandServer`, 3 connections, 6 commands, symmetric | types, `OnlyOvertakenRefused`, `StopIsFinal`, `DeskRestsWhenFree`, `DispatchInOrder`, `ImplementsLatestWins`, `MotionsAreCalls` |
| `server_live` | `MCCommandLine`, 2 connections, 1 shell, a command per kind of wait, fair | `ExitMeansRest`, `EveryRequestAnswered`, `QuitStops`, `InterruptedExits` |
| `motion` | `MotionLoop`, all kinds, 3 positions, 1 fault or wait, 1 stray height, fair | types, `PulsesBridgeTheGap`, `AnswersTruthfully`, `RestsSoonAfter`, `DrainBound`, refinement, `CallReturns` |
| `socket` | `DaemonClients`, 3 daemons, 2 commands, fair | `ReachableWhenAlone`, `CleanExitsLeaveNothing`, `StaleFileIsNoObstacle`, `PollingIsServed` |
| `socket_orphan` | 2 daemons | violated: `RunningIsReachable` |
| `fanout` | `MCNotificationFanout`, 3 calls of 6 kinds, 2 notifications, nested, symmetric | `RegistryExact`, `NoLostArrival`, `AnswersAreFirst`, `HandedInOrder`, `NothingMissed` |
| `fanout_threads` | 2 calls, any | violated: `RegistryExact` |
| `frames` | values of up to 3 pieces out of 11, fair | `OnlyFrames`, `FramesFound`, `Terminates` |
| `darwin` | 2 attempts, repeated reads up to the 5th operation, fair | types, `DelegateNeverStuck`, `OwnEvents`, `NoNotificationLost`, `NoOrphanFromRest`, `AttemptReturns` |
| `darwin_reconnect` | 2 attempts | violated: `NoOrphanLink` |
| `library` | 3 calls of 8 functions, 1 handle | `LoneWaitCancellable`, `MotionEndsWithItsCall`, `RegistriesExact`, `MotionsAreCalls` |
| `library_overlap` | 2 calls, 1 handle | violated: `SomeWaitCancellable` |

Why the bounds are enough. *Server:* three connections are the fewest in which one
holds the desk, one waits for the mutex and a third overtakes it; commands are one of
each class that `dispatch` treats differently, and the others differ in their
bytes. *Command line:* two connections are a command and its stop, or a command and
another client; either may overtake the other, and a third, which only could refuse the
stop as well, is `server`'s. *Motion:* a unit is 50 ms, which makes wake gap, ticker and
gap 2, 4 and 5 units as they are; the goroutine may be one unit late and a write may wait
three more, which the gap does not survive. Quiescence is 6 units instead of 10 and the
start-up at most 7: what matters is that a start-up may outlast the quiescence window, so
that a stray height can end a preset before the desk moves. `Timeout` is the least value
of which `TimeEnough` is true: start-up, `Top` periods, and a quiescence window with the
goroutine's lags for the last height and for a stray one. Three
positions put the start at, next to and away from the target. *Socket:* three daemons are one that
runs, one that leaves a file, and one that arrives; two commands start two of them at
once. *Fan-out:* three calls give a listener around another call, and a call after
it; two notifications give one in hand and one to follow; `heightCh` has capacity 1 in
the run instead of 4, so that it is full when it matters. *Frames:* three pieces put
debris before and after a frame, and the pieces include frames with start bytes and
whole frames in their payload, cut-off frames and wrong checksums. *Darwin:* the second
attempt meets what the first one left with the stack; five operations cover
both service walks, a string read and the subscription with a read after it. That more
attempts add nothing to what the invariants say is proved.
*Library:* three calls are two waits and the cancel between them, or a listener and two
threads that cancel its token; handles share nothing but the maps, which are keyed by
handle, so one is enough.

`CHECK_DEADLOCK FALSE` is set where the system stops by itself: every
connection served, process or attempt ended, value scanned.

### Fairness

`CommandServer!Fairness` is weak fairness of each goroutine's own steps and of the main
goroutine's reaction to `quitCh` and its exit. The Go scheduler runs every runnable
goroutine, every wait of the server ends in an answer or a timer, and `sync.Mutex` does
not starve waiters. No fairness is given to `Accept`, `Tick`, `Interrupted` and
`MotorHalts`: nothing forces a client, one more pulse, a signal or the firmware.
`CommandLine` adds the client processes' own steps, not their commands, signals and
deadlines. `MotionLoop` has it for the goroutine and the clock: `Pass` is disabled while
the goroutine is as late as it may be, so neither can starve the other. `DaemonSocket` has
it for the steps of a started process, not for starts, stops and crashes, and
`DaemonClients` for the repeated dial, not for its deadline. `FrameDecoder` is a loop of
one goroutine. `DarwinAdapter` has it for goroutines and timers only: nothing is asked of
CoreBluetooth.

## Where the code and its words differ

1. **A failed second daemon makes the first unreachable** (`socket_orphan`). The
   removal of the socket file is deferred before `Listen` says whose file it is
   (`main.go:102-110`). The same run space has two daemons that start together and
   unlink each other's file between probe and bind; two commands that find no daemon do
   just that (`main.go:816-837`), which is why `PollingIsServed` speaks of undisturbed
   daemons.
2. **Cancelling listeners out of order removes the wrong one** (`fanout_threads`).
   `AddHeightListener` captures an index that another cancel shifts
   (`desk.go:243-249`); one thread that cancels its listeners first in, first out
   meets it as well. `AddSitStandListener` has the same code.
3. **A late disconnect event hits the next connect** (`darwin_reconnect`).
   `m.pending` is keyed by the peripheral only; `Disconnect` followed by `Connect` can
   return an error while the link comes up, owned by nobody.
4. **A cancel that does not cancel** (`library_overlap`). `cmdCancels` has one entry per
   handle: of two waits that overlap, the second overwrites the entry and the first to
   return deletes it (`clib.go:108-118`), while `yaasa_cancel_command` is documented as a
   no-op only "if no command is running" (`clib.go:229-230`).

The models show more that no run lists. A quit overtaken before it gets the mutex is
answered "preempted by newer command" and does nothing; `quitCmd` ignores the answer and
prints "Daemon stopped" (`main.go:677-690`). An interrupted command waits "≤200 ms" for its
first request according to `main.go:948`; that request may be in `Wake`, which looks at no
context, for 300 ms and its writes' waits: `DrainBound` is the bound the code has. A
delayed height that arrives before the desk has started arms the quiescence timer, and a
preset that was never driven to is reported as reached (`monitor.go:184-198`). A call for
the height at which the desk stands hears nothing and returns an error after its timeout
(`monitor.go:126-129`, `209-215`); `AnswersTruthfully` names both. A frame header whose length reaches past
the end of a value ends the scan (`packet.go:50-52`), so intact frames behind a
cut-off one are not found. A height that arrives between the cache check of
`CurrentHeight` and its registration is missed (`monitor.go:29-43`): the call reports
"no height data yet" although there is one. A height it takes from the cache may be of any
age. `FetchSitStandTime` is documented to wait "for the matching 0xA2 notification" and to
issue "a fresh request" (`stats.go:87-89`); it takes the first 0xA2 notification its
listener is called for. That may be the reply to an earlier call that timed out, or one that
was stored before the call registered and copied after: `AnswersAreFirst` says which
notification is taken, not that it is the reply. The event of an attribute operation that
timed out is kept in its channel (`adapter_darwin.go:363-365` says it is dropped) and
ends the next operation on it, which is why `OwnEvents` makes an exception after a
timeout. `yaasa_wait_for_*` returns 0 although its stop failed, which
`MotionEndsWithItsCall` allows to waits and not to moves. A handle that is looked up
after its `yaasa_disconnect` panics (`Panic`). Neither a stop of another thread nor
`yaasa_cancel_command` ends a timed move: the next pulse starts the motor again.

## Proofs

`CommandServerProofs` proves, for every finite or infinite set of connections and any
commands, under the two assumptions `NoRequestAssumption` and `CommandsAssumption`:
`TypeCorrect`, `NewestNeverRefused`, `StopFinality`, `RestsWhenFree`,
`DispatchesInOrder`, `Refinement` and `MotionsServed`. They all rest on `Inductive`, that `IInv` is an
invariant. `IInv` is needed because none of the properties is inductive:

* `MutexInv` ties `holder` to the program counters, so that "inside" is one goroutine;
* `PlaceInv` ties places, commands and responses together;
* `OrderInv` says that `current` has the largest stamp and that every other registered
  context is cancelled: a request found not cancelled at `Begin` is the newest;
* `DispatchInv` says that the request inside is the newest ever dispatched, which with
  `OrderInv` gives `DispatchInOrder` and, for a stop, `StopIsFinal`;
* `MotorInv` says that a moving desk belongs to a goroutine that still has its `Stop`
  to send, unless a stop was lost.

The step proof has one case per action; `Inside` groups the actions of the goroutine
that holds the mutex, and the lemmas `InsideKeeps`, `OutsideKeeps`, `BeginsLast` and
`StatusStep` carry what several parts need. `Refinement` maps `Register` to `Arrive`,
`Begin` to `Start`, `Bail` to `Drop`, `Release` to `Finish` (for dispatched requests),
everything else to a stutter. `MotionsServed` takes one request at a time: its own steps are
`Begin`, `Go`, `End` or nothing, the steps of all others let the desk rest at most.

`CommandLineProofs` proves `LineImplementsServer`, that the daemon with its command-line
processes is a `CommandServer` (so all of the above holds of it), and `ExitsAtRest`, for any
number of processes. `AnsweredInv` is why the latter holds: while the daemon lives, a client
reads something only once its request is past the desk; `ShellInv` that a process stays with
the connection it dialled.

`MotionLoopProofs` proves, for all periods, timeouts, lags, waits and numbers of faults
that satisfy `NumbersAssumption` and `PaceAssumption` (the ticker with the goroutine's lag
fits the firmware's gap): `TypeCorrect`, `PulsesInTime`, `RestsInTime`, `DrainsInTime`,
`Refinement` and `TrueAnswers`. Each of the bounds needs a stronger invariant, stated in `MotionLoop`:

* `LateInv`: only a write that had to wait makes the goroutine later than `Jitter`;
* `PaceInv`: without faults, a tick not yet taken is at most as old as the goroutine is
  late, so pulses are `Pulse + Jitter` apart at most;
* `RestInv`: a desk that moves had a pulse within `Gap`, and none after the call's end;
* `DrainInv`: what a cancelled call has spent is paid for by its wake writes, its waits
  and its present lag. The bound has the product of waits and `MaxStall`; it is linear in
  each step;
* `ResultInv`: there is no result before the loop is left;
* `WayInv`: without faults, a desk that is not at its goal is under way as long as the loop
  runs;
* `HeardInv`: heights that are no strays come from a desk that moves, and the next one comes in
  before the quiescence timer that the last one armed runs out;
* `TimeInv`: what is left of the timeout is more than the call still needs (`Need`: way, start,
  the height to be taken, quiescence, lag) and what each stray height may add to that.

`TrueAnswers` has two hypotheses on the numbers, and needs both. `Patient`: a height every
`Period`, taken up to `Jitter` late, comes before the quiescence timer runs out, the
assumption of `WaitForPreset`'s comment (`monitor.go:141-143`); with `Quiescence` equal to
`Period + Jitter` a preset gives up between two heights. `TimeEnough`: the timeout is longer
than start-up, the longest way and a `Window` for the last height and for each stray one;
a stray height postpones the end of a preset by as much. The run's numbers satisfy both
(TLC evaluates neither, but `AnswersTruthfully` is an invariant of the run). For the defaults,
500 ms of quiescence and a timeout of 30 s, they depend on how often the firmware sends a
height and how long its longest way takes, which the repository does not state.
`TimeInv` falls by one with every unit that passes, and each step pays for what it adds.

`DaemonSocketProofs` proves `TypeCorrect` and `UndisturbedKeepsSocket` from `AloneInv`:
only a process past its probe touches the file, and an undisturbed daemon is the only
such process. `OnlyCrashesLeaveFiles` (`CleanExitsLeaveNothing`) rests on `FileInv`: the file
is that of a daemon that still serves, or of one that crashed. `CommandsAreUsers` says that
`DaemonClients` implements `DaemonSocket`, commands being nothing but starts, and
`SafeWithCommands` carries both properties over to it, for any number of commands.

`NotificationFanoutProofs` proves, for any number of calls and notifications, `TypeCorrect`,
`NoArrivalLost`, `AnswersFirst` and `InOrder`, whatever the callers do; and for callers that nest
(`Discipline = "nested"`, as the daemon's calls do under `dispatchMu`) `NestedRegistryExact`
and `NestedNothingMissed`. Without nesting the last two do not hold: a listener that a cancel
removed by mistake (`fanout_threads`) is called no more. `FreshInv`
says what a call may have in which place, `TopicInv` that a listener is called for its own
topic and only once registered, `OnceInv` that none is in a list twice. `DueInv` says what
each listener is due for: the notification in hand as long as its callback is still to run,
and otherwise what comes up; callbacks that run in order are a consequence. `MailInv` says
that what waits in a channel was copied after the registration, and that a query's one
value is the first that was. `NestInv` is what makes the captured indices right: one call is busy, its
listener is the last of its list, and every listener sits where its owner remembers it.

`FrameDecoderProofs` proves `TypeCorrect`, `WholeFramesOnly` and `EveryFrameFound` for values
of any length made of any pieces. `FoundInv` says that the scan resumes behind all it has found;
`NothingPassedOver` is inductive; `CleanInv` says that of whole frames, as many are found as
the scan has left behind. The value is a fold over its pieces (`FlattenSeq`). What such a fold
yields is shown by induction over the naturals, which is here the statement that a set of
numbers closed under successor is all of them (`SetInduction`, from the well-foundedness of
`<`), with sets in the place of the predicates no prover here can instantiate.

`CLibraryProofs` proves `TypeCorrect`, `LoneWaits`, `MotionEnds`, `Registries` and
`MotionsServed`, for any number of threads' calls on any number of handles. `PlaceInv` says which function can be
where; `SharedInv` that waits under way together know of it, without which a lone wait
could find its entry overwritten; `StoredInv` that an entry is a wait's between `store` and
`clear`; `MotorInv` that a moving desk belongs to a call that is not over unless its stop
failed; `TokenInv` and `OnceInv` that a listener's cancel function is in one place, the map
or one caller's hands, until it has run.

`DarwinAdapterProofs` proves `TypeCorrect` and `NeverStuck` for any number of attempts,
whatever they left with the stack, and `EventsMatch`, `NotificationsArrive` and
`LeavesNoLink` for attempts that began at rest. `PendingInv` and `OwnerInv` tie `m.pending`,
the channels of `Connect` and the delegate together: the attempt in `m.pending` waits and
has no result yet. `AloneInv` is one attempt at a time. `WorkInv` lists what the stack can
have to do in each place of the attempt; `CallbackInv` says that nothing
is asked before there is a connection, `EventInv` that an attempt without a timeout has one
request or one event under way, its own. The last three hold under `FromRest` only, which
`StaysFromRest` carries from step to step.

Only model-checked is liveness, for which fairness and ENABLED are out of the prover's reach:
`EveryRequestAnswered`, `QuitStops`, `InterruptedExits`, `CallReturns`, `StaleFileIsNoObstacle`,
`PollingIsServed`, `Terminates` and `AttemptReturns`. Every safety property of a passing run
is a theorem, and so is type correctness where a run does not list it.

## Not modelled

The 60 s connection deadline of the server against longer client deadlines: both are
"at any moment" here. Several motion calls in real time: `MotionLoop` has one, the order
among several is `CommandServer`'s and `CLibrary`'s, and `MotionCall` is what they share.
The flow control of writes is a wait, not its polling. Scanning, which keeps no state that
later calls depend on. The tinygo adapter: blocking calls in sequence, all of whose state
is the library's; what becomes of a link that comes up after its connect timed out, or
stays up after a failed discovery, is decided there. `PollHeightDirect`, which nothing
calls. `yaasa_scan` and the C strings of the C library. Heights as floating-point numbers.
Argument handling, formatting, logging.

## Plan

Done: all of the above. What would come next:

* a timed composition of the server's 60 s connection deadline with clients whose own
  deadline is longer;
* the safety half of each liveness property, as an invariant and a variant that the fair
  steps decrease: what of the liveness arguments can be proved;
* `MotionCall` with time, so that the bounds of `MotionLoop` reach `CommandServer`;
* the tinygo adapter, if the library's behaviour after a timed-out connect is documented.
