----------------------------- MODULE MotionLoop -----------------------------
(***************************************************************************)
(* One motion call against the clock and the desk's firmware: the loops of *)
(* up and down (internal/ipc/server.go:145-181), of WaitForHeight and of   *)
(* WaitForPreset (desk/monitor.go:81-221).                                 *)
(*                                                                         *)
(* A call wakes the desk, writes a first pulse, and repeats it on a ticker *)
(* until its context is cancelled, its deadline passes, a height arrives   *)
(* (move) or heights stop arriving (preset); then it writes a stop.  The   *)
(* firmware is modelled from docs/protocol.md:103-128: it moves towards    *)
(* its goal while pulses come, reports heights only then, and stops at the *)
(* goal, on a stop, or when pulses are more than Gap apart.                *)
(*                                                                         *)
(* Time is discrete.  Pass lets one unit go by (50 ms in the               *)
(* configuration); the goroutine answers what is ready at once or up to    *)
(* Jitter units late.  A write may have to wait for buffer space, up to    *)
(* MaxStall units more (desk/adapter_darwin.go:470-486), and fail then; on *)
(* other stacks it may fail at once, or get lost.                          *)
(***************************************************************************)
EXTENDS Integers

CONSTANTS Kinds,      \* the calls made: a subset of AllKinds
          Top,        \* positions of the desk are 0..Top
          Tolerance,  \* how near to its target a move counts as arrived
          WakeGap,    \* sleep after each of the three wake writes: 100 ms
          Pulse,      \* the ticker's period: 200 ms
          Timeout,    \* the call's timeout or duration
          Quiescence, \* 500 ms without a height end a preset
          Gap,        \* firmware: longest distance of two pulses in one motion
          MaxStart,   \* firmware: longest time from a pulse to the first movement
          Period,     \* firmware: time per position and height report
          Jitter,     \* how late the goroutine may be
          MaxStall,   \* the longest wait of a write for buffer space
          MaxFaults,  \* writes that fail, get lost or have to wait
          MaxStrays   \* heights the desk still owes to earlier 0x07 requests

AllKinds == {"timed", "move", "preset"}

ASSUME KindsAssumption == Kinds \subseteq AllKinds
ASSUME NumbersAssumption ==
    /\ {Top, WakeGap, Pulse, Timeout, Quiescence, Gap, Period} \subseteq Nat \ {0}
    /\ {Tolerance, MaxStart, Jitter, MaxStall, MaxFaults, MaxStrays} \subseteq Nat
\* The ticker, late as it may be, is faster than the firmware's patience.
ASSUME PaceAssumption == Jitter < Pulse /\ Pulse + Jitter <= Gap

VARIABLES
    kind, goal,   \* what was asked for: the target, the stored preset, or an end stop
    from,         \* where the desk stood when the call began
    pc,           \* where the call is
    out,          \* its result
    cancelled,    \* ctx.Done() is closed
    wakes,        \* wake writes made
    timers,       \* units left: of the sleep, the ticker, the deadline, the quiescence timer
    ticked,       \* ticker.C holds a tick
    armed,        \* quiescenceTimer # nil
    inbox,        \* values in the channel that the height callback fills
    late,         \* units the goroutine has left something ready unanswered
    motor,        \* the firmware: "rest", "starting" or "moving"
    pos,          \* the desk's height
    step,         \* units to the first or the next movement
    since,        \* units since the last motion opcode reached the desk
    faults,       \* writes that failed or got lost so far
    stalls,       \* writes that had to wait for buffer space so far
    strays,       \* delayed answers to 0x07 still to come
    heard,        \* history: which heights came in: near the goal, away from it, stray ones
    over          \* history: units since the cancel while under way, since the end after it

asked    == <<kind, goal, from>>
channels == <<ticked, armed, inbox>>
desk     == <<motor, pos, step, since>>
history  == <<heard, over>>
trouble  == <<faults, stalls>>
vars     == <<asked, pc, out, cancelled, wakes, timers, channels, late, desk, trouble, strays,
              history>>

Larger(m, n)  == IF m > n THEN m ELSE n
Smaller(m, n) == IF m < n THEN m ELSE n
Lower(n)      == Larger(n - 1, 0)

NoTimers  == [sleep |-> 0, tick |-> 0, left |-> 0, quiet |-> 0]
Ended     == pc \in {"returned", "dead"}
Positions == 0..Top
Near(p)   == p - goal <= Tolerance /\ goal - p <= Tolerance
WakeTime  == 3 * (WakeGap + Jitter)
Horizon   == IF Ended THEN Gap + 1 ELSE WakeTime + Jitter + MaxFaults * MaxStall + 1
    \* the histories stop counting here

TypeOK ==
    /\ kind \in Kinds /\ goal \in Positions /\ from \in Positions
    /\ pc \in {"wake", "loop", "stopping", "returned", "dead"}
    /\ out \in {"none", "ok", "err"}
    /\ cancelled \in BOOLEAN /\ ticked \in BOOLEAN /\ armed \in BOOLEAN
    /\ wakes \in 0..3
    /\ timers \in [sleep : 0..WakeGap, tick : 0..Pulse, left : 0..Timeout,
                   quiet : 0..Quiescence]
    /\ inbox \in 0..4
    /\ late \in 0..(Jitter + MaxStall)
    /\ motor \in {"rest", "starting", "moving"} /\ pos \in Positions
    /\ step \in 0..Larger(MaxStart, Period) /\ since \in 0..(Gap + 1)
    /\ faults \in Nat /\ stalls \in Nat /\ faults + stalls <= MaxFaults
    /\ strays \in 0..MaxStrays
    /\ heard \subseteq {"near", "away", "stray"} /\ over \in 0..Horizon

Init ==
    /\ kind \in Kinds
    /\ goal \in IF kind = "timed" THEN {0, Top} ELSE Positions
    /\ from \in Positions /\ pos = from
    /\ pc = "wake" /\ out = "none" /\ cancelled = FALSE /\ wakes = 0
    /\ timers = NoTimers
    /\ ticked = FALSE /\ armed = FALSE /\ inbox = 0 /\ late = 0
    /\ motor = "rest" /\ step = 0 /\ since = Gap + 1
    /\ faults = 0 /\ stalls = 0 /\ strays \in 0..MaxStrays
    /\ heard = {} /\ over = 0

----------------------------------------------------------------------------
\* What reaches the desk.

\* A motion opcode: a desk at rest away from the goal will start, after a while.
ReceivePulse ==
    /\ since' = 0
    /\ IF motor = "rest" /\ pos # goal
       THEN motor' = "starting" /\ step' \in 0..MaxStart
       ELSE UNCHANGED <<motor, step>>
    /\ UNCHANGED pos

ReceiveStop == motor' = "rest" /\ UNCHANGED <<pos, step, since>>

MoreTrouble == faults + stalls < MaxFaults
Flawless    == faults + stalls = 0

\* A write that fails, at once or after its wait, never left the host; a lost one is not
\* noticed.
NotReceived ==
    /\ \/ MoreTrouble /\ faults' = faults + 1 /\ UNCHANGED stalls
       \/ late > Jitter /\ UNCHANGED trouble
    /\ UNCHANGED desk
Written(Receive) == (Receive /\ UNCHANGED trouble) \/ NotReceived

----------------------------------------------------------------------------
\* The call.

\* End of the call: its timers are stopped, its listener and channels are gone.
End(place, result) ==
    /\ pc' = place /\ out' = result /\ over' = 0
    /\ timers' = NoTimers /\ ticked' = FALSE /\ armed' = FALSE /\ inbox' = 0 /\ late' = 0

\* Mutants of WakeWrite: the desk is woken until a height comes in; a failed wake write
\* is tried again after the sleep.
WakeWriteUntilHeard ==
    /\ pc = "wake" /\ timers.sleep = 0 /\ wakes < 3
    /\ Written(UNCHANGED desk)
    /\ wakes' = IF heard = {} THEN Smaller(wakes + 1, 2) ELSE wakes + 1
    /\ timers' = [timers EXCEPT !.sleep = WakeGap]
    /\ UNCHANGED <<asked, pc, out, over, channels, late, cancelled, strays, heard>>
WakeWriteRetried ==
    /\ pc = "wake" /\ timers.sleep = 0 /\ wakes < 3
    /\ \/ Written(UNCHANGED desk) /\ wakes' = wakes + 1
       \/ NotReceived /\ UNCHANGED wakes
    /\ timers' = [timers EXCEPT !.sleep = WakeGap]
    /\ UNCHANGED <<asked, pc, out, over, channels, late, cancelled, strays, heard>>

\* Wake: three writes, each followed by a sleep; it looks at no context.
WakeWrite ==
    /\ pc = "wake" /\ timers.sleep = 0 /\ wakes < 3
    /\ \/ /\ Written(UNCHANGED desk)
          /\ wakes' = wakes + 1 /\ timers' = [timers EXCEPT !.sleep = WakeGap]
          /\ UNCHANGED <<pc, out, over, channels, late>>
       \/ NotReceived /\ End("returned", "err") /\ UNCHANGED wakes
    /\ UNCHANGED <<asked, cancelled, strays, heard>>

\* Mutants of FirstPulse: the first pulse is left to the ticker; the quiescence timer
\* is armed at once.
FirstPulseByTicker ==
    /\ pc = "wake" /\ timers.sleep = 0 /\ wakes = 3
    /\ pc' = "loop" /\ timers' = [timers EXCEPT !.tick = Pulse, !.left = Timeout]
    /\ UNCHANGED <<asked, out, cancelled, wakes, channels, late, desk, trouble, strays, history>>
FirstPulseArms ==
    /\ pc = "wake" /\ timers.sleep = 0 /\ wakes = 3
    /\ Written(ReceivePulse) /\ pc' = "loop"
    /\ timers' = [timers EXCEPT !.tick = Pulse, !.left = Timeout, !.quiet = Quiescence]
    /\ armed' = (kind = "preset")
    /\ UNCHANGED <<asked, out, cancelled, wakes, ticked, inbox, late, strays, history>>

\* The pulse at t = 0, then the ticker and the deadline.  When it fails, up and down
\* write a stop and the others do not.
FirstPulse ==
    /\ pc = "wake" /\ timers.sleep = 0 /\ wakes = 3
    /\ \/ /\ Written(ReceivePulse) /\ pc' = "loop"
          /\ timers' = [timers EXCEPT !.tick = Pulse, !.left = Timeout]
          /\ UNCHANGED <<out, over, channels, late>>
       \/ /\ NotReceived /\ kind = "timed"
          /\ pc' = "stopping" /\ out' = "err"
          /\ UNCHANGED <<over, timers, channels, late>>
       \/ NotReceived /\ kind # "timed" /\ End("returned", "err")
    /\ UNCHANGED <<asked, cancelled, wakes, strays, heard>>

\* The loop is left; the stop is still to be written.
Leave(result) ==
    /\ pc = "loop" /\ pc' = "stopping" /\ out' = result
    /\ UNCHANGED <<asked, cancelled, wakes, timers, armed, inbox, late, strays, history>>

IfTimed(result) == IF kind = "timed" THEN result ELSE "err"

\* The four ways to leave without an error of the desk: the context, the timer or the
\* context's deadline, a height near the target, a quiet desk.
CtxDone   == cancelled /\ Leave(IfTimed("ok")) /\ UNCHANGED <<ticked, desk, trouble>>
Deadline  == timers.left = 0 /\ Leave(IfTimed("ok")) /\ UNCHANGED <<ticked, desk, trouble>>
Arrived   == kind = "move" /\ inbox > 0 /\ Leave("ok") /\ UNCHANGED <<ticked, desk, trouble>>
QuietOver == armed /\ timers.quiet = 0 /\ Leave("ok") /\ UNCHANGED <<ticked, desk, trouble>>

\* Mutant of Tick: the pulses go on after the call has returned.
TickUnstopped ==
    /\ pc \in {"loop", "returned"} /\ ticked' = FALSE
    /\ pc = "loop" => ticked
    /\ Written(ReceivePulse)
    /\ UNCHANGED <<asked, pc, out, cancelled, wakes, timers, armed, inbox, late, strays, history>>

\* ticker.C: the pulse is repeated; an error ends the loop.
Tick ==
    /\ ticked /\ ticked' = FALSE
    /\ \/ /\ pc = "loop" /\ Written(ReceivePulse)
          /\ UNCHANGED <<asked, pc, out, cancelled, wakes, timers, armed, inbox, late, strays,
                         history>>
       \/ NotReceived /\ Leave("err")

\* Mutant of HeightReceived: the timer is reset to the timeout of the call.
HeightReceivedResets ==
    /\ pc = "loop" /\ kind = "preset" /\ inbox > 0
    /\ inbox' = inbox - 1
    /\ armed' = TRUE /\ timers' = [timers EXCEPT !.quiet = Timeout]
    /\ UNCHANGED <<asked, pc, out, cancelled, wakes, ticked, late, desk, trouble, strays, history>>

\* heightCh: the quiescence timer is armed, or drained and reset.
HeightReceived ==
    /\ pc = "loop" /\ kind = "preset" /\ inbox > 0
    /\ inbox' = inbox - 1
    /\ armed' = TRUE /\ timers' = [timers EXCEPT !.quiet = Quiescence]
    /\ UNCHANGED <<asked, pc, out, cancelled, wakes, ticked, late, desk, trouble, strays, history>>

\* The stop whose error every exit of the loops ignores.
StopWrite ==
    /\ pc = "stopping"
    /\ Written(ReceiveStop)
    /\ End("returned", out)
    /\ UNCHANGED <<asked, cancelled, wakes, strays, heard>>

Proceed ==
    \/ WakeWrite \/ FirstPulse \/ CtxDone \/ Deadline \/ Arrived \/ QuietOver
    \/ Tick \/ HeightReceived \/ StopWrite

\* A newer request, a signal to the command, or yaasa_cancel_command.
Cancel ==
    /\ ~cancelled /\ ~Ended
    /\ cancelled' = TRUE /\ over' = 0
    /\ UNCHANGED <<asked, pc, out, wakes, timers, channels, late, desk, trouble, strays, heard>>

\* The process ends or is killed (main.go:139-149): no stop is written.
Die ==
    /\ ~Ended
    /\ End("dead", "none")
    /\ UNCHANGED <<asked, cancelled, wakes, desk, trouble, strays, heard>>

----------------------------------------------------------------------------
\* Heights, and time.

\* The callback of the call gets a height: a move keeps one sign of its arrival, a
\* preset up to four heights.
Deliver(p, sort) ==
    IF Ended THEN UNCHANGED <<inbox, heard>>
    ELSE /\ heard' = heard \cup sort \cup {IF Near(p) THEN "near" ELSE "away"}
         /\ inbox' = CASE kind = "move" /\ Near(p) -> 1
                       [] kind = "preset"          -> Smaller(inbox + 1, 4)
                       [] OTHER                    -> inbox

\* The height that a 0x07 of a keep-alive or of the connect triggers seconds later.
StrayHeight ==
    /\ strays > 0 /\ strays' = strays - 1
    /\ Deliver(pos, {"stray"})
    /\ UNCHANGED <<asked, pc, out, cancelled, wakes, timers, ticked, armed, late, desk, trouble,
                   over>>

\* Something waits for the goroutine.
Ready ==
    \/ pc = "wake" /\ timers.sleep = 0
    \/ pc = "loop" /\ (cancelled \/ ticked \/ inbox > 0 \/ timers.left = 0)
    \/ pc = "loop" /\ armed /\ timers.quiet = 0
    \/ pc = "stopping"

\* A ticker whose tick was not taken drops the next one.
RunTimers ==
    LET fires == pc = "loop" /\ timers.tick = 1 IN
    /\ ticked' = (ticked \/ fires)
    /\ timers' = [sleep |-> Lower(timers.sleep), left |-> Lower(timers.left),
                  tick |-> IF fires THEN Pulse ELSE Lower(timers.tick),
                  quiet |-> Lower(timers.quiet)]

Towards(p) == IF p < goal THEN p + 1 ELSE IF p > goal THEN p - 1 ELSE p

\* The firmware: pulses too far apart end the motion; a movement is reported.
RunDesk ==
    /\ since' = Smaller(since + 1, Gap + 1)
    /\ \/ /\ (motor = "rest" \/ since >= Gap)
          /\ motor' = "rest"
          /\ UNCHANGED <<pos, step, inbox, heard>>
       \/ /\ motor # "rest" /\ since < Gap /\ step > 0
          /\ step' = step - 1
          /\ UNCHANGED <<motor, pos, inbox, heard>>
       \/ /\ motor # "rest" /\ since < Gap /\ step = 0
          /\ pos' = Towards(pos) /\ Deliver(pos', {})
          /\ motor' = IF pos' = goal THEN "rest" ELSE "moving"
          /\ step' = Period - 1

\* A write is due: a wake, a pulse or a stop.
Writing == pc \in {"wake", "stopping"} \/ (pc = "loop" /\ ticked)

\* The goroutine lets a unit pass: nothing is ready, it is not late yet, or a write waits.
Lag ==
    /\ late' = IF Ready THEN late + 1 ELSE 0
    /\ \/ (Ready => late < Jitter) /\ UNCHANGED trouble
       \/ /\ Ready /\ Writing /\ late = Jitter /\ MaxStall > 0
          /\ MoreTrouble /\ stalls' = stalls + 1 /\ UNCHANGED faults
       \/ /\ Ready /\ Writing /\ Jitter < late /\ late < Jitter + MaxStall
          /\ UNCHANGED trouble

Pass ==
    /\ Lag
    /\ RunTimers
    /\ RunDesk
    /\ over' = IF cancelled \/ Ended THEN Smaller(over + 1, Horizon) ELSE 0
    /\ UNCHANGED <<asked, pc, out, cancelled, wakes, armed, strays>>

Next == Proceed \/ Cancel \/ Die \/ StrayHeight \/ Pass

Spec == Init /\ [][Next]_vars

\* The goroutine is scheduled and time passes.
FairSpec == Spec /\ WF_vars(Proceed) /\ WF_vars(Pass)

----------------------------------------------------------------------------
\* Safety.

\* "200 ms < ~250 ms firmware auto-stop window" (docs/protocol.md:302-304): while the
\* loop runs and no write fails or has to wait, the firmware never ends the motion for want of
\* pulses, although the select may serve heights, a cancel or the deadline first.
PulsesBridgeTheGap == pc = "loop" /\ Flawless => since <= Gap

\* What the call answers is true of the desk: a move succeeds only on a height near
\* its target; a preset only when the desk is there, unless a stray height armed the
\* quiescence timer before the desk had started (monitor.go:184-198) or a write was
\* lost or late; and given time enough nothing fails but what was cancelled, could not be
\* written, or asked for the height where the desk already stood - no height is
\* reported then, and the call waits for its timeout (monitor.go:129, 209-215).
AnswersTruthfully ==
    /\ out = "ok" /\ kind = "move" => "near" \in heard
    /\ out = "ok" /\ kind = "preset" => pos = goal \/ "stray" \in heard \/ ~Flawless
    /\ out = "err" => cancelled \/ ~Flawless \/ (kind # "timed" /\ from = goal)

\* However a call ends - with its stop lost, with a first pulse that failed, or with
\* its whole process - the desk is at rest at most Gap units later.
RestsSoonAfter == Ended /\ over > Gap => motor = "rest"

\* A cancelled call ends within the three wake writes, what the goroutine lags and what
\* writes wait: Wake looks at no context (commands.go:39-48), the loops do at once.
DrainBound == cancelled /\ ~Ended => over <= WakeTime + Jitter + stalls * MaxStall

----------------------------------------------------------------------------
\* Why they hold: the parts of an inductive invariant (MotionLoopProofs).  HeardInv and
\* TimeInv, which AnswersTruthfully needs, are true of the numbers that satisfy Patient and
\* TimeEnough below, the others of all.

\* A tick that waits is as old as the goroutine is late, at most.
PaceInv ==
    pc = "loop" /\ Flawless =>
        /\ timers.tick > 0
        /\ ~ticked => since + timers.tick <= Pulse
        /\ ticked => Pulse - timers.tick <= late /\ since <= 2 * Pulse - timers.tick

\* A desk in motion had a pulse within the gap, and no later than the call's end.
RestInv ==
    motor # "rest" => /\ since <= Gap
                      /\ Ended => over <= since

\* Only a write that waits makes the goroutine later than Jitter.
LateInv == late > Jitter => stalls > 0

\* What a cancelled call has spent: its wake writes and waits so far, and the present
\* delay as far as it is no wait.
Delay == IF late > Jitter THEN late - MaxStall ELSE late
DrainInv ==
    /\ pc = "wake" /\ timers.sleep > 0 => wakes > 0
    /\ cancelled /\ pc = "wake" =>
          over + timers.sleep <= wakes * (WakeGap + Jitter) + stalls * MaxStall
                                   + IF timers.sleep > 0 THEN 0 ELSE Delay
    /\ cancelled /\ pc \in {"loop", "stopping"} =>
          over <= WakeTime + stalls * MaxStall + Delay

\* A result is set when the loop is left, not before.
ResultInv == pc \in {"wake", "loop"} => out = "none"

\* The desk: once under way it moves until it is there, unless pulses are missing.
WayInv ==
    /\ pc = "wake" => motor = "rest" /\ pos = from
    /\ pos = goal => motor = "rest"
    /\ motor = "moving" => step < Period
    /\ pc = "loop" /\ Flawless /\ motor = "rest" => pos = goal

\* Heights that are no strays come from a desk that moves, and each comes in before the
\* quiescence timer that the one before it has armed runs out.
HeardInv ==
    /\ kind = "move" /\ inbox > 0 => "near" \in heard
    /\ armed => kind = "preset"
    /\ pc = "wake" => ~armed /\ ("stray" \notin heard => inbox = 0)
    /\ pc = "loop" /\ Flawless /\ kind = "preset" /\ "stray" \notin heard /\ pos # goal =>
          /\ motor = "starting" => inbox = 0 /\ ~armed
          /\ armed => timers.quiet > IF inbox > 0 THEN Jitter - late ELSE step + 1 + Jitter

\* The time a call still needs: the way, a height to be taken, the quiescence, and the
\* goroutine's lags; and what each stray height may add to it.
Window == Quiescence + 2 * Jitter
Way    == IF pos < goal THEN goal - pos ELSE pos - goal
Need   == IF pos # goal              THEN Way * Period + step + Window
          ELSE IF inbox > 0          THEN Window - late
          ELSE IF timers.quiet > 0   THEN timers.quiet + Jitter
          ELSE Jitter - late
TimeInv ==
    pc = "loop" /\ Flawless /\ ~cancelled /\ kind # "timed" /\ from # goal =>
        /\ timers.left > Need + strays * Window
        /\ pos = goal => inbox > 0 \/ armed

\* What the answers of a preset rest on: a moving desk sends heights faster than the
\* quiescence timer runs out (monitor.go:141-143), and the timeout leaves the time for it all.
Patient    == Period + Jitter < Quiescence
TimeEnough == MaxStart + Top * Period + (1 + MaxStrays) * Window < Timeout

IInv == TypeOK /\ LateInv /\ PaceInv /\ RestInv /\ DrainInv /\ ResultInv
            /\ WayInv /\ HeardInv /\ TimeInv

----------------------------------------------------------------------------
\* Refinement: the call implements MotionCall.

Phase == CASE pc = "wake" -> "called" [] pc \in {"loop", "stopping"} -> "driving" [] OTHER -> "over"

Abstract == INSTANCE MotionCall
                WITH phase <- Phase,
                     result <- IF Ended THEN out ELSE "none",
                     desk <- IF motor = "rest" THEN "rest" ELSE "moving"

\* Timers, ticker and quiescence make a call that moves the desk only while it is
\* under way, returns once, and leaves a desk that only comes to rest.
ImplementsMotionCall == Abstract!Spec

----------------------------------------------------------------------------
\* Liveness, under FairSpec.

\* Every call returns, unless its process dies first (monitor.go:73-75, 138-140).
CallReturns == <>Ended
=============================================================================
