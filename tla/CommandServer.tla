--------------------------- MODULE CommandServer ---------------------------
(***************************************************************************)
(* The daemon's command server (internal/ipc/server.go), one process.      *)
(*                                                                         *)
(* Every accepted connection gets a goroutine that reads one request,      *)
(* cancels the request registered before it, registers its own cancel      *)
(* function, waits for dispatchMu, runs the command against the desk and   *)
(* answers.  Between any two steps of one goroutine any other may move:    *)
(* newer requests register (and cancel) at every point of an older one.    *)
(*                                                                         *)
(* A request stands for one client connection.  The desk is seen through   *)
(* the writes the server makes: each may fail (adapter_darwin.go:477-485,  *)
(* a write that fails never left the host) and the motor, once pulsed,     *)
(* runs until a stop arrives or until the firmware stops it by itself      *)
(* (docs/protocol.md:113-117).  Time is abstract: a timeout may expire at  *)
(* any moment, and does expire eventually.                                 *)
(***************************************************************************)
EXTENDS Naturals

CONSTANTS Requests,    \* client connections
          NoRequest,   \* "no request", a value outside Requests
          Commands     \* the commands the clients send

\* The classes of commands dispatch distinguishes by what they do to the desk.
Pulsed    == {"up", "down"}                          \* Wake, pulses, Stop
Driven    == {"move", "preset"}                      \* WaitForHeight / WaitForPreset
Written   == {"stop", "save"}                        \* one write
Queried   == {"height", "stats"}                     \* one write, one answer awaited
Immediate == {"info", "status", "quit", "unknown"}   \* no write at all
AllCommands == Pulsed \cup Driven \cup Written \cup Queried \cup Immediate

ASSUME NoRequestAssumption == NoRequest \notin Requests
ASSUME CommandsAssumption  == Commands \subseteq AllCommands

VARIABLES
    pc,         \* where the goroutine of each request is
    cmd,        \* the command it decoded
    cancelled,  \* ctx.Err() # nil
    current,    \* the request whose cancel function is in s.cancelCurrent
    holder,     \* the request whose goroutine holds s.dispatchMu
    resp,       \* the Response computed for the request
    got,        \* what its client has read: nothing yet, the response, or end of file
    stamp,      \* history: position of the request in the order of registration
    clock,      \* history: how many requests have registered
    motor,      \* the request whose pulse keeps the desk moving, if it moves
    stopLost,   \* the last ignored Stop() failed
    listening,  \* the listener is open
    quitCh,     \* s.quitCh is closed
    main        \* daemonCmd: serving, past srv.Close, or exited

request == <<pc, cmd, cancelled, resp, got>>
order   == <<current, stamp, clock>>
deskVars == <<motor, stopLost>>
life    == <<listening, quitCh, main>>
vars    == <<request, order, holder, deskVars, life>>

\* Places inside the critical section, split at the ctx.Err() check.
Dispatching == {"wake", "first", "loop", "stopping", "write", "query", "await",
                "reply", "closing", "release"}
Holding     == Dispatching \cup {"locked"}
Places      == Holding \cup {"new", "accepted", "waiting", "done"}

TypeOK ==
    /\ pc \in [Requests -> Places]
    /\ cmd \in [Requests -> AllCommands \cup {"none"}]
    /\ cancelled \in [Requests -> BOOLEAN]
    /\ resp \in [Requests -> {"none", "ok", "err", "preempted"}]
    /\ got \in [Requests -> {"nothing", "answer", "eof"}]
    /\ current \in Requests \cup {NoRequest}
    /\ holder \in Requests \cup {NoRequest}
    /\ clock \in Nat
    /\ stamp \in [Requests -> 0..clock]
    /\ motor \in Requests \cup {NoRequest}
    /\ stopLost \in BOOLEAN
    /\ listening \in BOOLEAN
    /\ quitCh \in BOOLEAN
    /\ main \in {"serving", "closed", "exited"}

Init ==
    /\ pc = [r \in Requests |-> "new"]
    /\ cmd = [r \in Requests |-> "none"]
    /\ cancelled = [r \in Requests |-> FALSE]
    /\ resp = [r \in Requests |-> "none"]
    /\ got = [r \in Requests |-> "nothing"]
    /\ current = NoRequest
    /\ holder = NoRequest
    /\ stamp = [r \in Requests |-> 0]
    /\ clock = 0
    /\ motor = NoRequest
    /\ stopLost = FALSE
    /\ listening = TRUE
    /\ quitCh = FALSE
    /\ main = "serving"

Alive == main # "exited"
At(r, place) == Alive /\ pc[r] = place
Goto(r, place) == pc' = [pc EXCEPT ![r] = place]
\* dispatch returns with response a.
Return(r, a) == Goto(r, "reply") /\ resp' = [resp EXCEPT ![r] = a]

----------------------------------------------------------------------------
\* Before the dispatch.

\* Serve accepts the connection and starts its goroutine.
Accept(r) ==
    /\ At(r, "new") /\ listening
    /\ Goto(r, "accepted")
    /\ UNCHANGED <<cmd, cancelled, resp, got, order, holder, deskVars, life>>

\* The request does not decode, or does not arrive within the connection's 60 s.
DecodeFails(r) ==
    /\ At(r, "accepted")
    /\ Goto(r, "done")
    /\ got' = [got EXCEPT ![r] = "eof"]
    /\ UNCHANGED <<cmd, cancelled, resp, order, holder, deskVars, life>>

\* Mutants of Register: the request is not counted; the new context is stored before
\* s.cancelCurrent is called, and so cancels itself.
RegisterUncounted(r, c) ==
    /\ At(r, "accepted")
    /\ cmd' = [cmd EXCEPT ![r] = c]
    /\ cancelled' = [q \in Requests |-> q = current \/ cancelled[q]]
    /\ current' = r
    /\ stamp' = [stamp EXCEPT ![r] = clock + 1]
    /\ Goto(r, "waiting")
    /\ UNCHANGED <<resp, got, clock, holder, deskVars, life>>
RegisterCancelsItself(r, c) ==
    /\ At(r, "accepted")
    /\ cmd' = [cmd EXCEPT ![r] = c]
    /\ cancelled' = [cancelled EXCEPT ![r] = TRUE]
    /\ current' = r
    /\ clock' = clock + 1
    /\ stamp' = [stamp EXCEPT ![r] = clock + 1]
    /\ Goto(r, "waiting")
    /\ UNCHANGED <<resp, got, holder, deskVars, life>>

\* The cancelMu section: cancel whoever is registered, register oneself.
Register(r, c) ==
    /\ At(r, "accepted")
    /\ cmd' = [cmd EXCEPT ![r] = c]
    /\ cancelled' = [q \in Requests |-> q = current \/ cancelled[q]]
    /\ current' = r
    /\ clock' = clock + 1
    /\ stamp' = [stamp EXCEPT ![r] = clock + 1]
    /\ Goto(r, "waiting")
    /\ UNCHANGED <<resp, got, holder, deskVars, life>>

\* Mutant of Lock: no mutual exclusion.
LockShared(r) ==
    /\ At(r, "waiting")
    /\ holder' = r
    /\ Goto(r, "locked")
    /\ UNCHANGED <<cmd, cancelled, resp, got, order, deskVars, life>>

Lock(r) ==
    /\ At(r, "waiting") /\ holder = NoRequest
    /\ holder' = r
    /\ Goto(r, "locked")
    /\ UNCHANGED <<cmd, cancelled, resp, got, order, deskVars, life>>

\* A newer request registered while this one waited for the mutex.
Bail(r) ==
    /\ At(r, "locked") /\ cancelled[r]
    /\ Return(r, "preempted")
    /\ UNCHANGED <<cmd, cancelled, got, order, holder, deskVars, life>>

\* The switch of dispatch on the command.
Switch(r) ==
    /\ \/ cmd[r] \in Pulsed \cup Driven /\ Goto(r, "wake") /\ UNCHANGED resp
       \/ cmd[r] \in Written /\ Goto(r, "write") /\ UNCHANGED resp
       \/ cmd[r] \in Queried /\ Goto(r, "query") /\ UNCHANGED resp
       \/ cmd[r] \in Immediate /\ Return(r, IF cmd[r] = "unknown" THEN "err" ELSE "ok")
    /\ UNCHANGED <<cmd, cancelled, got, order, holder, deskVars, life>>

\* Mutant of Begin: ctx.Err() is not checked.
BeginUnchecked(r) == At(r, "locked") /\ Switch(r)

\* The request is still the newest: dispatch begins.
Begin(r) == At(r, "locked") /\ ~cancelled[r] /\ Switch(r)

----------------------------------------------------------------------------
\* Motion: up, down, move, preset.

\* Three wake writes.  A failed one ends the command before any pulse.
Wake(r) ==
    /\ At(r, "wake")
    /\ \/ Goto(r, "first") /\ UNCHANGED resp
       \/ Return(r, "err")
    /\ UNCHANGED <<cmd, cancelled, got, order, holder, deskVars, life>>

\* The pulse at t = 0.  When it fails, up/down try a Stop and move/preset do not.
FirstPulse(r) ==
    /\ At(r, "first")
    /\ \/ Goto(r, "loop") /\ motor' = r /\ UNCHANGED resp
       \/ /\ cmd[r] \in Pulsed
          /\ Goto(r, "stopping") /\ resp' = [resp EXCEPT ![r] = "err"]
          /\ UNCHANGED motor
       \/ cmd[r] \in Driven /\ Return(r, "err") /\ UNCHANGED motor
    /\ UNCHANGED <<cmd, cancelled, got, order, holder, stopLost, life>>

\* Mutant of Tick: the ticker's goroutine outlives the loop.
TickUnstopped(r) ==
    /\ Alive /\ pc[r] \in {"loop", "reply"} /\ cmd[r] \in Pulsed \cup Driven
    /\ motor' = r
    /\ UNCHANGED <<request, order, holder, stopLost, life>>

\* ticker.C is ready and the pulse is sent.  The select may take this branch even
\* when ctx.Done is ready too.
Tick(r) ==
    /\ At(r, "loop")
    /\ motor' = r
    /\ UNCHANGED <<request, order, holder, stopLost, life>>

\* The select loop ends: Stop is still to be sent, the answer a is settled.
LeaveLoop(r, a) ==
    /\ At(r, "loop")
    /\ Goto(r, "stopping") /\ resp' = [resp EXCEPT ![r] = a]
    /\ UNCHANGED <<cmd, cancelled, got, order, holder, deskVars, life>>

\* Mutant of CtxDone: a preempted motion leaves the stop to its successor.
CtxDoneWithoutStop(r) ==
    /\ At(r, "loop") /\ cancelled[r]
    /\ Return(r, "ok")
    /\ UNCHANGED <<cmd, cancelled, got, order, holder, deskVars, life>>

\* A cancelled up/down still answers ok; a cancelled move/preset answers an error.
CtxDone(r)   == cancelled[r] /\ LeaveLoop(r, IF cmd[r] \in Pulsed THEN "ok" ELSE "err")
Deadline(r)  == LeaveLoop(r, IF cmd[r] \in Pulsed THEN "ok" ELSE "err")
TickFails(r) == LeaveLoop(r, "err")
Arrived(r)   == cmd[r] \in Driven /\ LeaveLoop(r, "ok")

\* The Stop whose error every exit of the loops ignores.
StopWrite(r) ==
    /\ At(r, "stopping")
    /\ Goto(r, "reply")
    /\ \/ motor' = NoRequest /\ stopLost' = FALSE
       \/ stopLost' = TRUE /\ UNCHANGED motor
    /\ UNCHANGED <<cmd, cancelled, resp, got, order, holder, life>>

----------------------------------------------------------------------------
\* Single writes and queries.

\* "stop" and "preset" with save.
Write(r) ==
    /\ At(r, "write")
    /\ \/ cmd[r] = "stop" /\ Return(r, "ok") /\ motor' = NoRequest /\ stopLost' = FALSE
       \/ cmd[r] = "save" /\ Return(r, "ok") /\ UNCHANGED deskVars
       \/ Return(r, "err") /\ UNCHANGED deskVars
    /\ UNCHANGED <<cmd, cancelled, got, order, holder, life>>

\* CurrentHeight answers from the cache or, like FetchSitStandTime, writes a request.
Query(r) ==
    /\ At(r, "query")
    /\ \/ cmd[r] = "height" /\ Return(r, "ok")
       \/ Goto(r, "await") /\ UNCHANGED resp
       \/ Return(r, "err")
    /\ UNCHANGED <<cmd, cancelled, got, order, holder, deskVars, life>>

\* The notification arrives, or the query's own timer expires; ctx plays no part.
Await(r) ==
    /\ At(r, "await")
    /\ \E a \in {"ok", "err"} : Return(r, a)
    /\ UNCHANGED <<cmd, cancelled, got, order, holder, deskVars, life>>

----------------------------------------------------------------------------
\* After the dispatch.

\* Mutant of Reply: quit is answered like any other command.
ReplyOnly(r) ==
    /\ At(r, "reply")
    /\ got' \in {[got EXCEPT ![r] = "answer"], [got EXCEPT ![r] = "eof"]}
    /\ Goto(r, "release")
    /\ UNCHANGED <<cmd, cancelled, resp, order, holder, deskVars, life>>

\* The response is written; past the connection's 60 s deadline it is lost.
Reply(r) ==
    /\ At(r, "reply")
    /\ got' \in {[got EXCEPT ![r] = "answer"], [got EXCEPT ![r] = "eof"]}
    /\ Goto(r, IF cmd[r] = "quit" /\ resp[r] # "preempted" THEN "closing" ELSE "release")
    /\ UNCHANGED <<cmd, cancelled, resp, order, holder, deskVars, life>>

\* A dispatched quit closes quitCh and the listener.
CloseQuit(r) ==
    /\ At(r, "closing")
    /\ quitCh' = TRUE /\ listening' = FALSE
    /\ Goto(r, "release")
    /\ UNCHANGED <<cmd, cancelled, resp, got, order, holder, deskVars, main>>

\* Mutant of Release: the unlock is not deferred on this path.
ReleaseStillLocked(r) ==
    /\ At(r, "release")
    /\ cancelled' = [cancelled EXCEPT ![r] = TRUE]
    /\ Goto(r, "done")
    /\ UNCHANGED <<cmd, resp, got, order, holder, deskVars, life>>

\* The deferred calls: unlock dispatchMu, cancel the own context, close the connection.
Release(r) ==
    /\ At(r, "release")
    /\ holder' = NoRequest
    /\ cancelled' = [cancelled EXCEPT ![r] = TRUE]
    /\ Goto(r, "done")
    /\ UNCHANGED <<cmd, resp, got, order, deskVars, life>>

----------------------------------------------------------------------------
\* The daemon's main goroutine and the desk.

\* A signal, or an error of Accept: daemonCmd returns and srv.Close runs.
Interrupted ==
    /\ main = "serving"
    /\ main' = "closed" /\ listening' = FALSE
    /\ UNCHANGED <<request, order, holder, deskVars, quitCh>>

\* quitCh is closed, or Serve has returned because the listener is.
QuitReceived ==
    /\ main = "serving" /\ (quitCh \/ ~listening)
    /\ main' = "closed" /\ listening' = FALSE
    /\ UNCHANGED <<request, order, holder, deskVars, quitCh>>

\* Disconnect, and the process ends: goroutines vanish, clients read end of file.
Exit ==
    /\ main = "closed"
    /\ main' = "exited"
    /\ got' = [r \in Requests |-> IF got[r] = "nothing" /\ pc[r] # "new"
                                  THEN "eof" ELSE got[r]]
    /\ UNCHANGED <<pc, cmd, cancelled, resp, order, holder, deskVars, listening, quitCh>>

\* The firmware stops by itself: target reached, or no pulse for about 250 ms.
MotorHalts ==
    /\ motor # NoRequest
    /\ motor' = NoRequest
    /\ UNCHANGED <<request, order, holder, stopLost, life>>

----------------------------------------------------------------------------

\* The steps a goroutine takes without waiting for its client or its ticker.
Proceed(r) ==
    \/ DecodeFails(r)
    \/ \E c \in Commands : Register(r, c)
    \/ Lock(r) \/ Bail(r) \/ Begin(r)
    \/ Wake(r) \/ FirstPulse(r)
    \/ CtxDone(r) \/ Deadline(r) \/ TickFails(r) \/ Arrived(r) \/ StopWrite(r)
    \/ Write(r) \/ Query(r) \/ Await(r)
    \/ Reply(r) \/ CloseQuit(r) \/ Release(r)

Next ==
    \/ \E r \in Requests : Accept(r) \/ Tick(r) \/ Proceed(r)
    \/ Interrupted \/ QuitReceived \/ Exit \/ MotorHalts

Spec == Init /\ [][Next]_vars

\* Goroutines are scheduled, every wait of theirs ends in an answer or a timeout,
\* and a mutex that stays free is taken.  Nothing forces a signal, a new connection
\* or one more pulse.
Fairness ==
    /\ \A r \in Requests : WF_vars(Proceed(r))
    /\ WF_vars(QuitReceived) /\ WF_vars(Exit)

FairSpec == Spec /\ Fairness

----------------------------------------------------------------------------
\* Safety.

Registered(r) == stamp[r] > 0
Dispatched(r) == pc[r] \in Dispatching \cup {"done"} /\ Registered(r) /\ resp[r] # "preempted"

\* A request is refused as preempted only if a newer one registered: "the very
\* latest command always runs" (server.go:106-108), whatever the interleaving of
\* the cancel sections and the mutex.
OnlyOvertakenRefused ==
    \A r \in Requests :
        resp[r] = "preempted" => \E q \in Requests : stamp[q] > stamp[r]

\* Once a stop was acknowledged, only a request that registered after it can keep
\* the desk moving: no pulse of an older up, down, move or preset comes after the
\* stop, although those still hold goroutines (server.go:118-128, 183-187).
StopIsFinal ==
    \A s \in Requests :
        cmd[s] = "stop" /\ resp[s] = "ok" /\ motor # NoRequest => stamp[motor] > stamp[s]

\* Whoever lets go of the desk leaves it at rest, on every path out of the motion
\* loops, unless the stop it sent failed (server.go:160, 175, 180 and
\* monitor.go:121-131, 192-218).
DeskRestsWhenFree ==
    holder = NoRequest => motor = NoRequest \/ stopLost

\* The desk never goes back to an older command: a dispatch begins only if every
\* dispatch so far registered earlier (server.go:125-130), even though the mutex
\* is granted in any order.
Begins(r) == pc[r] = "locked" /\ pc'[r] # "locked" /\ resp'[r] # "preempted"
DispatchInOrder ==
    [][\A r, q \in Requests : Begins(r) /\ Dispatched(q) => stamp[q] < stamp[r]]_vars

----------------------------------------------------------------------------
\* The inductive invariant behind the safety properties (CommandServerProofs).

\* Exactly the goroutine between Lock and Release holds dispatchMu.
MutexInv == \A r \in Requests : pc[r] \in Holding <=> holder = r

\* Places, commands and responses go together.
PlaceInv ==
    \A r \in Requests :
        /\ pc[r] \in {"new", "accepted"} => stamp[r] = 0
        /\ pc[r] \in Holding \cup {"waiting"} => stamp[r] > 0
        /\ pc[r] \in {"wake", "first", "loop", "stopping"} => cmd[r] \in Pulsed \cup Driven
        /\ pc[r] = "write" => cmd[r] \in Written
        /\ pc[r] \in {"query", "await"} => cmd[r] \in Queried
        /\ pc[r] \in Places \ {"stopping", "reply", "closing", "release", "done"}
              => resp[r] = "none"
        /\ pc[r] = "stopping" => resp[r] \in {"ok", "err"}
        /\ pc[r] = "done" /\ stamp[r] = 0 => resp[r] = "none"

\* Registration is a total order whose last element is s.cancelCurrent, and the only
\* registered context not yet cancelled is that one.
OrderInv ==
    /\ current = NoRequest => clock = 0
    /\ current # NoRequest => clock > 0 /\ stamp[current] = clock
    /\ \A r, q \in Requests : stamp[r] > 0 /\ stamp[r] = stamp[q] => r = q
    /\ \A r \in Requests : stamp[r] > 0 /\ r # current => cancelled[r]
    /\ \A r \in Requests : pc[r] # "done" /\ (r = current \/ stamp[r] = 0) => ~cancelled[r]
    /\ \A r \in Requests : resp[r] = "preempted" => stamp[r] < clock

\* The request now at the desk is the newest that ever was there.
DispatchInv ==
    \A r, q \in Requests :
        pc[r] \in Dispatching /\ Dispatched(r) /\ Dispatched(q) => stamp[q] <= stamp[r]

\* Unless a stop was lost, a moving desk belongs to a goroutine that will still stop it.
MotorInv == motor # NoRequest /\ ~stopLost => pc[motor] \in {"loop", "stopping"}

IInv == /\ TypeOK /\ MutexInv /\ PlaceInv /\ OrderInv
        /\ DispatchInv /\ MotorInv /\ StopIsFinal

----------------------------------------------------------------------------
\* Refinement: the server implements LatestWins.

Status(r) ==
    IF ~Registered(r) THEN "absent"
    ELSE IF pc[r] \in {"waiting", "locked"} THEN "pending"
    ELSE IF resp[r] = "preempted" THEN "dropped"
    ELSE IF pc[r] = "done" THEN "served" ELSE "running"

Abstract == INSTANCE LatestWins
                WITH status <- [r \in Requests |-> Status(r)], latest <- current

\* Register, Begin, Bail and Release are the four abstract steps and everything else
\* is a stutter: preemption by cancelled contexts and a mutex is "the latest wins".
ImplementsLatestWins == Abstract!Spec

\* A motion command, from the request to the answer, as MotionLoop has it in real time.
InMotion(r) == cmd[r] \in Pulsed \cup Driven
CallPhase(r) ==
    IF pc[r] \in {"loop", "stopping"} THEN "driving"
    ELSE IF InMotion(r) /\ pc[r] \in {"reply", "closing", "release", "done"} THEN "over"
    ELSE "called"

Call(r) == INSTANCE MotionCall
               WITH phase <- CallPhase(r),
                    result <- IF CallPhase(r) = "over" /\ resp[r] # "preempted"
                              THEN resp[r] ELSE "none",
                    desk <- IF motor = r THEN "moving" ELSE "rest"

\* However requests cancel each other, each motion command is a MotionCall, the promise that
\* MotionLoop keeps against the clock: it drives the desk from its first pulse to its
\* stop, answers once, and none of its pulses comes after that (server.go:140-181,
\* monitor.go:73-80).
MotionsAreCalls ==
    /\ \A r \in Requests : Call(r)!Init
    /\ [][\A r \in Requests : [Call(r)!Next]_(Call(r)!vars)]_vars

----------------------------------------------------------------------------
\* Liveness, under FairSpec.

\* Every accepted connection is answered or closed: preempted requests, requests
\* queued behind a motion and requests caught by the shutdown too (server.go:97-138).
EveryRequestAnswered ==
    \A r \in Requests : pc[r] = "accepted" ~> got[r] # "nothing"

\* A quit that was dispatched ends the daemon, whatever else is queued
\* (server.go:134-137, main.go:143).
QuitStops ==
    \A r \in Requests : cmd[r] = "quit" /\ resp[r] = "ok" ~> main = "exited"
=============================================================================
