------------------------------ MODULE CLibrary ------------------------------
(***************************************************************************)
(* The C library (clib/clib.go): exported functions that any thread of a   *)
(* C program may call on a desk handle, over two registries of cancel      *)
(* functions: one per handle for the wait in flight (cmdCancels), one per  *)
(* token for the listeners (cancelHandles).                                *)
(*                                                                         *)
(* A call is one invocation, by whatever thread.  The callers are taken to *)
(* keep to the life of a handle (clib.go:20-22): they begin no call on it  *)
(* before yaasa_connect returned it or once they have begun its            *)
(* yaasa_disconnect.  Calls begun earlier may still be under way then.     *)
(* Handles of runtime/cgo are never used twice.                            *)
(*                                                                         *)
(* A write may fail at any time, and then never left the host; one that    *)
(* succeeds reaches the desk, unless the link is already down: the stack   *)
(* takes it and drops it (adapter_darwin.go:473-485).  Time is abstract.   *)
(***************************************************************************)
EXTENDS Naturals, FiniteSets

CONSTANTS Calls,    \* the calls made, each once
          Handles,  \* the handles yaasa_connect may return
          NoCall,   \* "no call", a value outside Calls
          Ops       \* the functions called

AllOps == {"wait", "move", "stop", "query", "listen", "disconnect", "cancel", "unlisten"}
    \* yaasa_wait_for_*, yaasa_move_*, yaasa_stop, the functions that ask the desk,
    \* yaasa_add_*_listener, yaasa_disconnect, yaasa_cancel_command and _listener

ASSUME NoCallAssumption == NoCall \notin Calls
ASSUME OpsAssumption == Ops \subseteq AllOps

VARIABLES
    at,         \* where each call is
    op,         \* the function it runs
    on,         \* the handle it was given
    result,     \* what it returns
    handle,     \* each handle: unused, open, its link down, or deleted
    cancels,    \* cmdCancels: the wait whose cancel function is stored for a handle
    cancelled,  \* the context of the wait is done
    target,     \* the call whose cancel function this call took, or is to take
    tokens,     \* cancelHandles: the listeners, as the calls that added them
    removed,    \* history: how often the cancel function of a listener ran
    motor,      \* the call whose pulse keeps the desk moving, if it moves
    lost,       \* history: the stop of the call failed
    shared,     \* history: another wait was under way on the handle at the same time
    crashed     \* a panic ended the process

calls     == <<op, on>>
registry  == <<cancels, cancelled>>
listeners == <<tokens, removed>>
desk      == <<motor, lost>>
vars      == <<at, calls, result, handle, registry, target, listeners, desk, shared, crashed>>

\* What a wait goes through with its cancel function stored, or thought to be.
Registered == {"wake", "first", "loop", "stopping", "clear"}
Places     == Registered \cup {"idle", "entered", "store", "act", "unlink", "delete",
                               "file", "fire", "done"}

TypeOK ==
    /\ at \in [Calls -> Places]
    /\ op \in [Calls -> AllOps \cup {"none"}]
    /\ on \in [Calls -> Handles]
    /\ result \in [Calls -> {"none", "ok", "err"}]
    /\ handle \in [Handles -> {"unused", "open", "down", "deleted"}]
    /\ cancels \in [Handles -> Calls \cup {NoCall}]
    /\ cancelled \in [Calls -> BOOLEAN]
    /\ target \in [Calls -> Calls \cup {NoCall}]
    /\ \A c \in Calls : at[c] = "fire" => target[c] # NoCall
    /\ tokens \subseteq Calls
    /\ removed \in [Calls -> Nat]
    /\ motor \in [Handles -> Calls \cup {NoCall}]
    /\ lost \in [Calls -> BOOLEAN]
    /\ shared \in [Calls -> BOOLEAN]
    /\ crashed \in BOOLEAN

Init ==
    /\ at = [c \in Calls |-> "idle"]
    /\ op = [c \in Calls |-> "none"]
    /\ on \in {[c \in Calls |-> h] : h \in Handles}
    /\ result = [c \in Calls |-> "none"]
    /\ handle = [h \in Handles |-> "unused"]
    /\ cancels = [h \in Handles |-> NoCall]
    /\ cancelled = [c \in Calls |-> FALSE]
    /\ target = [c \in Calls |-> NoCall]
    /\ tokens = {}
    /\ removed = [c \in Calls |-> 0]
    /\ motor = [h \in Handles |-> NoCall]
    /\ lost = [c \in Calls |-> FALSE]
    /\ shared = [c \in Calls |-> FALSE]
    /\ crashed = FALSE

At(c, place)   == ~crashed /\ at[c] = place
Goto(c, place) == at' = [at EXCEPT ![c] = place]
Finish(c, place, r) == Goto(c, place) /\ result' = [result EXCEPT ![c] = r]
Under(c) == at[c] \notin {"idle", "done"}

\* Writes of call c reach the desk.
LinkUp(c) == handle[on[c]] = "open"

----------------------------------------------------------------------------
\* Handles and entry.

\* yaasa_connect succeeds; a failed one leaves no trace.
Connect(h) ==
    /\ ~crashed /\ handle[h] = "unused"
    /\ handle' = [handle EXCEPT ![h] = "open"]
    /\ UNCHANGED <<at, calls, result, registry, target, listeners, desk, shared, crashed>>

\* The caller's half of the contract on handles.
Usable(h) ==
    handle[h] = "open" /\ \A d \in Calls : ~(op[d] = "disconnect" /\ on[d] = h)

\* The listeners whose token the caller has; the waits under way on a handle.
Added == {x \in Calls : op[x] = "listen" /\ at[x] = "done"}
WaitsOn(h) == {d \in Calls : op[d] = "wait" /\ on[d] = h /\ Under(d)}

\* A thread calls function k on handle h; yaasa_cancel_listener is given the token of a
\* listener x that some call has returned, and no handle: its h says nothing.
Enter(c, k, h, x) ==
    /\ At(c, "idle")
    /\ IF k = "unlisten" THEN x \in Added ELSE x = NoCall /\ Usable(h)
    /\ op' = [op EXCEPT ![c] = k]
    /\ on' = [on EXCEPT ![c] = h]
    /\ target' = [target EXCEPT ![c] = x]
    /\ shared' = [d \in Calls |->
                    \/ shared[d]
                    \/ k = "wait" /\ d = c /\ WaitsOn(h) # {}
                    \/ k = "wait" /\ d \in WaitsOn(h)]
    /\ Goto(c, "entered")
    /\ UNCHANGED <<result, handle, registry, listeners, desk, crashed>>

\* Where a function goes once it has the Desk.
Body(k) ==
    CASE k = "wait" -> "store"
      [] k = "move" -> "wake"
      [] k = "disconnect" -> "unlink"
      [] OTHER -> "act"

\* cgo.Handle(handle).Value() gives the Desk, which the call keeps.
Resolve(c) ==
    /\ At(c, "entered") /\ op[c] \notin {"cancel", "unlisten"}
    /\ handle[on[c]] # "deleted"
    /\ Goto(c, Body(op[c]))
    /\ UNCHANGED <<calls, result, handle, registry, target, listeners, desk, shared, crashed>>

\* Value() panics on a deleted handle, and nothing recovers.
Panic(c) ==
    /\ At(c, "entered") /\ op[c] \notin {"cancel", "unlisten"}
    /\ handle[on[c]] = "deleted"
    /\ crashed' = TRUE
    /\ UNCHANGED <<at, calls, result, handle, registry, target, listeners, desk, shared>>

\* yaasa_disconnect takes the link down, then deletes the handle.
Unlink(c) ==
    /\ At(c, "unlink")
    /\ handle' = [handle EXCEPT ![on[c]] = "down"]
    /\ Goto(c, "delete")
    /\ UNCHANGED <<calls, result, registry, target, listeners, desk, shared, crashed>>
Delete(c) ==
    /\ At(c, "delete")
    /\ handle' = [handle EXCEPT ![on[c]] = "deleted"]
    /\ Finish(c, "done", "ok")
    /\ UNCHANGED <<calls, registry, target, listeners, desk, shared, crashed>>

----------------------------------------------------------------------------
\* Motion: yaasa_wait_for_height and _preset, yaasa_move_up and _down.

\* setCommandCancel, whoever else is registered for the handle.
SetCommandCancel(c) ==
    /\ At(c, "store")
    /\ cancels' = [cancels EXCEPT ![on[c]] = c]
    /\ Goto(c, "wake")
    /\ UNCHANGED <<calls, result, handle, cancelled, target, listeners, desk, shared, crashed>>

\* Where a motion call goes to return.
Exit(c) == IF op[c] = "wait" THEN "clear" ELSE "done"

\* Mutant of Wake: it returns without running the deferred clearCommandCancel.
WakeLeaves(c) ==
    /\ At(c, "wake")
    /\ \/ Goto(c, "first") /\ UNCHANGED result
       \/ Finish(c, "done", "err")
    /\ UNCHANGED <<calls, handle, registry, target, listeners, desk, shared, crashed>>

\* Mutant of Wake: its error is not reported.
WakeUnreported(c) ==
    /\ At(c, "wake")
    /\ \/ Goto(c, "first") /\ UNCHANGED result
       \/ Finish(c, Exit(c), "ok")
    /\ UNCHANGED <<calls, handle, registry, target, listeners, desk, shared, crashed>>

Wake(c) ==
    /\ At(c, "wake")
    /\ \/ Goto(c, "first") /\ UNCHANGED result
       \/ Finish(c, Exit(c), "err")
    /\ UNCHANGED <<calls, handle, registry, target, listeners, desk, shared, crashed>>

Moves(c) == motor' = IF LinkUp(c) THEN [motor EXCEPT ![on[c]] = c] ELSE motor

\* The first pulse.  When it fails, a move still stops the desk and a wait does not.
FirstPulse(c) ==
    /\ At(c, "first")
    /\ \/ Moves(c) /\ Goto(c, "loop") /\ UNCHANGED result
       \/ Finish(c, IF op[c] = "wait" THEN "clear" ELSE "stopping", "err") /\ UNCHANGED motor
    /\ UNCHANGED <<calls, handle, registry, target, listeners, lost, shared, crashed>>

\* A tick: one more pulse, or a failure that ends the call.
Tick(c) ==
    /\ At(c, "loop")
    /\ \/ Moves(c) /\ UNCHANGED <<at, result>>
       \/ Finish(c, "stopping", "err") /\ UNCHANGED motor
    /\ UNCHANGED <<calls, handle, registry, target, listeners, lost, shared, crashed>>

\* A move has lasted its time; a wait has arrived or run out of time.
Expire(c) ==
    /\ At(c, "loop")
    /\ \E r \in {"ok", "err"} : (op[c] = "move" => r = "ok") /\ Finish(c, "stopping", r)
    /\ UNCHANGED <<calls, handle, registry, target, listeners, desk, shared, crashed>>

\* The context of a wait is done.
CtxDone(c) ==
    /\ At(c, "loop") /\ cancelled[c]
    /\ Finish(c, "stopping", "err")
    /\ UNCHANGED <<calls, handle, registry, target, listeners, desk, shared, crashed>>

StopSent(c) ==
    /\ motor' = IF LinkUp(c) THEN [motor EXCEPT ![on[c]] = NoCall] ELSE motor
    /\ UNCHANGED lost
StopFails(c) == lost' = [lost EXCEPT ![c] = TRUE] /\ UNCHANGED motor

\* Mutant of StopWrite: a move, like a wait, ignores the error of its stop.
StopWriteIgnored(c) ==
    /\ At(c, "stopping")
    /\ StopSent(c) \/ StopFails(c)
    /\ Goto(c, Exit(c))
    /\ UNCHANGED <<calls, result, handle, registry, target, listeners, shared, crashed>>

\* The stop at the end.  A move reports that it failed, a wait ignores it.
StopWrite(c) ==
    /\ At(c, "stopping")
    /\ \/ StopSent(c) /\ Goto(c, Exit(c)) /\ UNCHANGED result
       \/ /\ StopFails(c)
          /\ Finish(c, Exit(c), IF op[c] = "move" THEN "err" ELSE result[c])
    /\ UNCHANGED <<calls, handle, registry, target, listeners, shared, crashed>>

\* clearCommandCancel, whoever is registered for the handle by now.
ClearCommandCancel(c) ==
    /\ At(c, "clear")
    /\ cancels' = [cancels EXCEPT ![on[c]] = NoCall]
    /\ Goto(c, "done")
    /\ UNCHANGED <<calls, result, handle, cancelled, target, listeners, desk, shared, crashed>>

----------------------------------------------------------------------------
\* The other functions.

\* yaasa_stop: one write.
Stop(c) ==
    /\ At(c, "act") /\ op[c] = "stop"
    /\ \/ StopSent(c) /\ Finish(c, "done", "ok")
       \/ StopFails(c) /\ Finish(c, "done", "err")
    /\ UNCHANGED <<calls, handle, registry, target, listeners, shared, crashed>>

\* Functions that only ask the desk, or wake it; an answer may come from a cache.
Query(c) ==
    /\ At(c, "act") /\ op[c] = "query"
    /\ \E r \in {"ok", "err"} : Finish(c, "done", r)
    /\ UNCHANGED <<calls, handle, registry, target, listeners, desk, shared, crashed>>

\* yaasa_add_*_listener: the desk has the callback and calls it; then registerCancel
\* files its cancel function under a new token.
AddListener(c) ==
    /\ At(c, "act") /\ op[c] = "listen"
    /\ Goto(c, "file")
    /\ UNCHANGED <<calls, result, handle, registry, target, listeners, desk, shared, crashed>>
RegisterCancel(c) ==
    /\ At(c, "file")
    /\ tokens' = tokens \cup {c}
    /\ Finish(c, "done", "ok")
    /\ UNCHANGED <<calls, handle, registry, target, removed, desk, shared, crashed>>

\* yaasa_cancel_command takes the function stored for the handle, if there is one,
\* under the lock, and calls it outside.
TakeCommand(c) ==
    /\ At(c, "entered") /\ op[c] = "cancel"
    /\ LET w == cancels[on[c]] IN
        /\ cancels' = [cancels EXCEPT ![on[c]] = NoCall]
        /\ target' = [target EXCEPT ![c] = w]
        /\ Goto(c, IF w = NoCall THEN "done" ELSE "fire")
    /\ UNCHANGED <<calls, result, handle, cancelled, listeners, desk, shared, crashed>>

\* Mutant of TakeListener: the function is looked up and left in the map.
TakeListenerKeeps(c) ==
    /\ At(c, "entered") /\ op[c] = "unlisten"
    /\ Goto(c, IF target[c] \in tokens THEN "fire" ELSE "done")
    /\ UNCHANGED <<calls, result, handle, registry, target, listeners, desk, shared, crashed>>

\* yaasa_cancel_listener: the same for a token.
TakeListener(c) ==
    /\ At(c, "entered") /\ op[c] = "unlisten"
    /\ tokens' = tokens \ {target[c]}
    /\ Goto(c, IF target[c] \in tokens THEN "fire" ELSE "done")
    /\ UNCHANGED <<calls, result, handle, registry, target, removed, desk, shared, crashed>>

\* Mutant of Fire: only the entry is gone, nothing is called.
FireNothing(c) ==
    /\ At(c, "fire")
    /\ Goto(c, "done")
    /\ UNCHANGED <<calls, result, handle, registry, target, listeners, desk, shared, crashed>>

\* The function taken runs.
Fire(c) ==
    /\ At(c, "fire")
    /\ IF op[c] = "cancel"
       THEN cancelled' = [cancelled EXCEPT ![target[c]] = TRUE] /\ UNCHANGED removed
       ELSE removed' = [removed EXCEPT ![target[c]] = @ + 1] /\ UNCHANGED cancelled
    /\ Goto(c, "done")
    /\ UNCHANGED <<calls, result, handle, cancels, target, tokens, desk, shared, crashed>>

\* The motor stops by itself.
MotorHalts(h) ==
    /\ ~crashed /\ motor[h] # NoCall
    /\ motor' = [motor EXCEPT ![h] = NoCall]
    /\ UNCHANGED <<at, calls, result, handle, registry, target, listeners, lost, shared, crashed>>

----------------------------------------------------------------------------

Motion(c) ==
    \/ SetCommandCancel(c) \/ Wake(c) \/ FirstPulse(c) \/ Tick(c) \/ Expire(c) \/ CtxDone(c)
    \/ StopWrite(c) \/ ClearCommandCancel(c)

Proceed(c) ==
    \/ Resolve(c) \/ Panic(c) \/ Unlink(c) \/ Delete(c)
    \/ Motion(c)
    \/ Stop(c) \/ Query(c) \/ AddListener(c) \/ RegisterCancel(c)
    \/ TakeCommand(c) \/ TakeListener(c) \/ Fire(c)

Next ==
    \/ \E h \in Handles : Connect(h) \/ MotorHalts(h)
    \/ \E c \in Calls :
        \/ \E k \in Ops, h \in Handles, x \in Calls \cup {NoCall} : Enter(c, k, h, x)
        \/ Proceed(c)

Spec == Init /\ [][Next]_vars

----------------------------------------------------------------------------
\* Safety.

\* A wait that moves the desk and has not been cancelled yet.
Cancellable(c) ==
    \/ cancels[on[c]] = c
    \/ cancelled[c]
    \/ \E x \in Calls : at[x] = "fire" /\ op[x] = "cancel" /\ target[x] = c
Waiting(c) == op[c] = "wait" /\ at[c] \in {"wake", "first", "loop"}

\* A wait that never shared its handle with another wait can be cancelled all the time
\* it moves the desk, and a cancel is never swallowed (clib.go:229-243, 273-276).
LoneWaitCancellable ==
    \A c \in Calls : Waiting(c) /\ ~shared[c] => Cancellable(c)

\* "cancels the in-flight yaasa_wait_for_height or yaasa_wait_for_preset call for
\* handle. No-op if no command is running" (clib.go:229-230), from any thread: while
\* waits move the desk of a handle, there is one of them for a cancel to end.
SomeWaitCancellable ==
    \A h \in Handles :
        (\E c \in Calls : on[c] = h /\ Waiting(c))
            => \E c \in Calls : on[c] = h /\ Waiting(c) /\ Cancellable(c)

\* No cancel function outlives its call: what is stored belongs to a wait that has not
\* returned, whichever way it leaves and however waits overlap (clib.go:114-118, 276).
StoredIsUnderWay ==
    \A h \in Handles :
        cancels[h] # NoCall => on[cancels[h]] = h /\ at[cancels[h]] \in Registered

\* As long as the link is up, a call that returned does not leave the desk moving by its
\* own pulses unless its stop failed; and a move then says so (clib.go:361-387,
\* monitor.go:119-133).
MotionEndsWithItsCall ==
    \A c \in Calls :
        at[c] = "done" /\ motor[on[c]] = c /\ LinkUp(c)
            => lost[c] /\ (op[c] = "move" => result[c] = "err")

\* The cancel function of a listener is in the map, in the hands of one call that took
\* it, or has run once: it is neither lost nor run again, which would remove another
\* listener (clib.go:128-136, desk.go:243-249).
ListenerRemovedOnce ==
    \A x \in Calls :
        op[x] = "listen" /\ at[x] = "done" =>
            LET taken == {c \in Calls : at[c] = "fire" /\ op[c] = "unlisten" /\ target[c] = x}
            IN  (IF x \in tokens THEN 1 ELSE 0) + Cardinality(taken) + removed[x] = 1

\* What is registered for a call goes with it, and is called no more than once: the two
\* above together, for the two maps of the library (clib.go:92-136).
RegistriesExact == StoredIsUnderWay /\ ListenerRemovedOnce
----------------------------------------------------------------------------
\* Why they hold: the parts of an inductive invariant (CLibraryProofs).

\* Which function is where.
PlaceInv ==
    \A c \in Calls :
        /\ at[c] = "idle" => op[c] = "none"
        /\ at[c] \in {"store", "clear"} => op[c] = "wait"
        /\ at[c] \in {"wake", "first", "loop", "stopping"} => op[c] \in {"wait", "move"}
        /\ at[c] \in {"unlink", "delete"} => op[c] = "disconnect"
        /\ at[c] = "file" => op[c] = "listen"
        /\ at[c] = "fire" => op[c] \in {"cancel", "unlisten"}

\* Waits that are under way together know of it.
SharedInv ==
    \A c, d \in Calls :
        c # d /\ c \in WaitsOn(on[d]) /\ d \in WaitsOn(on[d]) => shared[c] /\ shared[d]

\* What is stored is a wait's.
StoredInv ==
    \A h \in Handles : cancels[h] # NoCall =>
        op[cancels[h]] = "wait" /\ on[cancels[h]] = h /\ at[cancels[h]] \in Registered

\* A desk moves by the pulses of a motion call, which has not ended unless its stop failed.
MotorInv ==
    \A h \in Handles : motor[h] # NoCall =>
        LET c == motor[h] IN
        /\ on[c] = h /\ op[c] \in {"wait", "move"} /\ handle[h] # "unused"
        /\ at[c] \in {"loop", "stopping", "clear", "done"}
        /\ at[c] \in {"clear", "done"} /\ handle[h] = "open" =>
              lost[c] /\ (op[c] = "move" => result[c] = "err")

\* Only tokens that were returned are in the map, are cancelled or have been.
TokenInv ==
    /\ tokens \subseteq Added
    /\ \A c \in Calls : op[c] = "unlisten" => target[c] \in Added
    /\ \A x \in Calls : removed[x] # 0 => x \in Added

\* A cancel function is in one place.
Took(c, x) == at[c] = "fire" /\ op[c] = "unlisten" /\ target[c] = x
OnceInv ==
    \A x \in Added :
        /\ removed[x] \in {0, 1}
        /\ x \in tokens => removed[x] = 0
        /\ x \notin tokens /\ removed[x] = 0 => \E c \in Calls : Took(c, x)
        /\ \A c \in Calls : Took(c, x) => x \notin tokens /\ removed[x] = 0
        /\ \A c, d \in Calls : Took(c, x) /\ Took(d, x) => c = d

IInv ==
    /\ TypeOK /\ PlaceInv /\ SharedInv /\ StoredInv /\ LoneWaitCancellable
    /\ MotorInv /\ TokenInv /\ OnceInv

----------------------------------------------------------------------------
\* Refinement: each motion call is a MotionCall.

\* A motion call, from its entry to its return, as MotionLoop has it in real time.
InMotion(c) == op[c] \in {"wait", "move"}
CallPhase(c) ==
    IF at[c] \in {"loop", "stopping"} THEN "driving"
    ELSE IF InMotion(c) /\ at[c] \in {"clear", "done"} THEN "over"
    ELSE "called"

Call(c) == INSTANCE MotionCall
               WITH phase <- CallPhase(c),
                    result <- IF CallPhase(c) = "over" THEN result[c] ELSE "none",
                    desk <- IF motor[on[c]] = c THEN "moving" ELSE "rest"

\* Whatever other threads call on its handle, each motion call is a MotionCall, the promise
\* that MotionLoop keeps against the clock: it drives the desk from its first pulse to its
\* stop, returns once and with success only after it has driven, and none of its
\* pulses comes after that (clib.go:250-331, 347-388).
MotionsAreCalls ==
    /\ \A c \in Calls : Call(c)!Init
    /\ [][\A c \in Calls : [Call(c)!Next]_(Call(c)!vars)]_vars
=============================================================================
