----------------------------- MODULE MotionCall -----------------------------
(***************************************************************************)
(* What the callers of a motion rely on (CommandServer, CLibrary, and the  *)
(* documentation of WaitForHeight and WaitForPreset, monitor.go:73-80 and  *)
(* 138-150): a call drives the desk while it is under way, returns once,   *)
(* and from then on the desk only comes to rest - by itself at the latest, *)
(* if the last write of the call was lost.                                 *)
(***************************************************************************)
VARIABLES phase,   \* "called", "driving" or "over"
          result,  \* "none", "ok" or "err"
          desk     \* "rest" or "moving"

vars == <<phase, result, desk>>

Init == phase = "called" /\ result = "none" /\ desk = "rest"

\* The first pulse is written.
Begin ==
    /\ phase = "called" /\ phase' = "driving"
    /\ desk' \in {desk, "moving"}
    /\ UNCHANGED result

\* The desk starts moving: only for a call that drives it.
Go == phase = "driving" /\ desk' = "moving" /\ UNCHANGED <<phase, result>>

\* The desk comes to rest.
Rest == desk' = "rest" /\ UNCHANGED <<phase, result>>

\* The call returns, or its process dies without a result.
End(r) ==
    /\ phase \in {"called", "driving"} /\ phase' = "over"
    /\ r = "ok" => phase = "driving"
    /\ result' = r
    /\ desk' \in {desk, "rest"}

Next == Begin \/ Go \/ Rest \/ \E r \in {"none", "ok", "err"} : End(r)

Spec == Init /\ [][Next]_vars
=============================================================================
