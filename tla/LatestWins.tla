----------------------------- MODULE LatestWins -----------------------------
(***************************************************************************)
(* What the daemon promises about the desk, without saying how.            *)
(*                                                                         *)
(* Commands arrive one after another.  At most one of them owns the desk.  *)
(* Only the latest command to have arrived may take it, once the previous  *)
(* owner has let go; a command that a later one overtook before it got the *)
(* desk may be dropped, the latest one never.  CommandServer implements    *)
(* this (internal/ipc/server.go:44-50 and 106-128).                        *)
(***************************************************************************)

CONSTANTS Requests,    \* the commands the daemon's clients send
          NoRequest    \* "no command has arrived yet"

VARIABLES status,      \* what has become of each command
          latest       \* the command that arrived last

Status == {"absent", "pending", "running", "served", "dropped"}

TypeOK ==
    /\ status \in [Requests -> Status]
    /\ latest \in Requests \cup {NoRequest}

vars == <<status, latest>>

Init ==
    /\ status = [r \in Requests |-> "absent"]
    /\ latest = NoRequest

\* A command arrives and overtakes every other one.
Arrive(r) ==
    /\ status[r] = "absent"
    /\ status' = [status EXCEPT ![r] = "pending"]
    /\ latest' = r

\* The latest command takes the desk, which nobody owns.
Start(r) ==
    /\ status[r] = "pending"
    /\ r = latest
    /\ \A q \in Requests : status[q] # "running"
    /\ status' = [status EXCEPT ![r] = "running"]
    /\ UNCHANGED latest

\* The owner lets go of the desk.
Finish(r) ==
    /\ status[r] = "running"
    /\ status' = [status EXCEPT ![r] = "served"]
    /\ UNCHANGED latest

\* An overtaken command is refused without ever touching the desk.
Drop(r) ==
    /\ status[r] = "pending"
    /\ r # latest
    /\ status' = [status EXCEPT ![r] = "dropped"]
    /\ UNCHANGED latest

Next == \E r \in Requests : Arrive(r) \/ Start(r) \/ Finish(r) \/ Drop(r)

Spec == Init /\ [][Next]_vars
==============================================================================
