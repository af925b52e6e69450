--------------------------- MODULE DaemonClients ---------------------------
(***************************************************************************)
(* Commands that look for a daemon and start one if there is none          *)
(* (ensureDaemonClient, cmd/yaasa/main.go:800-871), with the daemons of    *)
(* DaemonSocket.                                                           *)
(*                                                                         *)
(* A command dials the socket; refused, it starts a detached daemon and    *)
(* dials again every 200 ms until it is answered or its deadline passes.   *)
(* It never learns whether the daemon that answers is the one it started,  *)
(* nor that its own has failed; two commands at once start two daemons.    *)
(***************************************************************************)
EXTENDS DaemonSocket

CONSTANT Clients   \* commands

VARIABLES client,   \* each command: idle, refused, polling, served or failed
          started   \* the daemon it started, while it polls for it

clientVars == <<client, started>>
allVars    == <<vars, clientVars>>

ClientsInit ==
    /\ Init
    /\ client = [c \in Clients |-> "idle"]
    /\ started = [c \in Clients |-> NoDaemon]

Turn(c, place) == client' = [client EXCEPT ![c] = place]

\* daemonClient dials the socket once.
Ask(c) ==
    /\ client[c] = "idle"
    /\ Turn(c, IF Answers THEN "served" ELSE "refused")
    /\ UNCHANGED <<vars, started>>

\* startDetachedDaemon: a process of its own session, released at once; opening the log
\* or starting the process may fail.
StartDetached(c) ==
    /\ client[c] = "refused"
    /\ \/ \E d \in Daemons : Start(d) /\ started' = [started EXCEPT ![c] = d] /\ Turn(c, "polling")
       \/ Turn(c, "failed") /\ UNCHANGED <<vars, started>>

\* One of the dials every 200 ms is answered, by whichever daemon has the socket.
Poll(c) ==
    /\ client[c] = "polling" /\ Answers
    /\ Turn(c, "served")
    /\ started' = [started EXCEPT ![c] = NoDaemon]
    /\ UNCHANGED vars

\* The deadline, connect timeout plus five seconds, passes between two dials.
Expire(c) ==
    /\ client[c] = "polling"
    /\ Turn(c, "failed")
    /\ started' = [started EXCEPT ![c] = NoDaemon]
    /\ UNCHANGED vars

ClientsNext ==
    \/ Next /\ UNCHANGED clientVars
    \/ \E c \in Clients : Ask(c) \/ StartDetached(c) \/ Poll(c) \/ Expire(c)

\* Started processes are scheduled and a polling command dials again and again; nothing
\* forces a command, a stop, a crash or a deadline.
ClientsSpec ==
    /\ ClientsInit /\ [][ClientsNext]_allVars
    /\ \A d \in Daemons : WF_allVars(Proceed(d) /\ UNCHANGED clientVars)
    /\ \A c \in Clients : WF_allVars(Poll(c))

----------------------------------------------------------------------------
\* Properties.

\* A command that has to poll gets a daemon: its own, or one that another command
\* started and that answers first - unless its deadline passes, its daemon ends, or a
\* second daemon comes, whose way in or out may take the file from the first
\* (main.go:816-837, "Once the daemon is running all other yaasa commands use it
\* automatically", main.go:82-83).
PollingIsServed ==
    \A c \in Clients, d \in Daemons :
        client[c] = "polling" /\ started[c] = d /\ at[d] \in {"connecting", "probing"}
              /\ Undisturbed(d)
            ~> client[c] # "polling" \/ at[d] = "gone" \/ ~Undisturbed(d)
=============================================================================
