---------------------------- MODULE DaemonSocket ----------------------------
(***************************************************************************)
(* Daemon processes and the one socket file they share                     *)
(* (cmd/yaasa/main.go:74-151, internal/ipc/unix.go:41-53).                 *)
(*                                                                         *)
(* Every command line that finds no daemon starts one, so several may      *)
(* start, run and stop at once.  A daemon connects to the desk, probes the *)
(* socket, removes what it takes for a stale file, binds, serves, and on   *)
(* the way out closes its listener and removes the file once more.  Each   *)
(* of these is a system call of its own, and a process may die between any *)
(* two of them.                                                            *)
(*                                                                         *)
(* The file is represented by the daemon whose bind created it: dialling   *)
(* the path reaches that daemon while its listener is open, and is refused *)
(* afterwards.                                                             *)
(***************************************************************************)
CONSTANTS Daemons,    \* daemon processes, each started at most once
          NoDaemon    \* "the path does not exist"

ASSUME NoDaemonAssumption == NoDaemon \notin Daemons

VARIABLES
    at,        \* where each process is
    file,      \* the daemon whose bind made the socket file, or NoDaemon
    open,      \* the daemons whose listener accepts connections
    crashed,   \* history: the daemons that died without running their defers
    alone      \* history: since d bound, no other daemon was past its probe

vars == <<at, file, open, crashed, alone>>

\* Places from the probe on, where a process may still touch the socket file.
Past   == {"unlinking", "binding", "serving", "closing", "cleaning"}
Places == Past \cup {"idle", "connecting", "probing", "gone"}

TypeOK ==
    /\ at \in [Daemons -> Places]
    /\ file \in Daemons \cup {NoDaemon}
    /\ open \in SUBSET Daemons
    /\ crashed \in SUBSET Daemons
    /\ alone \in SUBSET Daemons

Init ==
    /\ at = [d \in Daemons |-> "idle"]
    /\ file = NoDaemon
    /\ open = {}
    /\ crashed = {}
    /\ alone = {}

Goto(d, place) == at' = [at EXCEPT ![d] = place]
Answers == file \in open

\* A command finds no daemon and starts one, or the user runs "yaasa daemon".
Start(d) ==
    /\ at[d] = "idle"
    /\ Goto(d, "connecting")
    /\ UNCHANGED <<file, open, crashed, alone>>

\* Mutant of Connect: the removal is deferred before the connection is made.
ConnectCleans(d) ==
    /\ at[d] = "connecting"
    /\ \/ Goto(d, "probing") /\ UNCHANGED file
       \/ Goto(d, "gone") /\ file' = NoDaemon
    /\ UNCHANGED <<open, crashed, alone>>

\* connectDesk and saveDefaultAddress; a failure of either returns before the
\* deferred removal of the socket file is registered.
Connect(d) ==
    /\ at[d] = "connecting"
    /\ \/ Goto(d, "probing")
       \/ Goto(d, "gone")
    /\ UNCHANGED <<file, open, crashed, alone>>

\* Listen dials the path.  An answer means "already running": Listen fails and the
\* deferred Disconnect and Remove run.
Probe(d) ==
    /\ at[d] = "probing"
    /\ Goto(d, IF Answers THEN "cleaning" ELSE "unlinking")
    /\ alone' = alone \cap {d}
    /\ UNCHANGED <<file, open, crashed>>

\* Mutant of Unlink: the stale file is left alone.
UnlinkNothing(d) ==
    /\ at[d] = "unlinking"
    /\ Goto(d, "binding")
    /\ UNCHANGED <<file, open, crashed, alone>>

\* os.Remove of what the probe took for stale.
Unlink(d) ==
    /\ at[d] = "unlinking"
    /\ file' = NoDaemon
    /\ Goto(d, "binding")
    /\ UNCHANGED <<open, crashed, alone>>

\* Mutant of Bind: the daemon derives another path from the address than the commands dial.
BindElsewhere(d) ==
    /\ at[d] = "binding"
    /\ open' = open \cup {d}
    /\ Goto(d, "serving")
    /\ UNCHANGED <<file, crashed, alone>>

\* net.Listen, which fails when the path exists.
Bind(d) ==
    /\ at[d] = "binding"
    /\ IF file = NoDaemon
       THEN /\ file' = d
            /\ open' = open \cup {d}
            /\ Goto(d, "serving")
            /\ alone' = IF \A e \in Daemons \ {d} : at[e] \notin Past
                        THEN alone \cup {d} ELSE alone
       ELSE Goto(d, "cleaning") /\ UNCHANGED <<file, open, alone>>
    /\ UNCHANGED crashed

\* Mutant of Stop: a signal kills the process.
StopKills(d) ==
    /\ at[d] = "serving"
    /\ open' = open \ {d}
    /\ Goto(d, "gone")
    /\ UNCHANGED <<file, crashed, alone>>

\* A signal, a quit or an error of Serve; closing the listener unlinks the path ...
Stop(d) ==
    /\ at[d] = "serving"
    /\ file' = NoDaemon
    /\ Goto(d, "closing")
    /\ UNCHANGED <<open, crashed, alone>>

\* ... and then closes the descriptor.
CloseListener(d) ==
    /\ at[d] = "closing"
    /\ open' = open \ {d}
    /\ Goto(d, "cleaning")
    /\ UNCHANGED <<file, crashed, alone>>

\* The deferred Disconnect and os.Remove, then the process ends.
Clean(d) ==
    /\ at[d] = "cleaning"
    /\ file' = NoDaemon
    /\ Goto(d, "gone")
    /\ UNCHANGED <<open, crashed, alone>>

\* The process dies: its listener closes, the file stays.
Crash(d) ==
    /\ at[d] \notin {"idle", "gone"}
    /\ Goto(d, "gone")
    /\ open' = open \ {d}
    /\ crashed' = crashed \cup {d}
    /\ UNCHANGED <<file, alone>>

\* What a started process does unless it is stopped or killed.
Proceed(d) ==
    \/ Connect(d) \/ Probe(d) \/ Unlink(d) \/ Bind(d) \/ CloseListener(d) \/ Clean(d)

Next == \E d \in Daemons : Start(d) \/ Proceed(d) \/ Stop(d) \/ Crash(d)

Spec == Init /\ [][Next]_vars

\* Processes are scheduled; nothing forces a start, a stop or a crash.
FairSpec == Spec /\ \A d \in Daemons : WF_vars(Proceed(d))

----------------------------------------------------------------------------
\* Safety.

\* A daemon that was never disturbed is the one every command reaches: daemons that
\* fail to connect, crashed ones and the stale files they left do it no harm
\* (main.go:92-110, unix.go:41-53).
ReachableWhenAlone ==
    \A d \in Daemons : at[d] = "serving" /\ d \in alone => Answers /\ file = d

\* "A daemon that exits cleanly removes its socket file" (unix.go:17): once every
\* process has ended, a file is left only where one of them crashed.
CleanExitsLeaveNothing ==
    (\A d \in Daemons : at[d] \in {"idle", "gone"}) /\ crashed = {} => file = NoDaemon

\* "Once the daemon is running all other yaasa commands use it automatically"
\* (main.go:82-83): a serving daemon can be reached.
RunningIsReachable ==
    \A d \in Daemons : at[d] = "serving" => file = d

----------------------------------------------------------------------------
\* Liveness, under FairSpec.

\* "A stale socket file left by a crashed daemon is removed automatically before
\* binding" (unix.go:38-40): a daemon that gets to its probe with no other process
\* about ends up serving, unless it dies or another one comes.
Undisturbed(d) == \A e \in Daemons \ {d} : at[e] \in {"idle", "gone"}
StaleFileIsNoObstacle ==
    \A d \in Daemons :
        at[d] = "probing" /\ Undisturbed(d)
            ~> (at[d] = "serving" /\ file = d) \/ d \in crashed \/ ~Undisturbed(d)

----------------------------------------------------------------------------
\* The inductive invariants behind ReachableWhenAlone and CleanExitsLeaveNothing
\* (DaemonSocketProofs).

\* Only a process past its probe touches the file, and an undisturbed daemon is the
\* only one of them.
AloneInv ==
    /\ \A d \in Daemons : at[d] = "serving" => d \in open
    /\ \A d \in Daemons : at[d] = "serving" /\ d \in alone
          => file = d /\ \A e \in Daemons \ {d} : at[e] \notin Past
    /\ \A d \in Daemons : at[d] \in Places \ {"serving", "closing", "cleaning", "gone"}
          => d \notin alone

\* The file is that of a daemon that still serves, or of one that crashed.
FileInv == file # NoDaemon => at[file] = "serving" \/ file \in crashed
=============================================================================
