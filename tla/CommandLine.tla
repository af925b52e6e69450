---------------------------- MODULE CommandLine ----------------------------
(***************************************************************************)
(* Command-line processes at work with the daemon of CommandServer         *)
(* (cmd/yaasa/main.go, internal/ipc/client.go).                            *)
(*                                                                         *)
(* A command dials the daemon, sends one request and waits for the answer. *)
(* Motion commands do so in runInterruptible: on Ctrl-C the process dials  *)
(* once more, sends a stop, waits for its answer, and then still waits for *)
(* the first request.  Both requests are goroutines of the same server and *)
(* may register in either order; other clients come in between, and the    *)
(* daemon may shut down at any point.                                      *)
(***************************************************************************)
EXTENDS CommandServer

CONSTANT Shells   \* command-line processes

ASSUME StopAssumption == "stop" \in Commands

VARIABLES shell,    \* each process: idle, running, interrupted, dialled, draining,
                    \* exited (on an answer) or gone
          asked,    \* the command it was called with
          own,      \* the connection of its request
          stopping  \* the connection of the stop that its interruption sends

shellVars == <<asked, own, stopping>>
lineVars  == <<vars, shell, shellVars>>

Interruptible == Pulsed \cup Driven
Taken == {own[s] : s \in Shells} \cup {stopping[s] : s \in Shells}
Free(r) == pc[r] = "new" /\ r \notin Taken

LineInit ==
    /\ Init
    /\ shell = [s \in Shells |-> "idle"]
    /\ asked = [s \in Shells |-> "none"]
    /\ own = [s \in Shells |-> NoRequest]
    /\ stopping = [s \in Shells |-> NoRequest]

Become(s, place) == shell' = [shell EXCEPT ![s] = place]

\* daemonClient dials; Do sends the request.
Run(s, r, c) ==
    /\ shell[s] = "idle" /\ Free(r)
    /\ Accept(r) /\ own' = [own EXCEPT ![s] = r] /\ asked' = [asked EXCEPT ![s] = c]
    /\ Become(s, "running")
    /\ UNCHANGED stopping

\* Do has read a response or the end of the connection: the process exits with it.
Finish(s) ==
    /\ shell[s] = "running" /\ got[own[s]] # "nothing"
    /\ Become(s, "exited")
    /\ UNCHANGED <<vars, shellVars>>

\* A signal.  A motion command will send a stop on connection r (there must be one left
\* among Requests); others die of it, and the daemon goes on with their request.
Interrupt(s, r) ==
    /\ shell[s] = "running" /\ Free(r)
    /\ IF asked[s] \in Interruptible
       THEN Become(s, "interrupted") /\ stopping' = [stopping EXCEPT ![s] = r]
       ELSE Become(s, "gone") /\ UNCHANGED stopping
    /\ UNCHANGED <<vars, asked, own>>

\* The stop goes out on a connection of its own, if the daemon still listens.
SendStop(s) ==
    /\ shell[s] = "interrupted"
    /\ \/ Accept(stopping[s]) /\ Become(s, "dialled")
       \/ ~listening /\ Become(s, "draining") /\ UNCHANGED vars
    /\ UNCHANGED shellVars

\* Mutant of StopAnswered: the process waits for a response that may never come.
StopAcknowledged(s) ==
    /\ shell[s] = "dialled" /\ got[stopping[s]] = "answer"
    /\ Become(s, "draining")
    /\ UNCHANGED <<vars, shellVars>>

\* The stop was answered, refused as preempted, or its connection ended: any will do.
StopAnswered(s) ==
    /\ shell[s] = "dialled" /\ got[stopping[s]] # "nothing"
    /\ Become(s, "draining")
    /\ UNCHANGED <<vars, shellVars>>

\* Mutant of Drain: the interrupted process does not wait for its own request.
DrainNothing(s) ==
    /\ shell[s] = "draining"
    /\ Become(s, "exited")
    /\ UNCHANGED <<vars, shellVars>>

\* <-errCh: the interrupted process exits once its own request has ended.
Drain(s) ==
    /\ shell[s] = "draining" /\ got[own[s]] # "nothing"
    /\ Become(s, "exited")
    /\ UNCHANGED <<vars, shellVars>>

\* The client's own deadline (client.go:37-44) ends a Do before any answer.
GiveUp(s) ==
    /\ \/ shell[s] \in {"running", "draining"} /\ Become(s, "gone")
       \/ shell[s] = "dialled" /\ Become(s, "draining")
    /\ UNCHANGED <<vars, shellVars>>

ShellWork(s) == Finish(s) \/ SendStop(s) \/ StopAnswered(s) \/ Drain(s)

\* A step of the daemon, the desk or another client.  The connections of a process are
\* accepted when it dials, and carry what it was called with and the stop.
ServerStep ==
    /\ Next
    /\ \A r \in Taken \ {NoRequest} : pc[r] = "new" => pc'[r] = "new"
    /\ \A s \in Shells :
          /\ own[s] # NoRequest => cmd'[own[s]] \in {"none", asked[s]}
          /\ stopping[s] # NoRequest => cmd'[stopping[s]] \in {"none", "stop"}
    /\ UNCHANGED <<shell, shellVars>>

LineNext ==
    \/ ServerStep
    \/ \E s \in Shells, r \in Requests, c \in Commands : Run(s, r, c)
    \/ \E s \in Shells, r \in Requests : Interrupt(s, r)
    \/ \E s \in Shells : GiveUp(s) \/ ShellWork(s)

\* The fairness of CommandServer, and processes that are scheduled.  Nothing forces a
\* command, a signal or a deadline of a client.
LineFairness ==
    /\ \A r \in Requests : WF_lineVars(Proceed(r) /\ UNCHANGED <<shell, shellVars>>)
    /\ WF_lineVars((QuitReceived \/ Exit) /\ UNCHANGED <<shell, shellVars>>)
    /\ \A s \in Shells : WF_lineVars(ShellWork(s))

LineSpec == LineInit /\ [][LineNext]_lineVars /\ LineFairness

----------------------------------------------------------------------------
\* Properties.

\* A motion command that exits on an answer leaves no motion of its own behind,
\* interrupted or not and in whichever order its request and its stop registered
\* (main.go:941-949), as long as the daemon lives and the desk took the stop.
ExitMeansRest ==
    \A s \in Shells :
        shell[s] = "exited" /\ Alive => motor # own[s] \/ stopLost

\* Why it holds (CommandLineProofs): while the daemon lives a client reads something only
\* once its request is past the desk, and a process keeps the connection it dialled.
AnsweredInv ==
    \A r \in Requests :
        Alive /\ got[r] # "nothing" => pc[r] \in {"closing", "release", "done"}
ShellInv ==
    /\ shell \in [Shells -> {"idle", "running", "interrupted", "dialled", "draining", "exited",
                           "gone"}]
    /\ own \in [Shells -> Requests \cup {NoRequest}]
    /\ stopping \in [Shells -> Requests \cup {NoRequest}]
    /\ \A s \in Shells :
          /\ shell[s] # "idle" => own[s] \in Requests
          /\ shell[s] \in {"interrupted", "dialled", "draining"} =>
                stopping[s] \in Requests \/ ~listening
          /\ shell[s] = "exited" => got[own[s]] # "nothing"

\* An interrupted command exits: neither the stop, which waits for the mutex that the
\* motion holds, nor newer requests, which refuse it, nor a shutdown, which refuses
\* or drops its connection, can hold it up (main.go:941-949, server.go:106-128).
InterruptedExits ==
    \A s \in Shells : shell[s] = "interrupted" ~> shell[s] \in {"exited", "gone"}
=============================================================================
