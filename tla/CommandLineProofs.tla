-------------------------- MODULE CommandLineProofs --------------------------
(***************************************************************************)
(* Proofs about CommandLine, for any processes and any connections: the    *)
(* system with its processes is one of the behaviours of CommandServer, so *)
(* that everything proved of the server holds of it, and a motion command  *)
(* that exits on an answer leaves no motion of its own.                    *)
(***************************************************************************)
EXTENDS CommandLine, CommandServerProofs

USE StopAssumption

LEMMA LineStart == LineInit => Init /\ ShellInv /\ AnsweredInv
BY DEF LineInit, Init, ShellInv, AnsweredInv

\* A step of a process is an accepted connection or none of the server's business.
LEMMA LineSteps ==
    ASSUME ShellInv, [LineNext]_lineVars
    PROVE  [Next]_vars
<1>1. CASE ServerStep
    BY <1>1 DEF ServerStep
<1>2. ASSUME NEW s \in Shells, NEW r \in Requests, NEW c \in Commands, Run(s, r, c)
      PROVE  Next
    BY <1>2 DEF Run, Next
<1>3. ASSUME NEW s \in Shells, SendStop(s) PROVE [Next]_vars
    <2>1. CASE ~listening
        BY <1>3, <2>1 DEF SendStop, Accept
    <2>2. CASE listening
        <3>1. stopping[s] \in Requests /\ Accept(stopping[s])
            BY <1>3, <2>2 DEF SendStop, ShellInv
        <3>. QED  BY <3>1 DEF Next
    <2>. QED  BY <2>1, <2>2
<1>4. ASSUME NEW s \in Shells,
             \/ Finish(s) \/ StopAnswered(s) \/ Drain(s) \/ GiveUp(s)
             \/ \E r \in Requests : Interrupt(s, r)
      PROVE  UNCHANGED vars
    BY <1>4 DEF Finish, StopAnswered, Drain, GiveUp, Interrupt
<1>5. CASE UNCHANGED lineVars
    BY <1>5 DEF lineVars
<1>. QED
    BY <1>1, <1>2, <1>3, <1>4, <1>5 DEF LineNext, ShellWork

\* What a client has read it keeps, and it reads only when its request is past the desk.
LEMMA StepAnswered ==
    ASSUME TypeOK, AnsweredInv, [Next]_vars
    PROVE  AnsweredInv' /\ \A r \in Requests : got[r] # "nothing" => got'[r] # "nothing"
<1>. USE DEF TypeOK, AnsweredInv, At, Goto, Return, Alive, order, deskVars, life
<1>1. ASSUME NEW r \in Requests,
             \/ Accept(r) \/ DecodeFails(r) \/ (\E c \in Commands : Register(r, c))
             \/ Lock(r) \/ Release(r)
      PROVE  AnsweredInv' /\ \A q \in Requests : got[q] # "nothing" => got'[q] # "nothing"
    BY <1>1 DEF Accept, DecodeFails, Register, Lock, Release
<1>2. ASSUME NEW r \in Requests, Inside(r)
      PROVE  AnsweredInv' /\ \A q \in Requests : got[q] # "nothing" => got'[q] # "nothing"
    <2>1. CASE Reply(r)
        BY <2>1 DEF Reply
    <2>2. CASE CloseQuit(r)
        BY <2>2 DEF CloseQuit
    <2>3. CASE ~Reply(r) /\ ~CloseQuit(r)
        <3>1. got' = got /\ main' = main
            BY <1>2, <2>3 DEF Inside, Bail, Begin, Switch, Wake, FirstPulse, Tick, LeaveLoop,
               StopWrite, Write, Query, Await, request
        <3>2. /\ \A q \in Requests : q # r => pc'[q] = pc[q]
              /\ Alive => pc[r] \notin {"closing", "release", "done"}
            BY <1>2, <2>3, InsideKeeps DEF Inside, Bail, Begin, Switch, Wake, FirstPulse, Tick,
               LeaveLoop, StopWrite, Write, Query, Await
        <3>. QED  BY <3>1, <3>2
    <2>. QED  BY <2>1, <2>2, <2>3
<1>3. CASE Exit
    BY <1>3 DEF Exit
<1>4. CASE Interrupted \/ QuitReceived \/ MotorHalts \/ UNCHANGED vars
    BY <1>4 DEF Interrupted, QuitReceived, MotorHalts, vars, request
<1>. QED
    BY <1>1, <1>2, <1>3, <1>4, Cases DEF Outside

\* The listener is never opened again.
LEMMA StaysClosed == ASSUME [Next]_vars, ~listening PROVE ~listening'
BY DEF Next, Proceed, Accept, Tick, DecodeFails, Register, Lock, Bail, Begin, Switch, Wake,
   FirstPulse, CtxDone, Deadline, TickFails, Arrived, LeaveLoop, StopWrite, Write, Query, Await,
   Reply, CloseQuit, Release, Interrupted, QuitReceived, Exit, MotorHalts, vars, life

LEMMA StepShell ==
    ASSUME TypeOK, AnsweredInv, ShellInv, [LineNext]_lineVars
    PROVE  ShellInv'
<1>1. /\ \A r \in Requests : got[r] # "nothing" => got'[r] # "nothing"
      /\ ~listening => ~listening'
    BY LineSteps, StepAnswered, StaysClosed
<1>. USE <1>1 DEF ShellInv, Become, shellVars
<1>2. CASE ServerStep
    BY <1>2 DEF ServerStep
<1>3. ASSUME NEW s \in Shells, NEW r \in Requests, NEW c \in Commands, Run(s, r, c)
      PROVE  ShellInv'
    BY <1>3 DEF Run
<1>4. ASSUME NEW s \in Shells, NEW r \in Requests, Interrupt(s, r) PROVE ShellInv'
    BY <1>4 DEF Interrupt
<1>5. ASSUME NEW s \in Shells, SendStop(s) \/ StopAnswered(s) \/ GiveUp(s) PROVE ShellInv'
    BY <1>5 DEF SendStop, StopAnswered, GiveUp
<1>6. ASSUME NEW s \in Shells, Finish(s) \/ Drain(s) PROVE ShellInv'
    BY <1>6 DEF Finish, Drain
<1>7. CASE UNCHANGED lineVars
    BY <1>7 DEF lineVars
<1>. QED
    BY <1>2, <1>3, <1>4, <1>5, <1>6, <1>7 DEF LineNext, ShellWork

LEMMA LineInductive == LineSpec => [](IInv /\ ShellInv /\ AnsweredInv)
<1>1. LineInit => IInv /\ ShellInv /\ AnsweredInv
    BY LineStart, InitInv
<1>2. IInv /\ ShellInv /\ AnsweredInv /\ [LineNext]_lineVars => (IInv /\ ShellInv /\ AnsweredInv)'
    BY LineSteps, StepInv, StepAnswered, StepShell DEF IInv
<1>. QED  BY <1>1, <1>2, PTL DEF LineSpec

\* With its command-line processes the daemon does what CommandServer says, so the server's
\* theorems hold of the whole: a stop stays final and the latest command wins although the
\* commands come from processes that interrupt themselves (main.go:920-949).
THEOREM LineImplementsServer == LineSpec => Spec
<1>1. LineInit => Init
    BY LineStart
<1>2. ShellInv /\ [LineNext]_lineVars => [Next]_vars
    BY LineSteps
<1>. QED  BY <1>1, <1>2, LineInductive, PTL DEF LineSpec, Spec

\* A motion command that exits on an answer leaves no motion of its own behind
\* (main.go:941-949).
THEOREM ExitsAtRest == LineSpec => []ExitMeansRest
<1>1. IInv /\ ShellInv /\ AnsweredInv => ExitMeansRest
    <2>. SUFFICES ASSUME IInv, ShellInv, AnsweredInv, NEW s \in Shells,
                         shell[s] = "exited", Alive, motor = own[s], ~stopLost
                  PROVE  FALSE
        BY DEF ExitMeansRest
    <2>1. own[s] \in Requests /\ pc[own[s]] \in {"closing", "release", "done"}
        BY DEF ShellInv, AnsweredInv
    <2>2. pc[own[s]] \in {"loop", "stopping"}
        BY <2>1, NoRequestAssumption DEF IInv, MotorInv
    <2>. QED  BY <2>1, <2>2
<1>. QED  BY <1>1, LineInductive, PTL
=============================================================================
