------------------------- MODULE DaemonSocketProofs -------------------------
(***************************************************************************)
(* For any number of daemon processes: a daemon that no other one          *)
(* disturbed between its bind and now is the one the socket path reaches,  *)
(* and only crashes leave files; and commands, however many look for a     *)
(* daemon and start one, change nothing about that.                        *)
(***************************************************************************)
EXTENDS DaemonClients, TLAPS

USE NoDaemonAssumption

LEMMA InitType == Init => TypeOK
  BY DEF Init, TypeOK, Places

LEMMA StepType == TypeOK /\ [Next]_vars => TypeOK'
  BY DEF TypeOK, Next, vars, Start, Proceed, Connect, Probe, Unlink, Bind, Stop,
     CloseListener, Clean, Crash, Goto, Places, Past

THEOREM TypeCorrect == Spec => []TypeOK
  BY InitType, StepType, PTL DEF Spec

LEMMA StepAlone ==
  ASSUME TypeOK, AloneInv, [Next]_vars
  PROVE  AloneInv'
  <1> USE DEF TypeOK, AloneInv, Goto, Places, Past
  <1>1. ASSUME NEW d \in Daemons, Start(d) PROVE AloneInv'
    BY <1>1 DEF Start
  <1>2. ASSUME NEW d \in Daemons, Connect(d) PROVE AloneInv'
    BY <1>2 DEF Connect
  <1>3. ASSUME NEW d \in Daemons, Probe(d) PROVE AloneInv'
    BY <1>3 DEF Probe
  <1>4. ASSUME NEW d \in Daemons, Unlink(d) PROVE AloneInv'
    BY <1>4 DEF Unlink
  <1>5. ASSUME NEW d \in Daemons, Bind(d) PROVE AloneInv'
    <2>1. CASE file = NoDaemon
      BY <1>5, <2>1 DEF Bind
    <2>2. CASE file # NoDaemon
      BY <1>5, <2>2 DEF Bind
    <2> QED
      BY <2>1, <2>2
  <1>6. ASSUME NEW d \in Daemons, Stop(d) PROVE AloneInv'
    BY <1>6 DEF Stop
  <1>7. ASSUME NEW d \in Daemons, CloseListener(d) PROVE AloneInv'
    BY <1>7 DEF CloseListener
  <1>8. ASSUME NEW d \in Daemons, Clean(d) PROVE AloneInv'
    BY <1>8 DEF Clean
  <1>9. ASSUME NEW d \in Daemons, Crash(d) PROVE AloneInv'
    BY <1>9 DEF Crash
  <1>10. ASSUME UNCHANGED vars PROVE AloneInv'
    BY <1>10 DEF vars
  <1> QED
    BY <1>1, <1>2, <1>3, <1>4, <1>5, <1>6, <1>7, <1>8, <1>9, <1>10 DEF Next, Proceed

\* An undisturbed daemon keeps its socket, whatever failed or crashed before it.
THEOREM UndisturbedKeepsSocket == Spec => []ReachableWhenAlone
  <1>1. Init => AloneInv
    BY DEF Init, AloneInv
  <1>2. TypeOK /\ AloneInv /\ [Next]_vars => AloneInv'
    BY StepAlone
  <1>3. AloneInv => ReachableWhenAlone
    BY DEF AloneInv, ReachableWhenAlone, Answers
  <1> QED
    BY <1>1, <1>2, <1>3, TypeCorrect, PTL DEF Spec

LEMMA StepFile ==
  ASSUME TypeOK, FileInv, [Next]_vars
  PROVE  FileInv'
  <1> USE DEF TypeOK, FileInv, Goto, Places, Past
  <1>1. ASSUME NEW d \in Daemons, Start(d) \/ Connect(d) \/ Probe(d) \/ CloseListener(d)
        PROVE  FileInv'
    BY <1>1 DEF Start, Connect, Probe, CloseListener
  <1>2. ASSUME NEW d \in Daemons, Unlink(d) \/ Stop(d) \/ Clean(d) PROVE FileInv'
    BY <1>2 DEF Unlink, Stop, Clean
  <1>3. ASSUME NEW d \in Daemons, Bind(d) PROVE FileInv'
    BY <1>3 DEF Bind
  <1>4. ASSUME NEW d \in Daemons, Crash(d) PROVE FileInv'
    BY <1>4 DEF Crash
  <1>5. CASE UNCHANGED vars
    BY <1>5 DEF vars
  <1> QED
    BY <1>1, <1>2, <1>3, <1>4, <1>5 DEF Next, Proceed

\* Whatever daemons do to each other's file, one is left over only if a daemon crashed.
THEOREM OnlyCrashesLeaveFiles == Spec => []CleanExitsLeaveNothing
  <1>1. Init => FileInv
    BY DEF Init, FileInv
  <1>2. TypeOK /\ FileInv /\ [Next]_vars => FileInv'
    BY StepFile
  <1>3. TypeOK /\ FileInv => CleanExitsLeaveNothing
    BY DEF TypeOK, FileInv, CleanExitsLeaveNothing
  <1> QED
    BY <1>1, <1>2, <1>3, TypeCorrect, PTL DEF Spec

----------------------------------------------------------------------------
\* Commands.

\* A command only ever starts a daemon: to the daemons it is one more user.
LEMMA CommandsOnlyStart ==
  ASSUME [ClientsNext]_allVars
  PROVE  [Next]_vars
  <1>1. ASSUME NEW c \in Clients, StartDetached(c) PROVE [Next]_vars
    BY <1>1 DEF StartDetached, Next
  <1>2. ASSUME NEW c \in Clients, Ask(c) \/ Poll(c) \/ Expire(c) PROVE UNCHANGED vars
    BY <1>2 DEF Ask, Poll, Expire
  <1> QED
    BY <1>1, <1>2 DEF ClientsNext, allVars

\* With commands that ask, start daemons and poll, the daemons still do what DaemonSocket
\* says of them (main.go:800-871).
THEOREM CommandsAreUsers == ClientsSpec => Spec
  <1>1. ClientsInit => Init
    BY DEF ClientsInit
  <1>2. [ClientsNext]_allVars => [Next]_vars
    BY CommandsOnlyStart
  <1> QED
    BY <1>1, <1>2, PTL DEF ClientsSpec, Spec

\* So an undisturbed daemon is reachable, and only crashes leave files, whatever the commands do.
THEOREM SafeWithCommands == ClientsSpec => [](ReachableWhenAlone /\ CleanExitsLeaveNothing)
  BY CommandsAreUsers, UndisturbedKeepsSocket, OnlyCrashesLeaveFiles, PTL
=============================================================================
