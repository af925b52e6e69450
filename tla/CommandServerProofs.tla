------------------------ MODULE CommandServerProofs ------------------------
(***************************************************************************)
(* Proofs about CommandServer, for every set of connections and every set  *)
(* of commands: type correctness, the inductive invariant, the safety      *)
(* properties it implies, and the refinement of LatestWins.                *)
(***************************************************************************)
EXTENDS CommandServer, TLAPS

USE NoRequestAssumption, CommandsAssumption



----------------------------------------------------------------------------
\* Type correctness.

LEMMA InitType == Init => TypeOK
  <1> SUFFICES ASSUME Init PROVE TypeOK
    OBVIOUS
  <1>1. "new" \in Places /\ 0 \in 0..clock /\ clock \in Nat
    BY DEF Init, Places
  <1> QED
    BY <1>1 DEF Init, TypeOK

LEMMA StepType == TypeOK /\ [Next]_vars => TypeOK'
  <1> SUFFICES ASSUME TypeOK, [Next]_vars PROVE TypeOK'
    OBVIOUS
  <1> USE DEF TypeOK, Places, Holding, Dispatching, Alive, At, Goto, Return
  <1>1. ASSUME NEW r \in Requests, Accept(r) PROVE TypeOK'
    BY <1>1 DEF Accept, order, deskVars, life
  <1>2. ASSUME NEW r \in Requests, DecodeFails(r) PROVE TypeOK'
    BY <1>2 DEF DecodeFails, order, deskVars, life
  <1>3. ASSUME NEW r \in Requests, NEW c \in Commands, Register(r, c) PROVE TypeOK'
    BY <1>3 DEF Register, deskVars, life
  <1>4. ASSUME NEW r \in Requests, Lock(r) PROVE TypeOK'
    BY <1>4 DEF Lock, order, deskVars, life
  <1>5. ASSUME NEW r \in Requests, Bail(r) PROVE TypeOK'
    BY <1>5 DEF Bail, order, deskVars, life
  <1>6. ASSUME NEW r \in Requests, Begin(r) PROVE TypeOK'
    BY <1>6 DEF Begin, Switch, order, deskVars, life
  <1>7. ASSUME NEW r \in Requests, Wake(r) PROVE TypeOK'
    BY <1>7 DEF Wake, order, deskVars, life
  <1>8. ASSUME NEW r \in Requests, FirstPulse(r) PROVE TypeOK'
    BY <1>8 DEF FirstPulse, order, life
  <1>9. ASSUME NEW r \in Requests, Tick(r) PROVE TypeOK'
    BY <1>9 DEF Tick, request, order, life
  <1>10. ASSUME NEW r \in Requests, NEW a \in {"ok", "err"}, LeaveLoop(r, a) PROVE TypeOK'
    BY <1>10 DEF LeaveLoop, order, deskVars, life
  <1>11. ASSUME NEW r \in Requests, StopWrite(r) PROVE TypeOK'
    BY <1>11 DEF StopWrite, order, life
  <1>12. ASSUME NEW r \in Requests, Write(r) PROVE TypeOK'
    BY <1>12 DEF Write, order, deskVars, life
  <1>13. ASSUME NEW r \in Requests, Query(r) PROVE TypeOK'
    BY <1>13 DEF Query, order, deskVars, life
  <1>14. ASSUME NEW r \in Requests, Await(r) PROVE TypeOK'
    BY <1>14 DEF Await, order, deskVars, life
  <1>15. ASSUME NEW r \in Requests, Reply(r) PROVE TypeOK'
    BY <1>15 DEF Reply, order, deskVars, life
  <1>16. ASSUME NEW r \in Requests, CloseQuit(r) PROVE TypeOK'
    BY <1>16 DEF CloseQuit, order, deskVars
  <1>17. ASSUME NEW r \in Requests, Release(r) PROVE TypeOK'
    BY <1>17 DEF Release, order, deskVars, life
  <1>18. ASSUME Interrupted \/ QuitReceived PROVE TypeOK'
    BY <1>18 DEF Interrupted, QuitReceived, request, order, deskVars
  <1>19. ASSUME Exit PROVE TypeOK'
    BY <1>19 DEF Exit, order, deskVars
  <1>20. ASSUME MotorHalts PROVE TypeOK'
    BY <1>20 DEF MotorHalts, request, order, life
  <1>21. ASSUME UNCHANGED vars PROVE TypeOK'
    BY <1>21 DEF vars, request, order, deskVars, life
  <1> QED
    BY <1>1, <1>2, <1>3, <1>4, <1>5, <1>6, <1>7, <1>8, <1>9, <1>10, <1>11, <1>12,
       <1>13, <1>14, <1>15, <1>16, <1>17, <1>18, <1>19, <1>20, <1>21
    DEF Next, Proceed, CtxDone, Deadline, TickFails, Arrived

\* Every variable keeps its type.
THEOREM TypeCorrect == Spec => []TypeOK
  BY InitType, StepType, PTL DEF Spec

----------------------------------------------------------------------------
\* The inductive invariant, one conjunct at a time.

\* The steps of a goroutine that holds dispatchMu and keeps it.
Inside(r) ==
    \/ Bail(r) \/ Begin(r) \/ Wake(r) \/ FirstPulse(r) \/ Tick(r)
    \/ \E a \in {"ok", "err"} : LeaveLoop(r, a)
    \/ StopWrite(r) \/ Write(r) \/ Query(r) \/ Await(r) \/ Reply(r) \/ CloseQuit(r)

\* The steps of the main goroutine and of the desk.
Outside == Interrupted \/ QuitReceived \/ Exit \/ MotorHalts \/ UNCHANGED vars

LEMMA Cases ==
  ASSUME [Next]_vars
  PROVE  \/ \E r \in Requests :
               \/ Accept(r) \/ DecodeFails(r) \/ (\E c \in Commands : Register(r, c))
               \/ Lock(r) \/ Inside(r) \/ Release(r)
         \/ Outside
  BY DEF Next, Proceed, Inside, Outside, CtxDone, Deadline, TickFails, Arrived

LEMMA OutsideKeeps ==
  ASSUME Outside
  PROVE  UNCHANGED <<pc, cmd, cancelled, resp, order, holder>>
  BY DEF Outside, Interrupted, QuitReceived, Exit, MotorHalts, vars, request, order

\* Inside the critical section a goroutine moves itself only.
LEMMA InsideKeeps ==
  ASSUME TypeOK, NEW r \in Requests, Inside(r)
  PROVE  /\ pc[r] \in Holding /\ pc'[r] \in Dispatching
         /\ \A q \in Requests : q # r => pc'[q] = pc[q] /\ resp'[q] = resp[q]
         /\ UNCHANGED <<cmd, cancelled, order, holder>>
  <1> USE DEF TypeOK, Dispatching, Holding, At, Goto, Return, order
  <1>1. CASE Bail(r)
    BY <1>1 DEF Bail
  <1>2. CASE Begin(r)
    BY <1>2 DEF Begin, Switch
  <1>3. CASE Wake(r)
    BY <1>3 DEF Wake
  <1>4. CASE FirstPulse(r)
    BY <1>4 DEF FirstPulse
  <1>5. CASE Tick(r)
    BY <1>5 DEF Tick, request
  <1>6. CASE \E a \in {"ok", "err"} : LeaveLoop(r, a)
    BY <1>6 DEF LeaveLoop
  <1>7. CASE StopWrite(r)
    BY <1>7 DEF StopWrite
  <1>8. CASE Write(r)
    BY <1>8 DEF Write
  <1>9. CASE Query(r)
    BY <1>9 DEF Query
  <1>10. CASE Await(r)
    BY <1>10 DEF Await
  <1>11. CASE Reply(r)
    BY <1>11 DEF Reply
  <1>12. CASE CloseQuit(r)
    BY <1>12 DEF CloseQuit
  <1> QED
    BY <1>1, <1>2, <1>3, <1>4, <1>5, <1>6, <1>7, <1>8, <1>9, <1>10, <1>11, <1>12
    DEF Inside

LEMMA StepMutex ==
  ASSUME TypeOK, MutexInv, [Next]_vars
  PROVE  MutexInv'
  <1>1. ASSUME NEW r \in Requests,
               Accept(r) \/ DecodeFails(r) \/ (\E c \in Commands : Register(r, c))
        PROVE  MutexInv'
    BY <1>1 DEF Accept, DecodeFails, Register, TypeOK, MutexInv, Holding, Dispatching, At, Goto
  <1>2. ASSUME NEW r \in Requests, Lock(r) PROVE MutexInv'
    BY <1>2 DEF Lock, TypeOK, MutexInv, Holding, Dispatching, At, Goto
  <1>3. ASSUME NEW r \in Requests, Inside(r) PROVE MutexInv'
    BY <1>3, InsideKeeps DEF MutexInv, Holding
  <1>4. ASSUME NEW r \in Requests, Release(r) PROVE MutexInv'
    BY <1>4 DEF Release, TypeOK, MutexInv, Holding, Dispatching, At, Goto
  <1>5. ASSUME Outside PROVE MutexInv'
    BY <1>5, OutsideKeeps DEF MutexInv
  <1> QED
    BY <1>1, <1>2, <1>3, <1>4, <1>5, Cases

\* What PlaceInv says of one request.
PlaceOK(r) ==
    /\ pc[r] \in {"new", "accepted"} => stamp[r] = 0
    /\ pc[r] \in Holding \cup {"waiting"} => stamp[r] > 0
    /\ pc[r] \in {"wake", "first", "loop", "stopping"} => cmd[r] \in Pulsed \cup Driven
    /\ pc[r] = "write" => cmd[r] \in Written
    /\ pc[r] \in {"query", "await"} => cmd[r] \in Queried
    /\ pc[r] \in Places \ {"stopping", "reply", "closing", "release", "done"}
          => resp[r] = "none"
    /\ pc[r] = "stopping" => resp[r] \in {"ok", "err"}
    /\ pc[r] = "done" /\ stamp[r] = 0 => resp[r] = "none"

LEMMA InsidePlace ==
  ASSUME TypeOK, NEW r \in Requests, PlaceOK(r), Inside(r)
  PROVE  PlaceOK(r)'
  <1> USE DEF TypeOK, PlaceOK, Dispatching, Holding, Places, At, Goto, Return, order
  <1>1. CASE Bail(r)
    BY <1>1 DEF Bail
  <1>2. CASE Begin(r)
    BY <1>2 DEF Begin, Switch, Pulsed, Driven, Written, Queried, Immediate
  <1>3. CASE Wake(r)
    BY <1>3 DEF Wake
  <1>4. CASE FirstPulse(r)
    BY <1>4 DEF FirstPulse
  <1>5. CASE Tick(r)
    BY <1>5 DEF Tick, request
  <1>6. CASE \E a \in {"ok", "err"} : LeaveLoop(r, a)
    BY <1>6 DEF LeaveLoop
  <1>7. CASE StopWrite(r)
    BY <1>7 DEF StopWrite
  <1>8. CASE Write(r)
    BY <1>8 DEF Write
  <1>9. CASE Query(r)
    BY <1>9 DEF Query
  <1>10. CASE Await(r)
    BY <1>10 DEF Await
  <1>11. CASE Reply(r)
    BY <1>11 DEF Reply
  <1>12. CASE CloseQuit(r)
    BY <1>12 DEF CloseQuit
  <1> QED
    BY <1>1, <1>2, <1>3, <1>4, <1>5, <1>6, <1>7, <1>8, <1>9, <1>10, <1>11, <1>12
    DEF Inside

LEMMA StepPlace ==
  ASSUME TypeOK, PlaceInv, [Next]_vars
  PROVE  PlaceInv'
  <1>1. ASSUME NEW r \in Requests, Accept(r) \/ DecodeFails(r) PROVE PlaceInv'
    BY <1>1 DEF Accept, DecodeFails, TypeOK, PlaceInv, Holding, Dispatching, Places,
                At, Goto, order
  <1>2. ASSUME NEW r \in Requests, NEW c \in Commands, Register(r, c) PROVE PlaceInv'
    BY <1>2 DEF Register, TypeOK, PlaceInv, Holding, Dispatching, Places, At, Goto
  <1>3. ASSUME NEW r \in Requests, Lock(r) \/ Release(r) PROVE PlaceInv'
    BY <1>3 DEF Lock, Release, TypeOK, PlaceInv, Holding, Dispatching, Places, At, Goto, order
  <1>4. ASSUME NEW r \in Requests, Inside(r) PROVE PlaceInv'
    <2>1. \A q \in Requests : PlaceOK(q)
      BY DEF PlaceInv, PlaceOK
    <2>2. PlaceOK(r)'
      BY <2>1, <1>4, InsidePlace
    <2>3. \A q \in Requests : q # r => PlaceOK(q)'
      BY <2>1, <1>4, InsideKeeps DEF PlaceOK, order
    <2> QED
      BY <2>2, <2>3 DEF PlaceInv, PlaceOK
  <1>5. ASSUME Outside PROVE PlaceInv'
    BY <1>5, OutsideKeeps DEF PlaceInv, order
  <1> QED
    BY <1>1, <1>2, <1>3, <1>4, <1>5, Cases

LEMMA StepOrder ==
  ASSUME TypeOK, MutexInv, PlaceInv, OrderInv, [Next]_vars
  PROVE  OrderInv'
  <1>1. ASSUME NEW r \in Requests, Accept(r) \/ DecodeFails(r) PROVE OrderInv'
    BY <1>1 DEF Accept, DecodeFails, TypeOK, PlaceInv, OrderInv, At, Goto, order
  <1>2. ASSUME NEW r \in Requests, NEW c \in Commands, Register(r, c) PROVE OrderInv'
    <2> USE <1>2 DEF Register, At, Goto
    <2>1. stamp[r] = 0 /\ r # current /\ resp' = resp /\ current' = r /\ clock' = clock + 1
      BY DEF TypeOK, PlaceInv, OrderInv
    <2>2. \A q \in Requests : stamp[q] \in 0..clock /\ stamp'[q] = IF q = r THEN clock + 1 ELSE stamp[q]
      BY DEF TypeOK
    <2>3. current' # NoRequest /\ clock' > 0 /\ stamp'[current'] = clock'
      BY <2>1, <2>2 DEF TypeOK
    <2>4. \A p, q \in Requests : stamp'[p] > 0 /\ stamp'[p] = stamp'[q] => p = q
      BY <2>2 DEF TypeOK, OrderInv
    <2>5. \A q \in Requests : stamp'[q] > 0 /\ q # current' => cancelled'[q]
      BY <2>1, <2>2 DEF TypeOK, OrderInv
    <2>6. \A q \in Requests : pc'[q] # "done" /\ (q = current' \/ stamp'[q] = 0) => ~cancelled'[q]
      BY <2>1, <2>2 DEF TypeOK, OrderInv, PlaceInv
    <2>7. \A q \in Requests : resp'[q] = "preempted" => stamp'[q] < clock'
      BY <2>1, <2>2 DEF TypeOK, OrderInv, PlaceInv, Places
    <2> QED
      BY <2>3, <2>4, <2>5, <2>6, <2>7 DEF OrderInv
  <1>3. ASSUME NEW r \in Requests, Lock(r) \/ Release(r) PROVE OrderInv'
    BY <1>3 DEF Lock, Release, TypeOK, PlaceInv, OrderInv, Holding, Dispatching, At, Goto, order
  <1>4. ASSUME NEW r \in Requests, Inside(r) PROVE OrderInv'
    <2>1. resp'[r] = "preempted" => stamp[r] < clock
      <3>1. CASE Bail(r)
        BY <3>1 DEF Bail, TypeOK, OrderInv, PlaceInv, Holding, At
      <3>2. CASE ~Bail(r)
        BY <1>4, <3>2 DEF Inside, Begin, Switch, Wake, FirstPulse, Tick, LeaveLoop, StopWrite,
           Write, Query, Await, Reply, CloseQuit, TypeOK, OrderInv, Return, request
      <3> QED
        BY <3>1, <3>2
    <2>2. pc[r] # "done" /\ pc'[r] # "done"
      BY <1>4, InsideKeeps DEF Holding, Dispatching
    <2> QED
      BY <1>4, <2>1, <2>2, InsideKeeps DEF OrderInv, order
  <1>5. ASSUME Outside PROVE OrderInv'
    BY <1>5, OutsideKeeps DEF OrderInv, order
  <1> QED
    BY <1>1, <1>2, <1>3, <1>4, <1>5, Cases

\* A request that begins is the last registered, so nobody at or past the desk is newer.
LEMMA BeginsLast ==
  ASSUME TypeOK, PlaceInv, OrderInv, NEW r \in Requests, Begin(r)
  PROVE  \A q \in Requests : stamp[q] <= stamp[r] /\ (stamp[q] = stamp[r] => q = r)
  <1>1. pc[r] = "locked" /\ ~cancelled[r] /\ stamp[r] > 0
    BY DEF Begin, Switch, At, PlaceInv, Holding
  <1>2. r = current /\ stamp[r] = clock
    BY <1>1 DEF OrderInv, TypeOK
  <1> QED
    BY <1>1, <1>2 DEF OrderInv, TypeOK

\* Inside, only Begin makes a request Dispatched.
LEMMA InsideDispatched ==
  ASSUME TypeOK, PlaceInv, NEW r \in Requests, Inside(r), ~Begin(r)
  PROVE  Dispatched(r)' => Dispatched(r)
  <1>1. CASE Bail(r)
    BY <1>1 DEF Bail, Return, TypeOK, Dispatched
  <1>2. CASE ~Bail(r)
    <2>1. pc[r] \in Dispatching
      BY <1>2 DEF Inside, Wake, FirstPulse, Tick, LeaveLoop, StopWrite, Write, Query, Await,
         Reply, CloseQuit, At, Dispatching
    <2>2. resp'[r] = resp[r] \/ pc[r] \in {"wake", "first", "loop", "write", "query", "await"}
      BY <1>2 DEF Inside, Wake, FirstPulse, Tick, LeaveLoop, StopWrite, Write, Query, Await,
         Reply, CloseQuit, At, request
    <2>3. stamp' = stamp
      BY InsideKeeps DEF order
    <2> QED
      BY <2>1, <2>2, <2>3 DEF PlaceInv, Places, Holding, Dispatching, Dispatched, Registered
  <1> QED
    BY <1>1, <1>2

LEMMA StepDispatch ==
  ASSUME TypeOK, MutexInv, PlaceInv, OrderInv, DispatchInv, [Next]_vars
  PROVE  DispatchInv'
  <1>1. ASSUME NEW r \in Requests, Accept(r) \/ DecodeFails(r) PROVE DispatchInv'
    BY <1>1 DEF Accept, DecodeFails, TypeOK, PlaceInv, DispatchInv, Dispatched, Registered,
                Dispatching, At, Goto, order
  <1>2. ASSUME NEW r \in Requests, NEW c \in Commands, Register(r, c) PROVE DispatchInv'
    BY <1>2 DEF Register, TypeOK, PlaceInv, DispatchInv, Dispatched, Registered,
                Dispatching, At, Goto
  <1>3. ASSUME NEW r \in Requests, Lock(r) \/ Release(r) PROVE DispatchInv'
    BY <1>3 DEF Lock, Release, TypeOK, PlaceInv, DispatchInv, Dispatched, Registered,
                Dispatching, At, Goto, order
  <1>4. ASSUME NEW r \in Requests, Inside(r) PROVE DispatchInv'
    <2> USE <1>4, InsideKeeps
    <2>1. \A q \in Requests : q # r => pc'[q] \notin Dispatching
      BY DEF MutexInv, Holding
    <2>2. \A q \in Requests : q # r /\ Dispatched(q)' => Dispatched(q)
      BY DEF Dispatched, Registered, order
    <2>3. CASE Begin(r)
      BY <2>1, <2>3, BeginsLast DEF DispatchInv, order
    <2>4. CASE ~Begin(r)
      <3>1. Dispatched(r)' => Dispatched(r) /\ pc[r] \in Dispatching
        BY <2>4, InsideDispatched DEF Dispatched, Holding, Dispatching
      <3> QED
        BY <3>1, <2>1, <2>2 DEF DispatchInv, order, TypeOK
    <2> QED
      BY <2>3, <2>4
  <1>5. ASSUME Outside PROVE DispatchInv'
    BY <1>5, OutsideKeeps DEF DispatchInv, Dispatched, Registered, order
  <1> QED
    BY <1>1, <1>2, <1>3, <1>4, <1>5, Cases

LEMMA StepMotor ==
  ASSUME TypeOK, MotorInv, [Next]_vars
  PROVE  MotorInv'
  <1> USE DEF TypeOK, MotorInv, At, Goto, Return, deskVars
  <1>1. ASSUME NEW r \in Requests,
               \/ Accept(r) \/ DecodeFails(r) \/ (\E c \in Commands : Register(r, c))
               \/ Lock(r) \/ Release(r)
        PROVE  MotorInv'
    BY <1>1 DEF Accept, DecodeFails, Register, Lock, Release
  <1>2. ASSUME NEW r \in Requests, Inside(r) PROVE MotorInv'
    <2>1. CASE FirstPulse(r) \/ Tick(r)
      BY <2>1 DEF FirstPulse, Tick, request
    <2>2. CASE StopWrite(r) \/ Write(r)
      BY <2>2 DEF StopWrite, Write
    <2>3. CASE \E a \in {"ok", "err"} : LeaveLoop(r, a)
      BY <2>3 DEF LeaveLoop
    <2>4. CASE Bail(r) \/ Begin(r) \/ Wake(r) \/ Query(r) \/ Await(r) \/ Reply(r) \/ CloseQuit(r)
      BY <2>4 DEF Bail, Begin, Switch, Wake, Query, Await, Reply, CloseQuit
    <2> QED
      BY <1>2, <2>1, <2>2, <2>3, <2>4 DEF Inside
  <1>3. ASSUME Outside PROVE MotorInv'
    BY <1>3 DEF Outside, Interrupted, QuitReceived, Exit, MotorHalts, vars, request
  <1> QED
    BY <1>1, <1>2, <1>3, Cases

\* A request newly acknowledged as a stop has just written it.
LEMMA InsideStop ==
  ASSUME TypeOK, PlaceInv, NEW r \in Requests, Inside(r),
         cmd[r] = "stop", resp'[r] = "ok", motor' # NoRequest
  PROVE  resp[r] = "ok" /\ motor' = motor
  <1> USE DEF TypeOK, At, Goto, Return, deskVars
  <1>1. ~Begin(r)
    <2> SUFFICES ASSUME Begin(r) PROVE FALSE
      OBVIOUS
    <2>1. pc[r] = "locked" /\ resp[r] = "none"
      BY DEF Begin, Switch, PlaceInv, Holding, Places
    <2>2. resp' = resp
      BY DEF Begin, Switch, Immediate
    <2> QED
      BY <2>1, <2>2
  <1>2. ~Bail(r) /\ ~Query(r) /\ ~Await(r)
    BY DEF Bail, Query, Await, PlaceInv, Queried
  <1>3. ~FirstPulse(r) /\ ~Tick(r) /\ ~StopWrite(r) /\ ~(\E a \in {"ok", "err"} : LeaveLoop(r, a))
    BY DEF FirstPulse, Tick, StopWrite, LeaveLoop, PlaceInv, Pulsed, Driven
  <1>4. CASE Wake(r) \/ Reply(r) \/ CloseQuit(r)
    BY <1>4 DEF Wake, Reply, CloseQuit
  <1>5. CASE Write(r)
    BY <1>5 DEF Write
  <1> QED
    BY <1>1, <1>2, <1>3, <1>4, <1>5 DEF Inside

LEMMA StepStop ==
  ASSUME TypeOK, MutexInv, PlaceInv, OrderInv, DispatchInv, StopIsFinal, [Next]_vars
  PROVE  StopIsFinal'
  <1> USE DEF TypeOK, StopIsFinal
  <1>1. ASSUME NEW r \in Requests, Accept(r) \/ DecodeFails(r) \/ Lock(r) \/ Release(r)
        PROVE  StopIsFinal'
    BY <1>1 DEF Accept, DecodeFails, Lock, Release, order, deskVars
  <1>2. ASSUME NEW r \in Requests, NEW c \in Commands, Register(r, c) PROVE StopIsFinal'
    <2>1. stamp[r] = 0 /\ resp[r] = "none"
      BY <1>2 DEF Register, At, PlaceInv, Places, Holding, Dispatching
    <2>2. \A q \in Requests : stamp'[q] >= stamp[q]
      BY <1>2, <2>1 DEF Register
    <2>3. \A q \in Requests : q # r => stamp'[q] = stamp[q] /\ cmd'[q] = cmd[q]
      BY <1>2 DEF Register
    <2>4. resp' = resp /\ motor' = motor
      BY <1>2 DEF Register, deskVars
    <2>5. \A q \in Requests : stamp[q] \in Nat /\ stamp'[q] \in Nat
      BY <1>2 DEF Register
    <2> QED
      BY <2>1, <2>2, <2>3, <2>4, <2>5
  <1>3. ASSUME NEW r \in Requests, Inside(r) PROVE StopIsFinal'
    <2> USE <1>3, InsideKeeps
    <2> SUFFICES ASSUME NEW s \in Requests, cmd'[s] = "stop", resp'[s] = "ok",
                        motor' # NoRequest
                 PROVE  stamp'[motor'] > stamp'[s]
      BY DEF StopIsFinal
    <2>1. cmd[s] = "stop" /\ stamp' = stamp
      BY DEF order
    <2>2. resp[s] = "ok"
      BY <2>1, InsideStop
    <2>3. CASE (FirstPulse(r) /\ motor' = r) \/ Tick(r)
      <3>1. pc[r] \in {"first", "loop"} /\ motor' = r
        BY <2>3 DEF FirstPulse, Tick, At
      <3>2. r # s
        BY <3>1, <2>1 DEF PlaceInv, Pulsed, Driven
      <3>3. Dispatched(s)
        BY <2>2 DEF Dispatched, Registered, PlaceInv, Places, Holding
      <3>4. pc[r] \in Dispatching /\ Dispatched(r)
        BY <3>1 DEF Dispatched, Registered, PlaceInv, Places, Holding, Dispatching
      <3>5. stamp[s] <= stamp[r] /\ stamp[s] # stamp[r]
        BY <3>2, <3>3, <3>4 DEF DispatchInv, OrderInv, Dispatched, Registered
      <3> QED
        BY <3>1, <3>5, <2>1
    <2>4. CASE motor' = motor \/ motor' = NoRequest
      BY <2>1, <2>2, <2>4
    <2>5. (FirstPulse(r) /\ motor' = r) \/ Tick(r) \/ motor' = motor \/ motor' = NoRequest
      BY DEF Inside, Bail, Begin, Switch, Wake, FirstPulse, LeaveLoop, StopWrite, Write, Query,
         Await, Reply, CloseQuit, deskVars
    <2> QED
      BY <2>3, <2>4, <2>5
  <1>4. ASSUME Outside PROVE StopIsFinal'
    BY <1>4, OutsideKeeps DEF Outside, Interrupted, QuitReceived, Exit, MotorHalts, vars,
       order, deskVars
  <1> QED
    BY <1>1, <1>2, <1>3, <1>4, Cases

----------------------------------------------------------------------------
\* The theorems.

LEMMA InitInv == Init => IInv
  BY InitType DEF Init, IInv, MutexInv, PlaceInv, OrderInv, DispatchInv, MotorInv,
     StopIsFinal, Holding, Dispatching, Dispatched, Registered

LEMMA StepInv == IInv /\ [Next]_vars => IInv'
  BY StepType, StepMutex, StepPlace, StepOrder, StepDispatch, StepMotor, StepStop DEF IInv

THEOREM Inductive == Spec => []IInv
  BY InitInv, StepInv, PTL DEF Spec

\* A preempted request has been overtaken: s.cancelCurrent names a newer one.
THEOREM NewestNeverRefused == Spec => []OnlyOvertakenRefused
  <1>1. IInv => OnlyOvertakenRefused
    BY DEF IInv, TypeOK, OrderInv, OnlyOvertakenRefused
  <1> QED
    BY <1>1, Inductive, PTL

\* After an acknowledged stop only newer requests move the desk.
THEOREM StopFinality == Spec => []StopIsFinal
  <1>1. IInv => StopIsFinal
    BY DEF IInv
  <1> QED
    BY <1>1, Inductive, PTL

\* The desk is at rest whenever no request owns it, unless a stop was lost.
THEOREM RestsWhenFree == Spec => []DeskRestsWhenFree
  <1>1. IInv => DeskRestsWhenFree
    BY DEF IInv, TypeOK, MotorInv, MutexInv, Holding, Dispatching, DeskRestsWhenFree
  <1> QED
    BY <1>1, Inductive, PTL

\* Each dispatch registered after every dispatch before it.
THEOREM DispatchesInOrder == Spec => DispatchInOrder
  <1>1. ASSUME IInv, [Next]_vars, NEW r \in Requests, NEW q \in Requests,
               Begins(r), Dispatched(q)
        PROVE  stamp[q] < stamp[r]
    <2>1. Begin(r)
      <3>1. PICK p \in Requests :
                \/ Accept(p) \/ DecodeFails(p) \/ (\E c \in Commands : Register(p, c))
                \/ Lock(p) \/ Inside(p) \/ Release(p)
        BY <1>1, Cases, OutsideKeeps DEF Begins
      <3>2. p = r
        BY <1>1, <3>1, InsideKeeps DEF Begins, IInv, TypeOK, Accept, DecodeFails, Register,
           Lock, Release, Goto
      <3> QED
        BY <1>1, <3>1, <3>2 DEF Begins, IInv, TypeOK, Accept, DecodeFails, Register, Lock,
           Release, Inside, Bail, Wake, FirstPulse, Tick, LeaveLoop, StopWrite, Write, Query,
           Await, Reply, CloseQuit, At, Return
    <2>2. q # r
      BY <1>1 DEF Begins, Dispatched, Dispatching
    <2> QED
      BY <1>1, <2>1, <2>2, BeginsLast DEF IInv, TypeOK
  <1>2. IInv /\ [Next]_vars
          => [\A r, q \in Requests : Begins(r) /\ Dispatched(q) => stamp[q] < stamp[r]]_vars
    BY <1>1
  <1> QED
    BY <1>2, Inductive, PTL DEF Spec, DispatchInOrder

----------------------------------------------------------------------------
\* Refinement of LatestWins.

\* A step that moves request r alone to abstract status v.
LEMMA StatusStep ==
  ASSUME NEW r \in Requests, NEW v, Status(r)' = v,
         \A q \in Requests : q # r => Status(q)' = Status(q)
  PROVE  [q \in Requests |-> Status(q)]'
           = [[q \in Requests |-> Status(q)] EXCEPT ![r] = v]
  OBVIOUS

LEMMA StatusKept ==
  ASSUME \A q \in Requests : Status(q)' = Status(q)
  PROVE  [q \in Requests |-> Status(q)]' = [q \in Requests |-> Status(q)]
  OBVIOUS

LEMMA RefineInit == Init => Abstract!Init
  BY DEF Init, Abstract!Init, Status, Registered

LEMMA RefineStep == IInv /\ [Next]_vars => [Abstract!Next]_(Abstract!vars)
  <1> SUFFICES ASSUME IInv, [Next]_vars
               PROVE  Abstract!Next \/ UNCHANGED Abstract!vars
    OBVIOUS
  <1> USE DEF IInv
  <1> DEFINE bar == [q \in Requests |-> Status(q)]
  <1>1. ASSUME NEW r \in Requests, Accept(r) \/ DecodeFails(r) \/ Lock(r)
        PROVE  UNCHANGED Abstract!vars
    <2>1. \A q \in Requests : Status(q)' = Status(q)
      BY <1>1 DEF Accept, DecodeFails, Lock, Status, Registered, TypeOK, PlaceInv,
         Places, Holding, At, Goto, order
    <2> QED
      BY <1>1, <2>1, StatusKept DEF Accept, DecodeFails, Lock, Abstract!vars, order
  <1>2. ASSUME NEW r \in Requests, NEW c \in Commands, Register(r, c)
        PROVE  Abstract!Arrive(r)
    <2>1. Status(r) = "absent" /\ Status(r)' = "pending"
      BY <1>2 DEF Register, Status, Registered, TypeOK, PlaceInv, At, Goto
    <2>2. \A q \in Requests : q # r => Status(q)' = Status(q)
      BY <1>2 DEF Register, Status, Registered, TypeOK, Goto
    <2> QED
      BY <1>2, <2>1, <2>2, StatusStep DEF Register, Abstract!Arrive
  <1>3. ASSUME NEW r \in Requests, Bail(r)
        PROVE  Abstract!Drop(r)
    <2>1. Status(r) = "pending" /\ Status(r)' = "dropped" /\ r # current
      BY <1>3 DEF Bail, Status, Registered, TypeOK, PlaceInv, OrderInv, Holding, At, Goto,
         Return, order
    <2>2. \A q \in Requests : q # r => Status(q)' = Status(q)
      BY <1>3 DEF Bail, Status, Registered, TypeOK, Goto, Return, order
    <2> QED
      BY <1>3, <2>1, <2>2, StatusStep DEF Bail, Abstract!Drop, order
  <1>4. ASSUME NEW r \in Requests, Begin(r)
        PROVE  Abstract!Start(r)
    <2>1. Status(r) = "pending" /\ Status(r)' = "running" /\ r = current
      BY <1>4 DEF Begin, Switch, Status, Registered, TypeOK, PlaceInv, OrderInv, Holding, Places, At,
         Goto, Return, order
    <2>2. \A q \in Requests : q # r => Status(q)' = Status(q)
      BY <1>4 DEF Begin, Switch, Status, Registered, TypeOK, Goto, Return, order
    <2>3. \A q \in Requests : Status(q) # "running"
      BY <1>4 DEF Begin, Switch, Status, Registered, TypeOK, MutexInv, PlaceInv, Holding, Places, At
    <2> QED
      BY <1>4, <2>1, <2>2, <2>3, StatusStep DEF Begin, Switch, Abstract!Start, order
  <1>5. ASSUME NEW r \in Requests, Inside(r), ~Bail(r), ~Begin(r)
        PROVE  UNCHANGED Abstract!vars
    <2>1. resp'[r] = "preempted" <=> resp[r] = "preempted"
      <3>1. pc[r] \in Dispatching
        BY <1>5 DEF Inside, Wake, FirstPulse, Tick, LeaveLoop, StopWrite, Write, Query, Await,
           Reply, CloseQuit, At, Dispatching
      <3>2. resp'[r] = resp[r] \/ (resp[r] # "preempted" /\ resp'[r] # "preempted")
        BY <1>5, <3>1 DEF Inside, Wake, FirstPulse, Tick, LeaveLoop, StopWrite, Write, Query,
           Await, Reply, CloseQuit, At, Return, request, TypeOK, PlaceInv, Places, Holding,
           Dispatching
      <3> QED
        BY <3>2
    <2>2. pc[r] \in Dispatching
      BY <1>5 DEF Inside, Wake, FirstPulse, Tick, LeaveLoop, StopWrite, Write, Query, Await,
         Reply, CloseQuit, At, Dispatching
    <2>3. \A q \in Requests : Status(q)' = Status(q)
      BY <1>5, <2>1, <2>2, InsideKeeps DEF Status, Registered, Dispatching, order
    <2> QED
      BY <1>5, <2>3, StatusKept, InsideKeeps DEF Abstract!vars, order
  <1>6. ASSUME NEW r \in Requests, Release(r)
        PROVE  Abstract!Finish(r) \/ UNCHANGED Abstract!vars
    <2>1. \A q \in Requests : q # r => Status(q)' = Status(q)
      BY <1>6 DEF Release, Status, Registered, TypeOK, Goto, order
    <2>2. stamp[r] > 0 /\ stamp' = stamp /\ current' = current /\ resp' = resp
          /\ pc[r] = "release" /\ pc'[r] = "done"
      BY <1>6 DEF Release, PlaceInv, Holding, Dispatching, TypeOK, At, Goto, order
    <2>3. CASE resp[r] = "preempted"
      <3>1. \A q \in Requests : Status(q)' = Status(q)
        BY <2>1, <2>2, <2>3 DEF Status, Registered
      <3> QED
        BY <2>2, <3>1, StatusKept DEF Abstract!vars
    <2>4. CASE resp[r] # "preempted"
      <3>1. Status(r) = "running" /\ Status(r)' = "served"
        BY <2>2, <2>4 DEF Status, Registered
      <3> QED
        BY <2>1, <2>2, <3>1, StatusStep DEF Abstract!Finish
    <2> QED
      BY <2>3, <2>4
  <1>7. ASSUME Outside PROVE UNCHANGED Abstract!vars
    <2>1. \A q \in Requests : Status(q)' = Status(q)
      BY <1>7, OutsideKeeps DEF Status, Registered, order
    <2> QED
      BY <1>7, <2>1, StatusKept, OutsideKeeps DEF Abstract!vars, order
  <1> QED
    BY <1>1, <1>2, <1>3, <1>4, <1>5, <1>6, <1>7, Cases DEF Abstract!Next

\* The server, with its goroutines, contexts and mutex, implements "the latest wins".
THEOREM Refinement == Spec => ImplementsLatestWins
  BY RefineInit, RefineStep, Inductive, PTL DEF Spec, ImplementsLatestWins, Abstract!Spec

----------------------------------------------------------------------------
\* Each motion command is a MotionCall.

CallResult(r) == IF CallPhase(r) = "over" /\ resp[r] # "preempted" THEN resp[r] ELSE "none"

\* The steps of others: at most, the desk no longer moves for this request.
LEMMA CallUndisturbed ==
  ASSUME NEW r \in Requests, UNCHANGED <<pc[r], cmd[r], resp[r]>>, motor' = motor \/ motor' # r
  PROVE  [Call(r)!Next]_(Call(r)!vars)
  <1>1. UNCHANGED <<CallPhase(r), CallResult(r)>>
    BY DEF CallPhase, CallResult, InMotion
  <1> QED
    BY <1>1 DEF Call!Next, Call!Rest, Call!vars, CallResult

\* A step that settles the answer ends the call, or concerns no motion.
LEMMA CallEnds ==
  ASSUME NEW r \in Requests, CallPhase(r) \in {"called", "driving"},
         CallPhase(r)' \in {CallPhase(r), "over"},
         CallResult(r)' \in {"none", "ok", "err"},
         CallResult(r)' = "ok" => CallPhase(r) = "driving",
         motor' = motor \/ motor' # r
  PROVE  [Call(r)!Next]_(Call(r)!vars)
  <1>1. CASE CallPhase(r)' = CallPhase(r)
    <2>1. CallResult(r) = "none" /\ CallResult(r)' = "none"
      BY <1>1 DEF CallResult
    <2> QED
      BY <1>1, <2>1 DEF Call!Next, Call!Rest, Call!vars, CallResult
  <1>2. CASE CallPhase(r)' = "over"
    BY <1>2 DEF Call!Next, Call!End, CallResult
  <1> QED
    BY <1>1, <1>2

\* What request r itself does.
LEMMA CallMoves ==
  ASSUME TypeOK, PlaceInv, NEW r \in Requests,
         \/ Accept(r) \/ DecodeFails(r) \/ (\E c \in Commands : Register(r, c))
         \/ Lock(r) \/ Inside(r) \/ Release(r)
  PROVE  [Call(r)!Next]_(Call(r)!vars)
  <1> DEFINE Ends == /\ CallPhase(r) \in {"called", "driving"}
                     /\ CallPhase(r)' \in {CallPhase(r), "over"}
                     /\ CallResult(r)' \in {"none", "ok", "err"}
                     /\ CallResult(r)' = "ok" => CallPhase(r) = "driving"
                     /\ motor' = motor \/ motor' # r
  <1>1. Ends => [Call(r)!Next]_(Call(r)!vars)
    BY CallEnds
  <1> USE DEF TypeOK, PlaceInv, Places, Holding, Dispatching, At, Goto, Return, InMotion
  <1> USE NoRequestAssumption
  <1>2. CASE Accept(r) \/ DecodeFails(r) \/ (\E c \in Commands : Register(r, c)) \/ Lock(r)
    <2>1. CallPhase(r) = "called" /\ CallPhase(r)' \in {"called", "over"} /\ resp'[r] = "none"
          /\ motor' = motor
      BY <1>2 DEF Accept, DecodeFails, Register, Lock, CallPhase, deskVars
    <2> QED
      BY <1>1, <2>1 DEF CallResult
  <1>3. CASE Bail(r)
    <2>1. /\ CallPhase(r) = "called" /\ CallPhase(r)' \in {"called", "over"}
          /\ resp'[r] = "preempted" /\ motor' = motor
      BY <1>3 DEF Bail, CallPhase, deskVars
    <2> QED
      BY <1>1, <2>1 DEF CallResult
  <1>4. CASE Begin(r)
    <2>1. CallPhase(r) = "called" /\ CallPhase(r)' = "called" /\ motor' = motor
      BY <1>4 DEF Begin, Switch, CallPhase, deskVars, Pulsed, Driven, Immediate
    <2> QED
      BY <1>1, <2>1 DEF CallResult
  <1>5. CASE Wake(r)
    <2>1. CallPhase(r) = "called" /\ CallPhase(r)' \in {"called", "over"} /\ motor' = motor
          /\ resp'[r] \in {"none", "err"}
      BY <1>5 DEF Wake, CallPhase, deskVars
    <2> QED
      BY <1>1, <2>1 DEF CallResult
  <1>6. CASE FirstPulse(r)
    <2>1. CallPhase(r) = "called" /\ cmd' = cmd
      BY <1>6 DEF FirstPulse, CallPhase
    <2>2. CASE pc'[r] \in {"loop", "stopping"}
      <3>1. CallPhase(r)' = "driving" /\ motor' \in {motor, r}
        BY <1>6, <2>2 DEF FirstPulse, CallPhase
      <3> QED
        BY <2>1, <3>1 DEF Call!Next, Call!Begin
    <2>3. CASE pc'[r] \notin {"loop", "stopping"}
      <3>1. CallPhase(r)' \in {"called", "over"} /\ resp'[r] = "err" /\ motor' = motor
        BY <1>6, <2>1, <2>3 DEF FirstPulse, CallPhase
      <3> QED
        BY <1>1, <2>1, <3>1 DEF CallResult
    <2> QED
      BY <2>2, <2>3
  <1>7. CASE Tick(r)
    <2>1. CallPhase(r) = "driving" /\ CallPhase(r)' = "driving" /\ motor' = r
      BY <1>7 DEF Tick, CallPhase, request
    <2> QED
      BY <2>1 DEF Call!Next, Call!Go
  <1>8. CASE \E a \in {"ok", "err"} : LeaveLoop(r, a)
    <2>1. CallPhase(r) = "driving" /\ CallPhase(r)' = "driving" /\ motor' = motor
      BY <1>8 DEF LeaveLoop, CallPhase, deskVars
    <2> QED
      BY <1>1, <2>1 DEF CallResult
  <1>9. CASE StopWrite(r)
    <2>1. CallPhase(r) = "driving" /\ CallPhase(r)' = "over" /\ motor' \in {motor, NoRequest}
          /\ resp'[r] \in {"ok", "err"}
      BY <1>9 DEF StopWrite, CallPhase
    <2> QED
      BY <1>1, <2>1 DEF CallResult
  <1>10. CASE Write(r) \/ Query(r) \/ Await(r)
    <2>1. CallPhase(r) = "called" /\ CallPhase(r)' = "called" /\ motor' \in {motor, NoRequest}
      BY <1>10 DEF Write, Query, Await, CallPhase, deskVars, Pulsed, Driven, Queried, Written
    <2> QED
      BY <1>1, <2>1 DEF CallResult
  <1>11. CASE Reply(r) \/ CloseQuit(r) \/ Release(r)
    <2>1. UNCHANGED <<CallPhase(r), cmd, resp, motor>>
      BY <1>11 DEF Reply, CloseQuit, Release, CallPhase, deskVars
    <2> QED
      BY <2>1 DEF Call!vars
  <1> QED
    BY <1>2, <1>3, <1>4, <1>5, <1>6, <1>7, <1>8, <1>9, <1>10, <1>11 DEF Inside

LEMMA CallStep ==
  ASSUME TypeOK, PlaceInv, [Next]_vars, NEW r \in Requests
  PROVE  [Call(r)!Next]_(Call(r)!vars)
  <1>1. CASE Outside
    <2>1. motor' \in {motor, NoRequest}
      BY <1>1 DEF Outside, Interrupted, QuitReceived, Exit, MotorHalts, vars, deskVars
    <2> QED
      BY <1>1, <2>1, OutsideKeeps, CallUndisturbed, NoRequestAssumption
  <1>2. ASSUME NEW q \in Requests, q # r,
               \/ Accept(q) \/ DecodeFails(q) \/ (\E c \in Commands : Register(q, c))
               \/ Lock(q) \/ Release(q)
        PROVE  [Call(r)!Next]_(Call(r)!vars)
    <2>1. UNCHANGED <<pc[r], cmd[r], resp[r], motor>>
      BY <1>2 DEF Accept, DecodeFails, Register, Lock, Release, Goto, TypeOK, deskVars
    <2> QED
      BY <2>1, CallUndisturbed
  <1>3. ASSUME NEW q \in Requests, q # r, Inside(q)
        PROVE  [Call(r)!Next]_(Call(r)!vars)
    <2>1. UNCHANGED <<pc[r], cmd[r], resp[r]>>
      BY <1>3, InsideKeeps
    <2>2. motor' \in {motor, q, NoRequest}
      BY <1>3 DEF Inside, Bail, Begin, Switch, Wake, FirstPulse, Tick, LeaveLoop, StopWrite, Write,
         Query, Await, Reply, CloseQuit, deskVars
    <2> QED
      BY <1>3, <2>1, <2>2, CallUndisturbed, NoRequestAssumption
  <1> QED
    BY <1>1, <1>2, <1>3, CallMoves, Cases

\* Whatever requests cancel and overtake each other, each motion command keeps to MotionCall.
THEOREM MotionsServed == Spec => MotionsAreCalls
  <1>1. Init => \A r \in Requests : Call(r)!Init
    <2> SUFFICES ASSUME Init, NEW r \in Requests PROVE Call(r)!Init
      OBVIOUS
    <2>1. CallPhase(r) = "called" /\ motor # r
      BY NoRequestAssumption DEF Init, CallPhase, InMotion, Pulsed, Driven
    <2> QED
      BY <2>1 DEF Call!Init
  <1>2. IInv /\ [Next]_vars => [\A r \in Requests : [Call(r)!Next]_(Call(r)!vars)]_vars
    BY CallStep DEF IInv
  <1> QED
    BY <1>1, <1>2, Inductive, PTL DEF Spec, MotionsAreCalls
=============================================================================
