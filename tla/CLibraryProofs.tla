---------------------------- MODULE CLibraryProofs ----------------------------
(***************************************************************************)
(* Proofs about CLibrary, for any number of calls, by any threads, on any  *)
(* number of handles: the registries of cancel functions are exact, a wait *)
(* that is alone on its handle can be cancelled, and a call that returned  *)
(* does not keep the desk moving.                                          *)
(***************************************************************************)
EXTENDS CLibrary, FiniteSetTheorems, TLAPS

USE NoCallAssumption, OpsAssumption

----------------------------------------------------------------------------
\* Type correctness.

LEMMA StepType ==
  ASSUME TypeOK, [Next]_vars
  PROVE  TypeOK'
  <1> USE DEF TypeOK, At, Goto, Finish, calls, registry, listeners, desk, Places, Registered
  <1>1. ASSUME NEW h \in Handles, Connect(h) \/ MotorHalts(h) PROVE TypeOK'
    BY <1>1 DEF Connect, MotorHalts
  <1>2. ASSUME NEW c \in Calls, NEW k \in Ops, NEW h \in Handles, NEW x \in Calls \cup {NoCall},
               Enter(c, k, h, x)
        PROVE  TypeOK'
    <2>1. op' \in [Calls -> AllOps \cup {"none"}] /\ on' \in [Calls -> Handles]
          /\ target' \in [Calls -> Calls \cup {NoCall}] /\ at' \in [Calls -> Places]
      BY <1>2 DEF Enter
    <2>2. shared' \in [Calls -> BOOLEAN]
      <3>1. \A d \in Calls : (\/ shared[d]
                              \/ k = "wait" /\ d = c /\ WaitsOn(h) # {}
                              \/ k = "wait" /\ d \in WaitsOn(h)) \in BOOLEAN
        OBVIOUS
      <3> QED
        BY <1>2, <3>1 DEF Enter
    <2>3. \A d \in Calls : at'[d] = "fire" => target'[d] # NoCall
      BY <1>2 DEF Enter
    <2> QED
      BY <1>2, <2>1, <2>2, <2>3 DEF Enter
  <1>3. ASSUME NEW c \in Calls, Resolve(c) PROVE TypeOK'
    BY <1>3 DEF Resolve, Body
  <1>4. ASSUME NEW c \in Calls, Panic(c) PROVE TypeOK'
    BY <1>4 DEF Panic
  <1>5. ASSUME NEW c \in Calls, Unlink(c) PROVE TypeOK'
    BY <1>5 DEF Unlink
  <1>6. ASSUME NEW c \in Calls, Delete(c) PROVE TypeOK'
    BY <1>6 DEF Delete
  <1>7. ASSUME NEW c \in Calls, SetCommandCancel(c) PROVE TypeOK'
    BY <1>7 DEF SetCommandCancel
  <1>8. ASSUME NEW c \in Calls, Wake(c) PROVE TypeOK'
    BY <1>8 DEF Wake, Exit
  <1>9. ASSUME NEW c \in Calls, FirstPulse(c) PROVE TypeOK'
    BY <1>9 DEF FirstPulse, Moves
  <1>10. ASSUME NEW c \in Calls, Tick(c) PROVE TypeOK'
    BY <1>10 DEF Tick, Moves
  <1>11. ASSUME NEW c \in Calls, Expire(c) PROVE TypeOK'
    BY <1>11 DEF Expire
  <1>12. ASSUME NEW c \in Calls, CtxDone(c) PROVE TypeOK'
    BY <1>12 DEF CtxDone
  <1>13. ASSUME NEW c \in Calls, StopWrite(c) PROVE TypeOK'
    <2>1. motor' \in [Handles -> Calls \cup {NoCall}] /\ lost' \in [Calls -> BOOLEAN]
      <3>1. CASE StopSent(c)
        BY <1>13, <3>1 DEF StopSent
      <3>2. CASE StopFails(c)
        BY <1>13, <3>2 DEF StopFails
      <3> QED
        BY <1>13, <3>1, <3>2 DEF StopWrite
    <2>2. /\ at' \in [Calls -> Places] /\ result' \in [Calls -> {"none", "ok", "err"}]
          /\ \A d \in Calls : at'[d] = "fire" => at[d] = "fire"
      BY <1>13 DEF StopWrite, Exit
    <2> QED
      BY <1>13, <2>1, <2>2 DEF StopWrite
  <1>14. ASSUME NEW c \in Calls, ClearCommandCancel(c) PROVE TypeOK'
    BY <1>14 DEF ClearCommandCancel
  <1>15. ASSUME NEW c \in Calls, Stop(c) PROVE TypeOK'
    <2>1. motor' \in [Handles -> Calls \cup {NoCall}] /\ lost' \in [Calls -> BOOLEAN]
      <3>1. CASE StopSent(c)
        BY <1>15, <3>1 DEF StopSent
      <3>2. CASE StopFails(c)
        BY <1>15, <3>2 DEF StopFails
      <3> QED
        BY <1>15, <3>1, <3>2 DEF Stop
    <2>2. /\ at' \in [Calls -> Places] /\ result' \in [Calls -> {"none", "ok", "err"}]
          /\ \A d \in Calls : at'[d] = "fire" => at[d] = "fire"
      BY <1>15 DEF Stop
    <2> QED
      BY <1>15, <2>1, <2>2 DEF Stop
  <1>16. ASSUME NEW c \in Calls, Query(c) PROVE TypeOK'
    BY <1>16 DEF Query
  <1>17. ASSUME NEW c \in Calls, AddListener(c) PROVE TypeOK'
    BY <1>17 DEF AddListener
  <1>18. ASSUME NEW c \in Calls, RegisterCancel(c) PROVE TypeOK'
    BY <1>18 DEF RegisterCancel
  <1>19. ASSUME NEW c \in Calls, TakeCommand(c) PROVE TypeOK'
    BY <1>19 DEF TakeCommand
  <1>20. ASSUME NEW c \in Calls, TakeListener(c) PROVE TypeOK'
    BY <1>20 DEF TakeListener
  <1>21. ASSUME NEW c \in Calls, Fire(c) PROVE TypeOK'
    <2>1. target[c] \in Calls
      BY <1>21 DEF Fire
    <2>2. at' \in [Calls -> Places] /\ \A d \in Calls : at'[d] = "fire" => at[d] = "fire"
      BY <1>21 DEF Fire
    <2>3. cancelled' \in [Calls -> BOOLEAN] /\ removed' \in [Calls -> Nat]
      <3>1. CASE op[c] = "cancel"
        BY <1>21, <2>1, <3>1 DEF Fire
      <3>2. CASE op[c] # "cancel"
        <4>1. removed[target[c]] + 1 \in Nat /\ UNCHANGED cancelled
          BY <1>21, <2>1, <3>2 DEF Fire
        <4> QED
          BY <1>21, <2>1, <3>2, <4>1 DEF Fire
      <3> QED
        BY <3>1, <3>2
    <2> QED
      BY <1>21, <2>2, <2>3 DEF Fire
  <1>22. CASE UNCHANGED vars
    BY <1>22 DEF vars
  <1> QED
    BY <1>1, <1>2, <1>3, <1>4, <1>5, <1>6, <1>7, <1>8, <1>9, <1>10, <1>11, <1>12, <1>13,
       <1>14, <1>15, <1>16, <1>17, <1>18, <1>19, <1>20, <1>21, <1>22
    DEF Next, Proceed, Motion

LEMMA InitType == Init => TypeOK
  <1> SUFFICES ASSUME Init PROVE TypeOK
    OBVIOUS
  <1>1. PICK h \in Handles : on = [c \in Calls |-> h]
    BY DEF Init
  <1>2. on \in [Calls -> Handles]
    BY <1>1
  <1> QED
    BY <1>2 DEF Init, TypeOK, Places

\* Every variable keeps its type.
THEOREM TypeCorrect == Spec => []TypeOK
  <1>1. TypeOK /\ [Next]_vars => TypeOK'
    BY StepType
  <1> QED
    BY InitType, <1>1, PTL DEF Spec

----------------------------------------------------------------------------
\* Which function is where.

LEMMA StepPlace ==
  ASSUME TypeOK, PlaceInv, [Next]_vars
  PROVE  PlaceInv'
  <1> USE DEF TypeOK, PlaceInv, At, Goto, Finish, calls
  <1>1. ASSUME NEW h \in Handles, Connect(h) \/ MotorHalts(h) PROVE PlaceInv'
    BY <1>1 DEF Connect, MotorHalts
  <1>2. ASSUME NEW c \in Calls, NEW k \in Ops, NEW h \in Handles, NEW x \in Calls \cup {NoCall},
               Enter(c, k, h, x)
        PROVE  PlaceInv'
    BY <1>2 DEF Enter
  <1>3. ASSUME NEW c \in Calls, Resolve(c) \/ Panic(c) \/ Unlink(c) \/ Delete(c) PROVE PlaceInv'
    BY <1>3 DEF Resolve, Panic, Unlink, Delete, Body
  <1>4. ASSUME NEW c \in Calls, Motion(c) PROVE PlaceInv'
    BY <1>4 DEF Motion, SetCommandCancel, Wake, FirstPulse, Tick, Expire, CtxDone, StopWrite,
                ClearCommandCancel, Exit
  <1>5. ASSUME NEW c \in Calls, Stop(c) \/ Query(c) \/ AddListener(c) \/ RegisterCancel(c)
        PROVE PlaceInv'
    BY <1>5 DEF Stop, Query, AddListener, RegisterCancel
  <1>6. ASSUME NEW c \in Calls, TakeCommand(c) \/ TakeListener(c) \/ Fire(c) PROVE PlaceInv'
    BY <1>6 DEF TakeCommand, TakeListener, Fire
  <1>7. CASE UNCHANGED vars
    BY <1>7 DEF vars
  <1> QED
    BY <1>1, <1>2, <1>3, <1>4, <1>5, <1>6, <1>7 DEF Next, Proceed
----------------------------------------------------------------------------
\* The command registry.

LEMMA StepStored ==
  ASSUME TypeOK, PlaceInv, StoredInv, [Next]_vars
  PROVE  StoredInv'
  <1> USE DEF TypeOK, PlaceInv, StoredInv, At, Goto, Finish, calls, registry, Registered
  <1>1. ASSUME NEW h \in Handles, Connect(h) \/ MotorHalts(h) PROVE StoredInv'
    BY <1>1 DEF Connect, MotorHalts
  <1>2. ASSUME NEW c \in Calls, NEW k \in Ops, NEW h \in Handles, NEW x \in Calls \cup {NoCall},
               Enter(c, k, h, x)
        PROVE  StoredInv'
    BY <1>2 DEF Enter
  <1>3. ASSUME NEW c \in Calls, Resolve(c) \/ Panic(c) \/ Unlink(c) \/ Delete(c) PROVE StoredInv'
    BY <1>3 DEF Resolve, Panic, Unlink, Delete
  <1>4. ASSUME NEW c \in Calls, SetCommandCancel(c) PROVE StoredInv'
    BY <1>4 DEF SetCommandCancel
  <1>5. ASSUME NEW c \in Calls, Wake(c) \/ FirstPulse(c) \/ Tick(c) \/ Expire(c) \/ CtxDone(c)
                                  \/ StopWrite(c)
        PROVE StoredInv'
    BY <1>5 DEF Wake, FirstPulse, Tick, Expire, CtxDone, StopWrite, Exit
  <1>6. ASSUME NEW c \in Calls, ClearCommandCancel(c) PROVE StoredInv'
    BY <1>6 DEF ClearCommandCancel
  <1>7. ASSUME NEW c \in Calls, Stop(c) \/ Query(c) \/ AddListener(c) \/ RegisterCancel(c)
        PROVE StoredInv'
    BY <1>7 DEF Stop, Query, AddListener, RegisterCancel
  <1>8. ASSUME NEW c \in Calls, TakeCommand(c) \/ TakeListener(c) \/ Fire(c) PROVE StoredInv'
    BY <1>8 DEF TakeCommand, TakeListener, Fire
  <1>9. CASE UNCHANGED vars
    BY <1>9 DEF vars
  <1> QED
    BY <1>1, <1>2, <1>3, <1>4, <1>5, <1>6, <1>7, <1>8, <1>9 DEF Next, Proceed, Motion

LEMMA StepShared ==
  ASSUME TypeOK, PlaceInv, SharedInv, [Next]_vars
  PROVE  SharedInv'
  <1> USE DEF TypeOK, PlaceInv, SharedInv, WaitsOn, Under, At, Goto, Finish, calls
  <1>1. ASSUME NEW h \in Handles, Connect(h) \/ MotorHalts(h) PROVE SharedInv'
    BY <1>1 DEF Connect, MotorHalts
  <1>2. ASSUME NEW c \in Calls, NEW k \in Ops, NEW h \in Handles, NEW x \in Calls \cup {NoCall},
               Enter(c, k, h, x)
        PROVE  SharedInv'
    BY <1>2 DEF Enter
  <1>3. ASSUME NEW c \in Calls, Proceed(c) PROVE SharedInv'
    <2>1. UNCHANGED <<op, on, shared>> /\ \A d \in Calls : Under(d)' => Under(d)
      BY <1>3 DEF Proceed, Motion, Resolve, Panic, Unlink, Delete, SetCommandCancel, Wake,
                  FirstPulse, Tick, Expire, CtxDone, StopWrite, ClearCommandCancel, Stop, Query,
                  AddListener, RegisterCancel, TakeCommand, TakeListener, Fire
    <2> QED
      BY <2>1
  <1>4. CASE UNCHANGED vars
    BY <1>4 DEF vars
  <1> QED
    BY <1>1, <1>2, <1>3, <1>4 DEF Next
LEMMA StepLone ==
  ASSUME TypeOK, PlaceInv, SharedInv, LoneWaitCancellable, [Next]_vars
  PROVE  LoneWaitCancellable'
  <1> USE DEF TypeOK, PlaceInv, At, Goto, Finish, calls, registry
  <1> SUFFICES ASSUME NEW w \in Calls, Waiting(w)', ~shared'[w]
               PROVE  Cancellable(w)'
    BY DEF LoneWaitCancellable
  <1>1. \A d \in Calls : d # w /\ op[d] = "wait" /\ Under(d) /\ Under(w) /\ op[w] = "wait"
                          /\ ~shared[w] => on[d] # on[w]
    BY DEF SharedInv, WaitsOn
  <1>2. ASSUME NEW h \in Handles, Connect(h) \/ MotorHalts(h) PROVE Cancellable(w)'
    BY <1>2 DEF Connect, MotorHalts, LoneWaitCancellable, Waiting, Cancellable
  <1>3. ASSUME NEW c \in Calls, NEW k \in Ops, NEW h \in Handles, NEW x \in Calls \cup {NoCall},
               Enter(c, k, h, x)
        PROVE  Cancellable(w)'
    <2>1. c # w /\ Waiting(w) /\ ~shared[w] /\ on'[w] = on[w]
      BY <1>3 DEF Enter, Waiting
    <2>2. Cancellable(w)
      BY <2>1 DEF LoneWaitCancellable
    <2>3. \A d \in Calls : at[d] = "fire" => d # c
      BY <1>3 DEF Enter
    <2>4. UNCHANGED <<cancels, cancelled>>
      BY <1>3 DEF Enter
    <2> QED
      BY <1>3, <2>1, <2>2, <2>3, <2>4 DEF Enter, Cancellable
  <1>4. ASSUME NEW c \in Calls,
               \/ Resolve(c) \/ Panic(c) \/ Unlink(c) \/ Delete(c)
               \/ Wake(c) \/ FirstPulse(c) \/ Tick(c) \/ Expire(c) \/ CtxDone(c) \/ StopWrite(c)
               \/ Stop(c) \/ Query(c) \/ AddListener(c) \/ RegisterCancel(c)
        PROVE  Cancellable(w)'
    <2>1. Waiting(w)
      BY <1>4 DEF Resolve, Body, Panic, Unlink, Delete, Wake, FirstPulse, Tick, Expire, CtxDone,
                  StopWrite, Exit, Stop, Query, AddListener, RegisterCancel, Waiting
    <2>2. /\ UNCHANGED <<op, on, shared, target, cancels, cancelled>>
          /\ \A d \in Calls : at[d] = "fire" => at'[d] = "fire"
      BY <1>4 DEF Resolve, Panic, Unlink, Delete, Wake, FirstPulse, Tick, Expire, CtxDone,
                  StopWrite, Stop, Query, AddListener, RegisterCancel
    <2> QED
      BY <2>1, <2>2 DEF LoneWaitCancellable, Cancellable
  <1>5. ASSUME NEW c \in Calls, SetCommandCancel(c) PROVE Cancellable(w)'
    <2>1. CASE c = w
      BY <1>5, <2>1 DEF SetCommandCancel, Cancellable
    <2>2. CASE c # w
      <3>1. Waiting(w) /\ ~shared[w] /\ on[c] # on[w]
        BY <1>1, <1>5, <2>2 DEF SetCommandCancel, Waiting, Under
      <3> QED
        BY <1>5, <2>2, <3>1 DEF SetCommandCancel, LoneWaitCancellable, Cancellable
    <2> QED
      BY <2>1, <2>2
  <1>6. ASSUME NEW c \in Calls, ClearCommandCancel(c) PROVE Cancellable(w)'
    <2>1. Waiting(w) /\ ~shared[w] /\ c # w
      BY <1>6 DEF ClearCommandCancel, Waiting
    <2>2. on[c] # on[w]
      BY <1>1, <1>6, <2>1 DEF ClearCommandCancel, Waiting, Under
    <2> QED
      BY <1>6, <2>1, <2>2 DEF ClearCommandCancel, LoneWaitCancellable, Cancellable
  <1>7. ASSUME NEW c \in Calls, TakeCommand(c) PROVE Cancellable(w)'
    <2>1. Waiting(w) /\ ~shared[w] /\ Cancellable(w)
      BY <1>7 DEF TakeCommand, Waiting, LoneWaitCancellable
    <2>2. CASE cancels[on[c]] = w
      <3>1. at'[c] = "fire" /\ op'[c] = "cancel" /\ target'[c] = w
        BY <1>7, <2>2 DEF TakeCommand
      <3> QED
        BY <3>1 DEF Cancellable
    <2>3. CASE cancels[on[c]] # w
      BY <1>7, <2>1, <2>3 DEF TakeCommand, Cancellable
    <2> QED
      BY <2>2, <2>3
  <1>8. ASSUME NEW c \in Calls, TakeListener(c) PROVE Cancellable(w)'
    BY <1>8 DEF TakeListener, Waiting, LoneWaitCancellable, Cancellable
  <1>9. ASSUME NEW c \in Calls, Fire(c) PROVE Cancellable(w)'
    <2>1. Waiting(w) /\ ~shared[w] /\ Cancellable(w)
      BY <1>9 DEF Fire, Waiting, LoneWaitCancellable
    <2>2. CASE op[c] = "cancel" /\ target[c] = w
      BY <1>9, <2>2 DEF Fire, Cancellable
    <2>3. CASE ~(op[c] = "cancel" /\ target[c] = w)
      <3>1. cancelled[w] => cancelled'[w]
        BY <1>9 DEF Fire
      <3>2. UNCHANGED <<op, on, target, cancels>>
            /\ \A d \in Calls : d # c => at'[d] = at[d]
        BY <1>9 DEF Fire
      <3> QED
        BY <2>1, <2>3, <3>1, <3>2 DEF Cancellable
    <2> QED
      BY <2>2, <2>3
  <1>10. CASE UNCHANGED vars
    BY <1>10 DEF vars, Waiting, LoneWaitCancellable, Cancellable
  <1> QED
    BY <1>2, <1>3, <1>4, <1>5, <1>6, <1>7, <1>8, <1>9, <1>10 DEF Next, Proceed, Motion

----------------------------------------------------------------------------
\* The motor.

LEMMA StepMotor ==
  ASSUME TypeOK, PlaceInv, MotorInv, [Next]_vars
  PROVE  MotorInv'
  <1> USE DEF TypeOK, PlaceInv, MotorInv, At, Goto, Finish, calls, desk
  <1>1. ASSUME NEW h \in Handles, Connect(h) PROVE MotorInv'
    BY <1>1 DEF Connect
  <1>2. ASSUME NEW h \in Handles, MotorHalts(h) PROVE MotorInv'
    BY <1>2 DEF MotorHalts
  <1>3. ASSUME NEW c \in Calls, NEW k \in Ops, NEW h \in Handles, NEW x \in Calls \cup {NoCall},
               Enter(c, k, h, x)
        PROVE  MotorInv'
    BY <1>3 DEF Enter
  <1>4. ASSUME NEW c \in Calls, Resolve(c) \/ Panic(c) PROVE MotorInv'
    BY <1>4 DEF Resolve, Panic
  <1>5. ASSUME NEW c \in Calls, Unlink(c) \/ Delete(c) PROVE MotorInv'
    BY <1>5 DEF Unlink, Delete
  <1>6. ASSUME NEW c \in Calls, SetCommandCancel(c) \/ Wake(c) \/ ClearCommandCancel(c)
        PROVE  MotorInv'
    BY <1>6 DEF SetCommandCancel, Wake, Exit, ClearCommandCancel
  <1>7. ASSUME NEW c \in Calls, FirstPulse(c) \/ Tick(c) PROVE MotorInv'
    BY <1>7 DEF FirstPulse, Tick, Moves, LinkUp
  <1>8. ASSUME NEW c \in Calls, Expire(c) \/ CtxDone(c) PROVE MotorInv'
    BY <1>8 DEF Expire, CtxDone
  <1>9. ASSUME NEW c \in Calls, StopWrite(c) PROVE MotorInv'
    <2>1. CASE StopSent(c)
      BY <1>9, <2>1 DEF StopWrite, StopSent, StopFails, LinkUp, Exit
    <2>2. CASE StopFails(c) /\ Finish(c, Exit(c), IF op[c] = "move" THEN "err" ELSE result[c])
      BY <1>9, <2>2 DEF StopWrite, StopFails, Exit
    <2> QED
      BY <1>9, <2>1, <2>2 DEF StopWrite
  <1>10. ASSUME NEW c \in Calls, Stop(c) PROVE MotorInv'
    BY <1>10 DEF Stop, StopSent, StopFails
  <1>11. ASSUME NEW c \in Calls, Query(c) \/ AddListener(c) \/ RegisterCancel(c)
         PROVE  MotorInv'
    BY <1>11 DEF Query, AddListener, RegisterCancel, listeners
  <1>12. ASSUME NEW c \in Calls, TakeCommand(c) \/ TakeListener(c) \/ Fire(c) PROVE MotorInv'
    BY <1>12 DEF TakeCommand, TakeListener, Fire
  <1>13. CASE UNCHANGED vars
    BY <1>13 DEF vars
  <1> QED
    BY <1>1, <1>2, <1>3, <1>4, <1>5, <1>6, <1>7, <1>8, <1>9, <1>10, <1>11, <1>12, <1>13
    DEF Next, Proceed, Motion
----------------------------------------------------------------------------
\* The listeners.

\* Only the functions for listeners touch them, and a token once returned stays so.
Steady ==
    /\ UNCHANGED <<tokens, removed>>
    /\ \A c \in Calls : op'[c] = "unlisten" =>
          (op[c] = "unlisten" /\ target'[c] = target[c]) \/ target'[c] \in Added
    /\ Added' = Added
    /\ \A c, x \in Calls : Took(c, x)' <=> Took(c, x)

LEMMA OthersAreSteady ==
  ASSUME TypeOK, PlaceInv, [Next]_vars
  PROVE  Steady \/ \E c \in Calls : RegisterCancel(c) \/ TakeListener(c)
                                      \/ (Fire(c) /\ op[c] = "unlisten")
  <1> USE DEF TypeOK, PlaceInv, Steady, Added, Took, At, Goto, Finish, calls, listeners
  <1>1. ASSUME NEW h \in Handles, Connect(h) \/ MotorHalts(h) PROVE Steady
    BY <1>1 DEF Connect, MotorHalts
  <1>2. ASSUME NEW c \in Calls, NEW k \in Ops, NEW h \in Handles, NEW x \in Calls \cup {NoCall},
               Enter(c, k, h, x)
        PROVE  Steady
    <2>1. UNCHANGED <<tokens, removed>>
      BY <1>2 DEF Enter
    <2>2. /\ at[c] = "idle" /\ at'[c] = "entered" /\ op[c] = "none" /\ op'[c] = k
          /\ k = "unlisten" => x \in Added
          /\ target'[c] = x
          /\ \A d \in Calls : d # c => at'[d] = at[d] /\ op'[d] = op[d] /\ target'[d] = target[d]
      BY <1>2 DEF Enter
    <2> QED
      BY <2>1, <2>2
  <1>3. ASSUME NEW c \in Calls,
               \/ Resolve(c) \/ Panic(c) \/ Unlink(c) \/ Delete(c) \/ Motion(c)
               \/ Stop(c) \/ Query(c) \/ AddListener(c)
               \/ Fire(c) /\ op[c] # "unlisten"
        PROVE  Steady
    <2>1. UNCHANGED <<op, target, tokens, removed>>
      BY <1>3 DEF Motion, Resolve, Panic, Unlink, Delete, SetCommandCancel, Wake,
                  FirstPulse, Tick, Expire, CtxDone, StopWrite, ClearCommandCancel, Stop, Query,
                  AddListener, Fire
    <2>2. \A d \in Calls :
             /\ op[d] = "listen" => (at'[d] = "done" <=> at[d] = "done")
             /\ op[d] = "unlisten" => at'[d] = at[d]
      BY <1>3 DEF Motion, Resolve, Panic, Unlink, Delete, SetCommandCancel, Wake,
                  FirstPulse, Tick, Expire, CtxDone, StopWrite, ClearCommandCancel, Stop, Query,
                  AddListener, Fire, Exit, Body
    <2> QED
      BY <2>1, <2>2
  <1>4. ASSUME NEW c \in Calls, TakeCommand(c) PROVE Steady
    <2>1. /\ UNCHANGED <<op, tokens, removed>> /\ op[c] = "cancel"
          /\ \A d \in Calls : d # c => at'[d] = at[d] /\ target'[d] = target[d]
      BY <1>4 DEF TakeCommand
    <2> QED
      BY <2>1
  <1>5. CASE UNCHANGED vars
    BY <1>5 DEF vars
  <1> HIDE DEF Steady, TypeOK, PlaceInv
  <1>6. ASSUME NEW c \in Calls, Proceed(c)
        PROVE  Steady \/ RegisterCancel(c) \/ TakeListener(c) \/ (Fire(c) /\ op[c] = "unlisten")
    BY <1>3, <1>4, <1>6 DEF Proceed
  <1> QED
    BY <1>1, <1>2, <1>5, <1>6 DEF Next

LEMMA StepToken ==
  ASSUME TypeOK, PlaceInv, TokenInv, [Next]_vars
  PROVE  TokenInv'
  <1> USE DEF TypeOK, PlaceInv, TokenInv, Added, At, Goto, Finish, calls, listeners
  <1>1. CASE Steady
    BY <1>1 DEF Steady
  <1>2. ASSUME NEW c \in Calls, RegisterCancel(c) PROVE TokenInv'
    BY <1>2 DEF RegisterCancel
  <1>3. ASSUME NEW c \in Calls, TakeListener(c) PROVE TokenInv'
    BY <1>3 DEF TakeListener
  <1>4. ASSUME NEW c \in Calls, Fire(c), op[c] = "unlisten" PROVE TokenInv'
    BY <1>4 DEF Fire
  <1> QED
    BY <1>1, <1>2, <1>3, <1>4, OthersAreSteady

LEMMA StepOnce ==
  ASSUME TypeOK, PlaceInv, TokenInv, OnceInv, [Next]_vars
  PROVE  OnceInv'
  <1>1. CASE Steady
    <2> SUFFICES ASSUME NEW x \in Added
                 PROVE  /\ removed'[x] \in {0, 1}
                        /\ x \in tokens' => removed'[x] = 0
                        /\ x \notin tokens' /\ removed'[x] = 0 => \E c \in Calls : Took(c, x)'
                        /\ \A c \in Calls : Took(c, x)' => x \notin tokens' /\ removed'[x] = 0
                        /\ \A c, d \in Calls : Took(c, x)' /\ Took(d, x)' => c = d
      BY <1>1 DEF Steady, OnceInv
    <2>1. x \in Calls
      BY DEF Added
    <2> QED
      BY <1>1, <2>1 DEF Steady, OnceInv
  <1> USE DEF TypeOK, PlaceInv, TokenInv, OnceInv, Added, Took, At, Goto, Finish, calls,
              listeners
  <1>2. ASSUME NEW c \in Calls, RegisterCancel(c) PROVE OnceInv'
    <2>1. removed[c] = 0 /\ c \notin tokens /\ \A d \in Calls : ~Took(d, c)
      BY <1>2 DEF RegisterCancel
    <2>2. /\ UNCHANGED <<op, target, removed>> /\ tokens' = tokens \cup {c}
          /\ \A d \in Calls : d # c => at'[d] = at[d]
          /\ at'[c] = "done" /\ op[c] = "listen"
      BY <1>2 DEF RegisterCancel
    <2> QED
      BY <2>1, <2>2
  <1>3. ASSUME NEW c \in Calls, TakeListener(c) PROVE OnceInv'
    <2>1. /\ UNCHANGED <<op, target, removed>> /\ tokens' = tokens \ {target[c]}
          /\ \A d \in Calls : d # c => at'[d] = at[d]
          /\ at[c] = "entered" /\ op[c] = "unlisten"
          /\ at'[c] = IF target[c] \in tokens THEN "fire" ELSE "done"
      BY <1>3 DEF TakeListener
    <2> QED
      BY <2>1
  <1>4. ASSUME NEW c \in Calls, Fire(c), op[c] = "unlisten" PROVE OnceInv'
    <2>1. /\ UNCHANGED <<op, target, tokens>> /\ target[c] \in Added
          /\ \A d \in Calls : d # c => at'[d] = at[d]
          /\ at[c] = "fire" /\ at'[c] = "done"
      BY <1>4 DEF Fire
    <2>2. removed[target[c]] = 0 /\ removed' = [removed EXCEPT ![target[c]] = 1]
      BY <1>4, <2>1 DEF Fire
    <2>3. ASSUME NEW x \in Added, x # target[c]
          PROVE  removed'[x] = removed[x] /\ \A d \in Calls : Took(d, x)' <=> Took(d, x)
      BY <2>1, <2>2, <2>3
    <2>4. removed'[target[c]] = 1 /\ target[c] \notin tokens
      BY <1>4, <2>1, <2>2
    <2>5. ASSUME NEW d \in Calls PROVE ~Took(d, target[c])'
      BY <1>4, <2>1
    <2>6. Added' = Added
      BY <1>4, <2>1
    <2> HIDE DEF Added, Took
    <2> QED
      BY <2>1, <2>3, <2>4, <2>5, <2>6
  <1> QED
    BY <1>1, <1>2, <1>3, <1>4, OthersAreSteady

----------------------------------------------------------------------------
\* The theorems.

LEMMA Inductive == Spec => []IInv
  <1>1. Init => IInv
    <2> SUFFICES ASSUME Init PROVE IInv
      OBVIOUS
    <2>1. TypeOK
      BY InitType
    <2>2. PlaceInv /\ SharedInv /\ StoredInv /\ LoneWaitCancellable /\ MotorInv
      BY <2>1 DEF Init, TypeOK, PlaceInv, SharedInv, StoredInv, LoneWaitCancellable, Waiting,
                  MotorInv, WaitsOn, Under
    <2>3. TokenInv /\ OnceInv
      BY <2>1 DEF Init, TypeOK, TokenInv, OnceInv, Added, Took
    <2> QED
      BY <2>1, <2>2, <2>3 DEF IInv
  <1>2. IInv /\ [Next]_vars => IInv'
    BY StepType, StepPlace, StepShared, StepStored, StepLone, StepMotor, StepToken, StepOnce
    DEF IInv
  <1> QED
    BY <1>1, <1>2, PTL DEF Spec

\* A wait that shares its handle with no other wait can be cancelled as long as it moves
\* the desk.
THEOREM LoneWaits == Spec => []LoneWaitCancellable
  <1>1. IInv => LoneWaitCancellable
    BY DEF IInv
  <1> QED
    BY <1>1, Inductive, PTL

\* A call that returned keeps the desk moving only if its stop failed, and a move says so.
THEOREM MotionEnds == Spec => []MotionEndsWithItsCall
  <1>1. IInv => MotionEndsWithItsCall
    BY DEF IInv, TypeOK, MotorInv, MotionEndsWithItsCall, LinkUp
  <1> QED
    BY <1>1, Inductive, PTL

\* What is registered for a call goes with it, and a listener's cancel function runs once.
THEOREM Registries == Spec => []RegistriesExact
  <1>1. ASSUME IInv PROVE StoredIsUnderWay
    BY <1>1 DEF IInv, StoredInv, StoredIsUnderWay
  <1>2. ASSUME IInv PROVE ListenerRemovedOnce
    <2> SUFFICES ASSUME NEW x \in Calls, op[x] = "listen", at[x] = "done"
                 PROVE  (IF x \in tokens THEN 1 ELSE 0)
                          + Cardinality({c \in Calls : at[c] = "fire" /\ op[c] = "unlisten"
                                                         /\ target[c] = x})
                          + removed[x] = 1
      BY DEF ListenerRemovedOnce
    <2> DEFINE taken == {c \in Calls : at[c] = "fire" /\ op[c] = "unlisten" /\ target[c] = x}
    <2>1. x \in Added
      BY DEF Added
    <2>2. /\ removed[x] \in {0, 1}
          /\ x \in tokens => removed[x] = 0
          /\ x \notin tokens /\ removed[x] = 0 => taken # {}
          /\ taken # {} => x \notin tokens /\ removed[x] = 0
          /\ \A c, d \in taken : c = d
      BY <1>2, <2>1 DEF IInv, OnceInv, Took
    <2>3. CASE taken = {}
      <3>1. Cardinality(taken) = 0
        BY <2>3, FS_EmptySet
      <3> QED
        BY <2>2, <2>3, <3>1
    <2>4. CASE taken # {}
      <3>1. PICK c \in taken : taken = {c}
        BY <2>2, <2>4
      <3>2. Cardinality(taken) = 1
        BY <3>1, FS_Singleton
      <3> QED
        BY <2>2, <2>4, <3>2
    <2> QED
      BY <2>3, <2>4
  <1>3. IInv => RegistriesExact
    BY <1>1, <1>2 DEF RegistriesExact
  <1> QED
    BY <1>3, Inductive, PTL

----------------------------------------------------------------------------
\* Each motion call is a MotionCall.

CallResult(c) == IF CallPhase(c) = "over" THEN result[c] ELSE "none"
DeskOf(c)     == IF motor[on[c]] = c THEN "moving" ELSE "rest"

\* The steps of others: at most, the desk no longer moves for this call.
LEMMA CallUndisturbed ==
  ASSUME NEW c \in Calls, UNCHANGED <<CallPhase(c), CallResult(c)>>,
         DeskOf(c)' \in {DeskOf(c), "rest"}
  PROVE  [Call(c)!Next]_(Call(c)!vars)
  BY DEF Call!Next, Call!Rest, Call!vars, CallResult, DeskOf

\* A step that settles the result ends the call, or concerns no motion.
LEMMA CallEnds ==
  ASSUME NEW c \in Calls, CallPhase(c) \in {"called", "driving"},
         CallPhase(c)' \in {CallPhase(c), "over"},
         CallResult(c)' \in {"none", "ok", "err"},
         CallResult(c)' = "ok" => CallPhase(c) = "driving",
         DeskOf(c)' \in {DeskOf(c), "rest"}
  PROVE  [Call(c)!Next]_(Call(c)!vars)
  <1>1. CASE CallPhase(c)' = CallPhase(c)
    <2>1. CallResult(c) = "none" /\ CallResult(c)' = "none"
      BY <1>1 DEF CallResult
    <2> QED
      BY <1>1, <2>1, CallUndisturbed
  <1>2. CASE CallPhase(c)' = "over"
    BY <1>2 DEF Call!Next, Call!End, CallResult, DeskOf
  <1> QED
    BY <1>1, <1>2

\* What a motion call does itself, from its first wake write to its stop.
LEMMA CallMoves ==
  ASSUME TypeOK, PlaceInv, NEW c \in Calls,
         Wake(c) \/ FirstPulse(c) \/ Tick(c) \/ Expire(c) \/ CtxDone(c) \/ StopWrite(c)
  PROVE  [Call(c)!Next]_(Call(c)!vars)
  <1> USE DEF TypeOK, PlaceInv, At, Goto, Finish, calls, desk, CallPhase, InMotion
  <1>0. UNCHANGED <<op, on>>
    BY DEF Wake, FirstPulse, Tick, Expire, CtxDone, StopWrite
  <1>1. CASE Wake(c)
    <2>1. CallPhase(c) = "called" /\ CallPhase(c)' \in {"called", "over"} /\ motor' = motor
          /\ (CallPhase(c)' = "over" => result'[c] = "err")
      BY <1>1 DEF Wake, Exit
    <2> QED
      BY <1>0, <2>1, CallEnds DEF CallResult, DeskOf
  <1>2. CASE FirstPulse(c)
    <2>1. CASE Moves(c) /\ Goto(c, "loop")
      <3>1. CallPhase(c) = "called" /\ CallPhase(c)' = "driving"
        BY <1>0, <1>2, <2>1 DEF FirstPulse
      <3>2. DeskOf(c)' \in {DeskOf(c), "moving"}
        BY <1>0, <2>1 DEF Moves, DeskOf
      <3> QED
        BY <3>1, <3>2 DEF Call!Next, Call!Begin, DeskOf
    <2>2. CASE UNCHANGED motor /\ at'[c] = "stopping"
      <3>1. CallPhase(c) = "called" /\ CallPhase(c)' = "driving" /\ DeskOf(c)' = DeskOf(c)
        BY <1>0, <1>2, <2>2 DEF FirstPulse, DeskOf
      <3> QED
        BY <3>1 DEF Call!Next, Call!Begin, DeskOf
    <2>3. CASE UNCHANGED motor /\ at'[c] = "clear" /\ result'[c] = "err"
      <3>1. CallPhase(c) = "called" /\ CallPhase(c)' \in {"called", "over"}
        BY <1>0, <1>2, <2>3 DEF FirstPulse
      <3> QED
        BY <1>0, <2>3, <3>1, CallEnds DEF CallResult, DeskOf
    <2> QED
      BY <1>2, <2>1, <2>2, <2>3 DEF FirstPulse
  <1>3. CASE Tick(c)
    <2>1. CallPhase(c) = "driving" /\ CallPhase(c)' = "driving"
      BY <1>0, <1>3 DEF Tick
    <2>2. DeskOf(c)' \in {DeskOf(c), "moving"}
      BY <1>0, <1>3 DEF Tick, Moves, DeskOf
    <2> QED
      BY <2>1, <2>2 DEF Call!Next, Call!Go, Call!vars, DeskOf
  <1>4. CASE Expire(c) \/ CtxDone(c)
    <2>1. CallPhase(c) = "driving" /\ CallPhase(c)' = "driving" /\ motor' = motor
      BY <1>4 DEF Expire, CtxDone
    <2> QED
      BY <1>0, <2>1, CallEnds DEF CallResult, DeskOf
  <1>5. CASE StopWrite(c)
    <2>1. CallPhase(c) = "driving" /\ CallPhase(c)' = "over"
          /\ result'[c] \in {"none", "ok", "err"}
      BY <1>0, <1>5 DEF StopWrite, Exit
    <2>2. DeskOf(c)' \in {DeskOf(c), "rest"}
      BY <1>0, <1>5 DEF StopWrite, StopSent, StopFails, DeskOf
    <2> QED
      BY <2>1, <2>2, CallEnds DEF CallResult
  <1> QED
    BY <1>1, <1>2, <1>3, <1>4, <1>5

LEMMA CallStep ==
  ASSUME TypeOK, PlaceInv, MotorInv, [Next]_vars, NEW c \in Calls
  PROVE  [Call(c)!Next]_(Call(c)!vars)
  <1> USE DEF TypeOK, At, Goto, Finish, calls, registry, listeners, desk
  <1>1. ASSUME UNCHANGED <<at[c], op[c], on[c], result[c]>>,
               motor'[on[c]] = motor[on[c]] \/ motor'[on[c]] # c
        PROVE  [Call(c)!Next]_(Call(c)!vars)
    BY <1>1, CallUndisturbed DEF CallPhase, CallResult, DeskOf, InMotion
  <1>2. ASSUME NEW d \in Calls, d # c, Proceed(d)
        PROVE  [Call(c)!Next]_(Call(c)!vars)
    <2>1. UNCHANGED <<at[c], op[c], on[c], result[c]>>
      BY <1>2 DEF Proceed, Motion, Resolve, Panic, Unlink, Delete, SetCommandCancel, Wake,
         FirstPulse, Tick, Expire, CtxDone, StopWrite, ClearCommandCancel, Stop, Query,
         AddListener, RegisterCancel, TakeCommand, TakeListener, Fire
    <2>2. motor'[on[c]] = motor[on[c]] \/ motor'[on[c]] # c
      <3>1. \/ UNCHANGED motor
            \/ motor' = [motor EXCEPT ![on[d]] = d]
            \/ motor' = [motor EXCEPT ![on[d]] = NoCall]
        BY <1>2 DEF Proceed, Motion, Resolve, Panic, Unlink, Delete, SetCommandCancel, Wake,
           FirstPulse, Tick, Expire, CtxDone, StopWrite, ClearCommandCancel, Stop, Query,
           AddListener, RegisterCancel, TakeCommand, TakeListener, Fire, Moves, StopSent, StopFails
      <3> QED
        BY <1>2, <3>1
    <2> QED
      BY <1>1, <2>1, <2>2
  <1>3. ASSUME NEW h \in Handles, Connect(h) \/ MotorHalts(h)
        PROVE  [Call(c)!Next]_(Call(c)!vars)
    BY <1>1, <1>3 DEF Connect, MotorHalts
  <1>4. ASSUME NEW d \in Calls, NEW k \in Ops, NEW h \in Handles, NEW x \in Calls \cup {NoCall},
               Enter(d, k, h, x)
        PROVE  [Call(c)!Next]_(Call(c)!vars)
    <2>1. CASE d # c
      BY <1>1, <1>4, <2>1 DEF Enter
    <2>2. CASE d = c
      <3>1. CallPhase(c) = "called" /\ CallPhase(c)' = "called"
        BY <1>4, <2>2 DEF Enter, CallPhase
      <3>2. \A g \in Handles : motor[g] # c
        BY <1>4, <2>2 DEF Enter, MotorInv
      <3>3. DeskOf(c) = "rest" /\ DeskOf(c)' = "rest"
        BY <1>4, <3>2 DEF Enter, DeskOf
      <3> QED
        BY <3>1, <3>3, CallEnds DEF CallResult
    <2> QED
      BY <2>1, <2>2
  <1>5. ASSUME Proceed(c)
        PROVE  [Call(c)!Next]_(Call(c)!vars)
    <2>1. CASE Wake(c) \/ FirstPulse(c) \/ Tick(c) \/ Expire(c) \/ CtxDone(c) \/ StopWrite(c)
      BY <2>1, CallMoves
    <2>2. CASE ClearCommandCancel(c)
      BY <2>2, CallUndisturbed
      DEF ClearCommandCancel, PlaceInv, CallPhase, CallResult, DeskOf, InMotion
    <2>3. CASE \/ Resolve(c) \/ Panic(c) \/ Unlink(c) \/ Delete(c) \/ SetCommandCancel(c)
               \/ Stop(c) \/ Query(c) \/ AddListener(c) \/ RegisterCancel(c)
               \/ TakeCommand(c) \/ TakeListener(c) \/ Fire(c)
      <3>1. CallPhase(c) = "called" /\ CallPhase(c)' = "called" /\ UNCHANGED on
        <4> USE DEF PlaceInv, CallPhase, InMotion
        <4>1. CASE Resolve(c) \/ Panic(c) \/ SetCommandCancel(c)
          BY <4>1 DEF Resolve, Panic, SetCommandCancel, Body
        <4>2. CASE Unlink(c) \/ Delete(c)
          BY <4>2 DEF Unlink, Delete
        <4>3. CASE Stop(c) \/ Query(c) \/ AddListener(c) \/ RegisterCancel(c)
          BY <4>3 DEF Stop, Query, AddListener, RegisterCancel
        <4>4. CASE TakeCommand(c) \/ TakeListener(c) \/ Fire(c)
          BY <4>4 DEF TakeCommand, TakeListener, Fire
        <4> QED
          BY <2>3, <4>1, <4>2, <4>3, <4>4
      <3>2. DeskOf(c)' \in {DeskOf(c), "rest"}
        <4>1. UNCHANGED motor \/ motor' = [motor EXCEPT ![on[c]] = NoCall]
          BY <2>3 DEF Resolve, Panic, Unlink, Delete, SetCommandCancel, Stop, Query, AddListener,
             RegisterCancel, TakeCommand, TakeListener, Fire, StopSent, StopFails
        <4> QED
          BY <3>1, <4>1 DEF DeskOf
      <3> QED
        BY <3>1, <3>2, CallEnds DEF CallResult
    <2> QED
      BY <1>5, <2>1, <2>2, <2>3 DEF Proceed, Motion
  <1>6. CASE UNCHANGED vars
    BY <1>1, <1>6 DEF vars
  <1> QED
    BY <1>2, <1>3, <1>4, <1>5, <1>6 DEF Next

\* Whatever the other threads call, each motion call keeps to MotionCall.
THEOREM MotionsServed == Spec => MotionsAreCalls
  <1>1. Init => \A c \in Calls : Call(c)!Init
    <2> SUFFICES ASSUME Init, NEW c \in Calls PROVE Call(c)!Init
      OBVIOUS
    <2>1. CallPhase(c) = "called" /\ motor[on[c]] # c
      BY DEF Init, CallPhase, InMotion
    <2> QED
      BY <2>1 DEF Call!Init
  <1>2. IInv /\ [Next]_vars => [\A c \in Calls : [Call(c)!Next]_(Call(c)!vars)]_vars
    BY CallStep DEF IInv
  <1> QED
    BY <1>1, <1>2, Inductive, PTL DEF Spec, MotionsAreCalls
=============================================================================
