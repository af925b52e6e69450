-------------------------- MODULE MotionLoopProofs --------------------------
(***************************************************************************)
(* Proofs about MotionLoop, for every choice of the periods, gaps and      *)
(* timeouts that PaceAssumption allows, every lag of the goroutine, every  *)
(* wait of a write and every number of lost writes and delayed heights:    *)
(* the timing bounds that hold wherever the desk is, the refinement of     *)
(* MotionCall, and, where the timeout leaves the time, the answers.        *)
(***************************************************************************)
EXTENDS MotionLoop, TLAPS

USE KindsAssumption, NumbersAssumption, PaceAssumption

\* The constants one by one, for arithmetic.
LEMMA Numbers ==
    /\ Top \in Nat \ {0} /\ WakeGap \in Nat \ {0} /\ Pulse \in Nat \ {0}
    /\ Timeout \in Nat \ {0} /\ Quiescence \in Nat \ {0} /\ Gap \in Nat \ {0}
    /\ Period \in Nat \ {0}
    /\ Tolerance \in Nat /\ MaxStart \in Nat /\ Jitter \in Nat
    /\ MaxStall \in Nat /\ MaxFaults \in Nat /\ MaxStrays \in Nat
  BY DEF NumbersAssumption

LEMMA Bounds ==
    /\ WakeTime \in Nat /\ Horizon \in Nat /\ Horizon' \in Nat
    /\ Ended => Horizon > Gap
    /\ (Ended <=> Ended') => Horizon' = Horizon
    /\ WakeTime = 3 * (WakeGap + Jitter)
  <1>1. MaxFaults * MaxStall \in Nat
    BY Numbers
  <1> QED
    BY <1>1, Numbers DEF WakeTime, Horizon

----------------------------------------------------------------------------
\* Type correctness.

LEMMA NoTimersType ==
    NoTimers \in [sleep : 0..WakeGap, tick : 0..Pulse, left : 0..Timeout, quiet : 0..Quiescence]
  BY Numbers DEF NoTimers

LEMMA InitType == Init => TypeOK
  <1> SUFFICES ASSUME Init PROVE TypeOK
    OBVIOUS
  <1>1. goal \in Positions /\ from \in Positions /\ pos \in Positions
    BY Numbers DEF Init, Positions
  <1>2. timers \in [sleep : 0..WakeGap, tick : 0..Pulse, left : 0..Timeout,
                    quiet : 0..Quiescence]
    BY NoTimersType DEF Init
  <1>3. /\ step \in 0..Larger(MaxStart, Period) /\ since \in 0..(Gap + 1)
        /\ over \in 0..Horizon /\ late \in 0..(Jitter + MaxStall)
    BY Numbers, Bounds DEF Init, Larger
  <1>4. /\ kind \in Kinds /\ pc = "wake" /\ out = "none" /\ wakes = 0 /\ inbox = 0
        /\ cancelled \in BOOLEAN /\ ticked \in BOOLEAN /\ armed \in BOOLEAN
        /\ motor = "rest" /\ faults = 0 /\ stalls = 0 /\ strays \in 0..MaxStrays /\ heard = {}
    BY DEF Init
  <1> QED
    BY <1>1, <1>2, <1>3, <1>4, Numbers DEF TypeOK

\* What is left of a call that has ended.
LEMMA EndType ==
  ASSUME NEW place, NEW result, End(place, result)
  PROVE  /\ pc' = place /\ out' = result
         /\ over' \in 0..Horizon' /\ late' \in 0..(Jitter + MaxStall) /\ inbox' \in 0..4
         /\ ticked' \in BOOLEAN /\ armed' \in BOOLEAN
         /\ timers' \in [sleep : 0..WakeGap, tick : 0..Pulse, left : 0..Timeout,
                          quiet : 0..Quiescence]
  <1>1. timers' = NoTimers
    BY DEF End
  <1>2. pc' = place /\ out' = result /\ ticked' \in BOOLEAN /\ armed' \in BOOLEAN
    BY DEF End
  <1>3. over' \in 0..Horizon' /\ late' \in 0..(Jitter + MaxStall) /\ inbox' \in 0..4
    BY Numbers, Bounds DEF End
  <1> QED
    BY <1>1, <1>2, <1>3, NoTimersType

\* What a write leaves of the desk.
LEMMA WriteType ==
  ASSUME TypeOK,
         Written(ReceivePulse) \/ Written(ReceiveStop) \/ Written(UNCHANGED desk) \/ NotReceived
  PROVE  /\ motor' \in {"rest", "starting", "moving"} /\ pos' \in Positions
         /\ step' \in 0..Larger(MaxStart, Period) /\ since' \in 0..(Gap + 1)
         /\ faults' \in Nat /\ stalls' \in Nat /\ faults' + stalls' <= MaxFaults
  <1> USE Numbers DEF TypeOK, desk
  <1>1. CASE NotReceived
    BY <1>1 DEF NotReceived, MoreTrouble, trouble
  <1>2. CASE ReceivePulse /\ UNCHANGED trouble
    BY <1>2 DEF ReceivePulse, Larger, trouble
  <1>3. CASE (ReceiveStop \/ UNCHANGED desk) /\ UNCHANGED trouble
    BY <1>3 DEF ReceiveStop, trouble
  <1> QED
    BY <1>1, <1>2, <1>3 DEF Written

LEMMA StepType ==
  ASSUME TypeOK, [Next]_vars
  PROVE  TypeOK'
  <1> USE Numbers, Bounds DEF TypeOK, Ended, asked, channels, desk, trouble, history
  <1>1. CASE WakeWrite
    <2>1. /\ motor' \in {"rest", "starting", "moving"} /\ pos' \in Positions
          /\ step' \in 0..Larger(MaxStart, Period) /\ since' \in 0..(Gap + 1)
          /\ faults' \in Nat /\ stalls' \in Nat /\ faults' + stalls' <= MaxFaults
      BY <1>1, WriteType DEF WakeWrite
    <2>2. UNCHANGED <<kind, goal, from, cancelled, strays, heard>>
      BY <1>1 DEF WakeWrite
    <2>3. CASE End("returned", "err") /\ UNCHANGED wakes
      BY <2>1, <2>2, <2>3, EndType
    <2>4. CASE /\ wakes < 3 /\ wakes' = wakes + 1
               /\ timers' = [timers EXCEPT !.sleep = WakeGap]
               /\ UNCHANGED <<pc, out, over, channels, late>>
      BY <2>1, <2>2, <2>4
    <2> QED
      BY <1>1, <2>3, <2>4 DEF WakeWrite
  <1>2. CASE FirstPulse
    <2>1. /\ motor' \in {"rest", "starting", "moving"} /\ pos' \in Positions
          /\ step' \in 0..Larger(MaxStart, Period) /\ since' \in 0..(Gap + 1)
          /\ faults' \in Nat /\ stalls' \in Nat /\ faults' + stalls' <= MaxFaults
      BY <1>2, WriteType DEF FirstPulse
    <2>2. UNCHANGED <<kind, goal, from, cancelled, wakes, strays, heard>>
      BY <1>2 DEF FirstPulse
    <2>3. CASE End("returned", "err")
      BY <2>1, <2>2, <2>3, EndType
    <2>0. ASSUME pc' \in {"loop", "stopping"}, UNCHANGED over PROVE over' \in 0..Horizon'
      BY <1>2, <2>0 DEF FirstPulse
    <2>4. CASE /\ pc' = "loop" /\ timers' = [timers EXCEPT !.tick = Pulse, !.left = Timeout]
               /\ UNCHANGED <<out, over, channels, late>>
      <3>1. timers' \in [sleep : 0..WakeGap, tick : 0..Pulse, left : 0..Timeout,
                         quiet : 0..Quiescence]
        <4>1. timers.sleep \in 0..WakeGap /\ timers.quiet \in 0..Quiescence
          OBVIOUS
        <4>2. timers' = [sleep |-> timers.sleep, tick |-> Pulse, left |-> Timeout,
                         quiet |-> timers.quiet]
          BY <2>4
        <4> QED
          BY <4>1, <4>2
      <3>2. UNCHANGED <<out, over, ticked, armed, inbox, late>> /\ pc' = "loop"
        BY <2>4
      <3>3. over' \in 0..Horizon'
        BY <2>0, <3>2
      <3> QED
        BY <2>1, <2>2, <3>1, <3>2, <3>3
    <2>5. CASE /\ pc' = "stopping" /\ out' = "err"
               /\ UNCHANGED <<over, timers, channels, late>>
      <3>1. over' \in 0..Horizon'
        BY <2>0, <2>5
      <3> QED
        BY <2>1, <2>2, <2>5, <3>1
    <2> QED
      BY <1>2, <2>3, <2>4, <2>5 DEF FirstPulse
  <1>3. ASSUME NEW r \in {"ok", "err"}, Leave(r), UNCHANGED <<ticked, desk, trouble>>
        PROVE  TypeOK'
    BY <1>3 DEF Leave
  <1>4. CASE Tick
    <2>1. /\ motor' \in {"rest", "starting", "moving"} /\ pos' \in Positions
          /\ step' \in 0..Larger(MaxStart, Period) /\ since' \in 0..(Gap + 1)
          /\ faults' \in Nat /\ stalls' \in Nat /\ faults' + stalls' <= MaxFaults
      BY <1>4, WriteType DEF Tick
    <2> QED
      BY <1>4, <2>1 DEF Tick, Leave
  <1>5. CASE HeightReceived
    BY <1>5 DEF HeightReceived
  <1>6. CASE StopWrite
    BY <1>6, WriteType, EndType DEF StopWrite
  <1>7. CASE Cancel
    BY <1>7 DEF Cancel
  <1>8. CASE Die
    BY <1>8, EndType DEF Die
  <1>9. CASE StrayHeight
    BY <1>9 DEF StrayHeight, Deliver, Smaller
  <1>10. CASE Pass
    <2> USE <1>10 DEF Pass
    <2>1. timers' \in [sleep : 0..WakeGap, tick : 0..Pulse, left : 0..Timeout,
                       quiet : 0..Quiescence] /\ ticked' \in BOOLEAN
      BY DEF RunTimers, Lower, Larger
    <2>2. Towards(pos) \in Positions
      BY DEF Towards, Positions
    <2>3. /\ inbox' \in 0..4 /\ heard' \subseteq {"near", "away", "stray"}
          /\ motor' \in {"rest", "starting", "moving"} /\ pos' \in Positions
          /\ step' \in 0..Larger(MaxStart, Period) /\ since' \in 0..(Gap + 1)
      BY <2>2 DEF RunDesk, Deliver, Smaller, Larger
    <2>4. over' \in 0..Horizon'
      BY DEF Smaller
    <2>5. /\ late' \in 0..(Jitter + MaxStall)
          /\ faults' \in Nat /\ stalls' \in Nat /\ faults' + stalls' <= MaxFaults
      BY DEF Lag, MoreTrouble
    <2> QED
      BY <2>1, <2>3, <2>4, <2>5
  <1>11. CASE UNCHANGED vars
    BY <1>11 DEF vars
  <1> QED
    BY <1>1, <1>2, <1>3, <1>4, <1>5, <1>6, <1>7, <1>8, <1>9, <1>10, <1>11
    DEF Next, Proceed, CtxDone, Deadline, Arrived, QuietOver, IfTimed

\* Every variable keeps its type.
THEOREM TypeCorrect == Spec => []TypeOK
  <1>1. TypeOK /\ [Next]_vars => TypeOK'
    BY StepType
  <1> QED
    BY InitType, <1>1, PTL DEF Spec

----------------------------------------------------------------------------
\* The pulses.  Until a write has to wait, the goroutine is at most Jitter late.

LEMMA StepLate ==
  ASSUME TypeOK, LateInv, [Next]_vars
  PROVE  LateInv'
  <1> USE Numbers DEF TypeOK, LateInv, channels, trouble, NotReceived, Written
  <1>1. CASE WakeWrite \/ FirstPulse \/ StopWrite \/ Die
    BY <1>1 DEF WakeWrite, FirstPulse, StopWrite, Die, End
  <1>2. ASSUME NEW r, Leave(r), UNCHANGED trouble \/ NotReceived PROVE LateInv'
    BY <1>2 DEF Leave
  <1>3. CASE Tick \/ HeightReceived \/ Cancel \/ StrayHeight \/ UNCHANGED vars
    BY <1>3, <1>2 DEF Tick, HeightReceived, Cancel, StrayHeight, vars
  <1>4. CASE Pass
    BY <1>4 DEF Pass, Lag
  <1> QED
    BY <1>1, <1>2, <1>3, <1>4 DEF Next, Proceed, CtxDone, Deadline, Arrived, QuietOver

LEMMA LateAlways == Spec => []LateInv
  <1>1. Init => LateInv
    BY Numbers DEF Init, LateInv
  <1>2. TypeOK /\ LateInv /\ [Next]_vars => LateInv'
    BY StepLate
  <1> QED
    BY <1>1, <1>2, TypeCorrect, PTL DEF Spec

LEMMA StepPace ==
  ASSUME TypeOK, LateInv, PaceInv, [Next]_vars
  PROVE  PaceInv'
  <1> USE Numbers DEF TypeOK, LateInv, PaceInv, Flawless, asked, channels, desk, trouble,
                      history, NotReceived, Written
  <1>1. CASE WakeWrite
    BY <1>1 DEF WakeWrite, End
  <1>2. CASE FirstPulse
    <2>1. CASE NotReceived
      BY <1>2, <2>1 DEF FirstPulse
    <2>2. CASE ReceivePulse /\ UNCHANGED trouble
      <3>1. CASE pc' = "loop"
        <4>1. timers'.tick = Pulse /\ since' = 0 /\ late' = late
          BY <1>2, <2>2, <3>1 DEF FirstPulse, ReceivePulse, End
        <4> QED
          BY <4>1
      <3> QED
        BY <3>1
    <2> QED
      BY <1>2, <2>1, <2>2 DEF FirstPulse
  <1>3. ASSUME NEW r, Leave(r) PROVE PaceInv'
    BY <1>3 DEF Leave
  <1>4. CASE Tick
    BY <1>4, <1>3 DEF Tick, ReceivePulse
  <1>5. CASE HeightReceived
    BY <1>5 DEF HeightReceived
  <1>6. CASE StopWrite
    BY <1>6 DEF StopWrite, End
  <1>7. CASE Cancel
    BY <1>7 DEF Cancel
  <1>8. CASE Die
    BY <1>8 DEF Die, End
  <1>9. CASE StrayHeight
    BY <1>9 DEF StrayHeight
  <1>10. ASSUME Pass, pc = "loop", Flawless' PROVE PaceInv'
    <2> USE <1>10 DEF Pass
    <2>1. since' <= since + 1 /\ since' \in Int
      BY DEF RunDesk, Smaller
    <2>6. Flawless /\ late <= Jitter /\ UNCHANGED trouble
      BY DEF Lag
    <2>0. /\ timers.tick \in 1..Pulse /\ pc' = "loop"
          /\ timers'.tick = IF timers.tick = 1 THEN Pulse ELSE timers.tick - 1
      BY <2>6 DEF RunTimers, Lower, Larger
    <2>5. ticked' <=> ticked \/ timers.tick = 1
      BY ZenonT(20) DEF RunTimers
    <2>2. CASE ticked
      <3>1. late < Jitter /\ late' = late + 1
        BY <2>2, <2>6 DEF Ready, Lag
      <3>2. timers.tick # 1
        BY <2>2, <2>6, <3>1
      <3> QED
        BY <2>0, <2>1, <2>5, <2>6, <2>2, <3>1, <3>2
    <2>3. CASE ~ticked /\ timers.tick = 1
      <3>1. ticked' /\ timers'.tick = Pulse /\ late' >= 0
        BY <2>0, <2>5, <2>3 DEF Lag
      <3> QED
        BY <2>0, <2>1, <2>3, <2>6, <3>1
    <2>4. CASE ~ticked /\ timers.tick # 1
      BY <2>0, <2>1, <2>4, <2>5, <2>6
    <2> QED
      BY <2>2, <2>3, <2>4
  <1>11. CASE Pass /\ ~(pc = "loop" /\ Flawless')
    BY <1>11 DEF Pass
  <1>12. CASE UNCHANGED vars
    BY <1>12 DEF vars
  <1> QED
    BY <1>1, <1>2, <1>3, <1>4, <1>5, <1>6, <1>7, <1>8, <1>9, <1>10, <1>11, <1>12
    DEF Next, Proceed, CtxDone, Deadline, Arrived, QuietOver

\* While no write fails or has to wait, the desk never waits longer for a pulse than the firmware does.
THEOREM PulsesInTime == Spec => []PulsesBridgeTheGap
  <1>1. Init => PaceInv
    BY DEF Init, PaceInv
  <1>2. TypeOK /\ LateInv /\ PaceInv /\ [Next]_vars => PaceInv'
    BY StepPace
  <1>3. TypeOK /\ LateInv /\ PaceInv => PulsesBridgeTheGap
    BY Numbers DEF TypeOK, LateInv, PaceInv, Flawless, PulsesBridgeTheGap
  <1> QED
    BY <1>1, <1>2, <1>3, LateAlways, TypeCorrect, PTL DEF Spec

----------------------------------------------------------------------------
\* The desk after the call.

LEMMA StepRest ==
  ASSUME TypeOK, RestInv, [Next]_vars
  PROVE  RestInv'
  <1> USE Numbers, Bounds DEF TypeOK, RestInv, Ended, asked, channels, desk, trouble,
                              history, NotReceived, Written
  <1>1. CASE WakeWrite
    BY <1>1 DEF WakeWrite, End
  <1>2. CASE FirstPulse
    BY <1>2 DEF FirstPulse, End, ReceivePulse
  <1>3. ASSUME NEW r, Leave(r), UNCHANGED desk PROVE RestInv'
    BY <1>3 DEF Leave
  <1>4. CASE Tick
    BY <1>4 DEF Tick, ReceivePulse, Leave
  <1>5. CASE HeightReceived
    BY <1>5 DEF HeightReceived
  <1>6. CASE StopWrite
    BY <1>6 DEF StopWrite, ReceiveStop, End
  <1>7. CASE Cancel
    BY <1>7 DEF Cancel
  <1>8. CASE Die
    BY <1>8 DEF Die, End
  <1>9. CASE StrayHeight
    BY <1>9 DEF StrayHeight
  <1>10. CASE Pass
    <2>1. motor' # "rest" => motor # "rest" /\ since < Gap /\ since' = since + 1
      BY <1>10 DEF Pass, RunDesk, Smaller
    <2>2. Ended => over' <= over + 1 /\ over' \in Int
      BY <1>10 DEF Pass, Smaller
    <2> QED
      BY <1>10, <2>1, <2>2 DEF Pass
  <1>11. CASE UNCHANGED vars
    BY <1>11 DEF vars
  <1> QED
    BY <1>1, <1>2, <1>3, <1>4, <1>5, <1>6, <1>7, <1>8, <1>9, <1>10, <1>11
    DEF Next, Proceed, CtxDone, Deadline, Arrived, QuietOver

\* Whatever ended the call and whatever it failed to write, the firmware's patience is
\* the longest the desk moves on.
THEOREM RestsInTime == Spec => []RestsSoonAfter
  <1>1. Init => RestInv
    BY DEF Init, RestInv
  <1>2. TypeOK /\ RestInv /\ [Next]_vars => RestInv'
    BY StepRest
  <1>3. TypeOK /\ RestInv => RestsSoonAfter
    BY Numbers, Bounds DEF TypeOK, RestInv, RestsSoonAfter
  <1> QED
    BY <1>1, <1>2, <1>3, TypeCorrect, PTL DEF Spec

----------------------------------------------------------------------------
\* A cancelled call.

LEMMA ProductType == \A m, n \in Nat : m * n \in Nat
  OBVIOUS

LEMMA StepDrain ==
  ASSUME TypeOK, LateInv, DrainInv, [Next]_vars
  PROVE  DrainInv'
  <1> USE Numbers, Bounds DEF TypeOK, DrainInv, Delay, asked, channels, trouble, history,
                              NotReceived, Written
  <1> DEFINE W == WakeGap + Jitter
             S == stalls * MaxStall
  <1>0. W \in Nat /\ W >= WakeGap /\ wakes * W \in Nat /\ S \in Nat
    OBVIOUS
  <1>a. Delay <= Jitter /\ Delay \in Int
    OBVIOUS
  <1>b. stalls' = stalls => stalls' * MaxStall = S
    OBVIOUS
  <1>1. CASE WakeWrite
    <2>0. UNCHANGED stalls
      BY <1>1 DEF WakeWrite
    <2>1. CASE pc' = "wake"
      <3>1. wakes' = wakes + 1 /\ timers'.sleep = WakeGap /\ timers.sleep = 0 /\ pc = "wake"
        BY <1>1, <2>1 DEF WakeWrite, End
      <3>2. wakes' * W = wakes * W + W
        BY <3>1, <1>0
      <3>3. cancelled => over + 0 <= wakes * W + S + Delay
        BY <3>1
      <3>4. cancelled => over + WakeGap <= wakes' * W + S
        BY <3>2, <3>3, <1>0, <1>a
      <3>5. UNCHANGED <<over, cancelled>> /\ wakes' > 0
        BY <1>1, <2>1, <3>1 DEF WakeWrite, End
      <3>6. cancelled' => over' + timers'.sleep <= wakes' * W + stalls' * MaxStall
        BY <3>1, <3>4, <3>5, <1>b, <2>0
      <3>7. wakes' * W \in Nat /\ stalls' * MaxStall \in Nat
        BY <3>2, <1>0, <1>b, <2>0
      <3> QED
        BY <2>1, <3>1, <3>5, <3>6, <3>7
    <2>2. CASE pc' # "wake"
      BY <1>1, <2>2 DEF WakeWrite, End
    <2> QED
      BY <2>1, <2>2
  <1>2. CASE FirstPulse
    <2>1. cancelled => over <= WakeTime + S + Delay
      BY <1>2 DEF FirstPulse
    <2>2. UNCHANGED stalls
      BY <1>2 DEF FirstPulse
    <2> QED
      BY <1>2, <1>b, <2>1, <2>2 DEF FirstPulse, End
  <1>3. ASSUME NEW r, Leave(r), UNCHANGED trouble \/ NotReceived PROVE DrainInv'
    BY <1>3, <1>b DEF Leave
  <1>4. CASE Tick
    BY <1>4, <1>3, <1>b DEF Tick
  <1>5. CASE HeightReceived
    BY <1>5, <1>b DEF HeightReceived
  <1>6. CASE StopWrite
    BY <1>6 DEF StopWrite, End
  <1>7. CASE Cancel
    <2>1. pc = "wake" /\ timers.sleep > 0 => timers.sleep <= wakes * W
      <3>1. ASSUME wakes > 0 PROVE W <= wakes * W
        BY <1>0, <3>1
      <3> QED
        BY <1>0, <3>1
    <2>2. Delay >= 0 \/ (late > Jitter /\ Delay + MaxStall >= 0)
      OBVIOUS
    <2>3. late > Jitter => MaxStall <= S
      <3>1. ASSUME stalls > 0 PROVE MaxStall <= S
        BY <3>1
      <3> QED
        BY <3>1 DEF LateInv
    <2>4. S + Delay >= 0
      BY <2>2, <2>3, <1>0, <1>a
    <2>5. /\ over' = 0 /\ stalls' * MaxStall = S /\ Delay' = Delay
          /\ UNCHANGED <<pc, timers, wakes>>
      BY <1>7, <1>b DEF Cancel
    <2>6. pc = "wake" => over' + timers'.sleep <= wakes' * W + stalls' * MaxStall
                                        + IF timers'.sleep > 0 THEN 0 ELSE Delay'
      BY <2>1, <2>4, <2>5, <1>0, <1>a
    <2>7. over' <= WakeTime + stalls' * MaxStall + Delay'
      BY <2>4, <2>5, <1>0, <1>a
    <2>8. pc' = "wake" /\ timers'.sleep > 0 => wakes' > 0
      BY <2>5
    <2> QED
      BY <2>5, <2>6, <2>7, <2>8
  <1>8. CASE Die
    BY <1>8 DEF Die, End
  <1>9. CASE StrayHeight
    BY <1>9, <1>b DEF StrayHeight
  <1>10. CASE Pass
    <2> USE <1>10 DEF Pass
    <2>1. /\ timers'.sleep = Lower(timers.sleep)
          /\ cancelled => over' <= over + 1 /\ over' \in Int
      BY DEF RunTimers, Smaller
    <2>2. Ready => S + Delay + 1 = stalls' * MaxStall + Delay'
      <3>1. CASE late < Jitter /\ UNCHANGED trouble /\ late' = late + 1
        BY <3>1, <1>0, <1>b
      <3>2. CASE late = Jitter /\ stalls' = stalls + 1 /\ late' = late + 1
        <4>1. stalls' * MaxStall = S + MaxStall
          BY <3>2
        <4> QED
          BY <3>2, <4>1, <1>0
      <3>3. CASE Jitter < late /\ UNCHANGED trouble /\ late' = late + 1
        BY <3>3, <1>0, <1>b
      <3> QED
        BY <3>1, <3>2, <3>3 DEF Lag
    <2>3. ~Ready => Delay' = 0 /\ UNCHANGED stalls
      BY DEF Lag
    <2>8. late' \in Int /\ (UNCHANGED stalls \/ stalls' = stalls + 1)
      BY DEF Lag
    <2>4. stalls' * MaxStall \in Nat /\ Delay' \in Int
      <3>1. stalls' \in Nat
        BY <2>8
      <3>2. stalls' * MaxStall \in Nat
        BY <3>1, ProductType
      <3>3. Delay' = IF late' > Jitter THEN late' - MaxStall ELSE late'
        OBVIOUS
      <3>4. late' - MaxStall \in Int
        BY <2>8
      <3> QED
        BY <2>8, <3>2, <3>3, <3>4
    <2>5. CASE pc = "wake" /\ timers.sleep > 0
      <3>1. ~Ready /\ timers'.sleep = timers.sleep - 1 /\ timers'.sleep >= 0
        BY <2>1, <2>5 DEF Ready, Lower, Larger
      <3>2. cancelled => over' + timers'.sleep <= wakes * W + stalls' * MaxStall
        BY <2>1, <2>3, <2>5, <3>1, <1>0, <1>b
      <3>3. UNCHANGED <<pc, cancelled, wakes>> /\ wakes > 0 /\ Delay' = 0
        BY <2>3, <2>5, <3>1
      <3>4. cancelled' => over' + timers'.sleep <= wakes' * W + stalls' * MaxStall
        BY <3>2, <3>3
      <3>5. wakes' * W \in Nat
        BY <3>3, <1>0
      <3>6. wakes' * W + stalls' * MaxStall
                + (IF timers'.sleep > 0 THEN 0 ELSE Delay') = wakes' * W + stalls' * MaxStall
        BY <2>4, <3>3, <3>5
      <3> QED
        BY <2>5, <3>3, <3>4, <3>6
    <2>6. CASE pc = "wake" /\ timers.sleep = 0
      <3>1. Ready /\ timers'.sleep = 0
        BY <2>1, <2>6 DEF Ready, Lower, Larger
      <3>2. cancelled => over' + 0 <= wakes * W + stalls' * MaxStall + Delay'
        BY <2>1, <2>2, <2>4, <2>6, <3>1, <1>0, <1>a
      <3> QED
        BY <2>6, <3>1, <3>2
    <2>7. CASE pc # "wake"
      <3>1. cancelled /\ pc \in {"loop", "stopping"} => Ready
        BY DEF Ready
      <3>2. cancelled /\ pc \in {"loop", "stopping"} =>
                over' <= WakeTime + stalls' * MaxStall + Delay'
        BY <2>1, <2>2, <2>4, <3>1, <1>0, <1>a
      <3> QED
        BY <2>7, <3>2
    <2> QED
      BY <2>5, <2>6, <2>7
  <1>11. CASE UNCHANGED vars
    BY <1>11 DEF vars
  <1> QED
    BY <1>1, <1>2, <1>3, <1>4, <1>5, <1>6, <1>7, <1>8, <1>9, <1>10, <1>11
    DEF Next, Proceed, CtxDone, Deadline, Arrived, QuietOver

\* A cancelled call is over after the wake writes, the goroutine's lag and the waits of
\* its writes, whatever else it was waiting for.
THEOREM DrainsInTime == Spec => []DrainBound
  <1>1. Init => DrainInv
    BY DEF Init, DrainInv, NoTimers
  <1>2. TypeOK /\ LateInv /\ DrainInv /\ [Next]_vars => DrainInv'
    BY StepDrain
  <1>3. TypeOK /\ DrainInv => DrainBound
    <2> SUFFICES ASSUME TypeOK, DrainInv, cancelled, ~Ended
                 PROVE  over <= WakeTime + Jitter + stalls * MaxStall
      BY DEF DrainBound
    <2>0. stalls * MaxStall \in Nat /\ over \in Nat /\ Delay <= Jitter /\ Delay \in Int
      BY Numbers, Bounds DEF TypeOK, Delay
    <2>1. CASE pc = "wake"
      <3>1. wakes * (WakeGap + Jitter) <= 3 * (WakeGap + Jitter)
        BY Numbers DEF TypeOK
      <3>2. /\ wakes * (WakeGap + Jitter) \in Nat
            /\ over <= wakes * (WakeGap + Jitter) + stalls * MaxStall + Jitter
        BY <2>0, <2>1, Numbers DEF TypeOK, DrainInv
      <3> QED
        BY <2>0, <3>1, <3>2, Numbers, Bounds
    <2>2. CASE pc # "wake"
      BY <2>0, <2>2, Numbers, Bounds DEF TypeOK, DrainInv, Ended
    <2> QED
      BY <2>1, <2>2
  <1> QED
    BY <1>1, <1>2, <1>3, LateAlways, TypeCorrect, PTL DEF Spec

----------------------------------------------------------------------------
\* The refinement of MotionCall.

LEMMA StepResult ==
  ASSUME ResultInv, [Next]_vars
  PROVE  ResultInv'
  <1> USE DEF ResultInv, asked, history
  <1>1. CASE WakeWrite \/ FirstPulse \/ StopWrite \/ Die
    BY <1>1 DEF WakeWrite, FirstPulse, StopWrite, Die, End
  <1>2. ASSUME NEW r, Leave(r) PROVE ResultInv'
    BY <1>2 DEF Leave
  <1>3. CASE Tick \/ HeightReceived \/ Cancel \/ StrayHeight \/ Pass \/ UNCHANGED vars
    BY <1>3, <1>2 DEF Tick, HeightReceived, Cancel, StrayHeight, Pass, vars
  <1> QED
    BY <1>1, <1>2, <1>3 DEF Next, Proceed, CtxDone, Deadline, Arrived, QuietOver

LEMMA RefineInit == Init => Abstract!Init
  BY DEF Init, Abstract!Init, Phase, Ended

LEMMA RefineStep ==
  ASSUME TypeOK, ResultInv, [Next]_vars
  PROVE  [Abstract!Next]_(Abstract!vars)
  <1> USE DEF TypeOK, ResultInv, Phase, Ended, asked, channels, desk, trouble, history,
              NotReceived, Written, Abstract!vars, Abstract!Next
  <1>1. CASE WakeWrite
    BY <1>1 DEF WakeWrite, End, Abstract!End
  <1>2. CASE FirstPulse
    <2>1. CASE pc' \in {"loop", "stopping"}
      BY <1>2, <2>1 DEF FirstPulse, ReceivePulse, End, Abstract!Begin
    <2>2. CASE pc' \notin {"loop", "stopping"}
      BY <1>2, <2>2 DEF FirstPulse, End, Abstract!End
    <2> QED
      BY <2>1, <2>2
  <1>3. ASSUME NEW r, Leave(r), UNCHANGED desk PROVE UNCHANGED Abstract!vars
    BY <1>3 DEF Leave
  <1>4. CASE Tick
    BY <1>4, <1>3 DEF Tick, ReceivePulse, Abstract!Go
  <1>5. CASE HeightReceived \/ Cancel \/ StrayHeight \/ UNCHANGED vars
    BY <1>5 DEF HeightReceived, Cancel, StrayHeight, vars
  <1>6. CASE StopWrite
    <2>1. Abstract!End(out)
      BY <1>6 DEF StopWrite, ReceiveStop, End, Abstract!End
    <2> QED
      BY <2>1
  <1>7. CASE Die
    BY <1>7 DEF Die, End, Abstract!End
  <1>8. CASE Pass
    BY <1>8 DEF Pass, RunDesk, Abstract!Rest
  <1> QED
    BY <1>1, <1>2, <1>3, <1>4, <1>5, <1>6, <1>7, <1>8
    DEF Next, Proceed, CtxDone, Deadline, Arrived, QuietOver

\* A motion call drives the desk only while it is under way, returns once, and leaves a
\* desk that only comes to rest.
THEOREM Refinement == Spec => ImplementsMotionCall
  <1>1. Init => ResultInv
    BY DEF Init, ResultInv
  <1>2. ResultInv /\ [Next]_vars => ResultInv'
    BY StepResult
  <1>3. TypeOK /\ ResultInv /\ [Next]_vars => [Abstract!Next]_(Abstract!vars)
    BY RefineStep
  <1> QED
    BY RefineInit, <1>1, <1>2, <1>3, TypeCorrect, PTL
    DEF Spec, ImplementsMotionCall, Abstract!Spec

----------------------------------------------------------------------------
\* What the call answers.

\* A write that fails or gets lost is a flaw; one that had to wait was one before.
LEMMA LostIsFlaw ==
  ASSUME TypeOK, LateInv, NotReceived
  PROVE  ~Flawless'
  BY Numbers DEF TypeOK, LateInv, NotReceived, Flawless, trouble

\* While the call runs without a flaw, pulses are never missing when a unit passes, and the
\* goroutine is late by what it has left ready.
LEMMA SmoothPass ==
  ASSUME TypeOK, LateInv, PaceInv, Pass, Flawless'
  PROVE  /\ Flawless /\ late \in 0..Jitter /\ late' \in 0..Jitter
         /\ pc = "loop" => since < Gap
         /\ Ready => late < Jitter /\ late' = late + 1
         /\ ~Ready => late' = 0
         /\ RunTimers /\ RunDesk
         /\ UNCHANGED <<asked, pc, out, cancelled, wakes, armed, strays>>
  <1> USE Numbers DEF TypeOK, LateInv, Flawless
  <1>1. Flawless /\ UNCHANGED trouble /\ late \in 0..Jitter
    BY DEF Pass, Lag, trouble
  <1>2. /\ Ready => late < Jitter /\ late' = late + 1
        /\ ~Ready => late' = 0
    BY <1>1 DEF Pass, Lag, trouble
  <1>3. late' \in 0..Jitter
    BY <1>1, <1>2
  <1>4. ASSUME pc = "loop" PROVE since < Gap
    <2>1. CASE ticked
      <3>1. late < Jitter
        BY <1>2, <1>4, <2>1 DEF Ready
      <3> QED
        BY <1>1, <1>4, <2>1, <3>1 DEF PaceInv
    <2>2. CASE ~ticked
      BY <1>1, <1>4, <2>2 DEF PaceInv
    <2> QED
      BY <2>1, <2>2
  <1> QED
    BY <1>1, <1>2, <1>3, <1>4 DEF Pass

\* What was asked for stays, and so does a flaw.
LEMMA StepKeeps ==
  ASSUME TypeOK, [Next]_vars
  PROVE  UNCHANGED asked /\ (Flawless' => Flawless)
  <1>1. UNCHANGED asked
    BY DEF Next, Proceed, WakeWrite, FirstPulse, CtxDone, Deadline, Arrived, QuietOver, Tick,
           HeightReceived, StopWrite, Cancel, Die, StrayHeight, Pass, Leave, vars
  <1>2. \/ UNCHANGED trouble
        \/ faults' = faults + 1 /\ UNCHANGED stalls
        \/ stalls' = stalls + 1 /\ UNCHANGED faults
    BY DEF Next, Proceed, WakeWrite, FirstPulse, CtxDone, Deadline, Arrived, QuietOver, Tick,
           HeightReceived, StopWrite, Cancel, Die, StrayHeight, Pass, Leave, vars,
           Written, NotReceived, Lag, trouble
  <1>3. faults \in Nat /\ stalls \in Nat
    BY DEF TypeOK
  <1> QED
    BY <1>1, <1>2, <1>3 DEF Flawless, trouble

LEMMA StepWay ==
  ASSUME TypeOK, LateInv, PaceInv, WayInv, [Next]_vars
  PROVE  WayInv'
  <1> USE Numbers DEF TypeOK, WayInv, asked, channels, desk, history
  <1>0. UNCHANGED <<goal, from>> /\ (Flawless' => Flawless)
    BY StepKeeps
  <1>1. CASE WakeWrite
    BY <1>0, <1>1 DEF WakeWrite, Written, NotReceived, End
  <1>2. CASE FirstPulse
    <2>1. CASE NotReceived
      <3>1. ~Flawless'
        BY <2>1, LostIsFlaw
      <3> QED
        BY <1>0, <1>2, <2>1, <3>1 DEF FirstPulse, NotReceived, End
    <2>2. CASE ReceivePulse /\ pc' = "loop"
      BY <1>0, <2>2 DEF ReceivePulse
    <2> QED
      BY <1>2, <2>1, <2>2 DEF FirstPulse, Written
  <1>3. ASSUME NEW r, Leave(r), UNCHANGED desk PROVE WayInv'
    BY <1>0, <1>3 DEF Leave
  <1>4. CASE Tick
    <2>1. CASE NotReceived
      <3>1. ~Flawless' /\ UNCHANGED desk
        BY <2>1, LostIsFlaw DEF NotReceived
      <3>2. pc' # "wake"
        BY <1>4 DEF Tick, Leave
      <3> QED
        BY <1>0, <3>1, <3>2
    <2>2. CASE ReceivePulse /\ pc = "loop" /\ pc' = "loop"
      BY <1>0, <2>2 DEF ReceivePulse
    <2> QED
      BY <1>4, <2>1, <2>2 DEF Tick, Written
  <1>5. CASE HeightReceived \/ Cancel \/ StrayHeight \/ UNCHANGED vars
    BY <1>0, <1>5 DEF HeightReceived, Cancel, StrayHeight, vars
  <1>6. CASE StopWrite
    BY <1>0, <1>6 DEF StopWrite, Written, NotReceived, ReceiveStop, End
  <1>7. CASE Die
    BY <1>0, <1>7 DEF Die, End
  <1>8. CASE Pass
    <2> USE <1>8
    <2>1. pc' = pc /\ RunDesk
      BY DEF Pass
    <2>2. pc = "loop" /\ Flawless' => since < Gap
      BY SmoothPass
    <2>3. CASE UNCHANGED <<pos, step>> /\ motor' = "rest"
      BY <1>0, <2>1, <2>2, <2>3 DEF RunDesk
    <2>4. CASE UNCHANGED <<pos, motor>> /\ motor # "rest" /\ step' = step - 1 /\ step > 0
      BY <1>0, <2>1, <2>4
    <2>5. CASE /\ motor # "rest" /\ step' = Period - 1
               /\ motor' = IF pos' = goal THEN "rest" ELSE "moving"
      BY <1>0, <2>1, <2>5
    <2> QED
      BY <2>1, <2>3, <2>4, <2>5 DEF RunDesk
  <1> QED
    BY <1>1, <1>2, <1>3, <1>4, <1>5, <1>6, <1>7, <1>8
    DEF Next, Proceed, CtxDone, Deadline, Arrived, QuietOver

\* What a callback leaves in the channel, and in the history.
LEMMA DeliverLeaves ==
  ASSUME TypeOK, NEW p, NEW sort, Deliver(p, sort)
  PROVE  /\ heard \subseteq heard'
         /\ ~Ended => sort \subseteq heard'
         /\ kind = "move" /\ inbox' > 0 => inbox > 0 \/ "near" \in heard'
         /\ ~Ended /\ kind = "preset" => inbox' > 0
         /\ (inbox > 0 => inbox' > 0)
         /\ Ended => UNCHANGED <<inbox, heard>>
  <1>0. inbox \in 0..4
    BY DEF TypeOK
  <1>1. CASE Ended
    BY <1>0, <1>1 DEF Deliver
  <1>2. CASE ~Ended
    <2>1. heard' = heard \cup sort \cup {IF Near(p) THEN "near" ELSE "away"}
      BY <1>2 DEF Deliver
    <2>2. CASE kind = "move" /\ Near(p)
      <3>1. inbox' = 1 /\ "near" \in heard'
        BY <1>2, <2>1, <2>2 DEF Deliver
      <3> QED
        BY <1>0, <1>2, <2>1, <2>2, <3>1
    <2>3. CASE kind = "preset"
      <3>1. inbox' = Smaller(inbox + 1, 4)
        BY <1>2, <2>3 DEF Deliver
      <3>2. inbox' > 0 /\ (inbox > 0 => inbox' > 0)
        BY <1>0, <3>1 DEF Smaller
      <3>3. heard \subseteq heard' /\ sort \subseteq heard' /\ kind # "move"
        BY <2>1, <2>3
      <3> QED
        BY <1>2, <3>2, <3>3
    <2>4. CASE ~(kind = "move" /\ Near(p)) /\ kind # "preset"
      <3>1. inbox' = inbox
        BY <1>2, <2>4 DEF Deliver
      <3> QED
        BY <1>0, <1>2, <2>1, <2>4, <3>1
    <2> QED
      BY <2>2, <2>3, <2>4
  <1> QED
    BY <1>1, <1>2

\* One unit on: timers and the desk.
LEMMA PassMoves ==
  ASSUME TypeOK, WayInv, RunTimers, RunDesk
  PROVE  /\ timers'.quiet = Lower(timers.quiet) /\ timers'.left = Lower(timers.left)
         /\ heard \subseteq heard' /\ (inbox > 0 => inbox' > 0)
         /\ kind = "move" /\ inbox' > 0 => inbox > 0 \/ "near" \in heard'
         /\ motor = "rest" => UNCHANGED <<pos, step, inbox, heard>> /\ motor' = "rest"
         /\ motor # "rest" /\ since < Gap /\ step > 0 =>
               UNCHANGED <<motor, pos, inbox, heard>> /\ step' = step - 1
         /\ motor # "rest" /\ since < Gap /\ step = 0 =>
               /\ pos' = Towards(pos) /\ step' = Period - 1
               /\ motor' = IF pos' = goal THEN "rest" ELSE "moving"
               /\ ~Ended /\ kind = "preset" => inbox' > 0
               /\ ~Ended /\ kind = "move" /\ pos' = goal => inbox' > 0
  <1> USE Numbers DEF TypeOK, WayInv
  <1>1. timers'.quiet = Lower(timers.quiet) /\ timers'.left = Lower(timers.left)
    BY DEF RunTimers
  <1>2. CASE UNCHANGED <<pos, step, inbox, heard>> /\ motor' = "rest"
             /\ (motor = "rest" \/ since >= Gap)
    BY <1>1, <1>2
  <1>3. CASE motor # "rest" /\ since < Gap /\ step > 0 /\ step' = step - 1
             /\ UNCHANGED <<motor, pos, inbox, heard>>
    BY <1>1, <1>3
  <1>4. CASE motor # "rest" /\ since < Gap /\ step = 0
             /\ pos' = Towards(pos) /\ Deliver(pos', {}) /\ step' = Period - 1
             /\ motor' = IF pos' = goal THEN "rest" ELSE "moving"
    <2>1. pos' = goal => Near(pos')
      BY <1>4 DEF Near, Positions
    <2>2. ~Ended /\ kind = "move" /\ Near(pos') => inbox' > 0
      BY <1>4 DEF Deliver
    <2> QED
      BY <1>1, <1>4, <2>1, <2>2, DeliverLeaves
  <1> QED
    BY <1>2, <1>3, <1>4 DEF RunDesk

LEMMA StepHeard ==
  ASSUME TypeOK, LateInv, PaceInv, WayInv, HeardInv, Patient, [Next]_vars
  PROVE  HeardInv'
  <1> USE Numbers DEF TypeOK, WayInv, HeardInv, Ended, channels, desk, history
  <1>0. UNCHANGED <<kind, goal, from>> /\ (Flawless' => Flawless)
    BY StepKeeps DEF asked
  <1>1. CASE WakeWrite
    <2>1. /\ pc = "wake" /\ pc' # "loop" /\ UNCHANGED heard
          /\ UNCHANGED <<inbox, armed>> \/ (inbox' = 0 /\ armed' = FALSE)
      BY <1>1 DEF WakeWrite, End
    <2> QED
      BY <1>0, <2>1
  <1>2. CASE FirstPulse
    <2>1. CASE pc' = "loop"
      <3>1. pc = "wake" /\ UNCHANGED <<armed, inbox, heard>>
        BY <1>2, <2>1 DEF FirstPulse, End
      <3>2. "stray" \notin heard' => inbox' = 0 /\ ~armed'
        BY <3>1
      <3> QED
        BY <1>0, <2>1, <3>1, <3>2
    <2>2. CASE pc' # "loop"
      <3>1. /\ pc' # "wake" /\ UNCHANGED heard
            /\ UNCHANGED <<inbox, armed>> \/ (inbox' = 0 /\ armed' = FALSE)
        BY <1>2, <2>2 DEF FirstPulse, End
      <3> QED
        BY <1>0, <2>2, <3>1
    <2> QED
      BY <2>1, <2>2
  <1>3. ASSUME NEW r, Leave(r) PROVE HeardInv'
    <2>1. pc' = "stopping" /\ UNCHANGED <<kind, armed, inbox, heard>>
      BY <1>0, <1>3 DEF Leave
    <2> QED
      BY <2>1
  <1>4. CASE Tick
    <2>1. CASE pc = "loop" /\ Written(ReceivePulse) /\ pc' = "loop"
               /\ UNCHANGED <<timers, armed, inbox, late, heard>>
      <3>1. CASE NotReceived
        BY <1>0, <2>1, <3>1, LostIsFlaw
      <3>2. CASE ReceivePulse
        <4>1. Flawless' /\ pos # goal => UNCHANGED <<motor, step, pos>>
          BY <1>0, <2>1, <3>2 DEF ReceivePulse
        <4>2. UNCHANGED pos
          BY <3>2 DEF ReceivePulse
        <4> QED
          BY <1>0, <2>1, <4>1, <4>2
      <3> QED
        BY <2>1, <3>1, <3>2 DEF Written
    <2> QED
      BY <1>3, <1>4, <2>1 DEF Tick
  <1>5. CASE HeightReceived
    <2>1. /\ pc = "loop" /\ pc' = "loop" /\ kind = "preset" /\ inbox > 0 /\ inbox' = inbox - 1
          /\ timers'.quiet = Quiescence /\ UNCHANGED <<motor, pos, step, heard, late>>
      BY <1>5 DEF HeightReceived
    <2>2. UNCHANGED Flawless
      BY <1>5 DEF HeightReceived, Flawless, trouble
    <2>3. Flawless /\ "stray" \notin heard /\ pos # goal => motor = "moving" /\ step < Period
      BY <2>1
    <2>4. step + 1 + Jitter \in Int /\ late >= 0
      OBVIOUS
    <2>5. step < Period => Quiescence > step + 1 + Jitter /\ Quiescence > Jitter - late
      BY <2>4 DEF Patient
    <2> QED
      BY <1>0, <2>1, <2>2, <2>3, <2>5
  <1>6. CASE StopWrite \/ Die
    BY <1>0, <1>6 DEF StopWrite, Die, End
  <1>7. CASE Cancel \/ UNCHANGED vars
    BY <1>0, <1>7 DEF Cancel, vars, Flawless, trouble
  <1>8. CASE StrayHeight
    <2>1. UNCHANGED <<pc, armed>> /\ Deliver(pos, {"stray"})
      BY <1>8 DEF StrayHeight
    <2>2. heard \subseteq heard' /\ (~Ended => "stray" \in heard')
      BY <2>1, DeliverLeaves
    <2>3. kind = "move" /\ inbox' > 0 => "near" \in heard'
      BY <2>1, <2>2, DeliverLeaves
    <2> QED
      BY <1>0, <2>1, <2>2, <2>3
  <1>9. CASE Pass
    <2> USE <1>9
    <2>1. RunTimers /\ RunDesk /\ UNCHANGED <<pc, armed>>
      BY DEF Pass
    <2>2. kind = "move" /\ inbox' > 0 => "near" \in heard'
      BY <2>1, PassMoves
    <2>3. pc = "wake" => UNCHANGED <<inbox, heard>>
      BY <2>1, PassMoves
    <2>4. ASSUME pc = "loop", Flawless', kind = "preset", "stray" \notin heard', pos' # goal
          PROVE  /\ motor' = "starting" => inbox' = 0 /\ ~armed
                 /\ armed => timers'.quiet >
                                IF inbox' > 0 THEN Jitter - late' ELSE step' + 1 + Jitter
      <3>1. /\ Flawless /\ late \in 0..Jitter /\ late' \in 0..Jitter /\ since < Gap
            /\ inbox > 0 => late' = late + 1
        BY <2>4, SmoothPass DEF Ready
      <3>2. "stray" \notin heard /\ pos # goal /\ motor # "rest"
        BY <2>1, <2>4, <3>1, PassMoves
      <3>3. /\ motor = "starting" => inbox = 0 /\ ~armed
            /\ armed => timers.quiet > IF inbox > 0 THEN Jitter - late ELSE step + 1 + Jitter
        BY <2>4, <3>1, <3>2
      <3>4. armed => timers'.quiet = timers.quiet - 1
        BY <2>1, <3>1, <3>3, PassMoves DEF Lower, Larger
      <3>5. CASE step > 0
        <4>1. UNCHANGED <<motor, inbox>> /\ step' = step - 1
          BY <2>1, <3>1, <3>2, <3>5, PassMoves
        <4> QED
          BY <3>1, <3>3, <3>4, <4>1
      <3>6. CASE step = 0
        <4>1. motor' = "moving" /\ inbox' > 0
          BY <2>1, <2>4, <3>1, <3>2, <3>6, PassMoves
        <4> QED
          BY <3>1, <3>3, <3>4, <3>6, <4>1
      <3> QED
        BY <3>5, <3>6
    <2> QED
      BY <1>0, <2>1, <2>2, <2>3, <2>4
  <1> QED
    BY <1>1, <1>2, <1>3, <1>4, <1>5, <1>6, <1>7, <1>8, <1>9
    DEF Next, Proceed, CtxDone, Deadline, Arrived, QuietOver

LEMMA WindowIs == Window \in Nat /\ Window' = Window /\ Window = Quiescence + 2 * Jitter
  BY Numbers DEF Window

\* While the call runs without a flaw, its goroutine is at most Jitter late.
LEMMA SmoothLate ==
  ASSUME TypeOK, LateInv, Flawless
  PROVE  late \in 0..Jitter
  BY Numbers DEF TypeOK, LateInv, Flawless

\* A desk that is there needs no more than the window of one more height.
LEMMA NeedThere ==
  ASSUME TypeOK, LateInv, Flawless, pos = goal
  PROVE  Need \in 0..Window
  BY Numbers, WindowIs, SmoothLate DEF TypeOK, Need

\* How far the desk has to go, and what a movement leaves of that.
LEMMA WayIs ==
  ASSUME TypeOK
  PROVE  /\ Way \in 0..Top
         /\ Way = 0 <=> pos = goal
         /\ Way * Period \in Nat
         /\ Way * Period <= Top * Period
  <1>1. Way \in 0..Top /\ (Way = 0 <=> pos = goal)
    BY Numbers DEF TypeOK, Positions, Way
  <1>2. \A m \in Nat : \A n \in 0..m : \A k \in Nat : n * k \in Nat /\ n * k <= m * k
    OBVIOUS
  <1> QED
    BY <1>1, <1>2, Numbers

LEMMA WayShrinks ==
  ASSUME TypeOK, pos # goal, pos' = Towards(pos), UNCHANGED goal
  PROVE  Way' = Way - 1 /\ Way' * Period = Way * Period - Period
  <1>1. Way' = Way - 1 /\ Way \in Nat
    BY Numbers DEF TypeOK, Positions, Way, Towards
  <1>2. \A n, k \in Nat : (n - 1) * k = n * k - k
    OBVIOUS
  <1> QED
    BY <1>1, <1>2, Numbers

LEMMA StepTime ==
  ASSUME TypeOK, LateInv, PaceInv, WayInv, TimeInv, TimeEnough, [Next]_vars
  PROVE  TimeInv'
  <1> DEFINE Bound == timers.left > Need + strays * Window
             Signs == (pos = goal => inbox > 0 \/ armed)
  <1>0. UNCHANGED <<kind, goal, from>> /\ (Flawless' => Flawless)
    BY StepKeeps DEF asked
  <1> SUFFICES ASSUME pc' = "loop", Flawless', ~cancelled', kind # "timed", from # goal
               PROVE  Bound' /\ Signs'
    BY <1>0 DEF TimeInv
  <1>1. \/ FirstPulse /\ pc = "wake" /\ ~NotReceived
        \/ /\ pc = "loop" /\ ~cancelled
           /\ Tick \/ HeightReceived \/ StrayHeight \/ Pass \/ UNCHANGED vars
    <2>1. ~NotReceived
      BY LostIsFlaw
    <2> QED
      BY <2>1 DEF Next, Proceed, WakeWrite, FirstPulse, CtxDone, Deadline, Arrived, QuietOver,
         Tick, HeightReceived, StopWrite, Cancel, Die, StrayHeight, Pass, Leave, End, vars, TypeOK
  <1>2. Window \in Nat /\ Window' = Window
    BY WindowIs
  <1>3. strays \in Nat /\ strays <= MaxStrays /\ strays * Window \in Nat
    BY <1>2, Numbers, ProductType DEF TypeOK
  <1>4. ASSUME UNCHANGED <<strays, pos, inbox, armed>>, Signs,
               timers.left > Need + strays * Window => timers'.left > Need' + strays * Window, Bound
        PROVE  Bound' /\ Signs'
    BY <1>0, <1>2, <1>4
  <1>5. CASE FirstPulse /\ pc = "wake" /\ ~NotReceived
    <2>1. ReceivePulse /\ timers'.left = Timeout /\ UNCHANGED <<goal, strays>>
      BY <1>0, <1>5 DEF FirstPulse, Written, TypeOK
    <2>2. motor = "rest" /\ pos # goal
      BY <1>5 DEF WayInv
    <2>3. UNCHANGED pos /\ pos' # goal' /\ step' \in 0..MaxStart
      BY <2>1, <2>2 DEF ReceivePulse
    <2>4. Way' = Way /\ Need' = Way' * Period + step' + Window
      BY <1>2, <2>1, <2>3 DEF Way, Need
    <2>5. Way * Period \in Nat /\ Way * Period <= Top * Period
      BY WayIs
    <2>6. \A m, n, k \in Nat : /\ m <= n => m * k <= n * k
                               /\ (1 + n) * k = k + n * k /\ n * k \in Nat
      OBVIOUS
    <2>7. strays * Window <= MaxStrays * Window
          /\ (1 + MaxStrays) * Window = Window + MaxStrays * Window
          /\ MaxStrays * Window \in Nat /\ Top * Period \in Nat
      BY <1>2, <1>3, <2>6, Numbers
    <2>8. Timeout > Way * Period + step' + Window + strays * Window
      BY <1>2, <1>3, <2>3, <2>5, <2>7, Numbers DEF TimeEnough
    <2>9. Bound'
      BY <1>2, <2>1, <2>4, <2>8
    <2> QED
      BY <2>3, <2>9
  <1>6. CASE /\ pc = "loop" /\ ~cancelled
             /\ Tick \/ HeightReceived \/ StrayHeight \/ Pass \/ UNCHANGED vars
    <2>1. Flawless /\ Bound /\ Signs /\ late \in 0..Jitter
      BY <1>0, <1>6, SmoothLate DEF TimeInv
    <2>2. timers.left \in Nat /\ Way * Period \in Nat /\ step \in Nat /\ inbox \in Nat
      BY Numbers, WayIs DEF TypeOK, Larger
    <2>3. pos = goal => Need \in 0..Window
      BY <2>1, NeedThere
    <2>4. CASE Tick
      <3>1. ReceivePulse /\ UNCHANGED <<timers, armed, inbox, late, strays>>
        BY <1>1, <2>4, LostIsFlaw DEF Tick, Leave, Written, TypeOK
      <3>2. UNCHANGED <<pos, step>>
        BY <2>1, <1>6, <3>1 DEF ReceivePulse, WayInv
      <3>3. Need' = Need
        BY <1>0, <1>2, <3>1, <3>2 DEF Need, Way
      <3> QED
        BY <1>4, <2>1, <3>1, <3>2, <3>3
    <2>5. CASE HeightReceived
      <3>1. /\ inbox > 0 /\ inbox' = inbox - 1 /\ armed' = TRUE
            /\ timers'.quiet = Quiescence /\ timers'.left = timers.left
            /\ UNCHANGED <<pos, step, late, strays>>
        BY <2>5 DEF HeightReceived, desk, TypeOK
      <3>2. Need \in Int /\ Need' \in Int /\ Need' <= Need
        <4>1. CASE pos # goal
          <5>1. Need' = Need
            BY <1>0, <1>2, <3>1, <4>1 DEF Need, Way
          <5>2. Need \in Int
            BY <1>2, <2>2, <4>1 DEF Need
          <5> QED
            BY <5>1, <5>2
        <4>2. CASE pos = goal
          <5>1. Need = Window - late
            BY <3>1, <4>2 DEF Need
          <5>2. Need' = IF inbox' > 0 THEN Window - late ELSE Quiescence + Jitter
            BY <1>0, <1>2, <3>1, <4>2, Numbers DEF Need
          <5> QED
            BY <2>1, <5>1, <5>2, WindowIs, Numbers
        <4> QED
          BY <4>1, <4>2
      <3> QED
        BY <1>2, <1>3, <2>1, <2>2, <3>1, <3>2
    <2>6. CASE StrayHeight
      <3>1. /\ strays > 0 /\ strays' = strays - 1 /\ Deliver(pos, {"stray"})
            /\ UNCHANGED <<pos, step, late, armed, timers>>
        BY <2>6 DEF StrayHeight, desk
      <3>2. inbox > 0 => inbox' > 0
        BY <3>1, DeliverLeaves
      <3>3. strays' * Window = strays * Window - Window
        <4>1. \A m, n \in Nat : (m - 1) * n = m * n - n
          OBVIOUS
        <4> QED
          BY <1>2, <1>3, <3>1, <4>1
      <3>4. CASE pos # goal
        <4>1. Need' = Need
          BY <1>0, <1>2, <3>1, <3>4 DEF Need, Way
        <4>2. Need \in Int
          BY <1>2, <2>2, <3>4 DEF Need
        <4> QED
          BY <1>0, <1>2, <1>3, <2>1, <2>2, <3>1, <3>3, <3>4, <4>1, <4>2
      <3>5. CASE pos = goal
        <4>1. CASE inbox' > 0
          <5>1. Need' = Window - late
            BY <1>0, <1>2, <3>1, <3>5, <4>1 DEF Need
          <5> QED
            BY <1>2, <1>3, <2>1, <2>2, <2>3, <3>1, <3>3, <3>5, <4>1, <5>1, Numbers
        <4>2. CASE ~(inbox' > 0)
          <5>1. Need' = Need /\ ~(inbox > 0)
            BY <1>0, <1>2, <3>1, <3>2, <3>5, <4>2 DEF Need
          <5> QED
            BY <1>0, <1>2, <1>3, <2>1, <2>2, <2>3, <3>1, <3>3, <3>5, <5>1
        <4> QED
          BY <4>1, <4>2
      <3> QED
        BY <3>4, <3>5
    <2>7. CASE Pass
      <3> USE <2>7
      <3>1. /\ late' \in 0..Jitter /\ since < Gap /\ RunTimers /\ RunDesk
            /\ Ready => late' = late + 1
            /\ UNCHANGED <<armed, strays>>
        BY <1>6, SmoothPass
      <3>2. timers'.left = Lower(timers.left) /\ timers'.quiet = Lower(timers.quiet)
        BY <3>1, PassMoves
      <3>3. CASE pos # goal
        <4>1. motor # "rest"
          BY <1>6, <2>1, <3>3 DEF WayInv
        <4>2. Need = Way * Period + step + Window
          BY <3>3 DEF Need
        <4>3. timers'.left = timers.left - 1
          BY <1>2, <1>3, <2>1, <2>2, <3>2, <4>2 DEF Lower, Larger
        <4>4. CASE step > 0
          <5>1. UNCHANGED <<pos, inbox>> /\ step' = step - 1
            BY <3>1, <4>1, <4>4, PassMoves
          <5>2. Way' = Way /\ Need' = Way' * Period + step' + Window
            BY <1>0, <1>2, <3>3, <5>1 DEF Need, Way
          <5> QED
            BY <1>0, <1>2, <1>3, <2>1, <2>2, <3>1, <3>3, <4>2, <4>3, <5>1, <5>2
        <4>5. CASE step = 0
          <5>1. /\ pos' = Towards(pos) /\ step' = Period - 1
                /\ kind = "preset" => inbox' > 0
                /\ kind = "move" /\ pos' = goal => inbox' > 0
            BY <1>6, <3>1, <4>1, <4>5, PassMoves DEF Ended
          <5>2. Way' * Period = Way * Period - Period
            BY <1>0, <3>3, <5>1, WayShrinks
          <5>3. Way * Period >= Period
            <6>1. Way \in Nat \ {0}
              BY <3>3, WayIs
            <6>2. \A m \in Nat \ {0} : \A n \in Nat : m * n >= n
              OBVIOUS
            <6> QED
              BY <6>1, <6>2, Numbers
          <5>4. CASE pos' # goal
            <6>1. Need' = Way' * Period + step' + Window
              BY <1>0, <1>2, <5>4 DEF Need
            <6> QED
              BY <1>0, <1>2, <1>3, <2>1, <2>2, <3>1, <4>2, <4>3, <4>5, <5>1, <5>2, <5>4, <6>1,
                 Numbers
          <5>5. CASE pos' = goal
            <6>1. inbox' > 0
              BY <1>6, <5>1, <5>5, Numbers DEF TypeOK, KindsAssumption, AllKinds
            <6>2. Need' = Window - late'
              BY <1>0, <1>2, <5>5, <6>1 DEF Need
            <6> QED
              BY <1>2, <1>3, <2>1, <2>2, <3>1, <4>2, <4>3, <4>5, <5>3, <6>1, <6>2, Numbers
          <5> QED
            BY <5>4, <5>5
        <4> QED
          BY <2>2, <4>4, <4>5
      <3>4. CASE pos = goal
        <4>1. UNCHANGED <<pos, inbox>> /\ pos' = goal'
          BY <1>0, <3>1, <3>4, PassMoves DEF WayInv
        <4>2. timers'.left = timers.left - 1
          BY <1>2, <1>3, <2>1, <2>2, <2>3, <3>2, <3>4 DEF Lower, Larger
        <4>3. Need' < Need
          <5>1. CASE inbox > 0
            <6>1. Ready
              BY <1>6, <5>1 DEF Ready
            <6>2. Need = Window - late /\ Need' = Window - late'
              BY <1>2, <3>4, <4>1, <5>1 DEF Need
            <6> QED
              BY <1>2, <2>1, <3>1, <6>1, <6>2, Numbers
          <5>2. CASE ~(inbox > 0) /\ timers.quiet > 0
            <6>1. Need = timers.quiet + Jitter
              BY <3>4, <5>2 DEF Need
            <6>2. timers'.quiet = timers.quiet - 1 /\ timers.quiet \in Nat
              BY <3>2, <5>2 DEF TypeOK, Lower, Larger
            <6>3. Need' = IF timers'.quiet > 0 THEN timers'.quiet + Jitter ELSE Jitter - late'
              BY <4>1, <5>2 DEF Need
            <6> QED
              BY <3>1, <5>2, <6>1, <6>2, <6>3, Numbers
          <5>3. CASE ~(inbox > 0) /\ ~(timers.quiet > 0)
            <6>1. armed /\ timers.quiet = 0 /\ timers'.quiet = 0
              BY <2>1, <3>2, <3>4, <5>3 DEF TypeOK, Lower, Larger
            <6>2. Ready
              BY <1>6, <6>1 DEF Ready
            <6>3. Need = Jitter - late /\ Need' = Jitter - late'
              BY <3>4, <4>1, <5>3, <6>1 DEF Need
            <6> QED
              BY <2>1, <3>1, <6>2, <6>3, Numbers
          <5> QED
            BY <5>1, <5>2, <5>3
        <4>4. Need' \in Int
          BY <1>2, <3>1, <3>2, <4>1, Numbers DEF Need, TypeOK, Lower, Larger
        <4> QED
          BY <1>2, <1>3, <2>1, <2>2, <2>3, <3>1, <3>4, <4>1, <4>2, <4>3, <4>4
      <3> QED
        BY <3>3, <3>4
    <2>8. CASE UNCHANGED vars
      <3>1. Need' = Need /\ UNCHANGED <<timers, strays, pos, inbox, armed>>
        BY <1>2, <2>8 DEF vars, asked, channels, desk, Need, Way
      <3> QED
        BY <1>4, <2>1, <3>1
    <2> QED
      BY <1>6, <2>4, <2>5, <2>6, <2>7, <2>8
  <1> QED
    BY <1>1, <1>5, <1>6

\* An answer is given when the loop is left, and stays true.
LEMMA StepAnswers ==
  ASSUME TypeOK, LateInv, WayInv, HeardInv, TimeInv, ResultInv, AnswersTruthfully, [Next]_vars
  PROVE  AnswersTruthfully'
  <1> DEFINE Reached == pos = goal \/ "stray" \in heard \/ ~Flawless
             Excused == cancelled \/ ~Flawless \/ (kind # "timed" /\ from = goal)
  <1>1. UNCHANGED <<kind, goal, from>> /\ (Flawless' => Flawless)
    BY StepKeeps DEF asked
  <1>2. heard \subseteq heard' /\ (cancelled => cancelled')
    BY DeliverLeaves DEF Next, Proceed, WakeWrite, FirstPulse, CtxDone, Deadline, Arrived,
       QuietOver, Tick, HeightReceived, StopWrite, Cancel, Die, StrayHeight, Pass, RunDesk,
       Leave, vars, history, TypeOK
  <1>3. pos = goal => pos' = goal
    BY Numbers DEF Next, Proceed, WakeWrite, FirstPulse, CtxDone, Deadline, Arrived, QuietOver,
       Tick, HeightReceived, StopWrite, Cancel, Die, StrayHeight, Pass, RunDesk, Leave, vars,
       desk, Written, NotReceived, ReceivePulse, ReceiveStop, WayInv
  <1>4. (Reached => Reached') /\ (Excused => Excused')
    BY <1>1, <1>2, <1>3
  <1>5. CASE out' = out
    BY <1>1, <1>2, <1>4, <1>5 DEF AnswersTruthfully
  <1>6. CASE out' = "none"
    BY <1>6 DEF AnswersTruthfully
  <1>7. CASE NotReceived /\ out' = "err"
    BY <1>7, LostIsFlaw DEF AnswersTruthfully
  <1>8. CASE CtxDone
    <2>1. cancelled' /\ out' = IfTimed("ok")
      BY <1>2, <1>8 DEF CtxDone, Leave
    <2> QED
      BY <1>1, <2>1 DEF IfTimed, AnswersTruthfully
  <1>9. CASE Deadline
    <2>1. pc = "loop" /\ timers.left = 0 /\ out' = IfTimed("ok")
      BY <1>9 DEF Deadline, Leave
    <2>2. ASSUME kind # "timed" PROVE Excused
      <3> SUFFICES ASSUME ~Excused PROVE FALSE
        OBVIOUS
      <3>1. timers.left > Need + strays * Window
        BY <2>1, <2>2 DEF TimeInv
      <3>2. Window \in Nat /\ strays * Window \in Nat /\ step \in Nat /\ Way * Period \in Nat
        BY Numbers, WindowIs, WayIs, ProductType DEF TypeOK, Larger
      <3>3. Need >= 0 /\ Need \in Int
        <4>1. CASE pos = goal
          BY <3>2, <4>1, NeedThere
        <4>2. CASE pos # goal
          BY <3>2, <4>2 DEF Need
        <4> QED
          BY <4>1, <4>2
      <3> QED
        BY <2>1, <3>1, <3>2, <3>3
    <2> QED
      BY <1>1, <1>4, <2>1, <2>2 DEF IfTimed, AnswersTruthfully
  <1>10. CASE Arrived
    <2>1. kind = "move" /\ inbox > 0 /\ out' = "ok"
      BY <1>10 DEF Arrived, Leave
    <2> QED
      BY <1>1, <1>2, <2>1 DEF HeardInv, AnswersTruthfully
  <1>11. CASE QuietOver
    <2>1. pc = "loop" /\ armed /\ timers.quiet = 0 /\ out' = "ok"
      BY <1>11 DEF QuietOver, Leave
    <2>2. kind = "preset"
      BY <2>1 DEF HeardInv
    <2>3. Reached
      <3> SUFFICES ASSUME ~Reached PROVE FALSE
        OBVIOUS
      <3>1. late \in 0..Jitter /\ step \in Nat
        BY Numbers, SmoothLate DEF TypeOK, Larger
      <3>2. timers.quiet > IF inbox > 0 THEN Jitter - late ELSE step + 1 + Jitter
        BY <2>1, <2>2 DEF HeardInv
      <3> QED
        BY <2>1, <3>1, <3>2, Numbers
    <2> QED
      BY <1>1, <1>4, <2>1, <2>2, <2>3 DEF AnswersTruthfully
  <1> QED
    BY <1>5, <1>6, <1>7, <1>8, <1>9, <1>10, <1>11
    DEF Next, Proceed, WakeWrite, FirstPulse, Tick, HeightReceived, StopWrite, Cancel, Die,
        StrayHeight, Pass, Leave, End, vars, history

\* Where the heights of a moving desk outpace the quiescence timer, and the timeout leaves the
\* time for the way, a call succeeds only when the desk got there, and fails only when
\* it was cancelled, a write failed or waited, or the desk had stood there from the start.
THEOREM TrueAnswers ==
  ASSUME Patient, TimeEnough
  PROVE  Spec => []AnswersTruthfully
  <1> DEFINE Inv == /\ LateInv /\ PaceInv /\ WayInv /\ HeardInv /\ TimeInv /\ ResultInv
                    /\ AnswersTruthfully
  <1>1. Init => Inv
    BY Numbers DEF Init, LateInv, PaceInv, WayInv, HeardInv, TimeInv, ResultInv,
       AnswersTruthfully
  <1>2. TypeOK /\ Inv /\ [Next]_vars => Inv'
    BY StepLate, StepPace, StepWay, StepHeard, StepTime, StepResult, StepAnswers
  <1> QED
    BY <1>1, <1>2, TypeCorrect, PTL DEF Spec
=============================================================================
