---------------------- MODULE SnapshotRefresherProofs ----------------------
(***************************************************************************)
(* That a single failed refresh does not make the snapshot expire, for     *)
(* every choice of the delays that leaves TimeForRetry.                    *)
(*                                                                         *)
(* The argument follows the thread the owner runs, whatever the threads it *)
(* gave up on still do: OnTime bounds the age of the snapshot by where     *)
(* that thread is in its cycle, with the cost of one failed attempt added  *)
(* once there was one.                                                     *)
(***************************************************************************)
EXTENDS SnapshotRefresher, TLAPS

(* What one failed attempt adds to the age at the next one.                *)
FailureCost ==
    IF failures = 0 THEN 0 ELSE LoadTime + CloseTime + NextDelay(1)

(* The latest the age can be for where thread l is.                        *)
OnTime(l) ==
    LET due == CloseTime + Interval + FailureCost IN
    /\ In(l, "waiting") => age + loop[l].timer <= due
    /\ In(l, "loading") => age <= due + loop[l].timer
    /\ In(l, "closing") => age <= due + LoadTime + loop[l].timer

(* The thread of the owner runs until it is stopped.                       *)
ThreadRuns == ~stopping => thread # None /\ Alive(thread)

IInv ==
    /\ TypeOK
    /\ stopping => interrupted
    /\ ThreadRuns
    /\ failures <= 1 /\ ~interrupted => OnTime(thread)

-----------------------------------------------------------------------------
(* The delays of _next_delay: never longer than the interval, and one per  *)
(* number of failures.                                                     *)
LEMMA Delays ==
    /\ Interval \in Nat
    /\ \A n \in 0..FailureCap : NextDelay(n) \in Nat /\ NextDelay(n) <= Interval
    /\ NextDelay(0) = Interval
<1>1. Interval \in Nat
  BY DelayAssumption DEF Interval
<1>2. ASSUME NEW n \in 0..FailureCap
      PROVE  NextDelay(n) \in Nat /\ NextDelay(n) <= Interval
  <2>1. CASE n = 0
    BY <1>1, <2>1 DEF NextDelay
  <2>2. CASE n # 0
    <3>1. Smaller(n, 5) \in 1..5
      BY <2>2, DelayAssumption DEF Smaller
    <3>2. <<1, 2, 4, 8, 16>>[Smaller(n, 5)] \in Nat
      BY <3>1
    <3>3. Backoff(n) \in Nat
      BY <3>2, DelayAssumption DEF Backoff
    <3> QED
      BY <1>1, <2>2, <3>3, DelayAssumption DEF NextDelay, Smaller
  <2> QED
    BY <2>1, <2>2
<1>3. NextDelay(0) = Interval
  BY DEF NextDelay
<1> QED
  BY <1>1, <1>2, <1>3

LEMMA InitIInv == Init => IInv
<1> SUFFICES ASSUME Init PROVE IInv
  OBVIOUS
<1>1. PICK l \in Loops :
        /\ thread = l
        /\ loop = [m \in Loops |-> IF m = l
                                   THEN [phase |-> "waiting", timer |-> Interval]
                                   ELSE [phase |-> "idle", timer |-> 0]]
  BY DEF Init
<1>2. TypeOK
  <2>1. loop \in [Loops -> LoopState]
    BY <1>1, Delays DEF LoopState
  <2>2. \A m \in Loops :
          /\ loop[m].phase = "waiting" => loop[m].timer <= Interval
          /\ loop[m].phase \notin {"loading", "closing"}
    BY <1>1, Delays
  <2>3. age \in 0..MaxAge /\ failures \in 0..FailureCap
    BY DelayAssumption DEF Init
  <2> QED
    BY <1>1, <2>1, <2>2, <2>3 DEF Init, TypeOK
<1>3. In(thread, "waiting") /\ loop[thread].timer = Interval
  BY <1>1 DEF In
<1>4. OnTime(thread)
  <2>1. age + Interval <= CloseTime + Interval + FailureCost
    BY Delays, DelayAssumption DEF Init, FailureCost
  <2> QED
    BY <1>3, <2>1 DEF OnTime, In
<1> QED
  BY <1>1, <1>2, <1>3, <1>4, LoopAssumption DEF IInv, Init, ThreadRuns, Alive, In
-----------------------------------------------------------------------------
(* The phases and timers after a thread's own step.                        *)
LEMMA BecomeType ==
    ASSUME TypeOK, NEW l \in Loops,
           NEW phase \in {"idle", "waiting", "loading", "closing"},
           NEW timer \in Nat, Become(l, phase, timer),
           phase = "waiting" => timer <= Interval,
           phase = "loading" => timer <= LoadTime,
           phase = "closing" => timer <= CloseTime
    PROVE  /\ loop' \in [Loops -> LoopState]
           /\ \A m \in Loops :
                 /\ loop'[m].phase = "waiting" => loop'[m].timer <= Interval
                 /\ loop'[m].phase = "loading" => loop'[m].timer <= LoadTime
                 /\ loop'[m].phase = "closing" => loop'[m].timer <= CloseTime
           /\ loop'[l] = [phase |-> phase, timer |-> timer]
           /\ \A m \in Loops : m # l => loop'[m] = loop[m]
<1>1. loop' = [loop EXCEPT ![l] = [phase |-> phase, timer |-> timer]]
  BY DEF Become
<1>2. [phase |-> phase, timer |-> timer] \in LoopState
  BY DEF LoopState
<1>3. loop'[l] = [phase |-> phase, timer |-> timer]
  BY <1>1 DEF TypeOK
<1>4. \A m \in Loops : m # l => loop'[m] = loop[m]
  BY <1>1 DEF TypeOK
<1> QED
  BY <1>1, <1>2, <1>3, <1>4 DEF TypeOK

LEMMA TickType ==
    ASSUME TypeOK, Tick
    PROVE  /\ loop' \in [Loops -> LoopState]
           /\ \A m \in Loops :
                 /\ loop'[m].phase = loop[m].phase
                 /\ In(m, "waiting") => /\ loop[m].timer > 0
                                        /\ loop'[m].timer = loop[m].timer - 1
                 /\ In(m, "loading") => /\ loop[m].timer < LoadTime
                                        /\ loop'[m].timer = loop[m].timer + 1
                 /\ In(m, "closing") => /\ loop[m].timer < CloseTime
                                        /\ loop'[m].timer = loop[m].timer + 1
<1> SUFFICES ASSUME NEW m \in Loops
             PROVE  /\ Elapsed(loop[m]) \in LoopState
                    /\ Elapsed(loop[m]).phase = loop[m].phase
                    /\ In(m, "waiting") => /\ loop[m].timer > 0
                                           /\ Elapsed(loop[m]).timer = loop[m].timer - 1
                    /\ In(m, "loading") => /\ loop[m].timer < LoadTime
                                           /\ Elapsed(loop[m]).timer = loop[m].timer + 1
                    /\ In(m, "closing") => /\ loop[m].timer < CloseTime
                                           /\ Elapsed(loop[m]).timer = loop[m].timer + 1
  BY DEF Tick
<1>1. loop[m] \in LoopState /\ ~Due(m)
  BY DEF TypeOK, Tick
<1>2. CASE loop[m].phase = "waiting"
  BY <1>1, <1>2, DelayAssumption DEF Elapsed, Due, In, LoopState, TypeOK
<1>3. CASE loop[m].phase = "idle"
  BY <1>1, <1>3 DEF Elapsed, In, LoopState
<1>4. CASE loop[m].phase = "loading"
  BY <1>1, <1>4, DelayAssumption DEF Elapsed, Due, In, LoopState, TypeOK
<1>5. CASE loop[m].phase = "closing"
  BY <1>1, <1>5, DelayAssumption DEF Elapsed, Due, In, LoopState, TypeOK
<1> QED
  BY <1>1, <1>2, <1>3, <1>4, <1>5 DEF LoopState
-----------------------------------------------------------------------------
LEMMA TypeStep == TypeOK /\ [Next]_vars => TypeOK'
<1> SUFFICES ASSUME TypeOK, [Next]_vars PROVE TypeOK'
  OBVIOUS
<1> USE DelayAssumption, Delays
<1>1. ASSUME NEW l \in Loops, Wake(l) PROVE TypeOK'
  <2>1. Become(l, "loading", 0) /\ 0 <= LoadTime
    BY <1>1 DEF Wake
  <2>2. /\ loop' \in [Loops -> LoopState]
        /\ \A m \in Loops :
              /\ loop'[m].phase = "waiting" => loop'[m].timer <= Interval
              /\ loop'[m].phase = "loading" => loop'[m].timer <= LoadTime
              /\ loop'[m].phase = "closing" => loop'[m].timer <= CloseTime
    BY <2>1, BecomeType
  <2> QED
    BY <1>1, <2>2 DEF TypeOK, Wake, owner
<1>2. ASSUME NEW l \in Loops, Exit(l) PROVE TypeOK'
  <2>1. Become(l, "idle", 0)
    BY <1>2 DEF Exit
  <2> QED
    BY <1>2, <2>1, BecomeType DEF TypeOK, Exit, owner
<1>3. ASSUME NEW l \in Loops, Observe(l) PROVE TypeOK'
  <2>1. Become(l, "closing", 0) /\ 0 <= CloseTime
    BY <1>3 DEF Observe
  <2> QED
    BY <1>3, <2>1, BecomeType DEF TypeOK, Observe, owner
<1>4. ASSUME NEW l \in Loops, Fail(l) PROVE TypeOK'
  <2>1. failures' \in 0..FailureCap
    BY <1>4 DEF Fail, TypeOK, Smaller
  <2>2. Become(l, "waiting", NextDelay(failures'))
    BY <1>4 DEF Fail
  <2> QED
    BY <1>4, <2>1, <2>2, BecomeType DEF TypeOK, Fail, owner
<1>5. ASSUME NEW l \in Loops, Install(l) PROVE TypeOK'
  <2>1. Become(l, "waiting", NextDelay(0)) /\ 0 \in 0..FailureCap
    BY <1>5 DEF Install
  <2>2. loop[l].timer \in 0..MaxAge
    BY <1>5 DEF Install, In, TypeOK, LoopState
  <2> QED
    BY <1>5, <2>1, <2>2, BecomeType DEF TypeOK, Install, owner
<1>6. ASSUME NEW l \in Loops, Start(l) PROVE TypeOK'
  <2>1. Become(l, "waiting", NextDelay(failures)) /\ failures \in 0..FailureCap
    BY <1>6 DEF Start, TypeOK
  <2> QED
    BY <1>6, <2>1, BecomeType DEF TypeOK, Start
<1>7. CASE Stop
  BY <1>7 DEF Stop, TypeOK
<1>8. CASE JoinReturns
  BY <1>8 DEF JoinReturns, TypeOK
<1>9. CASE Tick
  <2>1. age' \in 0..MaxAge
    BY <1>9 DEF Tick, TypeOK, Smaller
  <2>2. \A l \in Loops : loop[l] \in LoopState /\ loop'[l] \in LoopState
    BY <1>9, TickType DEF TypeOK
  <2>3. \A l \in Loops :
          /\ loop'[l].phase = "waiting" => loop'[l].timer <= Interval
          /\ loop'[l].phase = "loading" => loop'[l].timer <= LoadTime
          /\ loop'[l].phase = "closing" => loop'[l].timer <= CloseTime
    BY <1>9, <2>2, TickType DEF TypeOK, In, LoopState
  <2> QED
    BY <1>9, <2>1, <2>3, TickType DEF TypeOK, Tick, owner
<1>10. CASE Network
  BY <1>10 DEF Network, TypeOK, owner
<1>11. CASE UNCHANGED vars
  BY <1>11 DEF vars, owner, TypeOK
<1> QED
  BY <1>1, <1>2, <1>3, <1>4, <1>5, <1>6, <1>7, <1>8, <1>9, <1>10, <1>11
     DEF Next, Turn

-----------------------------------------------------------------------------
(* The thread of the owner, whichever it is, is a thread.                  *)
LEMMA RunningThread ==
    ASSUME IInv, ~stopping
    PROVE  thread \in Loops /\ Alive(thread) /\ loop[thread] \in LoopState
BY DEF IInv, ThreadRuns, TypeOK

LEMMA CostType ==
    ASSUME TypeOK, TypeOK'
    PROVE  /\ FailureCost \in Nat /\ FailureCost' \in Nat
           /\ failures <= failures' => FailureCost <= FailureCost'
<1>1. NextDelay(1) \in Nat
  BY Delays, DelayAssumption
<1> QED
  BY <1>1, DelayAssumption DEF FailureCost, TypeOK

(* A step that leaves this thread and the snapshot alone, but may count a  *)
(* failure of another thread, leaves it on time.                           *)
LEMMA OnTimeElsewhere ==
    ASSUME TypeOK, TypeOK', NEW l \in Loops, OnTime(l),
           UNCHANGED age, UNCHANGED loop[l], failures <= failures'
    PROVE  OnTime(l)'
<1>1. /\ FailureCost \in Nat /\ FailureCost' \in Nat
      /\ FailureCost <= FailureCost'
  BY CostType
<1>2. loop[l] \in LoopState /\ age \in Nat
  BY DelayAssumption DEF TypeOK
<1> QED
  BY <1>1, <1>2, Delays, DelayAssumption DEF OnTime, In, LoopState

(* After a step that left a young snapshot every thread is on time.        *)
LEMMA OnTimeWhenYoung ==
    ASSUME TypeOK, TypeOK', NEW l \in Loops, age' <= CloseTime
    PROVE  OnTime(l)'
<1>1. FailureCost' \in Nat
  BY CostType
<1>2. loop'[l] \in LoopState
  BY DEF TypeOK
<1>3. age' \in Nat
  BY DelayAssumption DEF TypeOK
<1>4. In(l, "waiting")' => loop'[l].timer <= Interval
  BY DEF TypeOK, In
<1> QED
  BY <1>1, <1>2, <1>3, <1>4, Delays, DelayAssumption DEF OnTime, In, LoopState

-----------------------------------------------------------------------------
(* Each step of a thread, seen from the thread t of the owner.             *)
LEMMA OnTimeTurn ==
    ASSUME TypeOK, TypeOK', NEW t \in Loops, OnTime(t), NEW l \in Loops, Turn(l),
           ~stopping, failures' <= 1
    PROVE  OnTime(t)'
<1> USE DelayAssumption
<1>a. /\ loop[l] \in LoopState /\ loop[t] \in LoopState
      /\ age \in Nat /\ failures \in Nat /\ Interval \in Nat /\ NextDelay(1) \in Nat
  BY Delays DEF TypeOK
<1>b. ASSUME NEW phase \in {"idle", "waiting", "loading", "closing"}, NEW n \in Nat,
             Become(l, phase, n)
      PROVE  /\ loop'[l] = [phase |-> phase, timer |-> n]
             /\ l # t => UNCHANGED loop[t]
  BY <1>b DEF Become, TypeOK
<1>1. CASE Wake(l)
  <2>1. loop'[l] = [phase |-> "loading", timer |-> 0] /\ (l # t => UNCHANGED loop[t])
    BY <1>1, <1>b DEF Wake
  <2>2. CASE l = t
    BY <1>1, <1>a, <2>1, <2>2, CostType DEF OnTime, In, Wake, FailureCost
  <2> QED
    BY <1>1, <1>a, <2>1, <2>2, OnTimeElsewhere DEF Wake
<1>2. CASE Exit(l)
  BY <1>2 DEF Exit
<1>3. CASE Observe(l)
  <2>1. loop'[l] = [phase |-> "closing", timer |-> 0] /\ (l # t => UNCHANGED loop[t])
    BY <1>3, <1>b DEF Observe
  <2>2. CASE l = t
    <3>1. age' <= CloseTime + Interval + FailureCost + LoadTime
      <4>1. age <= CloseTime + Interval + FailureCost + loop[t].timer
        BY <1>3, <2>2 DEF OnTime, In, Observe
      <4>2. loop[t].timer <= LoadTime /\ loop[t].timer \in Nat
        BY <1>3, <1>a, <2>2 DEF In, Observe, TypeOK, LoopState
      <4> QED
        BY <1>3, <1>a, <4>1, <4>2, CostType DEF Observe
    <3>2. FailureCost' = FailureCost
      BY <1>3 DEF Observe, FailureCost
    <3> QED
      BY <1>a, <2>1, <2>2, <3>1, <3>2, CostType DEF OnTime, In
  <2> QED
    BY <1>3, <1>a, <2>1, <2>2, OnTimeElsewhere DEF Observe
<1>4. CASE Fail(l)
  <2>1. failures = 0 /\ failures' = 1
    BY <1>4, <1>a DEF Fail, Smaller
  <2>2. loop'[l] = [phase |-> "waiting", timer |-> NextDelay(1)]
        /\ (l # t => UNCHANGED loop[t])
    BY <1>4, <1>a, <1>b, <2>1 DEF Fail
  <2>3. CASE l = t
    <3>1. /\ FailureCost = 0
          /\ FailureCost' = LoadTime + CloseTime + NextDelay(1)
      BY <2>1 DEF FailureCost
    <3>2. age <= CloseTime + Interval + LoadTime + CloseTime
      <4>1. CASE In(t, "loading")
        <5>1. age <= CloseTime + Interval + loop[t].timer
          BY <1>a, <3>1, <4>1 DEF OnTime
        <5>2. loop[t].timer <= LoadTime /\ loop[t].timer \in Nat
          BY <1>a, <4>1 DEF In, TypeOK, LoopState
        <5> QED
          BY <1>a, <5>1, <5>2
      <4>2. CASE In(t, "closing")
        <5>1. age <= CloseTime + Interval + LoadTime + loop[t].timer
          BY <1>a, <3>1, <4>2 DEF OnTime
        <5>2. loop[t].timer <= CloseTime /\ loop[t].timer \in Nat
          BY <1>a, <4>2 DEF In, TypeOK, LoopState
        <5> QED
          BY <1>a, <5>1, <5>2
      <4> QED
        BY <1>4, <2>3, <4>1, <4>2 DEF Fail
    <3> QED
      BY <1>4, <1>a, <2>2, <2>3, <3>1, <3>2 DEF OnTime, In, Fail
  <2> QED
    BY <1>4, <1>a, <2>1, <2>2, <2>3, OnTimeElsewhere DEF Fail
<1>5. CASE Install(l)
  <2>1. age' <= CloseTime
    BY <1>5 DEF Install, In, TypeOK
  <2> QED
    BY <2>1, OnTimeWhenYoung
<1> QED
  BY <1>1, <1>2, <1>3, <1>4, <1>5 DEF Turn

LEMMA OnTimeTick ==
    ASSUME TypeOK, TypeOK', NEW t \in Loops, OnTime(t), Tick
    PROVE  OnTime(t)'
<1>1. /\ loop[t] \in LoopState /\ loop'[t] \in LoopState
      /\ age \in Nat /\ age' \in Nat /\ age' <= age + 1
      /\ Interval \in Nat /\ FailureCost \in Nat
  <2>1. loop[t] \in LoopState /\ loop'[t] \in LoopState
    BY DEF TypeOK
  <2>2. age \in Nat /\ age' \in Nat /\ age' <= age + 1
    <3>1. age \in 0..MaxAge /\ MaxAge \in Nat
      BY DelayAssumption DEF TypeOK
    <3>2. age' = Smaller(age + 1, MaxAge)
      BY DEF Tick
    <3> QED
      BY <3>1, <3>2 DEF Smaller
  <2> QED
    BY <2>1, <2>2, Delays, CostType
<1>2. FailureCost' = FailureCost
  BY DEF Tick, FailureCost
<1>3. CASE In(t, "waiting")
  BY <1>1, <1>2, <1>3, TickType, DelayAssumption DEF OnTime, In, LoopState
<1>4. CASE In(t, "loading")
  BY <1>1, <1>2, <1>4, TickType, DelayAssumption DEF OnTime, In, LoopState
<1>5. CASE In(t, "closing")
  BY <1>1, <1>2, <1>5, TickType, DelayAssumption DEF OnTime, In, LoopState
<1>6. CASE In(t, "idle")
  BY <1>1, <1>6, TickType DEF OnTime, In
<1> QED
  BY <1>1, <1>3, <1>4, <1>5, <1>6 DEF In, LoopState

-----------------------------------------------------------------------------
LEMMA StepIInv == IInv /\ [Next]_vars => IInv'
<1> SUFFICES ASSUME IInv, [Next]_vars PROVE IInv'
  OBVIOUS
<1>t. TypeOK /\ TypeOK'
  BY TypeStep DEF IInv
<1>1. CASE \E l \in Loops : Turn(l)
  <2>1. PICK l \in Loops : Turn(l)
    BY <1>1
  <2>2. UNCHANGED <<thread, stopping>>
    BY <2>1 DEF Turn, Wake, Exit, Observe, Fail, Install, owner
  <2>3. /\ stopping' => interrupted'
        /\ ~stopping /\ ~interrupted' => (~interrupted \/ age' <= CloseTime)
    <3>1. CASE Install(l)
      <4>1. age' = loop[l].timer /\ interrupted' = stopping
        BY <3>1 DEF Install
      <4>2. loop[l].timer <= CloseTime
        BY <3>1, <1>t DEF Install, In, TypeOK
      <4> QED
        BY <2>2, <4>1, <4>2
    <3>2. CASE ~Install(l)
      <4>1. interrupted' = interrupted
        BY <2>1, <3>2 DEF Turn, Wake, Exit, Observe, Fail
      <4> QED
        BY <2>2, <4>1 DEF IInv
    <3> QED
      BY <3>1, <3>2
  <2>4. ASSUME ~stopping PROVE Alive(thread)'
    <3>1. ~Exit(l)
      BY <2>4 DEF Exit
    <3>2. thread \in Loops /\ Alive(thread)
      BY <2>4, <1>t DEF IInv, ThreadRuns, TypeOK
    <3> QED
      BY <1>t, <2>1, <2>2, <3>1, <3>2
         DEF Turn, Wake, Observe, Fail, Install, Become, Alive, In, TypeOK
  <2>5. ASSUME failures' <= 1, ~interrupted' PROVE OnTime(thread)'
    <3>1. ~stopping /\ thread \in Loops
      BY <2>2, <2>3, <2>5, <1>t DEF IInv, ThreadRuns, TypeOK
    <3>2. CASE age' <= CloseTime
      BY <1>t, <2>2, <3>1, <3>2, OnTimeWhenYoung
    <3>3. CASE ~interrupted /\ failures <= 1
      BY <1>t, <2>1, <2>2, <2>5, <3>1, <3>3, OnTimeTurn DEF IInv
    <3>4. failures <= 1 \/ age' <= CloseTime
      BY <1>t, <2>1, <2>5, DelayAssumption
         DEF Turn, Wake, Exit, Observe, Fail, Install, In, Smaller, TypeOK
    <3> QED
      BY <2>3, <2>5, <3>1, <3>2, <3>3, <3>4
  <2> QED
    BY <1>t, <2>2, <2>3, <2>4, <2>5 DEF IInv, ThreadRuns
<1>2. ASSUME NEW l \in Loops, Start(l) PROVE IInv'
  <2>1. stopping /\ interrupted
    BY <1>2 DEF IInv, ThreadRuns, Start
  <2>2. Alive(l)'
    BY <1>t, <1>2 DEF Start, Become, Alive, In, TypeOK
  <2> QED
    BY <1>t, <1>2, <2>1, <2>2, LoopAssumption DEF IInv, ThreadRuns, Start
<1>3. CASE Stop
  BY <1>t, <1>3 DEF Stop, IInv, ThreadRuns
<1>4. CASE JoinReturns
  BY <1>t, <1>4 DEF JoinReturns, IInv, ThreadRuns, Alive, In, OnTime, FailureCost
<1>5. CASE Tick
  <2>1. UNCHANGED <<failures, thread, stopping, interrupted>>
    BY <1>5 DEF Tick, owner
  <2>2. ASSUME ~stopping PROVE thread \in Loops /\ Alive(thread) /\ Alive(thread)'
    BY <1>5, <1>t, <2>1, <2>2, TickType DEF IInv, ThreadRuns, TypeOK, Alive, In
  <2>3. ASSUME failures <= 1, ~interrupted PROVE OnTime(thread)'
    BY <1>5, <1>t, <2>1, <2>2, <2>3, OnTimeTick DEF IInv
  <2> QED
    BY <1>t, <2>1, <2>2, <2>3 DEF IInv, ThreadRuns
<1>6. CASE Network
  BY <1>t, <1>6 DEF Network, owner, IInv, ThreadRuns, Alive, In, OnTime, FailureCost
<1>7. CASE UNCHANGED vars
  BY <1>t, <1>7 DEF vars, owner, IInv, ThreadRuns, Alive, In, OnTime, FailureCost
<1> QED
  BY <1>1, <1>2, <1>3, <1>4, <1>5, <1>6, <1>7 DEF Next

-----------------------------------------------------------------------------
(* The refresher's invariant: where its thread is bounds the snapshot's    *)
(* age (refresher.py, _run and _next_delay).                               *)
THEOREM RefresherInvariant == Spec => []IInv
<1> QED
  BY InitIInv, StepIInv, PTL DEF Spec

(* The refresher's variables keep their types and its timers their bounds. *)
THEOREM RefresherTypeCorrect == Spec => []TypeOK
<1>1. IInv => TypeOK
  BY DEF IInv
<1> QED
  BY <1>1, RefresherInvariant, PTL

(* A refresher that has time for a retry keeps its comment's promise: one  *)
(* failed refresh never lets the snapshot expire.                          *)
THEOREM OneFailureIsTolerated == Spec => []SingleFailureIsTolerated
<1>1. IInv => SingleFailureIsTolerated
  <2> SUFFICES ASSUME IInv, TimeForRetry, failures <= 1, ~interrupted
               PROVE  age < MaxAge
    BY DEF SingleFailureIsTolerated, SingleFailureLeavesTimeForRetry, Fresh
  <2>1. /\ TypeOK /\ OnTime(thread) /\ Alive(thread)
        /\ thread \in Loops /\ loop[thread] \in LoopState
    BY DEF IInv, ThreadRuns, TypeOK
  <2>2. /\ Interval \in Nat /\ NextDelay(1) \in Nat /\ age \in Nat
        /\ FailureCost \in Nat
        /\ FailureCost <= LoadTime + CloseTime + NextDelay(1)
    BY <2>1, Delays, DelayAssumption DEF FailureCost, TypeOK
  <2>3. CASE In(thread, "waiting")
    BY <2>1, <2>2, <2>3, DelayAssumption DEF OnTime, TimeForRetry, LoopState
  <2>4. CASE In(thread, "loading")
    <3>1. loop[thread].timer <= LoadTime
      BY <2>1, <2>4 DEF TypeOK, In
    <3> QED
      BY <2>1, <2>2, <2>4, <3>1, DelayAssumption DEF OnTime, TimeForRetry, LoopState
  <2>5. CASE In(thread, "closing")
    <3>1. loop[thread].timer <= CloseTime
      BY <2>1, <2>5 DEF TypeOK, In
    <3> QED
      BY <2>1, <2>2, <2>5, <3>1, DelayAssumption DEF OnTime, TimeForRetry, LoopState
  <2> QED
    BY <2>1, <2>3, <2>4, <2>5 DEF Alive, In, LoopState
<1> QED
  BY <1>1, RefresherInvariant, PTL
-----------------------------------------------------------------------------
(* Unless a join has timed out, only one thread is alive, and what it is   *)
(* about to install is no older than what is installed.                    *)
OneThread ==
    /\ joining = None \/ thread = None
    /\ ~gaveUp => \A l \in Loops : Alive(l) => l = thread \/ l = joining
    /\ ~gaveUp => \A l \in Loops : In(l, "closing") => loop[l].timer <= age

LEMMA InitOneThread == Init => OneThread
<1> SUFFICES ASSUME Init PROVE OneThread
  OBVIOUS
<1>1. PICK l \in Loops :
        /\ thread = l
        /\ loop = [m \in Loops |-> IF m = l THEN [phase |-> "waiting", timer |-> Interval]
                                   ELSE [phase |-> "idle", timer |-> 0]]
  BY DEF Init
<1>2. \A m \in Loops : m # l => ~Alive(m)
  BY <1>1 DEF Alive, In
<1>3. \A m \in Loops : ~In(m, "closing")
  BY <1>1 DEF In
<1> QED
  BY <1>1, <1>2, <1>3 DEF Init, OneThread

(* A thread's own step, when it stays alive or ends.                       *)
LEMMA TurnOneThread ==
    ASSUME TypeOK, OneThread, UNCHANGED owner, NEW l \in Loops, Alive(l),
           NEW phase \in {"idle", "waiting", "loading", "closing"}, NEW timer \in Nat,
           loop'[l] = [phase |-> phase, timer |-> timer],
           \A m \in Loops : m # l => loop'[m] = loop[m],
           phase = "closing" => timer <= age',
           age' = age \/ phase # "closing"
    PROVE  OneThread'
<1>1. UNCHANGED <<thread, joining, gaveUp>>
  BY DEF owner
<1>2. \A m \in Loops : Alive(m)' => Alive(m)
  BY DEF Alive, In
<1>3. ASSUME ~gaveUp, NEW m \in Loops, In(m, "closing")' PROVE loop'[m].timer <= age'
  <2>1. CASE m = l
    BY <1>3, <2>1 DEF In
  <2>2. CASE m # l
    <3>1. Alive(m) /\ In(m, "closing")
      BY <1>3, <2>2 DEF Alive, In
    <3>2. m = l
      BY <1>3, <3>1, LoopAssumption DEF OneThread
    <3> QED
      BY <2>2, <3>2
  <2> QED
    BY <2>1, <2>2
<1>4. joining' = None \/ thread' = None
  BY <1>1 DEF OneThread
<1>5. ~gaveUp' => \A m \in Loops : Alive(m)' => m = thread' \/ m = joining'
  BY <1>1, <1>2 DEF OneThread
<1>6. ~gaveUp' => \A m \in Loops : In(m, "closing")' => loop'[m].timer <= age'
  BY <1>1, <1>3
<1> QED
  BY <1>4, <1>5, <1>6 DEF OneThread

LEMMA StepOneThread ==
    ASSUME TypeOK, OneThread, [Next]_vars
    PROVE  OneThread'
<1> USE DelayAssumption, Delays
<1>0. age \in Nat /\ failures \in 0..FailureCap
  BY DEF TypeOK
<1>1. ASSUME NEW l \in Loops, Wake(l) PROVE OneThread'
  <2>1. /\ Become(l, "loading", 0) /\ Alive(l) /\ UNCHANGED owner /\ age' = age
    BY <1>1 DEF Wake, Alive, In
  <2>2. loop'[l] = [phase |-> "loading", timer |-> 0] /\ \A m \in Loops : m # l => loop'[m] = loop[m]
    BY <2>1, BecomeType
  <2> QED
    BY <2>1, <2>2, TurnOneThread
<1>2. ASSUME NEW l \in Loops, Exit(l) PROVE OneThread'
  <2>1. /\ Become(l, "idle", 0) /\ Alive(l) /\ UNCHANGED owner /\ age' = age
    BY <1>2 DEF Exit, Alive, In
  <2>2. loop'[l] = [phase |-> "idle", timer |-> 0] /\ \A m \in Loops : m # l => loop'[m] = loop[m]
    BY <2>1, BecomeType
  <2> QED
    BY <2>1, <2>2, TurnOneThread
<1>3. ASSUME NEW l \in Loops, Observe(l) PROVE OneThread'
  <2>1. /\ Become(l, "closing", 0) /\ Alive(l) /\ UNCHANGED owner /\ age' = age
    BY <1>3 DEF Observe, Alive, In
  <2>2. loop'[l] = [phase |-> "closing", timer |-> 0] /\ \A m \in Loops : m # l => loop'[m] = loop[m]
    BY <2>1, BecomeType
  <2>3. 0 <= age'
    BY <1>0, <2>1
  <2> QED
    BY <2>1, <2>2, <2>3, TurnOneThread
<1>4. ASSUME NEW l \in Loops, Fail(l) PROVE OneThread'
  <2>1. /\ Become(l, "waiting", NextDelay(failures')) /\ Alive(l) /\ UNCHANGED owner
        /\ failures' \in 0..FailureCap
    BY <1>0, <1>4 DEF Fail, Alive, In, Smaller
  <2>2. /\ loop'[l] = [phase |-> "waiting", timer |-> NextDelay(failures')]
        /\ \A m \in Loops : m # l => loop'[m] = loop[m]
    BY <2>1, BecomeType
  <2> QED
    BY <2>1, <2>2, TurnOneThread
<1>5. ASSUME NEW l \in Loops, Install(l) PROVE OneThread'
  <2>1. /\ Become(l, "waiting", NextDelay(0)) /\ Alive(l) /\ UNCHANGED owner
    BY <1>5 DEF Install, Alive, In
  <2>2. /\ loop'[l] = [phase |-> "waiting", timer |-> NextDelay(0)]
        /\ \A m \in Loops : m # l => loop'[m] = loop[m]
    BY <1>0, <2>1, BecomeType
  <2> QED
    BY <1>0, <2>1, <2>2, TurnOneThread
<1>6. ASSUME NEW l \in Loops, Start(l) PROVE OneThread'
  <2>1. /\ Become(l, "waiting", NextDelay(failures)) /\ joining = None /\ thread' = l
        /\ UNCHANGED <<age, joining, gaveUp>> /\ (thread # None => ~Alive(thread))
    BY <1>6 DEF Start
  <2>2. /\ loop'[l] = [phase |-> "waiting", timer |-> NextDelay(failures)]
        /\ \A m \in Loops : m # l => loop'[m] = loop[m]
    BY <1>0, <2>1, BecomeType
  <2>3. ~gaveUp => \A m \in Loops : ~Alive(m)
    BY <2>1, LoopAssumption DEF OneThread
  <2>4. ~gaveUp => \A m \in Loops : Alive(m)' => m = l
    BY <2>2, <2>3 DEF Alive, In
  <2>5. ~gaveUp => \A m \in Loops : ~In(m, "closing")'
    BY <2>2, <2>4 DEF Alive, In
  <2> QED
    BY <2>1, <2>4, <2>5 DEF OneThread
<1>7. CASE Stop
  <2>1. UNCHANGED <<age, loop, gaveUp>> /\ thread # None /\ thread' = None /\ joining' = thread
    BY <1>7 DEF Stop
  <2>2. joining = None
    BY <2>1 DEF OneThread
  <2>3. \A m \in Loops : m # None
    BY LoopAssumption
  <2> QED
    BY <2>1, <2>2, <2>3 DEF OneThread, Alive, In
<1>8. CASE JoinReturns
  <2>1. /\ UNCHANGED <<age, loop, thread>> /\ joining # None /\ joining' = None
        /\ gaveUp' = (gaveUp \/ Alive(joining))
    BY <1>8 DEF JoinReturns
  <2>2. thread = None
    BY <2>1 DEF OneThread
  <2>3. ~gaveUp' => ~gaveUp /\ ~Alive(joining)
    BY <2>1
  <2>4. ~gaveUp' => \A m \in Loops : ~Alive(m)
    BY <2>2, <2>3, LoopAssumption DEF OneThread
  <2> QED
    BY <2>1, <2>3, <2>4 DEF OneThread, Alive, In
<1>9. CASE Tick
  <2>1. age' = Smaller(age + 1, MaxAge) /\ UNCHANGED owner
    BY <1>9 DEF Tick
  <2>2. UNCHANGED <<thread, joining, gaveUp>>
    BY <2>1 DEF owner
  <2>3. \A m \in Loops : loop'[m].phase = loop[m].phase
    BY <1>9, TickType
  <2>4. ASSUME ~gaveUp, NEW m \in Loops, In(m, "closing") PROVE loop'[m].timer <= age'
    <3>1. /\ loop[m].timer < CloseTime /\ loop'[m].timer = loop[m].timer + 1
          /\ loop[m].timer \in Nat /\ loop[m].timer <= age
      BY <1>9, <2>4, TickType DEF TypeOK, LoopState, OneThread
    <3> QED
      BY <1>0, <2>1, <3>1 DEF Smaller
  <2>5. \A m \in Loops : (In(m, "closing")' <=> In(m, "closing")) /\ (Alive(m)' <=> Alive(m))
    BY <2>3 DEF Alive, In
  <2> QED
    BY <2>2, <2>4, <2>5 DEF OneThread
<1>10. CASE Network \/ UNCHANGED vars
  BY <1>10 DEF Network, vars, owner, OneThread, Alive, In
<1> QED
  BY <1>1, <1>2, <1>3, <1>4, <1>5, <1>6, <1>7, <1>8, <1>9, <1>10 DEF Next, Turn

(* Governance does not go back in time: a refresh never replaces the       *)
(* snapshot by an older observation, unless stop() gave up on a thread in  *)
(* a load and start() ran another beside it (_install).                    *)
THEOREM SnapshotAdvances == Spec => SnapshotOnlyAdvances
<1>1. TypeOK /\ OneThread /\ [Next]_vars
        => [\A l \in Loops : (~gaveUp /\ In(l, "closing") /\ ~In(l, "closing")')
                                => age' <= age]_vars
  <2> SUFFICES ASSUME TypeOK, OneThread, [Next]_vars, NEW l \in Loops, ~gaveUp,
                      In(l, "closing"), ~In(l, "closing")'
               PROVE  age' <= age
    OBVIOUS
  <2>1. age \in Nat
    BY DEF TypeOK
  <2>2. ASSUME NEW m \in Loops, Install(m) PROVE age' <= age
    BY <2>2 DEF Install, OneThread
  <2>3. ASSUME NEW m \in Loops, Wake(m) \/ Exit(m) \/ Observe(m) \/ Fail(m) \/ Start(m)
        PROVE  age' = age
    BY <2>3 DEF Wake, Exit, Observe, Fail, Start
  <2>4. CASE Stop \/ JoinReturns \/ Network \/ UNCHANGED vars
    BY <2>1, <2>4 DEF Stop, JoinReturns, Network, vars
  <2>5. CASE Tick
    BY <2>5, TickType DEF In
  <2> QED
    BY <2>1, <2>2, <2>3, <2>4, <2>5 DEF Next, Turn
<1>2. Spec => []OneThread
  <2>1. TypeOK /\ OneThread /\ [Next]_vars => OneThread'
    BY StepOneThread
  <2> QED
    BY InitOneThread, RefresherTypeCorrect, <2>1, PTL DEF Spec
<1> QED
  BY <1>1, <1>2, RefresherTypeCorrect, PTL DEF Spec, SnapshotOnlyAdvances
=============================================================================
