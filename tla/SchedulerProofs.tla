-------------------------- MODULE SchedulerProofs --------------------------
(***************************************************************************)
(* Proofs about the scheduler, for every set of tasks, every assignment of *)
(* periods and policies, and every interleaving of executions and scans.   *)
(***************************************************************************)
EXTENDS Scheduler, TLAPS

(* advance, as far as types go: a deadline never goes back. *)
LEMMA AdvanceType ==
  ASSUME NEW d \in Nat, NEW p \in Nat \ {0}, NEW a \in Nat
  PROVE  Advance(d, p, a) \in Nat /\ Advance(d, p, a) >= d
<1>1. CASE d > a
  BY <1>1 DEF Advance
<1>2. CASE d <= a
  <2>1. (a - d) \div p \in Nat
    BY <1>2
  <2> DEFINE k == Least(((a - d) \div p) + 1, MaxSteps)
  <2>2. k \in Nat
    BY <2>1, SchedulerAssumption DEF Least
  <2> HIDE DEF k
  <2>3. p * k \in Nat
    BY <2>2
  <2>4. Advance(d, p, a) = d + p * k
    BY <1>2 DEF Advance, k
  <2>. QED
    BY <2>3, <2>4
<1>. QED
  BY <1>1, <1>2

-----------------------------------------------------------------------------
(* The inductive invariant *)

Due(t)      == IF pending[t] THEN 1 ELSE 0
Deciding(t) == IF At("busy") /\ thread.task = t THEN 1 ELSE 0

(* A trigger is merged once it is stored in `pending`; until then it is    *)
(* what the thread is deciding about, and no other trigger stands for it.  *)
TriggersCover ==
  \A t \in Tasks :
     /\ starts[t] + Due(t) + Deciding(t) <= triggers[t]
     /\ policy[t] = "Concurrent" => starts[t] = triggers[t]

(* Once stop returned the thread no longer scans or waits: one that a late *)
(* registration starts finds the flag set.                                 *)
StopIsObeyed ==
  /\ stopper # "idle" => stop
  /\ stopper = "returned" => thread.at \in {"none", "starting", "ended"}

(* What a scan has still to visit is gone when the lock is released. *)
ScanHoldsLock == LockFree => todo = {}

IInv == /\ TypeOK /\ SlotsAreExecutions /\ NoOverlap
        /\ TriggersCover /\ StopIsObeyed /\ ScanHoldsLock

LEMMA BumpUp ==
  ASSUME NEW f \in [Tasks -> Nat], NEW t \in Tasks
  PROVE  /\ Bump(f, t, 1) \in [Tasks -> Nat]
         /\ \A u \in Tasks : Bump(f, t, 1)[u] = IF u = t THEN f[t] + 1 ELSE f[u]
  BY DEF Bump

LEMMA BumpDown ==
  ASSUME NEW f \in [Tasks -> Nat], NEW t \in Tasks, f[t] > 0
  PROVE  /\ Bump(f, t, -1) \in [Tasks -> Nat]
         /\ \A u \in Tasks : Bump(f, t, -1)[u] = IF u = t THEN f[t] - 1 ELSE f[u]
  BY DEF Bump

LEMMA InitIInv == Init => IInv
<1>. SUFFICES ASSUME Init PROVE IInv
  OBVIOUS
<1>. USE DEF Init
<1>1. policy \in [Tasks -> Policies] /\ now \in 0..MaxTime /\ seenNow \in 0..MaxTime
  BY SchedulerAssumption
<1>2. born \in [Tasks -> -1..MaxTime] /\ next \in [Tasks -> Nat]
  BY SchedulerAssumption
<1>3. /\ inflight \in [Tasks -> Nat] /\ pending \in [Tasks -> BOOLEAN]
      /\ bodies \in [Tasks -> Nat] /\ leaving \in [Tasks -> Nat]
      /\ triggers \in [Tasks -> Nat] /\ starts \in [Tasks -> Nat]
  OBVIOUS
<1>4. thread \in [at : {"none", "starting", "scan", "waiting", "ended"}]
  OBVIOUS
<1>5. TypeOK
  BY <1>1, <1>2, <1>3, <1>4 DEF TypeOK
<1>6. SlotsAreExecutions /\ NoOverlap /\ StopIsObeyed
  BY DEF SlotsAreExecutions, NoOverlap, StopIsObeyed
<1>7. TriggersCover
  BY DEF TriggersCover, Due, Deciding, At
<1>8. ScanHoldsLock
  BY DEF ScanHoldsLock
<1>. QED
  BY <1>5, <1>6, <1>7, <1>8 DEF IInv

-----------------------------------------------------------------------------
(* Every step preserves the types *)

(* A guard on `bodies` or `leaving` says that a slot can be given back. *)
LEMMA SlotHeld ==
  ASSUME TypeOK, SlotsAreExecutions, NEW t \in Tasks, bodies[t] > 0 \/ leaving[t] > 0
  PROVE  inflight[t] > 0
  BY DEF TypeOK, SlotsAreExecutions

LEMMA NextType == IInv /\ [Next]_vars => TypeOK'
<1>. SUFFICES ASSUME IInv, [Next]_vars PROVE TypeOK'
  OBVIOUS
<1>. USE DEF IInv
<1>1. CASE Tick
  BY <1>1, SchedulerAssumption DEF Tick, TypeOK, entry, atomics, timing, history
<1>2. CASE SpuriousWakeup \/ Stop \/ Join
  BY <1>2 DEF SpuriousWakeup, Stop, Join, TypeOK, entry, atomics, timing, history
<1>3. ASSUME NEW t \in Tasks, Schedule(t) PROVE TypeOK'
  <2>1. registered' \subseteq Tasks /\ todo' \subseteq registered'
    BY <1>3 DEF Schedule, TypeOK
  <2>2. born' \in [Tasks -> -1..MaxTime] /\ next' \in [Tasks -> Nat]
    BY <1>3 DEF Schedule, TypeOK
  <2>3. thread' \in [at : {"none", "starting", "scan", "waiting", "ended"}]
                    \cup [at : {"busy"}, task : Tasks]
    BY <1>3 DEF Schedule, TypeOK, Go
  <2>. QED
    BY <1>3, <2>1, <2>2, <2>3 DEF Schedule, TypeOK, atomics, history
<1>4. ASSUME NEW t \in Tasks, CancelTask(t) PROVE TypeOK'
  <2>1. todo = {}
    BY <1>4 DEF CancelTask, ScanHoldsLock
  <2>. QED
    BY <1>4, <2>1 DEF CancelTask, TypeOK, atomics, history
<1>5. CASE BeginScan
  <2>1. thread' \in [at : {"none", "starting", "scan", "waiting", "ended"}]
    BY <1>5 DEF BeginScan, Go
  <2>2. seenNow' \in 0..MaxTime /\ todo' \subseteq registered
    BY <1>5 DEF BeginScan, TypeOK
  <2>. QED
    BY <1>5, <2>1, <2>2 DEF BeginScan, TypeOK, entry, atomics, history
<1>6. ASSUME NEW t \in Tasks, NotDue(t) PROVE TypeOK'
  BY <1>6 DEF NotDue, TypeOK, entry, atomics, history
<1>7. ASSUME NEW t \in Tasks, Trigger(t)
      PROVE  next' \in [Tasks -> Nat] /\ triggers' \in [Tasks -> Nat]
  <2>1. Advance(next[t], Period[t], seenNow) \in Nat
    BY AdvanceType, SchedulerAssumption DEF TypeOK
  <2>2. triggers' \in [Tasks -> Nat]
    BY <1>7, BumpUp DEF Trigger, TypeOK
  <2>. QED
    BY <1>7, <2>1, <2>2 DEF Trigger, TypeOK
<1>8. ASSUME NEW t \in Tasks, Submit(t) PROVE TypeOK'
  <2>1. Trigger(t)
    BY <1>8 DEF Submit
  <2>2. /\ inflight' \in [Tasks -> Nat] /\ bodies' \in [Tasks -> Nat]
        /\ starts' \in [Tasks -> Nat]
    BY <1>8, BumpUp DEF Submit, TypeOK
  <2>3. todo' \subseteq todo /\ UNCHANGED thread
    BY <1>8 DEF Submit
  <2>. QED
    BY <1>7, <2>1, <2>2, <2>3 DEF Trigger, TypeOK
<1>9. ASSUME NEW t \in Tasks, DropTrigger(t) PROVE TypeOK'
  <2>1. Trigger(t) /\ todo' \subseteq todo /\ UNCHANGED <<inflight, bodies, starts, thread>>
    BY <1>9 DEF DropTrigger
  <2>. QED
    BY <1>7, <2>1 DEF Trigger, TypeOK
<1>10. ASSUME NEW t \in Tasks, SeeBusy(t) PROVE TypeOK'
  <2>1. Trigger(t) /\ UNCHANGED <<inflight, bodies, starts, todo>>
    BY <1>10 DEF SeeBusy
  <2>2. thread' \in [at : {"busy"}, task : Tasks]
    BY <1>10 DEF SeeBusy
  <2>. QED
    BY <1>7, <2>1, <2>2 DEF Trigger, TypeOK
<1>11. CASE Defer
  <2>1. thread' \in [at : {"none", "starting", "scan", "waiting", "ended"}]
    BY <1>11 DEF Defer, Go
  <2>2. pending' \in [Tasks -> BOOLEAN] /\ todo' \subseteq registered
    BY <1>11 DEF Defer, TypeOK
  <2>. QED
    BY <1>11, <2>1, <2>2 DEF Defer, TypeOK, entry, history
<1>12. CASE EndScan
  <2>1. thread' \in [at : {"none", "starting", "scan", "waiting", "ended"}]
    BY <1>12 DEF EndScan, Go
  <2>2. wakeAt' \in Nat
    BY <1>12, SchedulerAssumption DEF EndScan, TypeOK, IdleWait
  <2>. QED
    BY <1>12, <2>1, <2>2 DEF EndScan, TypeOK, entry, atomics, history
<1>13. ASSUME NEW t \in Tasks, Finish(t) PROVE TypeOK'
  <2>1. inflight[t] > 0
    BY <1>13, SlotHeld DEF Finish
  <2>2. inflight' \in [Tasks -> Nat] /\ bodies' \in [Tasks -> Nat]
    BY <1>13, <2>1, BumpDown DEF Finish, TypeOK
  <2>. QED
    BY <1>13, <2>2 DEF Finish, TypeOK, entry, timing, history
<1>14. ASSUME NEW t \in Tasks, RunAgain(t) PROVE TypeOK'
  <2>1. starts' \in [Tasks -> Nat] /\ pending' \in [Tasks -> BOOLEAN]
    BY <1>14, BumpUp DEF RunAgain, TypeOK
  <2>. QED
    BY <1>14, <2>1 DEF RunAgain, TypeOK, entry, timing
<1>15. ASSUME NEW t \in Tasks, Leave(t) PROVE TypeOK'
  <2>1. bodies' \in [Tasks -> Nat] /\ leaving' \in [Tasks -> Nat]
    BY <1>15, BumpUp, BumpDown DEF Leave, TypeOK
  <2>. QED
    BY <1>15, <2>1 DEF Leave, TypeOK, entry, timing, history
<1>16. ASSUME NEW t \in Tasks, Release(t) PROVE TypeOK'
  <2>1. inflight[t] > 0
    BY <1>16, SlotHeld DEF Release
  <2>2. inflight' \in [Tasks -> Nat] /\ leaving' \in [Tasks -> Nat]
    BY <1>16, <2>1, BumpDown DEF Release, TypeOK
  <2>. QED
    BY <1>16, <2>2 DEF Release, TypeOK, entry, timing, history
<1>17. CASE UNCHANGED vars
  BY <1>17 DEF TypeOK, vars, entry, atomics, timing, history
<1>. QED
  BY <1>1, <1>2, <1>3, <1>4, <1>5, <1>6, <1>8, <1>9, <1>10, <1>11, <1>12, <1>13,
     <1>14, <1>15, <1>16, <1>17
  DEF Next, ThreadStep, Visit, Execution

-----------------------------------------------------------------------------
(* Slots *)

(* The slot count keeps up with the executions, and a Skip or Queue task   *)
(* is submitted only when its slot is free.                                *)
LEMMA NextSlots == IInv /\ [Next]_vars => SlotsAreExecutions' /\ NoOverlap'
<1>. SUFFICES ASSUME IInv, [Next]_vars PROVE SlotsAreExecutions' /\ NoOverlap'
  OBVIOUS
<1>. USE DEF IInv
<1>1. CASE UNCHANGED <<policy, inflight, bodies, leaving>>
  BY <1>1 DEF SlotsAreExecutions, NoOverlap
<1>2. ASSUME NEW t \in Tasks, Submit(t) PROVE SlotsAreExecutions' /\ NoOverlap'
  <2>1. UNCHANGED <<policy, leaving>>
    BY <1>2 DEF Submit, Trigger
  <2>2. \A u \in Tasks : inflight'[u] = IF u = t THEN inflight[t] + 1 ELSE inflight[u]
    <3>1. inflight \in [Tasks -> Nat] /\ inflight' = Bump(inflight, t, 1)
      BY <1>2 DEF Submit, TypeOK
    <3>. QED
      BY <3>1, BumpUp
  <2>3. \A u \in Tasks : bodies'[u] = IF u = t THEN bodies[t] + 1 ELSE bodies[u]
    <3>1. bodies \in [Tasks -> Nat] /\ bodies' = Bump(bodies, t, 1)
      BY <1>2 DEF Submit, TypeOK
    <3>. QED
      BY <3>1, BumpUp
  <2>4. policy[t] # "Concurrent" => bodies[t] + leaving[t] = 0
    BY <1>2 DEF Submit, SlotsAreExecutions
  <2>. QED
    BY <2>1, <2>2, <2>3, <2>4 DEF SlotsAreExecutions, NoOverlap, TypeOK
<1>3. ASSUME NEW t \in Tasks, Finish(t) PROVE SlotsAreExecutions' /\ NoOverlap'
  <2>1. UNCHANGED <<policy, leaving>> /\ inflight[t] > 0 /\ bodies[t] > 0
    BY <1>3, SlotHeld DEF Finish, entry
  <2>2. \A u \in Tasks : /\ inflight'[u] = IF u = t THEN inflight[t] - 1 ELSE inflight[u]
                         /\ bodies'[u] = IF u = t THEN bodies[t] - 1 ELSE bodies[u]
    BY <1>3, <2>1, BumpDown DEF Finish, TypeOK
  <2>. QED
    BY <2>1, <2>2 DEF SlotsAreExecutions, NoOverlap, TypeOK
<1>4. ASSUME NEW t \in Tasks, Leave(t) PROVE SlotsAreExecutions' /\ NoOverlap'
  <2>1. UNCHANGED <<policy, inflight>> /\ bodies[t] > 0
    BY <1>4 DEF Leave, entry
  <2>2. \A u \in Tasks : leaving'[u] = IF u = t THEN leaving[t] + 1 ELSE leaving[u]
    <3>1. leaving \in [Tasks -> Nat] /\ leaving' = Bump(leaving, t, 1)
      BY <1>4 DEF Leave, TypeOK
    <3>. QED
      BY <3>1, BumpUp
  <2>3. \A u \in Tasks : bodies'[u] = IF u = t THEN bodies[t] - 1 ELSE bodies[u]
    BY <1>4, <2>1, BumpDown DEF Leave, TypeOK
  <2>4. \A u \in Tasks : bodies'[u] + leaving'[u] = bodies[u] + leaving[u]
    BY <2>2, <2>3 DEF TypeOK
  <2>. QED
    BY <2>1, <2>4 DEF SlotsAreExecutions, NoOverlap
<1>5. ASSUME NEW t \in Tasks, Release(t) PROVE SlotsAreExecutions' /\ NoOverlap'
  <2>1. UNCHANGED <<policy, bodies>> /\ inflight[t] > 0 /\ leaving[t] > 0
    BY <1>5, SlotHeld DEF Release, entry
  <2>2. \A u \in Tasks : /\ inflight'[u] = IF u = t THEN inflight[t] - 1 ELSE inflight[u]
                         /\ leaving'[u] = IF u = t THEN leaving[t] - 1 ELSE leaving[u]
    BY <1>5, <2>1, BumpDown DEF Release, TypeOK
  <2>. QED
    BY <2>1, <2>2 DEF SlotsAreExecutions, NoOverlap, TypeOK
<1>6. CASE Tick \/ SpuriousWakeup \/ Stop \/ Join \/ BeginScan \/ Defer \/ EndScan
  BY <1>1, <1>6 DEF Tick, SpuriousWakeup, Stop, Join, BeginScan, Defer, EndScan,
                    entry, atomics
<1>7. ASSUME NEW t \in Tasks,
             \/ Schedule(t) \/ CancelTask(t) \/ NotDue(t) \/ DropTrigger(t) \/ SeeBusy(t)
             \/ RunAgain(t)
      PROVE  SlotsAreExecutions' /\ NoOverlap'
  BY <1>1, <1>7 DEF Schedule, CancelTask, NotDue, DropTrigger, SeeBusy, Trigger,
                    RunAgain, entry, atomics
<1>8. CASE UNCHANGED vars
  BY <1>1, <1>8 DEF vars, entry, atomics
<1>. QED
  BY <1>2, <1>3, <1>4, <1>5, <1>6, <1>7, <1>8 DEF Next, ThreadStep, Visit, Execution

-----------------------------------------------------------------------------
(* Triggers *)

(* The thread decides about one trigger at a time, and RunAgain takes out  *)
(* of `pending` what Defer put there.                                      *)
LEMMA NextTriggers == IInv /\ [Next]_vars => TriggersCover'
<1>. SUFFICES ASSUME IInv, [Next]_vars PROVE TriggersCover'
  OBVIOUS
<1>. USE DEF IInv
<1>1. CASE UNCHANGED <<policy, pending, thread, triggers, starts>>
  BY <1>1 DEF TriggersCover, Due, Deciding, At
<1>2. CASE /\ UNCHANGED <<policy, pending, triggers, starts>>
           /\ thread.at # "busy" /\ thread'.at # "busy"
  BY <1>2 DEF TriggersCover, Due, Deciding, At
<1>3. ASSUME NEW t \in Tasks, Trigger(t)
      PROVE  /\ UNCHANGED <<policy, pending>> /\ thread.at # "busy"
             /\ \A u \in Tasks : triggers'[u] = IF u = t THEN triggers[t] + 1 ELSE triggers[u]
  BY <1>3, BumpUp DEF Trigger, TypeOK, At
<1>4. ASSUME NEW t \in Tasks, Submit(t) PROVE TriggersCover'
  <2>1. Trigger(t) /\ UNCHANGED thread
    BY <1>4 DEF Submit
  <2>2. \A u \in Tasks : starts'[u] = IF u = t THEN starts[t] + 1 ELSE starts[u]
    BY <1>4, BumpUp DEF Submit, TypeOK
  <2>. QED
    BY <1>3, <2>1, <2>2 DEF TriggersCover, Due, Deciding, At, TypeOK
<1>5. ASSUME NEW t \in Tasks, DropTrigger(t) PROVE TriggersCover'
  <2>1. Trigger(t) /\ UNCHANGED <<thread, starts>> /\ policy[t] # "Concurrent"
    BY <1>5 DEF DropTrigger
  <2>. QED
    BY <1>3, <2>1 DEF TriggersCover, Due, Deciding, At, TypeOK
<1>6. ASSUME NEW t \in Tasks, SeeBusy(t) PROVE TriggersCover'
  <2>1. Trigger(t) /\ UNCHANGED starts /\ policy[t] # "Concurrent"
    BY <1>6 DEF SeeBusy
  <2>2. thread'.at = "busy" /\ thread'.task = t
    BY <1>6 DEF SeeBusy
  <2>. QED
    BY <1>3, <2>1, <2>2 DEF TriggersCover, Due, Deciding, At, TypeOK
<1>7. CASE Defer
  <2>1. thread.at = "busy" /\ thread'.at # "busy" /\ UNCHANGED <<policy, triggers, starts>>
    BY <1>7 DEF Defer, At, Go, entry, history
  <2>2. \A u \in Tasks : Due(u)' <= Due(u) + Deciding(u)
    BY <1>7 DEF Defer, Due, Deciding, At, TypeOK
  <2>3. \A u \in Tasks : Deciding(u)' = 0
    BY <2>1 DEF Deciding, At
  <2>. QED
    BY <2>1, <2>2, <2>3 DEF TriggersCover, TypeOK, Due, Deciding
<1>8. ASSUME NEW t \in Tasks, RunAgain(t) PROVE TriggersCover'
  <2>1. UNCHANGED <<policy, thread, triggers>> /\ policy[t] # "Concurrent"
    BY <1>8 DEF RunAgain, entry, timing
  <2>2. \A u \in Tasks : starts'[u] = IF u = t THEN starts[t] + 1 ELSE starts[u]
    BY <1>8, BumpUp DEF RunAgain, TypeOK
  <2>3. \A u \in Tasks : Due(u)' = IF u = t THEN Due(t) - 1 ELSE Due(u)
    BY <1>8 DEF RunAgain, Due, TypeOK
  <2>4. \A u \in Tasks : Deciding(u)' = Deciding(u)
    BY <2>1 DEF Deciding, At
  <2>. QED
    BY <2>1, <2>2, <2>3, <2>4 DEF TriggersCover, TypeOK, Due, Deciding
<1>9. ASSUME NEW t \in Tasks, Schedule(t) PROVE TriggersCover'
  <2>1. CASE UNCHANGED thread
    BY <1>1, <1>9, <2>1 DEF Schedule, atomics, history
  <2>2. CASE At("none") \/ At("ended")
    BY <1>2, <1>9, <2>1, <2>2 DEF Schedule, At, Go, atomics, history
  <2>. QED
    BY <1>9, <2>1, <2>2 DEF Schedule
<1>10. CASE BeginScan \/ EndScan
  BY <1>2, <1>10 DEF BeginScan, EndScan, At, Go, entry, atomics, history
<1>11. CASE Tick \/ SpuriousWakeup \/ Stop \/ Join
  BY <1>1, <1>11 DEF Tick, SpuriousWakeup, Stop, Join, entry, atomics, timing, history
<1>12. ASSUME NEW t \in Tasks,
              CancelTask(t) \/ NotDue(t) \/ Finish(t) \/ Leave(t) \/ Release(t)
       PROVE  TriggersCover'
  BY <1>1, <1>12 DEF CancelTask, NotDue, Finish, Leave, Release, entry, atomics,
                     timing, history
<1>13. CASE UNCHANGED vars
  BY <1>1, <1>13 DEF vars, entry, atomics, timing, history
<1>. QED
  BY <1>4, <1>5, <1>6, <1>7, <1>8, <1>9, <1>10, <1>11, <1>12, <1>13
  DEF Next, ThreadStep, Visit, Execution

-----------------------------------------------------------------------------
(* The lock and the stop flag *)

LEMMA NextThread == IInv /\ [Next]_vars => StopIsObeyed' /\ ScanHoldsLock'
<1>. SUFFICES ASSUME IInv, [Next]_vars PROVE StopIsObeyed' /\ ScanHoldsLock'
  OBVIOUS
<1>. USE DEF IInv, StopIsObeyed, ScanHoldsLock, LockFree, At, Go
<1>1. CASE Tick \/ SpuriousWakeup
  BY <1>1 DEF Tick, SpuriousWakeup, timing
<1>2. CASE Stop \/ Join
  BY <1>2 DEF Stop, Join, timing
<1>3. ASSUME NEW t \in Tasks, Schedule(t) \/ CancelTask(t)
      PROVE  StopIsObeyed' /\ ScanHoldsLock'
  BY <1>3 DEF Schedule, CancelTask
<1>4. CASE BeginScan \/ EndScan \/ Defer
  BY <1>4 DEF BeginScan, EndScan, Defer
<1>5. ASSUME NEW t \in Tasks, Visit(t) PROVE StopIsObeyed' /\ ScanHoldsLock'
  BY <1>5 DEF Visit, NotDue, Submit, DropTrigger, SeeBusy, Trigger
<1>6. ASSUME NEW t \in Tasks, Execution(t) PROVE StopIsObeyed' /\ ScanHoldsLock'
  BY <1>6 DEF Execution, Finish, RunAgain, Leave, Release, timing
<1>7. CASE UNCHANGED vars
  BY <1>7 DEF vars, timing
<1>. QED
  BY <1>1, <1>2, <1>3, <1>4, <1>5, <1>6, <1>7 DEF Next, ThreadStep

-----------------------------------------------------------------------------
LEMMA Inductive == Spec => []IInv
<1>1. IInv /\ [Next]_vars => IInv'
  BY NextType, NextSlots, NextTriggers, NextThread DEF IInv
<1>. QED
  BY <1>1, InitIInv, PTL DEF Spec

(* The scheduler's state keeps its types: in particular no slot count is   *)
(* ever decremented below zero, which in the code would wrap.              *)
THEOREM SchedulerTypes == Spec => []TypeOK
  BY Inductive, PTL DEF IInv

(* A slot is held by exactly the executions that are running or leaving.   *)
THEOREM SlotAccounting == Spec => []SlotsAreExecutions
  BY Inductive, PTL DEF IInv

(* Executions of a Skip or Queue task never overlap. *)
THEOREM ExecutionsDoNotOverlap == Spec => []NoOverlap
  BY Inductive, PTL DEF IInv

(* Every body was started by a trigger of its own. *)
THEOREM TriggeredStarts == Spec => []StartsAreTriggered
<1>1. IInv => StartsAreTriggered
  BY DEF IInv, TriggersCover, StartsAreTriggered, TypeOK, Due, Deciding
<1>. QED
  BY <1>1, Inductive, PTL

(* A cancelled task, or any task after stop returned, is not triggered. *)
THEOREM FinalCancelAndStop == Spec => CancelAndStopAreFinal
<1>1. ASSUME IInv, [Next]_vars, NEW t \in Tasks, t \notin registered \/ stopper = "returned"
      PROVE  triggers'[t] = triggers[t]
  <2>. USE DEF IInv
  <2>1. ASSUME NEW u \in Tasks, Trigger(u) PROVE triggers'[t] = triggers[t]
    <3>1. u # t
      BY <1>1, <2>1 DEF Trigger, At, TypeOK, StopIsObeyed
    <3>2. triggers \in [Tasks -> Nat] /\ triggers' = Bump(triggers, u, 1)
      BY <1>1, <2>1 DEF Trigger, TypeOK
    <3>. QED
      BY <3>1, <3>2, BumpUp
  <2>2. CASE UNCHANGED triggers
    BY <2>2
  <2>. QED
    BY <1>1, <2>1, <2>2
    DEF Next, vars, ThreadStep, Visit, Execution, Tick, SpuriousWakeup, Stop, Join, Schedule,
        CancelTask, BeginScan, NotDue, Submit, DropTrigger, SeeBusy, Defer, EndScan,
        Finish, RunAgain, Leave, Release, history
<1>2. IInv /\ [Next]_vars =>
         [\A t \in Tasks : t \notin registered \/ stopper = "returned" =>
             triggers'[t] = triggers[t]]_vars
  BY <1>1
<1>. QED
  BY <1>2, Inductive, PTL DEF Spec, CancelAndStopAreFinal

(* Deadlines *)

LEMMA Division ==
  ASSUME NEW x \in Nat, NEW p \in Nat \ {0}
  PROVE  /\ x \div p \in Nat /\ x \div p <= x
         /\ p * (x \div p) <= x /\ x < p * (x \div p) + p
<1>1. x \div p \in Nat
  OBVIOUS
<1>2. x % p \in 0..(p - 1)
  OBVIOUS
<1>3. x = p * (x \div p) + (x % p)
  OBVIOUS
<1> DEFINE q == x \div p
<1>4. q \in Nat /\ p * q \in Nat /\ p * q <= x /\ x < p * q + p
  BY <1>1, <1>2, <1>3
<1>5. q <= p * q
  <2> HIDE DEF q
  <2>. QED
    BY <1>4
<1>. QED
  BY <1>4, <1>5

LEMMA WholePeriods ==
  ASSUME NEW p \in Nat \ {0}, NEW k \in Nat
  PROVE  (p * k) % p = 0
<1> DEFINE x == p * k
<1>1. x \in Nat
  OBVIOUS
<1>2. x % p \in 0..(p - 1) /\ x = p * (x \div p) + (x % p) /\ x \div p \in Nat
  BY <1>1
<1> DEFINE q == x \div p
           r == x % p
<1>3. q \in Nat /\ r \in 0..(p - 1) /\ p * k = p * q + r
  BY <1>2
<1>4. r = 0
  <2> HIDE DEF q, r, x
  <2>1. CASE k <= q
    <3>1. p * k <= p * q
      BY <1>3, <2>1
    <3>. QED
      BY <1>3, <3>1
  <2>2. CASE k >= q + 1
    <3>1. p * k >= p * (q + 1)
      BY <1>3, <2>2
    <3>2. p * (q + 1) = p * q + p
      BY <1>3
    <3>. QED
      BY <1>3, <3>1, <3>2
  <2>. QED
    BY <1>3, <2>1, <2>2
<1>. QED
  BY <1>4

(* advance: a deadline that is not past `a` jumps a whole number of        *)
(* periods, to within one period after `a` or by the largest jump.         *)
LEMMA AdvanceCatchesUp ==
  ASSUME NEW d \in Nat, NEW p \in Nat \ {0}, NEW a \in Nat, d <= a
  PROVE  /\ Advance(d, p, a) <= a + p
         /\ Advance(d, p, a) > a \/ Advance(d, p, a) = d + p * MaxSteps
         /\ \E k \in Nat : Advance(d, p, a) = d + p * k
<1> DEFINE q == (a - d) \div p
           k == Least(q + 1, MaxSteps)
<1>1. MaxSteps \in Nat
  BY SchedulerAssumption
<1>2. q \in Nat /\ p * q <= a - d /\ a - d < p * q + p
  <2>1. a - d \in Nat
    OBVIOUS
  <2>. QED
    BY <2>1, Division
<1>3. Advance(d, p, a) = d + p * k
  BY DEF Advance
<1>. HIDE DEF q
<1>4. k \in Nat /\ k <= q + 1 /\ (k = q + 1 \/ k = MaxSteps)
  BY <1>1, <1>2 DEF Least
<1>. HIDE DEF k
<1>5. p * (q + 1) = p * q + p /\ p * q \in Nat
  BY <1>2
<1>6. p * k <= p * (q + 1) /\ p * k \in Nat
  BY <1>2, <1>4
<1>7. Advance(d, p, a) <= a + p
  BY <1>2, <1>3, <1>5, <1>6
<1>8. CASE k = q + 1
  BY <1>2, <1>3, <1>4, <1>5, <1>7, <1>8
<1>9. CASE k = MaxSteps
  BY <1>3, <1>4, <1>7, <1>9
<1>. QED
  BY <1>4, <1>8, <1>9

(* The thread is in a scan, or in a wait nobody has cut short. *)
Settled == At("scan") \/ At("busy") \/ (At("waiting") /\ ~notified)
Visited(t) == t \notin todo \/ (At("busy") /\ thread.task = t)

InPhase(t) == \E k \in Nat : next[t] = born[t] + Period[t] * k

(* A deadline is a whole number of periods after the registration and no   *)
(* more than one period ahead of the clock; once the scan visited the      *)
(* task, it is past the instant that the scan reads or has made the        *)
(* largest jump.                                                           *)
CaughtUp(t) == next[t] > seenNow \/ next[t] >= born[t] + Period[t] * MaxSteps

DeadlineInv ==
  /\ seenNow <= now
  /\ \A t \in registered : born[t] >= 0 /\ InPhase(t) /\ next[t] <= now + Period[t]
  /\ Settled => \A t \in registered : /\ next[t] <= seenNow + Period[t]
                                      /\ Visited(t) => CaughtUp(t)

(* The visit of a due task. *)
LEMMA TriggerDeadlines ==
  ASSUME IInv, DeadlineInv, NEW t \in Tasks, Trigger(t),
         At("scan")' \/ (At("busy")' /\ thread'.task = t),
         \A u \in todo : u # t => u \in todo'
  PROVE  DeadlineInv'
<1>. USE DEF IInv
<1>1. UNCHANGED <<now, registered, born, seenNow>> /\ t \in todo /\ next[t] <= seenNow /\ At("scan")
  BY DEF Trigger
<1>2. /\ next \in [Tasks -> Nat] /\ seenNow \in 0..MaxTime /\ now \in Nat /\ registered \subseteq Tasks
      /\ born \in [Tasks -> -1..MaxTime] /\ Period \in [Tasks -> Nat \ {0}] /\ t \in registered
      /\ MaxTime \in Nat
  BY <1>1, SchedulerAssumption DEF TypeOK
<1>3. next' = [next EXCEPT ![t] = Advance(next[t], Period[t], seenNow)]
  BY DEF Trigger
<1> DEFINE d == next[t]
           p == Period[t]
           e == Advance(d, p, seenNow)
<1>4. d \in Nat /\ p \in Nat \ {0} /\ d <= seenNow
  BY <1>1, <1>2
<1>5. /\ e > seenNow \/ e = d + p * MaxSteps
      /\ e <= seenNow + p /\ \E k \in Nat : e = d + p * k
  <2>1. seenNow \in Nat
    BY <1>2
  <2>. HIDE DEF d, p
  <2>. QED
    BY <1>4, <2>1, AdvanceCatchesUp
<1>6. next'[t] = e /\ \A u \in Tasks : u # t => next'[u] = next[u]
  BY <1>2, <1>3
<1>7. InPhase(t)'
  <2>1. PICK j \in Nat : d = born[t] + p * j
    BY <1>2 DEF DeadlineInv, InPhase
  <2>2. PICK k \in Nat : e = d + p * k
    BY <1>5
  <2> DEFINE b == born[t]
  <2>3. b \in Int
    BY <1>2
  <2>4. e = b + p * (j + k)
    <3>. HIDE DEF b, p, d, e
    <3>1. p * (j + k) = p * j + p * k
      BY <1>4
    <3>2. p * j \in Nat /\ p * k \in Nat
      BY <1>4
    <3>. QED
      BY <2>1, <2>2, <2>3, <3>1, <3>2 DEF b
  <2>5. next'[t] = born'[t] + Period[t] * (j + k) /\ j + k \in Nat
    BY <1>1, <1>6, <2>4
  <2>. QED
    BY <2>5 DEF InPhase
<1>8. e \in Nat
  BY <1>2, <1>4, AdvanceType
<1>9. e <= now + p
  <2>. HIDE DEF e, p
  <2>. QED
    BY <1>2, <1>4, <1>5, <1>8 DEF DeadlineInv
<1>10. Settled
  BY <1>1 DEF Settled
<1>11. \A u \in registered : /\ born'[u] >= 0 /\ InPhase(u)' /\ next'[u] <= now' + Period[u]
  <2>. SUFFICES ASSUME NEW u \in registered
       PROVE  born'[u] >= 0 /\ InPhase(u)' /\ next'[u] <= now' + Period[u]
    OBVIOUS
  <2>1. CASE u = t
    BY <1>1, <1>6, <1>7, <1>9, <2>1 DEF DeadlineInv
  <2>2. CASE u # t
    BY <1>1, <1>2, <1>6, <2>2 DEF DeadlineInv, InPhase
  <2>. QED
    BY <2>1, <2>2
<1>12. \A u \in registered : /\ next'[u] <= seenNow + Period[u]
                             /\ Visited(u)' => CaughtUp(u)'
  <2>. SUFFICES ASSUME NEW u \in registered
       PROVE  /\ next'[u] <= seenNow + Period[u]
              /\ Visited(u)' => CaughtUp(u)'
    OBVIOUS
  <2>1. CASE u = t
    <3>1. d >= born[t]
      <4>1. PICK j \in Nat : d = born[t] + p * j
        BY <1>2 DEF DeadlineInv, InPhase
      <4>2. p * j \in Nat /\ born[t] \in Int
        BY <1>2, <1>4
      <4> DEFINE m == p * j
      <4>. HIDE DEF d, p, m
      <4>. QED
        BY <4>1, <4>2 DEF m
    <3>2. MaxSteps \in Nat /\ born[t] \in Int
      BY <1>2, SchedulerAssumption
    <3> DEFINE m == p * MaxSteps
    <3>3. m \in Nat
      BY <1>4, <3>2
    <3>4. e > seenNow \/ e >= born[t] + m
      <4>. HIDE DEF d, p
      <4>1. e > seenNow \/ e = d + m
        BY <1>5
      <4>. HIDE DEF e, m
      <4>. QED
        BY <1>4, <3>1, <3>2, <3>3, <4>1
    <3>5. CaughtUp(t)'
      BY <1>1, <1>6, <3>4 DEF CaughtUp
    <3>. QED
      BY <1>5, <1>6, <2>1, <3>5
  <2>2. CASE u # t
    <3>1. next'[u] = next[u]
      BY <1>2, <1>6, <2>2
    <3>2. Visited(u)' => Visited(u)
      BY <2>2 DEF Visited, At
    <3>3. CaughtUp(u) => CaughtUp(u)'
      BY <1>1, <3>1 DEF CaughtUp
    <3>. QED
      BY <1>10, <3>1, <3>2, <3>3 DEF DeadlineInv
  <2>. QED
    BY <2>1, <2>2
<1>. QED
  BY <1>1, <1>11, <1>12 DEF DeadlineInv

LEMMA NextDeadlines == IInv /\ DeadlineInv /\ [Next]_vars => DeadlineInv'
<1>. SUFFICES ASSUME IInv, DeadlineInv, [Next]_vars PROVE DeadlineInv'
  OBVIOUS
<1>. USE DEF IInv
<1>1. /\ now \in Nat /\ seenNow \in Nat /\ registered \subseteq Tasks
      /\ next \in [Tasks -> Nat] /\ born \in [Tasks -> -1..MaxTime]
      /\ Period \in [Tasks -> Nat \ {0}]
  BY SchedulerAssumption DEF TypeOK
<1>2. CASE UNCHANGED <<now, registered, born, next, seenNow>>
           /\ (Settled' => Settled /\ \A t \in registered : Visited(t)' => Visited(t))
  BY <1>2 DEF DeadlineInv, InPhase, CaughtUp
<1>3. CASE Tick
  BY <1>1, <1>3 DEF Tick, entry, timing, DeadlineInv, InPhase, CaughtUp, Settled, Visited, At
<1>4. ASSUME NEW t \in Tasks, Schedule(t) PROVE DeadlineInv'
  <2>1. ~Settled'
    BY <1>4 DEF Schedule, Settled, At, Go, LockFree
  <2>2. UNCHANGED <<now, seenNow>> /\ registered' = registered \cup {t}
    BY <1>4 DEF Schedule
  <2>3. born'[t] = now /\ next'[t] = now
        /\ \A u \in Tasks : u # t => born'[u] = born[u] /\ next'[u] = next[u]
    BY <1>1, <1>4 DEF Schedule
  <2>4. InPhase(t)'
    <3>1. Period[t] * 0 = 0
      BY <1>1
    <3>2. next'[t] = born'[t] + Period[t] * 0
      BY <1>1, <2>3, <3>1
    <3>. QED
      BY <3>2 DEF InPhase
  <2>5. \A u \in registered : u # t => InPhase(u)'
    BY <1>1, <2>3 DEF InPhase, DeadlineInv
  <2>6. \A u \in registered' : born'[u] >= 0 /\ InPhase(u)' /\ next'[u] <= now' + Period[u]
    BY <1>1, <2>2, <2>3, <2>4, <2>5 DEF DeadlineInv
  <2>. QED
    BY <2>1, <2>2, <2>6 DEF DeadlineInv
<1>5. ASSUME NEW t \in Tasks, CancelTask(t) PROVE DeadlineInv'
  <2>1. ~Settled'
    BY <1>5 DEF CancelTask, Settled, At, LockFree
  <2>. QED
    BY <1>1, <1>5, <2>1 DEF CancelTask, DeadlineInv, InPhase
<1>6. CASE Stop \/ SpuriousWakeup
  <2>1. ~Settled'
    BY <1>6 DEF Stop, SpuriousWakeup, Settled, At, LockFree
  <2>. QED
    BY <1>2, <1>6, <2>1 DEF Stop, SpuriousWakeup, entry
<1>7. CASE Join
  BY <1>2, <1>7 DEF Join, entry, timing, Settled, Visited, At
<1>8. CASE BeginScan
  <2>1. CASE stop
    BY <1>2, <1>8, <2>1 DEF BeginScan, Go, entry, Settled, At
  <2>2. CASE ~stop
    <3>1. seenNow' = now /\ todo' = registered /\ At("scan")' /\ UNCHANGED <<now, registered, born, next>>
      BY <1>8, <2>2 DEF BeginScan, Go, At, entry
    <3>2. \A t \in registered' : ~Visited(t)'
      BY <3>1 DEF Visited, At
    <3>. QED
      BY <1>1, <3>1, <3>2 DEF DeadlineInv, InPhase
  <2>. QED
    BY <2>1, <2>2
<1>9. ASSUME NEW t \in Tasks, NotDue(t) PROVE DeadlineInv'
  <2>1. UNCHANGED <<now, registered, born, next, seenNow, thread>> /\ At("scan") /\ next[t] > seenNow
        /\ todo' = todo \ {t}
    BY <1>9 DEF NotDue, entry
  <2>2. Settled /\ \A u \in registered : Visited(u)' => Visited(u) \/ u = t
    BY <2>1 DEF Settled, Visited, At
  <2>. QED
    BY <2>1, <2>2 DEF DeadlineInv, InPhase, CaughtUp
<1>10. ASSUME NEW t \in Tasks, Submit(t) \/ DropTrigger(t) \/ SeeBusy(t) PROVE DeadlineInv'
  <2>1. Trigger(t) /\ At("scan") /\ \A u \in todo : u # t => u \in todo'
    BY <1>10 DEF Submit, DropTrigger, SeeBusy, Trigger
  <2>2. At("scan")' \/ (At("busy")' /\ thread'.task = t)
    BY <1>10, <2>1 DEF Submit, DropTrigger, SeeBusy, At
  <2>. QED
    BY <2>1, <2>2, TriggerDeadlines
<1>11. CASE Defer
  <2>1. At("busy") /\ At("scan")' /\ todo' = todo \ {thread.task}
    BY <1>11 DEF Defer, Go, At
  <2>. QED
    BY <1>2, <1>11, <2>1 DEF Defer, entry, Settled, Visited, At
<1>12. CASE EndScan
  <2>1. At("scan") /\ todo = {} /\ todo' = {}
    BY <1>12 DEF EndScan
  <2>. QED
    BY <1>2, <1>12, <2>1 DEF EndScan, entry, Settled, Visited
<1>13. ASSUME NEW t \in Tasks, Execution(t) PROVE DeadlineInv'
  BY <1>2, <1>13 DEF Execution, Finish, RunAgain, Leave, Release, entry, timing, Settled, Visited, At
<1>14. CASE UNCHANGED vars
  BY <1>2, <1>14 DEF vars, entry, timing, Settled, Visited, At
<1>. QED
  BY <1>3, <1>4, <1>5, <1>6, <1>7, <1>8, <1>9, <1>10, <1>11, <1>12, <1>13, <1>14
  DEF Next, ThreadStep, Visit

(* "the deadline jumps past `now` instead of firing every missed period":  *)
(* however late a scan is, it leaves every registered task in phase with   *)
(* its registration and due within one period; a deadline it leaves in the *)
(* past is one whose jumps are worth MaxSteps periods or more.             *)
THEOREM DeadlinesStayInPhase == Spec => []DeadlinesCatchUp
<1>1. Init => DeadlineInv
  BY SchedulerAssumption DEF Init, DeadlineInv, Settled, At
<1>2. ASSUME IInv, DeadlineInv PROVE DeadlinesCatchUp
  <2>1. /\ registered \subseteq Tasks /\ next \in [Tasks -> Nat] /\ born \in [Tasks -> -1..MaxTime]
        /\ Period \in [Tasks -> Nat \ {0}] /\ MaxTime \in Nat
    BY <1>2, SchedulerAssumption DEF IInv, TypeOK
  <2>2. ASSUME NEW t \in registered PROVE (next[t] - born[t]) % Period[t] = 0
    <3>1. PICK k \in Nat : next[t] = born[t] + Period[t] * k
      BY <1>2 DEF DeadlineInv, InPhase
    <3> DEFINE p == Period[t]
    <3>2. p \in Nat \ {0} /\ born[t] \in Int
      BY <2>1
    <3>3. next[t] - born[t] = p * k
      <4>1. p * k \in Nat /\ next[t] = born[t] + p * k
        BY <3>1, <3>2
      <4>. HIDE DEF p
      <4>. QED
        BY <3>2, <4>1
    <3>. QED
      BY <3>2, <3>3, WholePeriods
  <2>3. ASSUME At("waiting"), ~notified, NEW t \in registered
        PROVE  CaughtUp(t) /\ next[t] <= seenNow + Period[t]
    <3>1. todo = {}
      BY <1>2, <2>3 DEF IInv, ScanHoldsLock, LockFree, At
    <3>. QED
      BY <1>2, <2>3, <3>1 DEF DeadlineInv, Settled, Visited
  <2>. QED
    BY <2>2, <2>3 DEF DeadlinesCatchUp, CaughtUp
<1>. QED
  BY <1>1, <1>2, Inductive, NextDeadlines, PTL DEF Spec
=============================================================================
