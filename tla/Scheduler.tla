------------------------------ MODULE Scheduler ------------------------------
(***************************************************************************)
(* The time-driven scheduler: one timing thread scans the registered tasks *)
(* under the state lock and submits the due ones to an executor, following *)
(* each task's overlap policy; executions run elsewhere and share with the *)
(* thread only two atomics per task, `inflight` and `pending`.             *)
(*                                                                         *)
(* Each access of an execution or of the thread to the atomics is a step.  *)
(* The thread holds the lock from the start of a scan until it waits.      *)
(***************************************************************************)
EXTENDS Integers, FiniteSets

CONSTANTS
  Tasks,     \* the registrations
  Offered,   \* task -> the overlap policies it may be registered with
  Period,    \* task -> its period
  Panicky,   \* the tasks whose body may panic
  MaxSteps,  \* u32::MAX, the largest jump of a deadline in periods
  MaxTime    \* bound on the clock

Policies == {"Skip", "Concurrent", "Queue"}

ASSUME SchedulerAssumption ==
  /\ Offered \in [Tasks -> SUBSET Policies] /\ Period \in [Tasks -> Nat \ {0}]
  /\ Panicky \subseteq Tasks
  /\ MaxSteps \in Nat \ {0} /\ MaxTime \in Nat

VARIABLES
  now,        \* the clock
  policy,     \* OverlapPolicy of each task, from its registration on
  registered, \* the task table
  born,       \* when each task was registered; -1 before
  next,       \* next_deadline
  inflight,   \* TaskEntry.inflight
  pending,    \* TaskEntry.pending
  bodies,     \* executions of a task inside its body
  leaving,    \* Queue executions that found nothing pending and still hold the slot
  thread,     \* the timing thread
  seenNow,    \* the instant its scan reads
  todo,       \* the tasks the scan has not visited
  wakeAt,     \* when its wait times out
  notified,   \* the condvar was notified during the wait
  stop,       \* Shared.stop
  stopper,    \* a caller of stop()
  triggers,   \* triggers of each task so far
  starts      \* bodies started so far

entry  == <<policy, registered, born, next>>
atomics == <<inflight, pending, bodies, leaving>>
timing == <<thread, seenNow, todo, wakeAt, notified>>
history == <<triggers, starts>>
vars == <<now, entry, atomics, timing, stop, stopper, history>>

IdleWait == MaxTime + 1   \* a wait of an hour, beyond the clock's bound

TypeOK ==
  /\ now \in 0..MaxTime /\ policy \in [Tasks -> Policies] /\ registered \subseteq Tasks
  /\ born \in [Tasks -> -1..MaxTime] /\ next \in [Tasks -> Nat]
  /\ inflight \in [Tasks -> Nat] /\ pending \in [Tasks -> BOOLEAN]
  /\ bodies \in [Tasks -> Nat] /\ leaving \in [Tasks -> Nat]
  /\ thread \in [at : {"none", "starting", "scan", "waiting", "ended"}]
                \cup [at : {"busy"}, task : Tasks]
  /\ seenNow \in 0..MaxTime /\ todo \subseteq registered
  /\ wakeAt \in Nat /\ notified \in BOOLEAN
  /\ stop \in BOOLEAN /\ stopper \in {"idle", "joining", "returned"}
  /\ triggers \in [Tasks -> Nat] /\ starts \in [Tasks -> Nat]

At(p) == thread.at = p
Go(p) == thread' = [at |-> p]

Init ==
  /\ now = 0 /\ registered = {}
  /\ policy \in [Tasks -> Policies] /\ \A t \in Tasks : policy[t] \in Offered[t]
  /\ born = [t \in Tasks |-> -1] /\ next = [t \in Tasks |-> 0]
  /\ inflight = [t \in Tasks |-> 0] /\ pending = [t \in Tasks |-> FALSE]
  /\ bodies = [t \in Tasks |-> 0] /\ leaving = [t \in Tasks |-> 0]
  /\ thread = [at |-> "none"] /\ seenNow = 0 /\ todo = {}
  /\ wakeAt = 0 /\ notified = FALSE
  /\ stop = FALSE /\ stopper = "idle"
  /\ triggers = [t \in Tasks |-> 0] /\ starts = [t \in Tasks |-> 0]

Bump(f, t, d) == [f EXCEPT ![t] = @ + d]
LockFree == thread.at \notin {"scan", "busy"}

Tick ==
  /\ now < MaxTime
  /\ now' = now + 1
  /\ UNCHANGED <<entry, atomics, timing, stop, stopper, history>>

-----------------------------------------------------------------------------
(* The callers *)

(* Variant: the registration does not notify the thread. *)
ScheduleQuietly(t) ==
  /\ LockFree /\ born[t] = -1
  /\ registered' = registered \cup {t}
  /\ born' = [born EXCEPT ![t] = now] /\ next' = [next EXCEPT ![t] = now]
  /\ thread' = IF At("none") THEN [at |-> "starting"] ELSE thread
  /\ UNCHANGED <<now, policy, atomics, seenNow, todo, wakeAt, notified, stop, stopper, history>>

(* schedule_inner: due at once; the first registration starts the thread,  *)
(* and so does the first after a stop.                                     *)
Schedule(t) ==
  /\ LockFree /\ born[t] = -1
  /\ registered' = registered \cup {t}
  /\ born' = [born EXCEPT ![t] = now] /\ next' = [next EXCEPT ![t] = now]
  /\ IF At("none") \/ (At("ended") /\ stopper = "returned") THEN Go("starting")
     ELSE UNCHANGED thread
  /\ notified' = TRUE
  /\ UNCHANGED <<now, policy, atomics, seenNow, todo, wakeAt, stop, stopper, history>>

(* Variant: cancel does not wait for the lock. *)
CancelTaskUnlocked(t) ==
  /\ t \in registered
  /\ registered' = registered \ {t}
  /\ notified' = TRUE
  /\ UNCHANGED <<now, policy, born, next, atomics, thread, seenNow, todo, wakeAt,
                 stop, stopper, history>>

(* TaskHandle::cancel *)
CancelTask(t) ==
  /\ LockFree /\ t \in registered
  /\ registered' = registered \ {t}
  /\ notified' = TRUE
  /\ UNCHANGED <<now, policy, born, next, atomics, thread, seenNow, todo, wakeAt,
                 stop, stopper, history>>

Stop ==
  /\ LockFree /\ stopper = "idle"
  /\ stop' = TRUE /\ notified' = TRUE /\ stopper' = "joining"
  /\ UNCHANGED <<now, entry, atomics, thread, seenNow, todo, wakeAt, history>>

Join ==
  /\ stopper = "joining" /\ thread.at \in {"none", "ended"}
  /\ stopper' = "returned"
  /\ UNCHANGED <<now, entry, atomics, timing, stop, history>>

-----------------------------------------------------------------------------
(* The timing thread *)

(* Variant: the loop does not look at the stop flag. *)
BeginScanRegardless ==
  /\ At("starting") \/ (At("waiting") /\ (notified \/ now >= wakeAt))
  /\ Go("scan") /\ seenNow' = now /\ todo' = registered
  /\ UNCHANGED <<now, entry, atomics, wakeAt, notified, stop, stopper, history>>

BeginScan ==
  /\ \/ At("starting")
     \/ At("waiting") /\ (notified \/ now >= wakeAt)
  /\ IF stop THEN Go("ended") /\ UNCHANGED <<seenNow, todo>>
     ELSE Go("scan") /\ seenNow' = now /\ todo' = registered
  /\ UNCHANGED <<now, entry, atomics, wakeAt, notified, stop, stopper, history>>

SpuriousWakeup ==
  /\ At("waiting")
  /\ notified' = TRUE
  /\ UNCHANGED <<now, entry, atomics, thread, seenNow, todo, wakeAt, stop, stopper, history>>

NotDue(t) ==
  /\ At("scan") /\ t \in todo /\ next[t] > seenNow
  /\ todo' = todo \ {t}
  /\ UNCHANGED <<now, entry, atomics, thread, seenNow, wakeAt, notified,
                 stop, stopper, history>>

(* advance: the deadline jumps past `at`, however many periods that takes. *)
Least(a, b) == IF a < b THEN a ELSE b
\* Variant: one period at a time.
AdvanceOnce(deadline, period, at) == IF deadline > at THEN deadline ELSE deadline + period
Advance(deadline, period, at) ==
  IF deadline > at THEN deadline
  ELSE deadline + period * Least(((at - deadline) \div period) + 1, MaxSteps)

(* A due task is visited; the rest depends on its policy.                  *)
Trigger(t) ==
  /\ At("scan") /\ t \in todo /\ next[t] <= seenNow
  /\ next' = [next EXCEPT ![t] = Advance(next[t], Period[t], seenNow)]
  /\ triggers' = Bump(triggers, t, 1)
  /\ UNCHANGED <<now, policy, registered, born, pending, leaving, seenNow, wakeAt,
                 notified, stop, stopper>>

Submit(t) ==
  /\ policy[t] # "Concurrent" => inflight[t] = 0
  /\ Trigger(t)
  /\ inflight' = Bump(inflight, t, 1)
  /\ bodies' = Bump(bodies, t, 1) /\ starts' = Bump(starts, t, 1)
  /\ todo' = todo \ {t} /\ UNCHANGED thread

DropTrigger(t) ==
  /\ policy[t] = "Skip" /\ inflight[t] > 0
  /\ Trigger(t)
  /\ todo' = todo \ {t}
  /\ UNCHANGED <<inflight, bodies, starts, thread>>

(* Queue: the slot was seen taken; the deferral is a store of its own.     *)
SeeBusy(t) ==
  /\ policy[t] = "Queue" /\ inflight[t] > 0
  /\ Trigger(t)
  /\ thread' = [at |-> "busy", task |-> t]
  /\ UNCHANGED <<inflight, bodies, starts, todo>>

Defer ==
  /\ At("busy")
  /\ pending' = [pending EXCEPT ![thread.task] = TRUE]
  /\ todo' = todo \ {thread.task}
  /\ Go("scan")
  /\ UNCHANGED <<now, entry, inflight, bodies, leaving, seenNow, wakeAt, notified,
                 stop, stopper, history>>

EndScan ==
  /\ At("scan") /\ todo = {}
  /\ IF registered = {} THEN wakeAt' = IdleWait
     ELSE \E t \in registered :
            wakeAt' = next[t] /\ \A u \in registered : next[t] <= next[u]
  /\ Go("waiting") /\ notified' = FALSE
  /\ UNCHANGED <<now, entry, atomics, seenNow, todo, stop, stopper, history>>

-----------------------------------------------------------------------------
(* Executions, on the executor's threads *)

(* The body ends, or panics; the slot guard releases the slot.  A panic    *)
(* unwinds past the look at `pending`.                                     *)
Finish(t) ==
  /\ bodies[t] > 0 /\ (policy[t] # "Queue" \/ t \in Panicky)
  /\ bodies' = Bump(bodies, t, -1) /\ inflight' = Bump(inflight, t, -1)
  /\ UNCHANGED <<now, entry, pending, leaving, timing, stop, stopper, history>>

(* Variant: `pending` is read and not cleared. *)
RunAgainUncleared(t) ==
  /\ bodies[t] > 0 /\ policy[t] = "Queue" /\ pending[t]
  /\ starts' = Bump(starts, t, 1)
  /\ UNCHANGED <<now, entry, atomics, timing, stop, stopper, triggers>>

(* Variant: the catch-up run does not keep the slot. *)
RunAgainUnkept(t) ==
  /\ bodies[t] > 0 /\ policy[t] = "Queue" /\ pending[t]
  /\ pending' = [pending EXCEPT ![t] = FALSE]
  /\ starts' = Bump(starts, t, 1) /\ inflight' = Bump(inflight, t, -1)
  /\ UNCHANGED <<now, entry, bodies, leaving, timing, stop, stopper, triggers>>

(* `pending.swap(false)`: run once more, keeping the slot... *)
RunAgain(t) ==
  /\ bodies[t] > 0 /\ policy[t] = "Queue" /\ pending[t]
  /\ pending' = [pending EXCEPT ![t] = FALSE]
  /\ starts' = Bump(starts, t, 1)
  /\ UNCHANGED <<now, entry, inflight, bodies, leaving, timing, stop, stopper, triggers>>

(* ... or leave, which gives the slot back one step later. *)
Leave(t) ==
  /\ bodies[t] > 0 /\ policy[t] = "Queue" /\ ~pending[t]
  /\ bodies' = Bump(bodies, t, -1) /\ leaving' = Bump(leaving, t, 1)
  /\ UNCHANGED <<now, entry, inflight, pending, timing, stop, stopper, history>>

Release(t) ==
  /\ leaving[t] > 0
  /\ leaving' = Bump(leaving, t, -1) /\ inflight' = Bump(inflight, t, -1)
  /\ UNCHANGED <<now, entry, pending, bodies, timing, stop, stopper, history>>

-----------------------------------------------------------------------------
Visit(t)      == NotDue(t) \/ Submit(t) \/ DropTrigger(t) \/ SeeBusy(t)
ThreadStep    == BeginScan \/ (\E t \in Tasks : Visit(t)) \/ Defer \/ EndScan
Execution(t)  == Finish(t) \/ RunAgain(t) \/ Leave(t) \/ Release(t)

Next == \/ Tick \/ SpuriousWakeup \/ ThreadStep \/ Stop \/ Join
        \/ \E t \in Tasks : Schedule(t) \/ CancelTask(t) \/ Execution(t)

Spec == Init /\ [][Next]_vars

(* The timing thread and a joining caller are scheduled by the system; the *)
(* bodies need not end.                                                    *)
FairSpec == Spec /\ WF_vars(ThreadStep) /\ WF_vars(Join)

-----------------------------------------------------------------------------
(* The slot count is the number of executions that hold a slot, panics and *)
(* queue continuations included: no slot leaks and none is freed twice.    *)
SlotsAreExecutions == \A t \in Tasks : inflight[t] = bodies[t] + leaving[t]

(* "Drop the trigger" / "keep at most one deferred run": executions of a   *)
(* Skip or Queue task never overlap, although the thread and the           *)
(* executions only share atomics, and no slot leaks or is freed twice.     *)
NoOverlap ==
  /\ SlotsAreExecutions
  /\ \A t \in Tasks : policy[t] # "Concurrent" => bodies[t] + leaving[t] <= 1

(* Every body was started by a trigger of its own: merged triggers start   *)
(* fewer, nothing starts more, and a Concurrent task starts one each.      *)
StartsAreTriggered ==
  \A t \in Tasks :
     /\ starts[t] + (IF pending[t] THEN 1 ELSE 0) <= triggers[t]
     /\ policy[t] = "Concurrent" => starts[t] = triggers[t]

(* "the deadline jumps past `now` instead of firing every missed period":  *)
(* whenever the thread waits, each task that was registered before its     *)
(* scan is due within one period of it, in phase with its registration.    *)
(* A jump is at most MaxSteps periods, so a deadline the scan left behind  *)
(* it is one that has jumped that far, and no farther than the scan.       *)
DeadlinesCatchUp ==
  /\ \A t \in registered : (next[t] - born[t]) % Period[t] = 0
  /\ At("waiting") /\ ~notified =>
        \A t \in registered :
           /\ next[t] <= seenNow + Period[t]
           /\ next[t] > seenNow \/ next[t] >= born[t] + Period[t] * MaxSteps

(* cancel and stop are final: once either returned, the task, or any task, *)
(* is never triggered again.                                               *)
CancelAndStopAreFinal ==
  [][\A t \in Tasks : t \notin registered \/ stopper = "returned" =>
        triggers'[t] = triggers[t]]_vars

(* "timing never blocks on execution": a due task is triggered or          *)
(* cancelled whatever the bodies do, and no registration is slept through. *)
DueIsTriggered ==
  \A t \in Tasks : t \in registered /\ next[t] <= now ~>
     t \notin registered \/ next[t] > now \/ stop

(* stop joins the thread: it is woken out of its wait. *)
StopReturns == stopper = "joining" ~> stopper = "returned"

(* No wait of the timing thread is slept through, for a task or for a stop. *)
ThreadIsAwake == DueIsTriggered /\ StopReturns

(* OverlapPolicy::Queue, "when an execution completes, it runs once more   *)
(* if any trigger arrived meanwhile": a deferred run always has an         *)
(* execution that will look at it.                                         *)
DeferredHasARunner == \A t \in Tasks : pending[t] => inflight[t] > 0
=============================================================================
