------------------------------ MODULE EventBus ------------------------------
(***************************************************************************)
(* The observation lane of the event bus: emitters on any thread put       *)
(* events on a bounded queue without waiting, a lazily spawned dispatcher  *)
(* hands each to every observer in turn, disables an observer that         *)
(* panicked and reports how many events overflowed, and `flush` pushes a   *)
(* barrier through the same queue.                                         *)
(*                                                                         *)
(* The queue is a tokio mpsc channel: a fair semaphore of Cap permits, so  *)
(* a permit freed while a flush waits goes to that flush and to no         *)
(* `try_send`.                                                             *)
(***************************************************************************)
EXTENDS Naturals, Sequences, FiniteSets, SequencesExt

CONSTANTS
  Emitters,   \* the threads and tasks that emit
  Async,      \* those of them that run inside a tokio runtime
  Flushers,   \* the callers of flush (shutdown)
  Observers,  \* how many observers are registered
  Cap,        \* OBSERVATION_QUEUE_CAP
  MaxEvents   \* bound on the events of one emitter

ASSUME BusAssumption ==
  /\ Async \subseteq Emitters /\ Emitters \cap Flushers = {}
  /\ Emitters # {} /\ Observers \in Nat /\ Cap \in Nat \ {0} /\ MaxEvents \in Nat

Actors == Emitters \cup Flushers

VARIABLES
  spawned,    \* BusCore.spawned
  slot,       \* BusCore.receiver still holds the receiver
  at,         \* where each actor is in emit_inner or flush
  emitted,    \* events begun by each emitter
  queue,      \* the items in the channel
  waiting,    \* flushes waiting for a permit, in order
  granted,    \* flushes that hold a permit and have not pushed yet
  open,       \* a sender is alive
  dropped,    \* BusCore.dropped
  disp,       \* the dispatcher task
  item,       \* the event it is handing out
  cursor,     \* the observer it turns to next
  total,      \* the drop count it loaded
  reported,   \* reported_lag
  disabled,   \* the observers that panicked
  seen,       \* the events each observer was given
  told,       \* the drop counts each observer was told
  accepted,   \* every event the queue took, in order
  mark        \* how many it had taken when a flush was called

channel    == <<queue, waiting, granted, accepted>>
dispatcher == <<disp, item, cursor, total, reported, disabled, seen, told>>
vars == <<spawned, slot, at, emitted, channel, open, dropped, dispatcher, mark>>

Event(e, n) == [by |-> e, n |-> n]
Barrier(f)  == [by |-> f, n |-> 0]
IsEvent(i)  == i.by \in Emitters
Items       == [by : Actors, n : 0..MaxEvents]
Ids         == 1..Observers

TypeOK ==
  /\ spawned \in BOOLEAN /\ slot \in BOOLEAN /\ open \in BOOLEAN
  /\ at \in [Actors -> {"idle", "checked", "claimed", "send", "count",
                        "wait", "ack", "acked", "failed"}]
  /\ emitted \in [Emitters -> 0..MaxEvents]
  /\ queue \in Seq(Items) /\ waiting \in Seq(Flushers) /\ granted \subseteq Flushers
  /\ Len(queue) + Cardinality(granted) <= Cap
  /\ dropped \in Nat /\ total \in Nat /\ reported \in Nat
  /\ disp \in {"none", "idle", "delivering", "lagging", "exited", "gone"}
  /\ item \in Items /\ cursor \in 1..(Observers + 1)
  /\ disabled \subseteq Ids
  /\ seen \in [Ids -> Seq(Items)] /\ told \in [Ids -> Seq(Nat)]
  /\ accepted \in Seq(Items) /\ mark \in [Flushers -> Nat]

Init ==
  /\ spawned = FALSE /\ slot = TRUE /\ open = TRUE
  /\ at = [a \in Actors |-> "idle"]
  /\ emitted = [e \in Emitters |-> 0]
  /\ queue = <<>> /\ waiting = <<>> /\ granted = {} /\ accepted = <<>>
  /\ dropped = 0 /\ total = 0 /\ reported = 0
  /\ disp = "none" /\ item = Event(CHOOSE e \in Emitters : TRUE, 0) /\ cursor = 1
  /\ disabled = {}
  /\ seen = [o \in Ids |-> <<>>] /\ told = [o \in Ids |-> <<>>]
  /\ mark = [f \in Flushers |-> 0]

-----------------------------------------------------------------------------
(* Spawning the dispatcher *)

InRuntime(a) == a \in Async \cup Flushers
Goto(a, p)   == at' = [at EXCEPT ![a] = p]

(* ensure_dispatcher returns at once, or is about to swap the flag. *)
AfterLoad(a) == IF ~spawned /\ InRuntime(a) THEN "checked" ELSE "send"

BeginEmit(e) ==
  /\ open /\ at[e] = "idle" /\ emitted[e] < MaxEvents
  /\ emitted' = [emitted EXCEPT ![e] = @ + 1]
  /\ Goto(e, AfterLoad(e))
  /\ UNCHANGED <<spawned, slot, channel, open, dropped, dispatcher, mark>>

BeginFlush(f) ==
  /\ open /\ at[f] = "idle"
  /\ mark' = [mark EXCEPT ![f] = Len(accepted)]
  /\ Goto(f, AfterLoad(f))
  /\ UNCHANGED <<spawned, slot, emitted, channel, open, dropped, dispatcher>>

(* `spawned.swap(true)`: the first one goes on to take the receiver. *)
Claim(a) ==
  /\ at[a] = "checked"
  /\ Goto(a, IF spawned THEN "send" ELSE "claimed")
  /\ spawned' = TRUE
  /\ UNCHANGED <<slot, emitted, channel, open, dropped, dispatcher, mark>>

Spawn(a) ==
  /\ at[a] = "claimed"
  /\ slot' = FALSE
  /\ disp' = IF slot THEN "idle" ELSE disp
  /\ Goto(a, "send")
  /\ UNCHANGED <<spawned, emitted, channel, open, dropped,
                 item, cursor, total, reported, disabled, seen, told, mark>>

-----------------------------------------------------------------------------
(* Emitting and flushing *)

Closed == disp \in {"exited", "gone"}
Permit == ~Closed /\ Len(queue) + Cardinality(granted) < Cap

(* Variant: the queue has no bound. *)
TrySendUnbounded(e) ==
  /\ at[e] = "send" /\ ~Closed
  /\ queue' = Append(queue, Event(e, emitted[e]))
  /\ accepted' = Append(accepted, Event(e, emitted[e]))
  /\ Goto(e, "idle")
  /\ UNCHANGED <<spawned, slot, emitted, waiting, granted, open, dropped, dispatcher, mark>>

TrySend(e) ==
  /\ at[e] = "send"
  /\ IF Permit
     THEN /\ queue' = Append(queue, Event(e, emitted[e]))
          /\ accepted' = Append(accepted, Event(e, emitted[e]))
          /\ Goto(e, "idle")
     ELSE Goto(e, "count") /\ UNCHANGED <<queue, accepted>>
  /\ UNCHANGED <<spawned, slot, emitted, waiting, granted, open, dropped, dispatcher, mark>>

(* The overflow is counted in a step of its own. *)
CountDrop(e) ==
  /\ at[e] = "count"
  /\ dropped' = dropped + 1
  /\ Goto(e, "idle")
  /\ UNCHANGED <<spawned, slot, emitted, channel, open, dispatcher, mark>>

(* `send(Barrier).await`: fails, finds a permit, or queues for one. *)
SendBarrier(f) ==
  /\ at[f] = "send"
  /\ \/ Closed /\ Goto(f, "failed") /\ UNCHANGED channel
     \/ /\ Permit
        /\ queue' = Append(queue, Barrier(f))
        /\ Goto(f, "ack")
        /\ UNCHANGED <<waiting, granted, accepted>>
     \/ /\ ~Closed /\ ~Permit
        /\ waiting' = Append(waiting, f)
        /\ Goto(f, "wait")
        /\ UNCHANGED <<queue, granted, accepted>>
  /\ UNCHANGED <<spawned, slot, emitted, open, dropped, dispatcher, mark>>

PushBarrier(f) ==
  /\ at[f] = "wait" /\ f \in granted
  /\ queue' = Append(queue, Barrier(f))
  /\ granted' = granted \ {f}
  /\ Goto(f, "ack")
  /\ UNCHANGED <<spawned, slot, emitted, waiting, accepted, open, dropped, dispatcher, mark>>

(* The last clone of the bus goes away; no call is in progress on it. *)
DropBus ==
  /\ open /\ \A a \in Actors : at[a] \in {"idle", "acked", "failed"}
  /\ open' = FALSE
  /\ UNCHANGED <<spawned, slot, at, emitted, channel, dropped, dispatcher, mark>>

-----------------------------------------------------------------------------
(* The dispatcher *)

(* Receiving frees a permit, which goes to the flush that waited longest. *)
FreePermit ==
  IF waiting = <<>> THEN UNCHANGED <<waiting, granted>>
  ELSE waiting' = Tail(waiting) /\ granted' = granted \cup {Head(waiting)}

RecvEvent ==
  /\ disp = "idle" /\ queue # <<>> /\ IsEvent(Head(queue))
  /\ item' = Head(queue) /\ queue' = Tail(queue) /\ FreePermit
  /\ disp' = "delivering" /\ cursor' = 1
  /\ UNCHANGED <<spawned, slot, at, emitted, accepted, open, dropped,
                 total, reported, disabled, seen, told, mark>>

(* Variant: barriers travel on a channel of their own. *)
RecvBarrierFirst ==
  /\ disp = "idle"
  /\ \E i \in DOMAIN queue :
        /\ ~IsEvent(queue[i])
        /\ queue' = RemoveAt(queue, i)
        /\ Goto(queue[i].by, "acked")
  /\ FreePermit
  /\ UNCHANGED <<spawned, slot, emitted, accepted, open, dropped, dispatcher, mark>>

RecvBarrier ==
  /\ disp = "idle" /\ queue # <<>> /\ ~IsEvent(Head(queue))
  /\ queue' = Tail(queue) /\ FreePermit
  /\ Goto(Head(queue).by, "acked")
  /\ UNCHANGED <<spawned, slot, emitted, accepted, open, dropped, dispatcher, mark>>

(* Variant: one catch_unwind around the whole loop over the observers. *)
DeliverUnisolated ==
  /\ disp = "delivering" /\ cursor <= Observers
  /\ IF cursor \in disabled THEN UNCHANGED <<seen, disabled>> /\ cursor' = cursor + 1
     ELSE /\ seen' = [seen EXCEPT ![cursor] = Append(@, item)]
          /\ \/ UNCHANGED disabled /\ cursor' = cursor + 1
             \/ disabled' = disabled \cup {cursor} /\ cursor' = Observers + 1
  /\ UNCHANGED <<spawned, slot, at, emitted, channel, open, dropped,
                 disp, item, total, reported, told, mark>>

(* catch_unwind: a panic disables the observer that panicked, no other. *)
Deliver ==
  /\ disp = "delivering" /\ cursor <= Observers
  /\ IF cursor \in disabled THEN UNCHANGED <<seen, disabled>>
     ELSE /\ seen' = [seen EXCEPT ![cursor] = Append(@, item)]
          /\ disabled' \in {disabled, disabled \cup {cursor}}
  /\ cursor' = cursor + 1
  /\ UNCHANGED <<spawned, slot, at, emitted, channel, open, dropped,
                 disp, item, total, reported, told, mark>>

LoadDropped ==
  /\ disp = "delivering" /\ cursor > Observers
  /\ total' = dropped
  /\ disp' = IF dropped > reported THEN "lagging" ELSE "idle"
  /\ cursor' = 1
  /\ UNCHANGED <<spawned, slot, at, emitted, channel, open, dropped,
                 item, reported, disabled, seen, told, mark>>

TellLag ==
  /\ disp = "lagging" /\ cursor <= Observers
  /\ IF cursor \in disabled THEN UNCHANGED <<told, disabled>>
     ELSE /\ told' = [told EXCEPT ![cursor] = Append(@, total)]
          /\ disabled' \in {disabled, disabled \cup {cursor}}
  /\ cursor' = cursor + 1
  /\ UNCHANGED <<spawned, slot, at, emitted, channel, open, dropped,
                 disp, item, total, reported, seen, mark>>

(* Variant: the loop ends once it reported an overflow. *)
LagToldLast ==
  /\ disp = "lagging" /\ cursor > Observers
  /\ reported' = total
  /\ disp' = "exited" /\ cursor' = 1
  /\ UNCHANGED <<spawned, slot, at, emitted, channel, open, dropped,
                 item, total, disabled, seen, told, mark>>

LagTold ==
  /\ disp = "lagging" /\ cursor > Observers
  /\ reported' = total
  /\ disp' = "idle" /\ cursor' = 1
  /\ UNCHANGED <<spawned, slot, at, emitted, channel, open, dropped,
                 item, total, disabled, seen, told, mark>>

Exit ==
  /\ disp = "idle" /\ queue = <<>> /\ ~open
  /\ disp' = "exited"
  /\ UNCHANGED <<spawned, slot, at, emitted, channel, open, dropped,
                 item, cursor, total, reported, disabled, seen, told, mark>>

(* The tokio runtime the dispatcher was spawned on shuts down: the task is *)
(* dropped at its await and the receiver with it, so queued items are      *)
(* discarded and every flush wakes with an error.                          *)
HostStops ==
  /\ disp = "idle"
  /\ disp' = "gone"
  /\ queue' = <<>> /\ waiting' = <<>> /\ granted' = {}
  /\ at' = [a \in Actors |-> IF at[a] \in {"wait", "ack"} THEN "failed" ELSE at[a]]
  /\ UNCHANGED <<spawned, slot, emitted, accepted, open, dropped,
                 item, cursor, total, reported, disabled, seen, told, mark>>

-----------------------------------------------------------------------------
EmitStep(e)    == Claim(e) \/ Spawn(e) \/ TrySend(e) \/ CountDrop(e)
FlushStep(f)   == Claim(f) \/ Spawn(f) \/ SendBarrier(f) \/ PushBarrier(f)
DispatcherStep == RecvEvent \/ RecvBarrier \/ Deliver \/ LoadDropped
                  \/ TellLag \/ LagTold \/ Exit

Next == \/ \E e \in Emitters : BeginEmit(e) \/ EmitStep(e)
        \/ \E f \in Flushers : BeginFlush(f) \/ FlushStep(f)
        \/ DispatcherStep \/ HostStops \/ DropBus

Spec == Init /\ [][Next]_vars

(* A call that began goes on, and the dispatcher is scheduled; nobody has  *)
(* to emit, to flush or to drop the bus.                                   *)
FairSpec == /\ Spec /\ WF_vars(DispatcherStep)
            /\ \A e \in Emitters : WF_vars(EmitStep(e))
            /\ \A f \in Flushers : WF_vars(FlushStep(f))

-----------------------------------------------------------------------------
(* The events among the items of a queue, in order. *)
EventsIn[q \in Seq(Items)] ==
  IF q = <<>> THEN <<>>
  ELSE IF IsEvent(Head(q)) THEN <<Head(q)>> \o EventsIn[Tail(q)]
  ELSE EventsIn[Tail(q)]

(* What an observer has still to be given of the event being handed out.   *)
InHand(o) == IF disp = "delivering" /\ cursor <= o THEN <<item>> ELSE <<>>

(* "overflow drops counted": every event that began is in the queue's      *)
(* history, in the count, or still between the two.                        *)
Begun    == {i \in Items : IsEvent(i) /\ i.n \in 1..emitted[i.by]}
InFlight == {e \in Emitters : at[e] # "idle"}
EveryEventAccounted ==
  Cardinality(Begun) = Len(accepted) + dropped + Cardinality(InFlight)

(* The lag an observer is told is the truth at some time: it only grows    *)
(* from one report to the next and never exceeds the events dropped.       *)
LagReportsGrow ==
  \A o \in Ids : LET t == told[o] IN
     /\ \A i \in DOMAIN t : t[i] \in 1..dropped
     /\ \A i, j \in DOMAIN t : i < j => t[i] < t[j]

(* "per-observer panic isolation, in-order delivery": whatever the others  *)
(* do, an observer that did not panic was given exactly what the queue     *)
(* took, in that order, up to where the dispatcher is; one that panicked   *)
(* was given a prefix.  What the queue did not take was counted, and what   *)
(* they are told of that count is true.                                     *)
ObserversAgree ==
  /\ EveryEventAccounted /\ LagReportsGrow
  /\ \A o \in Ids :
        /\ IsPrefix(seen[o], accepted)
        /\ disp # "gone" /\ o \notin disabled =>
             seen[o] \o InHand(o) \o EventsIn[queue] = accepted

(* "Waits until everything emitted so far has been delivered to the        *)
(* observers": overflow, other emitters and other flushes notwithstanding. *)
FlushIsBarrier ==
  \A f \in Flushers : at[f] = "acked" =>
     \A o \in Ids \ disabled : Len(seen[o]) >= mark[f]

(* An event the queue took reaches every observer that still works, once   *)
(* any emitter of a tokio runtime tried to spawn the dispatcher, unless    *)
(* the runtime it lives on is stopped.                                     *)
AcceptedIsDelivered ==
  \A o \in Ids : spawned /\ seen[o] # accepted ~>
     seen[o] = accepted \/ o \in disabled \/ disp = "gone"

(* The dispatcher serves everyone who waits for it: emitted events arrive,  *)
(* and flush returns, acknowledged or because the dispatcher is gone.      *)
DispatcherServes ==
  /\ AcceptedIsDelivered
  /\ \A f \in Flushers : at[f] # "idle" ~> at[f] \in {"acked", "failed"}
=============================================================================
