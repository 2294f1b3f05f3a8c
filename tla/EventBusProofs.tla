--------------------------- MODULE EventBusProofs ---------------------------
(***************************************************************************)
(* Proofs about the observation lane, for every set of emitters and        *)
(* flushers, every number of observers and every queue capacity.           *)
(***************************************************************************)
EXTENDS EventBus, FiniteSetTheorems, SequenceTheorems, TLAPS

(* Every non-empty set of natural numbers has a least element. *)
LEMMA LeastElement ==
  ASSUME NEW T \in SUBSET Nat, T # {}
  PROVE  \E x \in T : \A y \in T : x <= y
<1>. DEFINE Upto(n) == 0..n
            I == {Upto(n) : n \in T}
            F == FiniteSubsetsOf(Nat)
            R == StrictSubsetOrdering(Nat)
<1>1. I \subseteq F
  <2>1. \A n \in T : Upto(n) \in SUBSET Nat /\ IsFiniteSet(Upto(n))
    BY FS_Interval
  <2>. QED
    BY <2>1 DEF FiniteSubsetsOf
<1>2. I # {}
  OBVIOUS
<1>3. IsWellFoundedOn(R, F)
  BY FS_StrictSubsetOrderingWellFounded
<1>4. PICK b \in I : \A c \in I : <<c, b>> \notin R
  <2>. HIDE DEF I, F, R
  <2>. QED
    BY <1>1, <1>2, <1>3, WFMin
<1>5. PICK x \in T : b = Upto(x)
  OBVIOUS
<1>6. ASSUME NEW y \in T, y < x PROVE FALSE
  <2>1. Upto(y) \in I /\ Upto(y) \in SUBSET Nat /\ b \in SUBSET Nat
    BY <1>5
  <2>2. Upto(y) \subseteq b /\ x \in b /\ x \notin Upto(y)
    BY <1>5, <1>6
  <2>3. <<Upto(y), b>> \in R
    BY <2>1, <2>2, Zenon DEF StrictSubsetOrdering
  <2>. QED
    BY <2>1, <2>3, <1>4
<1>. QED
  BY <1>6

(* Induction, stated over sets of numbers. *)
LEMMA SetInduction ==
  ASSUME NEW T \in SUBSET Nat, 0 \in T, \A n \in T : n + 1 \in T
  PROVE  T = Nat
<1>1. SUFFICES ASSUME Nat \ T # {} PROVE FALSE
  OBVIOUS
<1>2. PICK x \in Nat \ T : \A y \in Nat \ T : x <= y
  BY <1>1, LeastElement, Zenon
<1>. QED
  BY <1>2, x - 1 \in Nat, x - 1 \in T, (x - 1) + 1 = x

-----------------------------------------------------------------------------
(* EventsIn is well defined *)

Queues  == Seq(Items)
Upto(n) == {q \in Queues : Len(q) <= n}

(* One step of the recursion, over any function f. *)
Filtered(f, q) == IF q = <<>> THEN <<>>
                  ELSE IF IsEvent(Head(q)) THEN <<Head(q)>> \o f[Tail(q)]
                  ELSE f[Tail(q)]

Solves(f, n) == f \in [Upto(n) -> Queues] /\ \A q \in Upto(n) : f[q] = Filtered(f, q)

LEMMA TailType ==
  ASSUME NEW q \in Queues, q # <<>>
  PROVE  Tail(q) \in Queues /\ Len(Tail(q)) = Len(q) - 1 /\ Head(q) \in Items
         /\ Len(q) \in Nat \ {0} /\ q = <<Head(q)>> \o Tail(q)
  BY DEF Queues

LEMMA ShorterTail ==
  ASSUME NEW n \in Nat, NEW q \in Upto(n), q # <<>>
  PROVE  /\ q \in Queues /\ Tail(q) \in Queues /\ Len(q) \in 1..n
         /\ Len(Tail(q)) = Len(q) - 1 /\ Tail(q) \in Upto(n)
         /\ \A m \in Nat : n = m + 1 => Tail(q) \in Upto(m)
<1>1. q \in Queues /\ Len(q) <= n
  BY DEF Upto
<1>2. Tail(q) \in Queues /\ Len(Tail(q)) = Len(q) - 1 /\ Len(q) \in Nat \ {0}
  BY <1>1, TailType
<1>. QED
  BY <1>1, <1>2 DEF Upto

LEMMA FilteredType ==
  ASSUME NEW q \in Queues, NEW f, q # <<>> => f[Tail(q)] \in Queues
  PROVE  Filtered(f, q) \in Queues
<1>1. CASE q = <<>>
  BY <1>1 DEF Filtered, Queues
<1>2. CASE q # <<>> /\ IsEvent(Head(q))
  <2>1. <<Head(q)>> \in Queues
    BY <1>2, TailType DEF Queues
  <2>. QED
    BY <1>2, <2>1 DEF Filtered, Queues
<1>3. CASE q # <<>> /\ ~IsEvent(Head(q))
  BY <1>3 DEF Filtered
<1>. QED
  BY <1>1, <1>2, <1>3

LEMMA SolutionsExist == \A n \in Nat : \E f : Solves(f, n)
<1>. DEFINE T == {n \in Nat : \E f : Solves(f, n)}
<1>1. 0 \in T
  <2>1. \A q \in Upto(0) : q = <<>>
    BY DEF Upto, Queues
  <2>2. Solves([q \in Upto(0) |-> <<>>], 0)
    BY <2>1 DEF Solves, Filtered, Queues
  <2>. QED
    BY <2>2
<1>2. ASSUME NEW n \in T PROVE n + 1 \in T
  <2>1. PICK f : Solves(f, n)
    OBVIOUS
  <2>. DEFINE g == [q \in Upto(n + 1) |-> Filtered(f, q)]
  <2>2. ASSUME NEW q \in Upto(n + 1), q # <<>> PROVE Tail(q) \in Upto(n)
    BY <2>2, ShorterTail
  <2>3. g \in [Upto(n + 1) -> Queues]
    <3>1. ASSUME NEW q \in Upto(n + 1) PROVE Filtered(f, q) \in Queues
      <4>1. q \in Queues
        BY DEF Upto
      <4>2. q # <<>> => f[Tail(q)] \in Queues
        BY <2>1, <2>2 DEF Solves
      <4>. QED
        BY <4>1, <4>2, FilteredType
    <3>. QED
      BY <3>1
  <2>4. \A q \in Upto(n) : q \in Upto(n + 1) /\ g[q] = f[q]
    BY <2>1 DEF Solves, Upto, Queues
  <2>5. ASSUME NEW q \in Upto(n + 1) PROVE g[q] = Filtered(g, q)
    <3>1. q # <<>> => g[Tail(q)] = f[Tail(q)]
      BY <2>2, <2>4
    <3>2. g[q] = Filtered(f, q)
      OBVIOUS
    <3>. HIDE DEF g
    <3>. QED
      BY <3>1, <3>2 DEF Filtered
  <2>. HIDE DEF g
  <2>6. Solves(g, n + 1)
    BY <2>3, <2>5 DEF Solves
  <2>. QED
    BY <2>6
<1>. HIDE DEF T
<1>3. T \in SUBSET Nat
  BY DEF T
<1>4. T = Nat
  BY <1>1, <1>2, <1>3, SetInduction
<1>. QED
  BY <1>4 DEF T

LEMMA SolutionsAgree ==
  ASSUME NEW m \in Nat, NEW n \in Nat, NEW f, NEW g, Solves(f, m), Solves(g, n),
         NEW q \in Upto(m), q \in Upto(n)
  PROVE  f[q] = g[q]
<1>. DEFINE T == {k \in Nat : \A p \in Queues : Len(p) = k /\ p \in Upto(m) /\ p \in Upto(n) => f[p] = g[p]}
<1>1. 0 \in T
  <2>1. ASSUME NEW p \in Queues, Len(p) = 0, p \in Upto(m), p \in Upto(n) PROVE f[p] = g[p]
    <3>1. p = <<>>
      BY <2>1 DEF Queues
    <3>. QED
      BY <2>1, <3>1 DEF Solves, Filtered
  <2>. QED
    BY <2>1
<1>2. ASSUME NEW k \in T PROVE k + 1 \in T
  <2>1. ASSUME NEW p \in Queues, Len(p) = k + 1, p \in Upto(m), p \in Upto(n)
        PROVE  f[p] = g[p]
    <3>1. p # <<>>
      BY <2>1
    <3>2. Tail(p) \in Queues /\ Len(Tail(p)) = k /\ Tail(p) \in Upto(m) /\ Tail(p) \in Upto(n)
      BY <2>1, <3>1, ShorterTail
    <3>3. f[Tail(p)] = g[Tail(p)]
      BY <3>2
    <3>. QED
      BY <2>1, <3>3 DEF Solves, Filtered
  <2>. QED
    BY <2>1
<1>. HIDE DEF T
<1>3. T \in SUBSET Nat
  BY DEF T
<1>4. T = Nat
  BY <1>1, <1>2, <1>3, SetInduction
<1>. QED
  BY <1>4, Len(q) \in Nat DEF T, Upto, Queues

(* The recursion defines a function on all queues. *)
LEMMA EventsInDef ==
  /\ EventsIn \in [Queues -> Queues]
  /\ \A q \in Queues : EventsIn[q] = Filtered(EventsIn, q)
<1>. DEFINE Sol(n) == CHOOSE f : Solves(f, n)
            F == [q \in Queues |-> Sol(Len(q))[q]]
<1>1. ASSUME NEW n \in Nat PROVE Solves(Sol(n), n)
  BY SolutionsExist
<1>. HIDE DEF Sol
<1>2. ASSUME NEW q \in Queues PROVE F[q] \in Queues /\ F[q] = Filtered(F, q)
  <2>1. Len(q) \in Nat /\ q \in Upto(Len(q))
    BY DEF Upto, Queues
  <2>2. Solves(Sol(Len(q)), Len(q))
    BY <1>1, <2>1
  <2>3. F[q] \in Queues /\ F[q] = Filtered(Sol(Len(q)), q)
    BY <2>1, <2>2 DEF Solves
  <2>4. CASE q = <<>>
    BY <2>3, <2>4 DEF Filtered
  <2>5. CASE q # <<>>
    <3>1. Tail(q) \in Queues /\ Len(Tail(q)) \in Nat /\ Tail(q) \in Upto(Len(Tail(q)))
          /\ Tail(q) \in Upto(Len(q))
      BY <2>5, TailType DEF Upto, Queues
    <3>2. Sol(Len(Tail(q)))[Tail(q)] = Sol(Len(q))[Tail(q)]
      BY <2>1, <2>2, <1>1, <3>1, SolutionsAgree
    <3>3. F[Tail(q)] = Sol(Len(q))[Tail(q)]
      BY <3>1, <3>2
    <3>. QED
      BY <2>3, <3>3 DEF Filtered
  <2>. QED
    BY <2>4, <2>5, <2>3
<1>3. F = [q \in Queues |-> IF q = <<>> THEN <<>>
                            ELSE IF IsEvent(Head(q)) THEN <<Head(q)>> \o F[Tail(q)]
                            ELSE F[Tail(q)]]
  <2>. DEFINE G == [q \in Queues |-> Filtered(F, q)]
  <2>1. F = G
    BY <1>2
  <2>. QED
    BY <2>1, Zenon DEF Filtered
<1>. HIDE DEF F
<1>4. EventsIn = [q \in Queues |-> IF q = <<>> THEN <<>>
                            ELSE IF IsEvent(Head(q)) THEN <<Head(q)>> \o EventsIn[Tail(q)]
                            ELSE EventsIn[Tail(q)]]
  BY <1>3, Zenon DEF EventsIn, Queues
<1>5. \A q \in Queues : EventsIn[q] = Filtered(EventsIn, q)
  BY <1>4, Zenon DEF Filtered
<1>. DEFINE T == {n \in Nat : \A q \in Upto(n) : EventsIn[q] \in Queues}
<1>6. 0 \in T
  <2>1. \A q \in Upto(0) : q \in Queues /\ q = <<>>
    BY DEF Upto, Queues
  <2>. QED
    BY <1>5, <2>1, FilteredType
<1>7. ASSUME NEW n \in T PROVE n + 1 \in T
  <2>1. ASSUME NEW q \in Upto(n + 1) PROVE EventsIn[q] \in Queues
    <3>1. q \in Queues
      BY DEF Upto
    <3>2. q # <<>> => EventsIn[Tail(q)] \in Queues
      BY ShorterTail
    <3>. QED
      BY <1>5, <3>1, <3>2, FilteredType
  <2>. QED
    BY <2>1
<1>. HIDE DEF T
<1>8. T = Nat
  BY <1>6, <1>7, SetInduction, T \in SUBSET Nat DEF T
<1>9. \A q \in Queues : EventsIn[q] \in Queues
  <2>. SUFFICES ASSUME NEW q \in Queues PROVE EventsIn[q] \in Queues
    OBVIOUS
  <2>1. Len(q) \in T /\ q \in Upto(Len(q))
    BY <1>8 DEF Upto, Queues
  <2>. QED
    BY <2>1 DEF T
<1>10. EventsIn = [q \in Queues |-> EventsIn[q]]
  BY <1>4, Zenon
<1>. QED
  BY <1>5, <1>9, <1>10


LEMMA EventsInUnfold ==
  ASSUME NEW q \in Queues
  PROVE  /\ EventsIn[q] \in Queues /\ EventsIn[<<>>] = <<>>
         /\ q # <<>> =>
              EventsIn[q] = IF IsEvent(Head(q)) THEN <<Head(q)>> \o EventsIn[Tail(q)]
                            ELSE EventsIn[Tail(q)]
<1>1. <<>> \in Queues
  BY DEF Queues
<1>. QED
  BY <1>1, EventsInDef DEF Filtered

LEMMA NoEvents == EventsIn[<<>>] = <<>> /\ Len(EventsIn[<<>>]) = 0
<1>1. <<>> \in Queues
  BY DEF Queues
<1>2. EventsIn[<<>>] = <<>>
  BY <1>1, EventsInUnfold
<1>. QED
  BY <1>2

(* An item put at the end of a queue goes to the end of its events. *)
LEMMA EventsInAppend ==
  ASSUME NEW s \in Queues, NEW x \in Items
  PROVE  EventsIn[Append(s, x)] =
           IF IsEvent(x) THEN Append(EventsIn[s], x) ELSE EventsIn[s]
<1>. DEFINE End(q) == IF IsEvent(x) THEN Append(EventsIn[q], x) ELSE EventsIn[q]
            T == {n \in Nat : \A q \in Queues : Len(q) = n => EventsIn[Append(q, x)] = End(q)}
<1>1. 0 \in T
  <2>1. ASSUME NEW q \in Queues, Len(q) = 0 PROVE EventsIn[Append(q, x)] = End(q)
    <3>1. q = <<>>
      BY <2>1 DEF Queues
    <3>2. Append(q, x) = <<x>> /\ <<x>> \in Queues /\ Head(<<x>>) = x /\ Tail(<<x>>) = <<>>
          /\ <<x>> # <<>>
      BY <3>1 DEF Queues
    <3>3. EventsIn[q] = <<>> /\ EventsIn[<<>>] = <<>>
      BY <3>1, EventsInUnfold
    <3>4. EventsIn[<<x>>] = IF IsEvent(x) THEN <<x>> \o <<>> ELSE <<>>
      BY <3>2, <3>3, EventsInUnfold
    <3>. QED
      BY <3>2, <3>3, <3>4
  <2>. QED
    BY <2>1
<1>2. ASSUME NEW n \in T PROVE n + 1 \in T
  <2>1. ASSUME NEW q \in Queues, Len(q) = n + 1 PROVE EventsIn[Append(q, x)] = End(q)
    <3>1. q # <<>>
      BY <2>1
    <3>2. Tail(q) \in Queues /\ Len(Tail(q)) = n /\ Head(q) \in Items
      <4>1. n \in Nat
        OBVIOUS
      <4>2. Tail(q) \in Queues /\ Len(Tail(q)) = Len(q) - 1 /\ Head(q) \in Items
        BY <3>1, TailType
      <4>. HIDE DEF T
      <4>. QED
        BY <2>1, <4>1, <4>2
    <3>3. Append(q, x) \in Queues /\ Append(q, x) # <<>>
          /\ Head(Append(q, x)) = Head(q) /\ Tail(Append(q, x)) = Append(Tail(q), x)
      BY <3>1 DEF Queues
    <3>4. EventsIn[Append(Tail(q), x)] = End(Tail(q))
      BY <3>2
    <3>5. EventsIn[Tail(q)] \in Queues /\ EventsIn[q] \in Queues
      BY <3>2, EventsInUnfold
    <3>6. CASE IsEvent(Head(q))
      <4>1. EventsIn[Append(q, x)] = <<Head(q)>> \o End(Tail(q))
        <5>1. EventsIn[Append(q, x)]
                = <<Head(Append(q, x))>> \o EventsIn[Tail(Append(q, x))]
          BY <3>3, <3>6, EventsInUnfold
        <5>. QED
          BY <3>3, <3>4, <5>1, Zenon
      <4>2. EventsIn[q] = <<Head(q)>> \o EventsIn[Tail(q)]
        BY <3>1, <3>6, EventsInUnfold
      <4>3. <<Head(q)>> \o Append(EventsIn[Tail(q)], x)
              = Append(<<Head(q)>> \o EventsIn[Tail(q)], x)
        BY <3>2, <3>5 DEF Queues
      <4>. QED
        BY <4>1, <4>2, <4>3
    <3>7. CASE ~IsEvent(Head(q))
      <4>1. EventsIn[Append(q, x)] = End(Tail(q))
        BY <3>3, <3>4, <3>7, EventsInUnfold
      <4>2. EventsIn[q] = EventsIn[Tail(q)]
        BY <3>1, <3>7, EventsInUnfold
      <4>. QED
        BY <4>1, <4>2
    <3>. QED
      BY <3>6, <3>7
  <2>. QED
    BY <2>1
<1>. HIDE DEF T
<1>3. T = Nat
  BY <1>1, <1>2, SetInduction, T \in SUBSET Nat DEF T
<1>. QED
  BY <1>3, Len(s) \in Nat DEF T, Queues

-----------------------------------------------------------------------------
(* The inductive invariant *)

(* The counts are of finite sets. *)
FiniteCounts == IsFiniteSet(granted) /\ IsFiniteSet(Begun) /\ IsFiniteSet(InFlight)

(* The receiver is in the slot until a dispatcher took it. *)
SlotIsFresh == slot => disp = "none"

TypeInv == TypeOK /\ FiniteCounts /\ SlotIsFresh

(* What a working observer was given, what the dispatcher has in hand and  *)
(* what is queued make up what the queue took.                             *)
LanesComplete ==
  \A o \in Ids : disp # "gone" /\ o \notin disabled =>
     seen[o] \o InHand(o) \o EventsIn[queue] = accepted

GivenInOrder == \A o \in Ids : IsPrefix(seen[o], accepted)

(* The count told last is `reported`, except while the dispatcher is       *)
(* telling a larger one.                                                   *)
Told(o) == IF disp = "lagging" /\ o < cursor THEN total ELSE reported
LagIsTrue ==
  /\ reported <= dropped
  /\ disp = "lagging" => reported < total /\ total <= dropped
  /\ \A o \in Ids : \A i \in DOMAIN told[o] : told[o][i] \in 1..Told(o)
  /\ \A o \in Ids : \A i, j \in DOMAIN told[o] : i < j => told[o][i] < told[o][j]

(* A barrier in the queue is that of a flush that waits for it, it is the   *)
(* only one of that flush, and what was accepted before the flush began is  *)
(* ahead of it.                                                             *)
Behind(i) == SubSeq(queue, i + 1, Len(queue))
Fence(i) ==
  /\ at[queue[i].by] = "ack"
  /\ mark[queue[i].by] + Len(EventsIn[Behind(i)]) <= Len(accepted)
  /\ \A j \in DOMAIN queue : queue[j] = queue[i] => j = i
  /\ queue[i] = Barrier(queue[i].by)
FencesStand ==
  /\ \A f \in Flushers : mark[f] <= Len(accepted)
  /\ \A i \in DOMAIN queue : ~IsEvent(queue[i]) => Fence(i)

BusInv == /\ TypeInv /\ EveryEventAccounted /\ LanesComplete /\ GivenInOrder
          /\ LagIsTrue /\ FencesStand /\ FlushIsBarrier

-----------------------------------------------------------------------------
(* Type correctness *)

LEMMA EmittersAreActors ==
  /\ Emitters \subseteq Actors /\ Flushers \subseteq Actors
  /\ \A i \in Items : ~IsEvent(i) => i.by \in Flushers
  /\ \A e \in Emitters, n \in 0..MaxEvents : Event(e, n) \in Items /\ IsEvent(Event(e, n))
  /\ \A f \in Flushers : Barrier(f) \in Items /\ ~IsEvent(Barrier(f)) /\ Barrier(f).by = f
  BY BusAssumption DEF Actors, Items, IsEvent, Event, Barrier

LEMMA InitType == Init => TypeInv
<1>. SUFFICES ASSUME Init PROVE TypeInv
  OBVIOUS
<1>. USE DEF Init
<1>1. Event(CHOOSE e \in Emitters : TRUE, 0) \in Items
  BY BusAssumption, EmittersAreActors
<1>2. Begun = {} /\ InFlight = {}
  BY EmittersAreActors DEF Begun, InFlight, IsEvent
<1>3. FiniteCounts
  BY <1>2, FS_EmptySet DEF FiniteCounts
<1>4. Len(queue) + Cardinality(granted) <= Cap
  BY FS_EmptySet, BusAssumption
<1>5. emitted \in [Emitters -> 0..MaxEvents] /\ cursor \in 1..(Observers + 1)
  BY BusAssumption
<1>6. TypeOK
  <2>1. /\ at \in [Actors -> {"idle", "checked", "claimed", "send", "count",
                              "wait", "ack", "acked", "failed"}]
        /\ seen \in [Ids -> Seq(Items)] /\ told \in [Ids -> Seq(Nat)]
        /\ mark \in [Flushers -> Nat] /\ disabled \subseteq Ids
    OBVIOUS
  <2>2. /\ queue \in Seq(Items) /\ waiting \in Seq(Flushers) /\ granted \subseteq Flushers
        /\ accepted \in Seq(Items)
    OBVIOUS
  <2>. QED
    BY <1>1, <1>4, <1>5, <2>1, <2>2 DEF TypeOK
<1>. QED
  BY <1>3, <1>6 DEF TypeInv, SlotIsFresh

LEMMA GotoType ==
  ASSUME at \in [Actors -> {"idle", "checked", "claimed", "send", "count",
                            "wait", "ack", "acked", "failed"}],
         NEW a \in Actors,
         NEW p \in {"idle", "checked", "claimed", "send", "count",
                    "wait", "ack", "acked", "failed"},
         Goto(a, p)
  PROVE  at' \in [Actors -> {"idle", "checked", "claimed", "send", "count",
                             "wait", "ack", "acked", "failed"}]
  BY DEF Goto

(* Moving one actor changes the set of emitters in flight by at most it. *)
LEMMA InFlightMove ==
  ASSUME at \in [Actors -> {"idle", "checked", "claimed", "send", "count",
                            "wait", "ack", "acked", "failed"}],
         NEW a \in Actors, NEW p, Goto(a, p)
  PROVE  /\ a \in Emitters /\ p # "idle" => InFlight' = InFlight \cup {a}
         /\ a \in Emitters /\ p = "idle" => InFlight' = InFlight \ {a}
         /\ a \notin Emitters => InFlight' = InFlight
         /\ at[a] # "idle" /\ p # "idle" => InFlight' = InFlight
  BY EmittersAreActors DEF Goto, InFlight

LEMMA FiniteMove ==
  ASSUME IsFiniteSet(InFlight),
         at \in [Actors -> {"idle", "checked", "claimed", "send", "count",
                            "wait", "ack", "acked", "failed"}],
         NEW a \in Actors, NEW p, Goto(a, p)
  PROVE  IsFiniteSet(InFlight')
  BY InFlightMove, FS_AddElement, FS_RemoveElement

(* A freed permit is not lost and goes to nobody else. *)
LEMMA FreePermitType ==
  ASSUME waiting \in Seq(Flushers), granted \subseteq Flushers, IsFiniteSet(granted),
         FreePermit
  PROVE  /\ waiting' \in Seq(Flushers) /\ granted' \subseteq Flushers
         /\ IsFiniteSet(granted')
         /\ Cardinality(granted) \in Nat /\ Cardinality(granted') \in Nat
         /\ Cardinality(granted') <= Cardinality(granted) + 1
<1>1. CASE waiting = <<>>
  BY <1>1, FS_CardinalityType DEF FreePermit
<1>2. CASE waiting # <<>>
  <2>1. Head(waiting) \in Flushers /\ Tail(waiting) \in Seq(Flushers)
    BY <1>2
  <2>2. waiting' = Tail(waiting) /\ granted' = granted \cup {Head(waiting)}
    BY <1>2 DEF FreePermit
  <2>3. IsFiniteSet(granted') /\ Cardinality(granted') \in Nat /\ Cardinality(granted) \in Nat
    BY <2>2, FS_AddElement, FS_CardinalityType
  <2>4. \/ Cardinality(granted') = Cardinality(granted)
        \/ Cardinality(granted') = Cardinality(granted) + 1
    BY <2>2, FS_AddElement
  <2>. QED
    BY <2>1, <2>2, <2>3, <2>4
<1>. QED
  BY <1>1, <1>2

(* Beginning to emit begins exactly one event more. *)
LEMMA BegunGrows ==
  ASSUME TypeOK, NEW e \in Emitters, BeginEmit(e)
  PROVE  /\ Event(e, emitted[e] + 1) \notin Begun
         /\ Begun' = Begun \cup {Event(e, emitted[e] + 1)}
<1>0. emitted \in [Emitters -> 0..MaxEvents] /\ MaxEvents \in Nat
  BY BusAssumption DEF TypeOK
<1>1. /\ emitted'[e] = emitted[e] + 1 /\ emitted[e] + 1 \in 1..MaxEvents
      /\ \A x \in Emitters \ {e} : emitted'[x] = emitted[x]
  BY <1>0 DEF BeginEmit
<1>2. /\ Event(e, emitted[e] + 1) \in Items /\ IsEvent(Event(e, emitted[e] + 1))
      /\ Event(e, emitted[e] + 1).by = e /\ Event(e, emitted[e] + 1).n = emitted[e] + 1
  BY <1>1, EmittersAreActors DEF Event
<1>3. ASSUME NEW i \in Items, IsEvent(i)
      PROVE  i.n \in 1..emitted'[i.by]
               <=> i.n \in 1..emitted[i.by] \/ i = Event(e, emitted[e] + 1)
  <2>1. i.by \in Emitters /\ i.n \in Nat /\ emitted[e] \in Nat
    BY <1>3, <1>0 DEF IsEvent, Items
  <2>2. i = Event(e, emitted[e] + 1) <=> i.by = e /\ i.n = emitted[e] + 1
    BY DEF Event, Items
  <2>3. CASE i.by = e
    BY <1>1, <2>1, <2>2, <2>3
  <2>4. CASE i.by # e
    BY <1>1, <2>1, <2>2, <2>4
  <2>. QED
    BY <2>3, <2>4
<1>4. emitted[e] + 1 \notin 1..emitted[e]
  BY <1>0
<1>. QED
  BY <1>2, <1>3, <1>4 DEF Begun

LEMMA NextType == TypeInv /\ [Next]_vars => TypeInv'
<1>. SUFFICES ASSUME TypeInv, [Next]_vars PROVE TypeInv'
  OBVIOUS
<1>. USE DEF TypeInv, TypeOK, FiniteCounts, SlotIsFresh, channel, dispatcher
<1>0. /\ Emitters \subseteq Actors /\ Flushers \subseteq Actors
      /\ Cardinality(granted) \in Nat /\ Len(queue) \in Nat
      /\ MaxEvents \in Nat /\ Observers \in Nat /\ Cap \in Nat
  BY EmittersAreActors, FS_CardinalityType, BusAssumption
<1>1. ASSUME NEW e \in Emitters, BeginEmit(e) PROVE TypeInv'
  <2>1. emitted' \in [Emitters -> 0..MaxEvents]
    BY <1>1, <1>0 DEF BeginEmit
  <2>2. AfterLoad(e) \in {"checked", "send"}
    BY DEF AfterLoad
  <2>3. Begun' = Begun \cup {Event(e, emitted[e] + 1)}
    BY <1>1, BegunGrows
  <2>4. IsFiniteSet(Begun') /\ IsFiniteSet(InFlight')
    BY <1>1, <1>0, <2>3, FS_AddElement, FiniteMove DEF BeginEmit
  <2>. QED
    BY <1>1, <2>1, <2>2, <2>4 DEF BeginEmit, Goto
<1>2. ASSUME NEW f \in Flushers, BeginFlush(f) PROVE TypeInv'
  <2>1. AfterLoad(f) \in {"checked", "send"}
    BY DEF AfterLoad
  <2>2. Begun' = Begun /\ IsFiniteSet(InFlight')
    BY <1>2, <1>0, FiniteMove DEF BeginFlush, Begun
  <2>. QED
    BY <1>2, <1>0, <2>1, <2>2, GotoType DEF BeginFlush
<1>3. ASSUME NEW a \in Actors, Claim(a) PROVE TypeInv'
  <2>1. Begun' = Begun /\ IsFiniteSet(InFlight')
    BY <1>3, FiniteMove DEF Claim, Begun
  <2>. QED
    BY <1>3, <2>1 DEF Claim, Goto
<1>4. ASSUME NEW a \in Actors, Spawn(a) PROVE TypeInv'
  <2>1. Begun' = Begun /\ IsFiniteSet(InFlight')
    BY <1>4, FiniteMove DEF Spawn, Begun
  <2>. QED
    BY <1>4, <2>1 DEF Spawn, Goto
<1>5. ASSUME NEW e \in Emitters, TrySend(e) PROVE TypeInv'
  <2>1. Begun' = Begun /\ IsFiniteSet(InFlight')
    BY <1>5, <1>0, FiniteMove DEF TrySend, Begun
  <2>2. Event(e, emitted[e]) \in Items
    BY EmittersAreActors
  <2>3. Permit => Len(queue) + Cardinality(granted) < Cap
    BY DEF Permit
  <2>. QED
    <3>1. at' \in [Actors -> {"idle", "checked", "claimed", "send", "count",
                              "wait", "ack", "acked", "failed"}]
      BY <1>5, <1>0, GotoType DEF TrySend
    <3>2. /\ queue' \in Seq(Items) /\ accepted' \in Seq(Items)
          /\ Len(queue') + Cardinality(granted) <= Cap
      <4>1. /\ Append(queue, Event(e, emitted[e])) \in Seq(Items)
            /\ Append(accepted, Event(e, emitted[e])) \in Seq(Items)
            /\ Len(Append(queue, Event(e, emitted[e]))) = Len(queue) + 1
        BY <2>2
      <4>2. \/ UNCHANGED <<queue, accepted>>
            \/ /\ Permit /\ queue' = Append(queue, Event(e, emitted[e]))
               /\ accepted' = Append(accepted, Event(e, emitted[e]))
        BY <1>5 DEF TrySend
      <4>3. Permit => (Len(queue) + 1) + Cardinality(granted) <= Cap
        BY <1>0, <2>3
      <4>4. queue \in Seq(Items) /\ waiting \in Seq(Flushers) /\ accepted \in Seq(Items)
            /\ Len(queue) + Cardinality(granted) <= Cap
        OBVIOUS
      <4>. HIDE DEF TypeInv
      <4>. QED
        BY <4>1, <4>2, <4>3, <4>4
    <3>. QED
      BY <1>5, <2>1, <3>1, <3>2 DEF TrySend
<1>6. ASSUME NEW e \in Emitters, CountDrop(e) PROVE TypeInv'
  <2>1. Begun' = Begun /\ IsFiniteSet(InFlight')
    BY <1>6, <1>0, FiniteMove DEF CountDrop, Begun
  <2>. QED
    BY <1>6, <1>0, <2>1, GotoType DEF CountDrop
<1>7. ASSUME NEW f \in Flushers, SendBarrier(f) PROVE TypeInv'
  <2>1. Begun' = Begun /\ IsFiniteSet(InFlight')
    BY <1>7, <1>0, FiniteMove DEF SendBarrier, Begun
  <2>2. Barrier(f) \in Items
    BY EmittersAreActors
  <2>3. Permit => Len(queue) + Cardinality(granted) < Cap
    BY DEF Permit
  <2>. QED
    <3>1. at' \in [Actors -> {"idle", "checked", "claimed", "send", "count",
                              "wait", "ack", "acked", "failed"}]
      BY <1>7, <1>0, GotoType DEF SendBarrier
    <3>2. /\ queue' \in Seq(Items) /\ waiting' \in Seq(Flushers)
          /\ Len(queue') + Cardinality(granted) <= Cap
          /\ UNCHANGED <<granted, accepted>>
      <4>1. Append(queue, Barrier(f)) \in Seq(Items) /\ Append(waiting, f) \in Seq(Flushers)
            /\ Len(Append(queue, Barrier(f))) = Len(queue) + 1
        BY <2>2
      <4>2. \/ UNCHANGED <<queue, waiting, granted, accepted>>
            \/ /\ Permit /\ queue' = Append(queue, Barrier(f))
               /\ UNCHANGED <<waiting, granted, accepted>>
            \/ waiting' = Append(waiting, f) /\ UNCHANGED <<queue, granted, accepted>>
        BY <1>7 DEF SendBarrier
      <4>3. Permit => (Len(queue) + 1) + Cardinality(granted) <= Cap
        BY <1>0, <2>3
      <4>4. queue \in Seq(Items) /\ waiting \in Seq(Flushers) /\ accepted \in Seq(Items)
            /\ Len(queue) + Cardinality(granted) <= Cap
        OBVIOUS
      <4>. HIDE DEF TypeInv
      <4>. QED
        BY <4>1, <4>2, <4>3, <4>4
    <3>. QED
      BY <1>7, <2>1, <3>1, <3>2 DEF SendBarrier
<1>8. ASSUME NEW f \in Flushers, PushBarrier(f) PROVE TypeInv'
  <2>1. Begun' = Begun /\ IsFiniteSet(InFlight')
    BY <1>8, <1>0, FiniteMove DEF PushBarrier, Begun
  <2>2. Barrier(f) \in Items
    BY EmittersAreActors
  <2>3. IsFiniteSet(granted') /\ Cardinality(granted') = Cardinality(granted) - 1
    BY <1>8, FS_RemoveElement DEF PushBarrier
  <2>. QED
    BY <1>8, <1>0, <2>1, <2>2, <2>3 DEF PushBarrier, Goto
<1>9. CASE RecvEvent
  <2>1. Begun' = Begun /\ InFlight' = InFlight
    BY <1>9 DEF RecvEvent, Begun, InFlight
  <2>2. Tail(queue) \in Seq(Items) /\ Head(queue) \in Items /\ Len(Tail(queue)) = Len(queue) - 1
    BY <1>9 DEF RecvEvent
  <2>. QED
    BY <1>9, <1>0, <2>1, <2>2, FreePermitType, SMTT(30) DEF RecvEvent
<1>10. CASE RecvBarrier
  <2>1. /\ Tail(queue) \in Seq(Items) /\ Head(queue) \in Items
        /\ Len(Tail(queue)) = Len(queue) - 1 /\ Head(queue).by \in Actors
    BY <1>10, <1>0, EmittersAreActors DEF RecvBarrier
  <2>2. Begun' = Begun /\ IsFiniteSet(InFlight')
    BY <1>10, <2>1, FiniteMove DEF RecvBarrier, Begun
  <2>. QED
    <3>1. at' \in [Actors -> {"idle", "checked", "claimed", "send", "count",
                              "wait", "ack", "acked", "failed"}]
      BY <1>10, <2>1, GotoType DEF RecvBarrier
    <3>2. /\ queue' \in Seq(Items) /\ waiting' \in Seq(Flushers)
          /\ granted' \subseteq Flushers /\ IsFiniteSet(granted')
          /\ Len(queue') + Cardinality(granted') <= Cap
      BY <1>10, <1>0, <2>1, FreePermitType DEF RecvBarrier
    <3>. QED
      BY <1>10, <2>2, <3>1, <3>2 DEF RecvBarrier
<1>11. CASE Deliver
  <2>1. Begun' = Begun /\ InFlight' = InFlight
    BY <1>11 DEF Deliver, Begun, InFlight
  <2>2. cursor \in Ids /\ cursor + 1 \in 1..(Observers + 1)
    BY <1>11, <1>0 DEF Deliver, Ids
  <2>. QED
    <3>1. seen' \in [Ids -> Seq(Items)] /\ disabled' \subseteq Ids
      <4>1. Append(seen[cursor], item) \in Seq(Items)
        BY <2>2
      <4>2. \/ seen' = seen
            \/ seen' = [seen EXCEPT ![cursor] = Append(seen[cursor], item)]
        BY <1>11 DEF Deliver
      <4>3. disabled' \in {disabled, disabled \cup {cursor}}
        BY <1>11 DEF Deliver
      <4>. QED
        BY <2>2, <4>1, <4>2, <4>3
    <3>. QED
      BY <1>11, <2>1, <2>2, <3>1 DEF Deliver
<1>12. CASE LoadDropped
  <2>1. Begun' = Begun /\ InFlight' = InFlight
    BY <1>12 DEF LoadDropped, Begun, InFlight
  <2>. QED
    BY <1>12, <1>0, <2>1 DEF LoadDropped
<1>13. CASE TellLag
  <2>1. Begun' = Begun /\ InFlight' = InFlight
    BY <1>13 DEF TellLag, Begun, InFlight
  <2>2. cursor \in Ids /\ cursor + 1 \in 1..(Observers + 1)
    BY <1>13, <1>0 DEF TellLag, Ids
  <2>. QED
    <3>1. told' \in [Ids -> Seq(Nat)] /\ disabled' \subseteq Ids
      <4>1. Append(told[cursor], total) \in Seq(Nat)
        BY <2>2
      <4>2. \/ told' = told
            \/ told' = [told EXCEPT ![cursor] = Append(told[cursor], total)]
        BY <1>13 DEF TellLag
      <4>3. disabled' \in {disabled, disabled \cup {cursor}}
        BY <1>13 DEF TellLag
      <4>. QED
        BY <2>2, <4>1, <4>2, <4>3
    <3>. QED
      BY <1>13, <2>1, <2>2, <3>1 DEF TellLag
<1>14. CASE LagTold
  <2>1. Begun' = Begun /\ InFlight' = InFlight
    BY <1>14 DEF LagTold, Begun, InFlight
  <2>. QED
    BY <1>14, <1>0, <2>1 DEF LagTold
<1>15. CASE Exit
  BY <1>15 DEF Exit, Begun, InFlight
<1>16. CASE HostStops
  <2>1. Begun' = Begun /\ InFlight' = InFlight
    BY <1>16, <1>0 DEF HostStops, Begun, InFlight
  <2>2. IsFiniteSet(granted') /\ Cardinality(granted') = 0
    BY <1>16, FS_EmptySet DEF HostStops
  <2>3. /\ queue' \in Seq(Items) /\ waiting' \in Seq(Flushers) /\ Len(queue') = 0
        /\ granted' = {}
    BY <1>16 DEF HostStops
  <2>4. at' \in [Actors -> {"idle", "checked", "claimed", "send", "count",
                            "wait", "ack", "acked", "failed"}]
    BY <1>16 DEF HostStops
  <2>. QED
    BY <1>16, <1>0, <2>1, <2>2, <2>3, <2>4 DEF HostStops
<1>17. CASE DropBus
  BY <1>17 DEF DropBus, Begun, InFlight
<1>18. CASE UNCHANGED vars
  BY <1>18 DEF vars, Begun, InFlight
<1>. QED
  BY <1>0, <1>1, <1>2, <1>3, <1>4, <1>5, <1>6, <1>7, <1>8, <1>9, <1>10, <1>11, <1>12,
     <1>13, <1>14, <1>15, <1>16, <1>17, <1>18
     DEF Next, EmitStep, FlushStep, DispatcherStep

(* The queue never exceeds its capacity with the permits granted, and every *)
(* variable keeps its type: in particular a freed permit is handed to one   *)
(* waiting flush, so the sum of items and granted permits stays within Cap. *)
THEOREM BusTypes == Spec => []TypeOK
<1>1. TypeInv => TypeOK
  BY DEF TypeInv
<1>. QED
  BY InitType, NextType, <1>1, PTL DEF Spec

-----------------------------------------------------------------------------
(* Observers are given what the queue took *)

(* Moving an item from one lane to the next leaves the whole as it was. *)
LEMMA AppendConcat ==
  ASSUME NEW s \in Queues, NEW t \in Queues, NEW x \in Items
  PROVE  Append(s, x) \in Queues /\ Append(s, x) \o t = (s \o <<x>>) \o t
<1>1. Append(s, x) = s \o <<x>> /\ Append(s, x) \in Queues
  BY AppendProperties, ConcatProperties DEF Queues
<1>. QED
  BY <1>1

LEMMA ConcatAppend ==
  ASSUME NEW s \in Queues, NEW t \in Queues, NEW x \in Items
  PROVE  /\ s \o Append(t, x) = Append(s \o t, x)
         /\ s \o <<>> = s /\ <<x>> \in Queues
         /\ s \o (<<x>> \o t) = (s \o <<x>>) \o t
         /\ Append(s, x) \o t = (s \o <<x>>) \o t
         /\ Append(s, x) \in Queues /\ s \o t \in Queues
<1>1. <<x>> \in Queues /\ s \o t \in Queues /\ Append(s, x) \in Queues
  BY ConcatProperties, AppendProperties DEF Queues
<1>2. Append(t, x) = t \o <<x>> /\ Append(s \o t, x) = (s \o t) \o <<x>>
      /\ Append(s, x) = s \o <<x>>
  BY <1>1, AppendIsConcat DEF Queues
<1>3. (s \o t) \o <<x>> = s \o (t \o <<x>>) /\ (s \o <<x>>) \o t = s \o (<<x>> \o t)
  BY <1>1, ConcatAssociative DEF Queues
<1>. QED
  BY <1>1, <1>2, <1>3, ConcatEmptySeq DEF Queues

(* The part of the state the lanes are made of. *)
lanes == <<queue, accepted, seen, disabled, disp, item, cursor>>

(* A flush touches the queue only to put its barrier at the end. *)
LEMMA FlushOnQueue ==
  ASSUME NEW f \in Flushers, SendBarrier(f) \/ PushBarrier(f)
  PROVE  /\ queue' = queue \/ queue' = Append(queue, Barrier(f))
         /\ UNCHANGED <<accepted, dispatcher>>
  BY DEF SendBarrier, PushBarrier, channel

LEMMA NextLanes ==
  ASSUME TypeInv, LanesComplete, [Next]_vars
  PROVE  LanesComplete'
<1>. SUFFICES ASSUME NEW o \in Ids, disp' # "gone", o \notin disabled'
              PROVE  seen'[o] \o InHand(o)' \o EventsIn[queue'] = accepted'
  BY DEF LanesComplete, Ids
<1>1. /\ queue \in Queues /\ accepted \in Queues /\ item \in Items /\ seen \in [Ids -> Queues]
      /\ cursor \in 1..(Observers + 1) /\ o \in 1..Observers /\ Observers \in Nat
      /\ InHand(o) \in Queues /\ EventsIn[queue] \in Queues /\ seen[o] \in Queues
      /\ disabled \subseteq Ids
  <2>1. queue \in Queues /\ accepted \in Queues /\ item \in Items /\ seen \in [Ids -> Queues]
    BY DEF TypeInv, TypeOK, Queues
  <2>2. InHand(o) \in Queues
    BY <2>1 DEF InHand, Queues
  <2>. QED
    BY <2>1, <2>2, EventsInUnfold, BusAssumption DEF TypeInv, TypeOK, Ids
<1>2. disp # "gone" /\ o \notin disabled => seen[o] \o InHand(o) \o EventsIn[queue] = accepted
  BY DEF LanesComplete
<1>3. CASE UNCHANGED lanes
  BY <1>2, <1>3 DEF lanes, InHand
<1>4. ASSUME NEW a \in Actors, Spawn(a)
      PROVE  seen'[o] \o InHand(o)' \o EventsIn[queue'] = accepted'
  <2>1. /\ UNCHANGED <<queue, accepted, seen, disabled, item, cursor>>
        /\ slot => disp = "none" /\ disp' = "idle"
        /\ ~slot => disp' = disp
    BY <1>4 DEF Spawn, channel, TypeInv, TypeOK, SlotIsFresh
  <2>2. disp # "gone" /\ InHand(o)' = InHand(o)
    BY <2>1 DEF InHand, TypeInv, TypeOK
  <2>. QED
    BY <1>2, <2>1, <2>2
<1>5. ASSUME NEW e \in Emitters, TrySend(e)
      PROVE  seen'[o] \o InHand(o)' \o EventsIn[queue'] = accepted'
  <2>. DEFINE x == Event(e, emitted[e])
  <2>1. /\ UNCHANGED <<seen, disabled, disp, item, cursor>>
        /\ \/ UNCHANGED <<queue, accepted>>
           \/ queue' = Append(queue, x) /\ accepted' = Append(accepted, x)
    BY <1>5 DEF TrySend, dispatcher
  <2>2. InHand(o)' = InHand(o) /\ x \in Items /\ IsEvent(x)
    BY <2>1, EmittersAreActors DEF InHand, TypeInv, TypeOK
  <2>3. CASE UNCHANGED <<queue, accepted>>
    BY <1>2, <2>1, <2>2, <2>3
  <2>4. CASE queue' = Append(queue, x) /\ accepted' = Append(accepted, x)
    <3>1. EventsIn[queue'] = Append(EventsIn[queue], x)
      BY <1>1, <2>2, <2>4, EventsInAppend
    <3>2. (seen[o] \o InHand(o)) \o Append(EventsIn[queue], x)
            = Append((seen[o] \o InHand(o)) \o EventsIn[queue], x)
      <4>. DEFINE given == seen[o] \o InHand(o)
                  queued == EventsIn[queue]
      <4>1. given \in Queues
        BY <1>1, ConcatProperties, Zenon DEF Queues
      <4>2. queued \in Queues /\ x \in Items
        BY <1>1, <2>2
      <4>. HIDE DEF x, given, queued
      <4>3. given \o Append(queued, x) = Append(given \o queued, x)
        BY <4>1, <4>2, ConcatAppend
      <4>. QED
        BY <4>3 DEF given, queued
    <3>. QED
      BY <1>2, <2>1, <2>2, <2>4, <3>1, <3>2
  <2>. QED
    BY <2>1, <2>3, <2>4
<1>6. ASSUME NEW f \in Flushers, SendBarrier(f) \/ PushBarrier(f)
      PROVE  seen'[o] \o InHand(o)' \o EventsIn[queue'] = accepted'
  <2>1. /\ UNCHANGED <<accepted, seen, disabled, disp, item, cursor>>
        /\ queue' = queue \/ queue' = Append(queue, Barrier(f))
    BY <1>6, FlushOnQueue DEF dispatcher
  <2>2. InHand(o)' = InHand(o) /\ Barrier(f) \in Items /\ ~IsEvent(Barrier(f))
    BY <2>1, EmittersAreActors DEF InHand
  <2>3. EventsIn[queue'] = EventsIn[queue]
    BY <1>1, <2>1, <2>2, EventsInAppend
  <2>. QED
    BY <1>2, <2>1, <2>2, <2>3
<1>7. CASE RecvEvent
  <2>1. /\ UNCHANGED <<accepted, seen, disabled>>
        /\ disp = "idle" /\ queue # <<>> /\ IsEvent(Head(queue))
        /\ queue' = Tail(queue)
    BY <1>7 DEF RecvEvent
  <2>2. InHand(o) = <<>> /\ InHand(o)' = <<Head(queue)>>
    BY <1>1, <1>7 DEF RecvEvent, InHand
  <2>3. EventsIn[queue] = <<Head(queue)>> \o EventsIn[Tail(queue)] /\ Tail(queue) \in Queues
        /\ Head(queue) \in Items /\ EventsIn[Tail(queue)] \in Queues
    BY <1>1, <2>1, EventsInUnfold, TailType
  <2>4. seen[o] \o <<>> \o (<<Head(queue)>> \o EventsIn[Tail(queue)])
          = seen[o] \o <<Head(queue)>> \o EventsIn[Tail(queue)]
    <3>. DEFINE given == seen[o]
                head == Head(queue)
                queued == EventsIn[Tail(queue)]
    <3>1. given \in Queues /\ head \in Items /\ queued \in Queues
      BY <1>1, <2>3
    <3>. HIDE DEF given, head, queued
    <3>2. <<head>> \in Queues /\ given \o <<>> = given
      BY <3>1, ConcatAppend
    <3>3. (given \o <<head>>) \o queued = given \o (<<head>> \o queued)
      BY <3>1, <3>2, ConcatAssociative DEF Queues
    <3>. QED
      BY <3>2, <3>3 DEF given, head, queued
  <2>. QED
    BY <1>2, <2>1, <2>2, <2>3, <2>4
<1>8. CASE RecvBarrier
  <2>1. /\ UNCHANGED <<accepted, seen, disabled, disp, item, cursor>>
        /\ queue # <<>> /\ ~IsEvent(Head(queue)) /\ queue' = Tail(queue)
    BY <1>8 DEF RecvBarrier, dispatcher
  <2>2. InHand(o)' = InHand(o) /\ EventsIn[queue] = EventsIn[Tail(queue)]
    BY <1>1, <2>1, EventsInUnfold DEF InHand
  <2>. QED
    BY <1>2, <2>1, <2>2
<1>9. CASE Deliver
  <2>1. /\ UNCHANGED <<queue, accepted, disp, item>> /\ disp = "delivering"
        /\ cursor <= Observers /\ cursor' = cursor + 1 /\ disabled \subseteq disabled'
        /\ cursor \in disabled => seen' = seen
        /\ cursor \notin disabled => seen' = [seen EXCEPT ![cursor] = Append(@, item)]
    BY <1>9 DEF Deliver, channel
  <2>2. CASE o = cursor
    <3>1. seen'[o] = Append(seen[o], item) /\ InHand(o) = <<item>> /\ InHand(o)' = <<>>
      BY <1>1, <2>1, <2>2 DEF InHand
    <3>2. Append(seen[o], item) \o <<>> \o EventsIn[queue]
            = seen[o] \o <<item>> \o EventsIn[queue]
      <4>. DEFINE given == seen[o]
                  queued == EventsIn[queue]
      <4>1. given \in Queues /\ queued \in Queues /\ item \in Items
        BY <1>1
      <4>. HIDE DEF given, queued
      <4>2. /\ Append(given, item) \in Queues
            /\ Append(given, item) \o queued = (given \o <<item>>) \o queued
        BY <4>1, AppendConcat
      <4>3. Append(given, item) \o <<>> = Append(given, item)
        BY <4>1, <4>2, ConcatAppend
      <4>. QED
        BY <4>2, <4>3 DEF given, queued
    <3>. QED
      BY <1>2, <2>1, <3>1, <3>2
  <2>3. CASE o # cursor
    <3>1. seen'[o] = seen[o] /\ InHand(o)' = InHand(o)
      BY <1>1, <2>1, <2>3 DEF InHand
    <3>. QED
      BY <1>2, <2>1, <3>1
  <2>. QED
    BY <2>2, <2>3
<1>10. CASE LoadDropped \/ TellLag \/ LagTold \/ Exit
  <2>1. /\ UNCHANGED <<queue, accepted, seen>> /\ disp # "gone" /\ disabled \subseteq disabled'
        /\ disp = "delivering" => cursor > Observers
        /\ disp' # "delivering"
    BY <1>10 DEF LoadDropped, TellLag, LagTold, Exit, channel
  <2>2. InHand(o) = <<>> /\ InHand(o)' = <<>>
    BY <1>1, <2>1 DEF InHand
  <2>. QED
    BY <1>2, <2>1, <2>2
<1>11. CASE HostStops
  BY <1>11 DEF HostStops
<1>12. ASSUME NEW a \in Actors,
              BeginEmit(a) \/ BeginFlush(a) \/ Claim(a) \/ CountDrop(a) \/ DropBus
                \/ UNCHANGED vars
       PROVE  UNCHANGED lanes
  BY <1>12 DEF BeginEmit, BeginFlush, Claim, CountDrop, DropBus, vars, lanes, channel, dispatcher
<1>. QED
  BY EmittersAreActors, BusAssumption, <1>3, <1>4, <1>5, <1>6, <1>7, <1>8, <1>9, <1>10, <1>11, <1>12
     DEF Next, EmitStep, FlushStep, DispatcherStep

(* Prefixes of what the queue took. *)
LEMMA PrefixFacts ==
  ASSUME NEW s \in Queues, NEW t \in Queues, NEW u \in Queues
  PROVE  /\ IsPrefix(s, s \o t)
         /\ IsPrefix(s, t) => IsPrefix(s, t \o u)
<1>1. /\ Len(s) \in Nat /\ Len(t) \in Nat /\ Len(u) \in Nat
      /\ Len(s \o t) = Len(s) + Len(t) /\ Len(t \o u) = Len(t) + Len(u)
  BY ConcatProperties DEF Queues
<1>2. SubSeq(s \o t, 1, Len(s)) = SubSeq(s, 1, Len(s))
  <2>1. CASE Len(s) = 0
    BY <2>1, SubSeqEmpty
  <2>2. CASE Len(s) # 0
    <3>1. Len(s) \in 1..Len(s) /\ 1 \in 1..Len(s)
      BY <1>1, <2>2
    <3>. QED
      BY <3>1, SubSeqOfConcat1 DEF Queues
  <2>. QED
    BY <2>1, <2>2
<1>3. ASSUME Len(s) <= Len(t) PROVE SubSeq(t \o u, 1, Len(s)) = SubSeq(t, 1, Len(s))
  <2>1. CASE Len(s) = 0
    BY <2>1, SubSeqEmpty
  <2>2. CASE Len(s) # 0
    <3>1. Len(s) \in 1..Len(t) /\ 1 \in 1..Len(t)
      BY <1>1, <1>3, <2>2
    <3>. QED
      BY <3>1, SubSeqOfConcat1 DEF Queues
  <2>. QED
    BY <2>1, <2>2
<1>. QED
  BY <1>1, <1>2, <1>3 DEF IsPrefix

(* What each step does to what was accepted and to what one observer has   *)
(* seen.                                                                   *)
LEMMA StepOnLanes ==
  ASSUME TypeInv, [Next]_vars, NEW o \in Ids
  PROVE  /\ \/ accepted' = accepted
            \/ \E x \in Items : accepted' = Append(accepted, x)
         /\ \/ seen'[o] = seen[o]
            \/ /\ disp = "delivering" /\ cursor = o /\ o \notin disabled
               /\ seen'[o] = Append(seen[o], item) /\ accepted' = accepted
         /\ disabled \subseteq disabled'
<1>1. CASE Deliver
  BY <1>1 DEF Deliver, TypeInv, TypeOK, channel
<1>2. ASSUME NEW e \in Emitters, TrySend(e)
      PROVE  /\ UNCHANGED <<seen, disabled>>
             /\ accepted' = accepted \/ \E x \in Items : accepted' = Append(accepted, x)
  BY <1>2, EmittersAreActors DEF TrySend, TypeInv, TypeOK, dispatcher
<1>3. ASSUME NEW a \in Actors,
             \/ BeginEmit(a) \/ BeginFlush(a) \/ Claim(a) \/ Spawn(a) \/ CountDrop(a)
             \/ SendBarrier(a) \/ PushBarrier(a) \/ RecvEvent \/ RecvBarrier \/ LoadDropped
             \/ TellLag \/ LagTold \/ Exit \/ HostStops \/ DropBus \/ UNCHANGED vars
      PROVE  UNCHANGED <<accepted, seen>> /\ disabled \subseteq disabled'
  BY <1>3 DEF BeginEmit, BeginFlush, Claim, Spawn, CountDrop, SendBarrier, PushBarrier,
              RecvEvent, RecvBarrier, LoadDropped, TellLag, LagTold, Exit, HostStops,
              DropBus, vars, channel, dispatcher
<1>. QED
  BY <1>1, <1>2, <1>3, EmittersAreActors, BusAssumption
     DEF Next, EmitStep, FlushStep, DispatcherStep

LEMMA NextInOrder ==
  ASSUME TypeInv, LanesComplete, GivenInOrder, [Next]_vars
  PROVE  GivenInOrder'
<1>. SUFFICES ASSUME NEW o \in Ids PROVE IsPrefix(seen'[o], accepted')
  BY DEF GivenInOrder, Ids
<1>1. /\ accepted \in Queues /\ seen[o] \in Queues /\ item \in Items /\ EventsIn[queue] \in Queues
      /\ IsPrefix(seen[o], accepted)
  BY EventsInUnfold DEF TypeInv, TypeOK, Queues, GivenInOrder
<1>2. CASE seen'[o] = seen[o] /\ accepted' = accepted
  BY <1>1, <1>2
<1>3. ASSUME NEW x \in Items, accepted' = Append(accepted, x), seen'[o] = seen[o]
      PROVE  IsPrefix(seen'[o], accepted')
  <2>1. <<x>> \in Queues /\ Append(accepted, x) = accepted \o <<x>>
    BY <1>1, AppendIsConcat DEF Queues
  <2>. QED
    BY <1>1, <1>3, <2>1, PrefixFacts
<1>4. CASE /\ disp = "delivering" /\ cursor = o /\ o \notin disabled
           /\ seen'[o] = Append(seen[o], item) /\ accepted' = accepted
  <2>2. (seen[o] \o <<item>>) \o EventsIn[queue] = accepted
    <3>1. InHand(o) = <<item>>
      BY <1>4, BusAssumption DEF InHand, Ids
    <3>. QED
      BY <1>4, <3>1 DEF LanesComplete
  <2>3. Append(seen[o], item) \in Queues /\ Append(seen[o], item) = seen[o] \o <<item>>
    BY <1>1, AppendIsConcat, AppendProperties DEF Queues
  <2>. QED
    BY <1>1, <1>4, <2>2, <2>3, PrefixFacts
<1>. QED
  BY <1>2, <1>3, <1>4, StepOnLanes

-----------------------------------------------------------------------------
(* Overflow is counted *)

LEMMA NextAccounted ==
  ASSUME TypeInv, EveryEventAccounted, [Next]_vars
  PROVE  EveryEventAccounted'
<1>. USE DEF EveryEventAccounted
<1>1. /\ IsFiniteSet(Begun) /\ IsFiniteSet(InFlight)
      /\ Cardinality(Begun) \in Nat /\ Cardinality(InFlight) \in Nat
      /\ Len(accepted) \in Nat /\ dropped \in Nat
      /\ at \in [Actors -> {"idle", "checked", "claimed", "send", "count",
                            "wait", "ack", "acked", "failed"}]
  BY FS_CardinalityType DEF TypeInv, TypeOK, FiniteCounts
<1>2. ASSUME NEW e \in Emitters, BeginEmit(e) PROVE EveryEventAccounted'
  <2>. DEFINE x == Event(e, emitted[e] + 1)
  <2>1. /\ e \in Actors /\ at[e] = "idle" /\ Goto(e, AfterLoad(e)) /\ AfterLoad(e) # "idle"
        /\ UNCHANGED <<accepted, dropped>>
    BY <1>2, EmittersAreActors DEF BeginEmit, AfterLoad, channel
  <2>2. e \notin InFlight /\ InFlight' = InFlight \cup {e}
    BY <1>1, <2>1, InFlightMove DEF InFlight
  <2>3. x \notin Begun /\ Begun' = Begun \cup {x}
    BY <1>2, BegunGrows DEF TypeInv
  <2>4. /\ Cardinality(InFlight') = Cardinality(InFlight) + 1
        /\ Cardinality(Begun') = Cardinality(Begun) + 1
    BY <1>1, <2>2, <2>3, FS_AddElement
  <2>. QED
    BY <1>1, <2>1, <2>4
<1>3. ASSUME NEW e \in Emitters, TrySend(e) PROVE EveryEventAccounted'
  <2>1. e \in Actors /\ at[e] = "send" /\ e \in InFlight /\ Begun' = Begun /\ UNCHANGED dropped
    BY <1>3, EmittersAreActors DEF TrySend, InFlight, Begun
  <2>2. CASE Permit
    <3>1. Goto(e, "idle") /\ Len(accepted') = Len(accepted) + 1
      BY <1>1, <1>3, <2>2 DEF TrySend, TypeInv, TypeOK
    <3>2. InFlight' = InFlight \ {e}
      BY <1>1, <2>1, <3>1, InFlightMove
    <3>3. Cardinality(InFlight') = Cardinality(InFlight) - 1
      BY <1>1, <2>1, <3>2, FS_RemoveElement
    <3>. QED
      BY <1>1, <2>1, <3>1, <3>3
  <2>3. CASE ~Permit
    <3>1. Goto(e, "count") /\ UNCHANGED accepted
      BY <1>3, <2>3 DEF TrySend
    <3>2. InFlight' = InFlight
      BY <1>1, <2>1, <3>1, InFlightMove
    <3>. QED
      BY <2>1, <3>1, <3>2
  <2>. QED
    BY <2>2, <2>3
<1>4. ASSUME NEW e \in Emitters, CountDrop(e) PROVE EveryEventAccounted'
  <2>1. /\ e \in Actors /\ at[e] = "count" /\ e \in InFlight /\ Begun' = Begun
        /\ Goto(e, "idle") /\ UNCHANGED accepted /\ dropped' = dropped + 1
    BY <1>4, EmittersAreActors DEF CountDrop, InFlight, Begun, channel
  <2>2. InFlight' = InFlight \ {e}
    BY <1>1, <2>1, InFlightMove
  <2>3. Cardinality(InFlight') = Cardinality(InFlight) - 1
    BY <1>1, <2>1, <2>2, FS_RemoveElement
  <2>. QED
    BY <1>1, <2>1, <2>3
<1>5. ASSUME UNCHANGED <<emitted, accepted, dropped>>, InFlight' = InFlight
      PROVE  EveryEventAccounted'
  BY <1>5 DEF Begun
<1>6. ASSUME NEW a \in Actors, Claim(a) \/ Spawn(a)
      PROVE  UNCHANGED <<emitted, accepted, dropped>> /\ InFlight' = InFlight
  <2>1. /\ at[a] # "idle" /\ UNCHANGED <<emitted, accepted, dropped>>
        /\ \E p \in {"send", "claimed"} : Goto(a, p)
    BY <1>6 DEF Claim, Spawn, channel
  <2>. QED
    BY <1>1, <2>1, InFlightMove
<1>7. ASSUME NEW f \in Flushers, BeginFlush(f) \/ SendBarrier(f) \/ PushBarrier(f)
      PROVE  UNCHANGED <<emitted, accepted, dropped>> /\ InFlight' = InFlight
  <2>1. UNCHANGED <<emitted, accepted, dropped>> /\ \E p : Goto(f, p)
    BY <1>7 DEF BeginFlush, SendBarrier, PushBarrier, channel
  <2>. QED
    BY <1>1, <2>1, InFlightMove, EmittersAreActors, BusAssumption
<1>8. CASE RecvBarrier
  <2>1. UNCHANGED <<emitted, accepted, dropped>> /\ Head(queue).by \in Flushers
        /\ Goto(Head(queue).by, "acked")
    BY <1>8, EmittersAreActors DEF RecvBarrier, TypeInv, TypeOK
  <2>2. InFlight' = InFlight
    BY <1>1, <2>1, InFlightMove, EmittersAreActors, BusAssumption
  <2>. QED
    BY <1>5, <2>1, <2>2
<1>9. CASE HostStops
  <2>1. UNCHANGED <<emitted, accepted, dropped>>
    BY <1>9 DEF HostStops
  <2>2. InFlight' = InFlight
    BY <1>1, <1>9, EmittersAreActors DEF HostStops, InFlight
  <2>. QED
    BY <1>5, <2>1, <2>2
<1>10. CASE RecvEvent \/ Deliver \/ LoadDropped \/ TellLag \/ LagTold \/ Exit \/ DropBus
            \/ UNCHANGED vars
  BY <1>5, <1>10 DEF RecvEvent, Deliver, LoadDropped, TellLag, LagTold, Exit, DropBus, vars,
                     channel, InFlight
<1>. QED
  BY <1>2, <1>3, <1>4, <1>5, <1>6, <1>7, <1>8, <1>9, <1>10, EmittersAreActors
     DEF Next, EmitStep, FlushStep, DispatcherStep

(* What observers are told of it is true *)

LEMMA NextLag ==
  ASSUME TypeInv, LagIsTrue, [Next]_vars
  PROVE  LagIsTrue'
<1>. USE DEF LagIsTrue, Told
<1>1. /\ total \in Nat /\ reported \in Nat /\ dropped \in Nat /\ Observers \in Nat
      /\ cursor \in 1..(Observers + 1) /\ told \in [Ids -> Seq(Nat)] /\ Ids = 1..Observers
  BY BusAssumption DEF TypeInv, TypeOK, Ids
<1>2. ASSUME UNCHANGED <<told, reported, total, disp, cursor>>,
             dropped' = dropped \/ dropped' = dropped + 1
      PROVE  LagIsTrue'
  BY <1>1, <1>2
<1>3. ASSUME UNCHANGED <<told, reported, dropped>>, disp # "lagging", disp' # "lagging"
      PROVE  LagIsTrue'
  <2>1. \A o \in Ids : Told(o)' = Told(o)
    BY <1>3
  <2>. QED
    BY <1>3, <2>1
<1>4. CASE LoadDropped
  <2>1. /\ UNCHANGED <<told, reported, dropped>> /\ total' = dropped /\ cursor' = 1
        /\ disp # "lagging"
        /\ disp' = "lagging" => dropped > reported
    BY <1>4 DEF LoadDropped
  <2>2. \A o \in Ids : Told(o)' = reported /\ Told(o) = reported
    BY <1>1, <2>1
  <2>. QED
    BY <1>1, <2>1, <2>2
<1>5. CASE LagTold
  <2>1. UNCHANGED <<told, dropped>> /\ reported' = total /\ disp = "lagging"
        /\ cursor > Observers /\ disp' = "idle"
    BY <1>5 DEF LagTold
  <2>2. \A o \in Ids : Told(o)' = total /\ Told(o) = total
    BY <1>1, <2>1
  <2>. QED
    BY <1>1, <2>1, <2>2
<1>6. CASE TellLag
  <2>1. /\ UNCHANGED <<reported, total, dropped, disp>> /\ disp = "lagging"
        /\ cursor' = cursor + 1 /\ cursor \in Ids
        /\ \/ told' = told
           \/ told' = [told EXCEPT ![cursor] = Append(told[cursor], total)]
    BY <1>1, <1>6 DEF TellLag
  <2>2. ASSUME NEW o \in Ids
        PROVE  /\ \A i \in DOMAIN told'[o] : told'[o][i] \in 1..Told(o)'
               /\ \A i, j \in DOMAIN told'[o] : i < j => told'[o][i] < told'[o][j]
    <3>1. /\ o # cursor => Told(o)' = Told(o)
          /\ o = cursor => Told(o)' = total /\ Told(o) = reported
          /\ reported < total
      BY <1>1, <2>1
    <3>2. CASE told'[o] = told[o]
      <4>1. Told(o) <= Told(o)' /\ Told(o) \in Nat /\ Told(o)' \in Nat
        BY <1>1, <2>1, <3>1
      <4>. HIDE DEF Told
      <4>. QED
        BY <3>2, <4>1
    <3>3. CASE o = cursor /\ told'[o] = Append(told[o], total)
      <4>1. /\ told[o] \in Seq(Nat) /\ Len(told[o]) \in Nat
            /\ DOMAIN told'[o] = 1..(Len(told[o]) + 1) /\ DOMAIN told[o] = 1..Len(told[o])
            /\ told'[o][Len(told[o]) + 1] = total
            /\ \A i \in 1..Len(told[o]) : told'[o][i] = told[o][i]
        BY <1>1, <3>3
      <4>2. \A i \in 1..Len(told[o]) : told[o][i] \in 1..reported
        BY <4>1, <3>1, <3>3
      <4>3. Told(o)' = total /\ reported < total /\ total \in Nat /\ reported \in Nat
        BY <1>1, <3>1, <3>3
      <4>4. ASSUME NEW i \in DOMAIN told'[o] PROVE told'[o][i] \in 1..total
        <5>1. CASE i = Len(told[o]) + 1
          BY <4>1, <4>3, <5>1
        <5>2. CASE i # Len(told[o]) + 1
          <6>1. i \in 1..Len(told[o])
            BY <4>1, <5>2
          <6>2. told'[o][i] \in 1..reported
            BY <4>1, <4>2, <6>1
          <6>. QED
            BY <4>3, <6>2
        <5>. QED
          BY <5>1, <5>2
      <4>5. ASSUME NEW i \in DOMAIN told'[o], NEW j \in DOMAIN told'[o], i < j
            PROVE  told'[o][i] < told'[o][j]
        <5>1. i \in 1..Len(told[o]) /\ told'[o][i] = told[o][i] /\ told[o][i] \in 1..reported
          BY <4>1, <4>2, <4>5, SMTT(30)
        <5>2. CASE j = Len(told[o]) + 1
          BY <4>1, <4>3, <5>1, <5>2
        <5>3. CASE j # Len(told[o]) + 1
          <6>1. j \in DOMAIN told[o] /\ i \in DOMAIN told[o] /\ told'[o][j] = told[o][j]
            BY <4>1, <5>1, <5>3, SMTT(30)
          <6>. QED
            BY <4>5, <5>1, <6>1
        <5>. QED
          BY <5>2, <5>3
      <4>. QED
        BY <4>3, <4>4, <4>5
    <3>. QED
      BY <1>1, <2>1, <3>2, <3>3
  <2>. QED
    BY <2>1, <2>2 DEF Ids
<1>7. ASSUME NEW a \in Actors, Spawn(a) PROVE LagIsTrue'
  <2>1. /\ UNCHANGED <<told, reported, total, cursor, dropped>>
        /\ disp' = disp \/ (disp = "none" /\ disp' = "idle")
    BY <1>7 DEF Spawn, TypeInv, SlotIsFresh
  <2>2. CASE disp' = disp
    BY <1>2, <2>1, <2>2
  <2>3. CASE disp = "none" /\ disp' = "idle"
    BY <1>3, <2>1, <2>3
  <2>. QED
    BY <2>1, <2>2, <2>3
<1>8. ASSUME NEW a \in Actors,
             \/ BeginEmit(a) \/ BeginFlush(a) \/ Claim(a) \/ TrySend(a) \/ CountDrop(a)
             \/ SendBarrier(a) \/ PushBarrier(a) \/ RecvBarrier \/ DropBus \/ UNCHANGED vars
      PROVE  /\ UNCHANGED <<told, reported, total, disp, cursor>>
             /\ dropped' = dropped \/ dropped' = dropped + 1
  BY <1>8 DEF BeginEmit, BeginFlush, Claim, TrySend, CountDrop, SendBarrier, PushBarrier,
              RecvBarrier, DropBus, vars, channel, dispatcher
<1>9. CASE RecvEvent \/ Exit \/ HostStops \/ Deliver
  <2>1. UNCHANGED <<told, reported, dropped>> /\ disp # "lagging" /\ disp' # "lagging"
    BY <1>9 DEF RecvEvent, Exit, HostStops, Deliver
  <2>. QED
    BY <1>3, <2>1
<1>. QED
  BY <1>2, <1>4, <1>5, <1>6, <1>7, <1>8, <1>9, EmittersAreActors, BusAssumption
     DEF Next, EmitStep, FlushStep, DispatcherStep

-----------------------------------------------------------------------------
(* Barriers stand behind what was accepted before them *)

LEMMA AppendFacts ==
  ASSUME NEW q \in Queues, NEW x \in Items
  PROVE  /\ Append(q, x) \in Queues /\ Len(Append(q, x)) = Len(q) + 1
         /\ Append(q, x)[Len(q) + 1] = x /\ Len(q) \in Nat
         /\ \A j \in 1..Len(q) : Append(q, x)[j] = q[j]
  BY AppendProperties DEF Queues

LEMMA SuffixFacts ==
  ASSUME NEW q \in Queues, NEW i \in 1..Len(q)
  PROVE  /\ SubSeq(q, i + 1, Len(q)) \in Queues
         /\ Len(SubSeq(q, i + 1, Len(q))) = Len(q) - i
         /\ \A j \in 1..(Len(q) - i) :
              SubSeq(q, i + 1, Len(q))[j] = q[i + j] /\ i + j \in 1..Len(q)
<1>. DEFINE s == SubSeq(q, i + 1, Len(q))
<1>1. Len(q) \in Nat /\ \A j \in (i + 1)..Len(q) : q[j] \in Items
  BY DEF Queues
<1>2. /\ s \in Seq(Items) /\ Len(s) = IF i + 1 <= Len(q) THEN Len(q) - (i + 1) + 1 ELSE 0
      /\ \A j \in 1..(Len(q) - (i + 1) + 1) : s[j] = q[(i + 1) + j - 1]
  BY <1>1, SubSeqProperties
<1>. HIDE DEF s
<1>3. s \in Queues /\ Len(s) = Len(q) - i
  BY <1>1, <1>2 DEF Queues
<1>4. ASSUME NEW j \in 1..(Len(q) - i) PROVE s[j] = q[i + j] /\ i + j \in 1..Len(q)
  <2>1. j \in 1..(Len(q) - (i + 1) + 1) /\ (i + 1) + j - 1 = i + j
    BY <1>1
  <2>. QED
    BY <1>1, <1>2, <2>1, SMTT(30)
<1>. QED
  BY <1>3, <1>4 DEF s

(* What is behind an item when another is put at the end, and when the     *)
(* first is taken.                                                         *)
LEMMA BehindAppend ==
  ASSUME NEW q \in Queues, NEW x \in Items, NEW i \in 1..Len(q)
  PROVE  SubSeq(Append(q, x), i + 1, Len(Append(q, x)))
           = Append(SubSeq(q, i + 1, Len(q)), x)
<1>. DEFINE p == Append(q, x)
            s == SubSeq(q, i + 1, Len(q))
            t == SubSeq(p, i + 1, Len(p))
            u == Append(s, x)
<1>1. /\ Len(q) \in Nat /\ p \in Queues /\ Len(p) = Len(q) + 1 /\ p[Len(q) + 1] = x
      /\ \A j \in 1..Len(q) : p[j] = q[j]
  BY AppendFacts
<1>2. s \in Queues /\ Len(s) = Len(q) - i /\ \A j \in 1..(Len(q) - i) : s[j] = q[i + j]
  BY SuffixFacts
<1>3. /\ u \in Queues /\ Len(u) = Len(s) + 1 /\ u[Len(s) + 1] = x
      /\ \A j \in 1..Len(s) : u[j] = s[j]
  <2>. HIDE DEF s
  <2>. QED
    BY <1>2, AppendFacts
<1>. HIDE DEF p, s, u
<1>4. i \in 1..Len(p)
  BY <1>1
<1>5. t \in Queues /\ Len(t) = Len(p) - i /\ \A j \in 1..(Len(p) - i) : t[j] = p[i + j]
  BY <1>1, <1>4, SuffixFacts
<1>. HIDE DEF t
<1>6. ASSUME NEW j \in 1..Len(t) PROVE t[j] = u[j]
  <2>1. CASE j = Len(s) + 1
    <3>1. i + j = Len(q) + 1 /\ j \in 1..(Len(p) - i)
      BY <1>1, <1>2, <2>1
    <3>. QED
      BY <1>1, <1>3, <1>5, <2>1, <3>1
  <2>2. CASE j # Len(s) + 1
    <3>1. j \in 1..Len(s) /\ j \in 1..(Len(q) - i) /\ j \in 1..(Len(p) - i) /\ i + j \in 1..Len(q)
      BY <1>1, <1>2, <1>5, <2>2, SMTT(30)
    <3>. QED
      BY <1>1, <1>2, <1>3, <1>5, <3>1
  <2>. QED
    BY <2>1, <2>2
<1>7. Len(t) = Len(u)
  BY <1>1, <1>2, <1>3, <1>5
<1>8. t = u
  BY <1>3, <1>5, <1>6, <1>7, SeqEqual DEF Queues
<1>. QED
  BY <1>8 DEF p, s, t, u

LEMMA BehindTail ==
  ASSUME NEW q \in Queues, q # <<>>, NEW i \in 1..Len(Tail(q))
  PROVE  /\ i + 1 \in 1..Len(q) /\ Tail(q)[i] = q[i + 1]
         /\ SubSeq(Tail(q), i + 1, Len(Tail(q))) = SubSeq(q, (i + 1) + 1, Len(q))
<1>. DEFINE p == Tail(q)
            k == i + 1
            s == SubSeq(p, i + 1, Len(p))
            t == SubSeq(q, k + 1, Len(q))
<1>1. /\ Len(q) \in Nat \ {0} /\ p \in Queues /\ Len(p) = Len(q) - 1
      /\ \A j \in 1..Len(p) : p[j] = q[j + 1]
  BY TailType, HeadTailProperties DEF Queues
<1>2. i \in 1..Len(p) /\ k \in 1..Len(q) /\ k = i + 1
  BY <1>1
<1>. HIDE DEF p, k
<1>3. s \in Queues /\ Len(s) = Len(p) - i
      /\ \A j \in 1..(Len(p) - i) : s[j] = p[i + j] /\ i + j \in 1..Len(p)
  BY <1>1, <1>2, SuffixFacts
<1>4. t \in Queues /\ Len(t) = Len(q) - k
      /\ \A j \in 1..(Len(q) - k) : t[j] = q[k + j]
  BY <1>2, SuffixFacts
<1>. HIDE DEF s, t
<1>5. Len(s) = Len(t)
  BY <1>1, <1>2, <1>3, <1>4
<1>6. ASSUME NEW j \in 1..Len(s) PROVE s[j] = t[j]
  <2>1. /\ j \in 1..(Len(p) - i) /\ j \in 1..(Len(q) - k)
        /\ i + j \in Nat /\ (i + j) + 1 = k + j
    BY <1>1, <1>2, <1>3
  <2>2. s[j] = p[i + j] /\ i + j \in 1..Len(p) /\ t[j] = q[k + j]
    BY <1>3, <1>4, <2>1
  <2>3. p[i + j] = q[(i + j) + 1]
    BY <1>1, <2>2
  <2>. QED
    BY <2>1, <2>2, <2>3
<1>7. s = t
  BY <1>3, <1>4, <1>5, <1>6, SeqEqual DEF Queues
<1>. QED
  BY <1>1, <1>2, <1>7 DEF p, k, s, t

(* An event accepted behind a barrier lengthens both sides by one. *)
LEMMA NextFences ==
  ASSUME TypeInv, FencesStand, [Next]_vars
  PROVE  FencesStand'
<1>1. /\ queue \in Queues /\ accepted \in Queues /\ Len(accepted) \in Nat
      /\ mark \in [Flushers -> Nat] /\ DOMAIN queue = 1..Len(queue) /\ Len(queue) \in Nat
      /\ at \in [Actors -> {"idle", "checked", "claimed", "send", "count",
                            "wait", "ack", "acked", "failed"}]
      /\ \A i \in DOMAIN queue : queue[i] \in Items
  BY DEF TypeInv, TypeOK, Queues
<1>2. ASSUME NEW i \in DOMAIN queue, ~IsEvent(queue[i])
      PROVE  /\ queue[i].by \in Flushers /\ mark[queue[i].by] \in Nat
             /\ Behind(i) \in Queues /\ EventsIn[Behind(i)] \in Queues
             /\ Len(EventsIn[Behind(i)]) \in Nat
             /\ Fence(i)
  <2>1. queue[i].by \in Flushers /\ Behind(i) \in Queues
    BY <1>1, <1>2, EmittersAreActors, SuffixFacts DEF Behind
  <2>2. EventsIn[Behind(i)] \in Queues
    BY <2>1, EventsInUnfold
  <2>. QED
    BY <1>1, <1>2, <2>1, <2>2 DEF FencesStand, Fence, Queues
(* Steps that leave the queue alone and take nobody from "ack". *)
<1>3. ASSUME UNCHANGED <<queue, accepted, mark>>,
             \A f \in Flushers : at[f] = "ack" => at'[f] = "ack"
      PROVE  FencesStand'
  BY <1>2, <1>3 DEF FencesStand, Behind, Fence
<1>4. ASSUME NEW f \in Flushers, BeginFlush(f) PROVE FencesStand'
  <2>1. /\ UNCHANGED <<queue, accepted>> /\ at[f] = "idle"
        /\ mark' = [mark EXCEPT ![f] = Len(accepted)]
        /\ \A g \in Flushers \ {f} : at'[g] = at[g]
    BY <1>1, <1>4, EmittersAreActors DEF BeginFlush, Goto, channel
  <2>2. \A g \in Flushers : mark'[g] <= Len(accepted)
    BY <1>1, <2>1 DEF FencesStand
  <2>3. ASSUME NEW i \in DOMAIN queue, ~IsEvent(queue[i])
        PROVE  queue[i].by # f /\ mark'[queue[i].by] = mark[queue[i].by]
               /\ at'[queue[i].by] = "ack"
    BY <1>1, <1>2, <2>1, <2>3 DEF Fence
  <2>. QED
    BY <1>2, <2>1, <2>2, <2>3 DEF FencesStand, Behind, Fence
(* An item at the end is behind every barrier. *)
<1>5. ASSUME NEW x \in Items, queue' = Append(queue, x), UNCHANGED mark,
             IF IsEvent(x) THEN accepted' = Append(accepted, x)
             ELSE /\ x = Barrier(x.by) /\ UNCHANGED accepted
                  /\ at[x.by] # "ack" /\ at'[x.by] = "ack",
             \A f \in Flushers : at[f] = "ack" => at'[f] = "ack"
      PROVE  FencesStand'
  <2>1. /\ queue' \in Queues /\ Len(queue') = Len(queue) + 1 /\ queue'[Len(queue) + 1] = x
        /\ \A j \in 1..Len(queue) : queue'[j] = queue[j]
        /\ DOMAIN queue' = 1..(Len(queue) + 1)
    BY <1>1, <1>5, AppendFacts DEF Queues
  <2>2. /\ Len(accepted') = IF IsEvent(x) THEN Len(accepted) + 1 ELSE Len(accepted)
        /\ Len(accepted') \in Nat /\ Len(accepted) <= Len(accepted')
    BY <1>1, <1>5, AppendFacts
  <2>3. \A f \in Flushers : mark'[f] <= Len(accepted')
    BY <1>1, <1>5, <2>2 DEF FencesStand
  <2>4. ASSUME NEW i \in 1..Len(queue), ~IsEvent(queue'[i])
        PROVE  Fence(i)'
    <3>1. /\ queue'[i] = queue[i] /\ ~IsEvent(queue[i]) /\ i \in DOMAIN queue
          /\ queue[i].by \in Flushers /\ mark[queue[i].by] \in Nat
      BY <1>1, <1>2, <2>1, <2>4
    <3>2. Behind(i)' = Append(Behind(i), x) /\ Behind(i) \in Queues
      BY <1>1, <1>2, <1>5, <3>1, BehindAppend DEF Behind
    <3>3. EventsIn[Append(Behind(i), x)]
            = IF IsEvent(x) THEN Append(EventsIn[Behind(i)], x) ELSE EventsIn[Behind(i)]
      BY <3>2, EventsInAppend
    <3>4. /\ Len(EventsIn[Behind(i)]) \in Nat
          /\ Len(EventsIn[Behind(i)']) = IF IsEvent(x) THEN Len(EventsIn[Behind(i)]) + 1
                                         ELSE Len(EventsIn[Behind(i)])
      BY <1>2, <3>1, <3>2, <3>3, AppendFacts
    <3>5. /\ mark[queue[i].by] + Len(EventsIn[Behind(i)]) <= Len(accepted)
          /\ at[queue[i].by] = "ack" /\ queue[i] = Barrier(queue[i].by)
          /\ \A j \in DOMAIN queue : queue[j] = queue[i] => j = i
      BY <1>2, <3>1 DEF Fence
    <3>6. mark'[queue'[i].by] + Len(EventsIn[Behind(i)']) <= Len(accepted')
      BY <1>1, <1>5, <2>2, <3>1, <3>4, <3>5
    <3>7. x # queue[i]
      BY <1>5, <3>1, <3>5
    <3>8. \A j \in DOMAIN queue' : queue'[j] = queue'[i] => j = i
      BY <1>1, <2>1, <3>1, <3>5, <3>7
    <3>. QED
      BY <1>5, <3>1, <3>5, <3>6, <3>8 DEF Fence
  <2>5. ASSUME NEW n, n = Len(queue) + 1, ~IsEvent(x) PROVE Fence(n)'
    <3>1. x.by \in Flushers /\ queue'[n] = x
      BY <2>1, <2>5, EmittersAreActors
    <3>2. Behind(n)' = <<>>
      BY <1>1, <2>1, <2>5, SubSeqEmpty DEF Behind
    <3>3. Len(EventsIn[Behind(n)']) = 0
      BY <3>2, NoEvents
    <3>4. mark'[x.by] + Len(EventsIn[Behind(n)']) <= Len(accepted')
      BY <1>1, <1>5, <2>3, <3>1, <3>3
    <3>5. \A j \in 1..Len(queue) : queue'[j] # x
      <4>1. ASSUME NEW j \in 1..Len(queue), queue[j] = x PROVE FALSE
        BY <1>1, <1>2, <1>5, <2>5, <4>1 DEF Fence
      <4>. QED
        BY <2>1, <4>1
    <3>6. /\ at'[queue'[n].by] = "ack" /\ queue'[n] = Barrier(queue'[n].by)
          /\ mark'[queue'[n].by] + Len(EventsIn[Behind(n)']) <= Len(accepted')
      BY <1>5, <2>5, <3>1, <3>4
    <3>7. \A j \in DOMAIN queue' : queue'[j] = queue'[n] => j = n
      BY <1>1, <2>1, <2>5, <3>1, <3>5
    <3>. QED
      BY <3>6, <3>7, Zenon DEF Fence
  <2>6. ASSUME NEW i \in DOMAIN queue', ~IsEvent(queue'[i]) PROVE Fence(i)'
    <3>1. i \in 1..Len(queue) \/ i = Len(queue) + 1
      BY <1>1, <2>1
    <3>2. CASE i \in 1..Len(queue)
      BY <2>4, <2>6, <3>2
    <3>3. CASE i = Len(queue) + 1
      BY <2>1, <2>5, <2>6, <3>3, Zenon
    <3>. QED
      BY <3>1, <3>2, <3>3
  <2>. QED
    BY <2>3, <2>6 DEF FencesStand, Fence
(* Taking the first item moves the others up. *)
<1>6. ASSUME queue # <<>>, queue' = Tail(queue), UNCHANGED <<accepted, mark>>,
             \A f \in Flushers : at[f] = "ack" =>
                at'[f] = "ack" \/ (~IsEvent(Head(queue)) /\ f = Head(queue).by)
      PROVE  FencesStand'
  <2>1. /\ queue' \in Queues /\ Len(queue') = Len(queue) - 1 /\ DOMAIN queue' = 1..Len(queue')
        /\ Len(queue') \in Nat /\ Head(queue) = queue[1] /\ 1 \in DOMAIN queue
    BY <1>1, <1>6, TailType DEF Queues
  <2>2. ASSUME NEW i \in DOMAIN queue', ~IsEvent(queue'[i]) PROVE Fence(i)'
    <3>1. /\ i + 1 \in DOMAIN queue /\ queue'[i] = queue[i + 1] /\ i \in Nat
          /\ Behind(i)' = Behind(i + 1)
      BY <1>1, <1>6, <2>1, BehindTail, SMTT(30) DEF Behind
    <3>2. Fence(i + 1)
      BY <1>2, <2>2, <3>1
    <3>3. queue[i + 1].by \in Flushers
      BY <1>2, <2>2, <3>1
    <3>4. ~IsEvent(Head(queue)) => Head(queue).by # queue[i + 1].by
      <4>1. ASSUME ~IsEvent(Head(queue)), Head(queue).by = queue[i + 1].by PROVE FALSE
        <5>1. Head(queue) = queue[i + 1]
          BY <1>2, <2>1, <3>2, <4>1 DEF Fence
        <5>. QED
          BY <2>1, <3>1, <3>2, <5>1 DEF Fence
      <4>. QED
        BY <4>1
    <3>5. at'[queue'[i].by] = "ack"
      BY <1>6, <3>1, <3>2, <3>3, <3>4 DEF Fence
    <3>6. ASSUME NEW j \in DOMAIN queue', queue'[j] = queue'[i] PROVE j = i
      <4>1. j + 1 \in DOMAIN queue /\ queue'[j] = queue[j + 1] /\ j \in Nat
        BY <1>1, <1>6, <2>1, BehindTail
      <4>. QED
        BY <3>1, <3>2, <3>6, <4>1 DEF Fence
    <3>. QED
      BY <1>6, <3>1, <3>2, <3>5, <3>6 DEF Fence
  <2>. QED
    BY <1>1, <1>6, <2>2 DEF FencesStand, Fence
<1>7. ASSUME NEW e \in Emitters, TrySend(e) PROVE FencesStand'
  <2>. DEFINE x == Event(e, emitted[e])
  <2>1. x \in Items /\ IsEvent(x)
    BY EmittersAreActors DEF TypeInv, TypeOK
  <2>2. /\ at[e] = "send" /\ UNCHANGED mark
        /\ \A f \in Flushers : at'[f] = at[f]
        /\ \/ UNCHANGED <<queue, accepted>>
           \/ queue' = Append(queue, x) /\ accepted' = Append(accepted, x)
    BY <1>1, <1>7, EmittersAreActors, BusAssumption DEF TrySend, Goto
  <2>. HIDE DEF x
  <2>. QED
    BY <1>3, <1>5, <2>1, <2>2
<1>8. ASSUME NEW f \in Flushers, SendBarrier(f) \/ PushBarrier(f) PROVE FencesStand'
  <2>. DEFINE x == Barrier(f)
  <2>1. x \in Items /\ ~IsEvent(x) /\ x.by = f /\ x = Barrier(x.by)
    BY EmittersAreActors
  <2>2. /\ at[f] \in {"send", "wait"} /\ UNCHANGED <<accepted, mark>>
        /\ \A g \in Flushers \ {f} : at'[g] = at[g]
        /\ \/ UNCHANGED queue
           \/ queue' = Append(queue, x) /\ at'[f] = "ack"
    BY <1>1, <1>8, EmittersAreActors DEF SendBarrier, PushBarrier, Goto, channel
  <2>. HIDE DEF x
  <2>3. \A g \in Flushers : at[g] = "ack" => at'[g] = "ack"
    BY <2>2
  <2>4. CASE UNCHANGED queue
    BY <1>3, <2>2, <2>3, <2>4
  <2>5. CASE queue' = Append(queue, x) /\ at'[f] = "ack"
    BY <1>5, <2>1, <2>2, <2>3, <2>5
  <2>. QED
    BY <2>2, <2>4, <2>5
<1>9. CASE RecvEvent
  BY <1>6, <1>9 DEF RecvEvent
<1>10. CASE RecvBarrier
  <2>1. /\ queue # <<>> /\ queue' = Tail(queue) /\ UNCHANGED <<accepted, mark>>
        /\ ~IsEvent(Head(queue))
        /\ \A g \in Flushers : g # Head(queue).by => at'[g] = at[g]
    BY <1>1, <1>10, EmittersAreActors DEF RecvBarrier, Goto
  <2>. QED
    BY <1>6, <2>1
<1>11. CASE HostStops
  <2>1. queue' = <<>> /\ UNCHANGED <<accepted, mark>>
    BY <1>11 DEF HostStops
  <2>. QED
    BY <2>1 DEF FencesStand
<1>12. ASSUME NEW e \in Emitters, BeginEmit(e) \/ CountDrop(e)
       PROVE  /\ UNCHANGED <<queue, accepted, mark>>
              /\ \A f \in Flushers : at'[f] = at[f]
  BY <1>1, <1>12, EmittersAreActors, BusAssumption DEF BeginEmit, CountDrop, Goto, channel
<1>13. ASSUME NEW a \in Actors, Claim(a) \/ Spawn(a)
       PROVE  /\ UNCHANGED <<queue, accepted, mark>>
              /\ \A f \in Flushers : at[f] = "ack" => at'[f] = "ack"
  BY <1>1, <1>13, EmittersAreActors DEF Claim, Spawn, Goto, channel
<1>14. CASE Deliver \/ LoadDropped \/ TellLag \/ LagTold \/ Exit \/ DropBus \/ UNCHANGED vars
  <2>1. UNCHANGED <<queue, accepted, mark, at>>
    BY <1>14 DEF Deliver, LoadDropped, TellLag, LagTold, Exit, DropBus, vars, channel
  <2>. QED
    BY <1>3, <2>1
<1>. QED
  BY <1>3, <1>4, <1>7, <1>8, <1>9, <1>10, <1>11, <1>12, <1>13, <1>14, EmittersAreActors
     DEF Next, EmitStep, FlushStep, DispatcherStep

(* When a flush is acknowledged, its barrier is at the head and the        *)
(* dispatcher has nothing in hand: what the working observers were not     *)
(* given yet is behind the barrier.                                        *)
LEMMA NextFlush ==
  ASSUME TypeInv, LanesComplete, FencesStand, FlushIsBarrier, [Next]_vars
  PROVE  FlushIsBarrier'
<1>. SUFFICES ASSUME NEW f \in Flushers, at'[f] = "acked", NEW o \in Ids, o \notin disabled'
              PROVE  Len(seen'[o]) >= mark'[f]
  BY DEF FlushIsBarrier, Ids
<1>1. /\ queue \in Queues /\ accepted \in Queues /\ seen[o] \in Queues /\ item \in Items
      /\ Len(seen[o]) \in Nat /\ mark \in [Flushers -> Nat]
      /\ EventsIn[queue] \in Queues
      /\ at \in [Actors -> {"idle", "checked", "claimed", "send", "count",
                            "wait", "ack", "acked", "failed"}]
  <2>1. /\ queue \in Queues /\ accepted \in Queues /\ seen[o] \in Queues /\ item \in Items
        /\ mark \in [Flushers -> Nat]
        /\ at \in [Actors -> {"idle", "checked", "claimed", "send", "count",
                              "wait", "ack", "acked", "failed"}]
    BY DEF TypeInv, TypeOK, Queues
  <2>2. Len(seen[o]) \in Nat
    BY <2>1 DEF Queues
  <2>. QED
    BY <2>1, <2>2, EventsInUnfold
<1>2. o \notin disabled /\ Len(seen[o]) <= Len(seen'[o]) /\ Len(seen'[o]) \in Nat
  <2>1. \/ seen'[o] = seen[o]
        \/ seen'[o] = Append(seen[o], item)
    BY StepOnLanes
  <2>2. Len(Append(seen[o], item)) = Len(seen[o]) + 1
    BY <1>1, AppendFacts
  <2>3. o \notin disabled
    BY StepOnLanes
  <2>. QED
    BY <1>1, <2>1, <2>2, <2>3
<1>3. CASE RecvBarrier /\ f = Head(queue).by
  <2>1. /\ disp = "idle" /\ queue # <<>> /\ ~IsEvent(Head(queue)) /\ UNCHANGED mark
        /\ Head(queue) = queue[1] /\ 1 \in DOMAIN queue /\ Tail(queue) = Behind(1)
    BY <1>1, <1>3, TailIsSubSeq DEF RecvBarrier, Queues, Behind
  <2>2. /\ EventsIn[queue] = EventsIn[Behind(1)] /\ InHand(o) = <<>>
    BY <1>1, <2>1, EventsInUnfold DEF InHand
  <2>3. mark[f] + Len(EventsIn[queue]) <= Len(accepted)
    BY <1>3, <2>1, <2>2 DEF FencesStand, Fence
  <2>4. (seen[o] \o <<>>) \o EventsIn[queue] = accepted
    BY <1>2, <2>1, <2>2 DEF LanesComplete
  <2>5. seen[o] \o EventsIn[queue] = accepted
    BY <1>1, <2>4, ConcatEmptySeq DEF Queues
  <2>6. Len(seen[o]) + Len(EventsIn[queue]) = Len(accepted) /\ Len(EventsIn[queue]) \in Nat
    <3>. DEFINE given == seen[o]
                queued == EventsIn[queue]
    <3>1. given \in Queues /\ queued \in Queues /\ given \o queued = accepted
      BY <1>1, <2>5
    <3>. HIDE DEF given, queued
    <3>2. Len(given \o queued) = Len(given) + Len(queued) /\ Len(queued) \in Nat
      BY <3>1, ConcatProperties DEF Queues
    <3>. QED
      BY <3>1, <3>2 DEF given, queued
  <2>7. mark[f] \in Nat /\ mark'[f] = mark[f]
    BY <1>1, <2>1
  <2>8. mark[f] <= Len(seen[o])
    <3>1. Len(accepted) \in Nat
      BY <1>1, AppendFacts
    <3>. DEFINE a == Len(accepted)
                e == Len(EventsIn[queue])
                g == Len(seen[o])
                m == mark[f]
    <3>2. a \in Nat /\ e \in Nat /\ g \in Nat /\ m \in Nat /\ m + e <= a /\ g + e = a
      BY <1>1, <2>3, <2>6, <2>7, <3>1
    <3>. HIDE DEF a, e, g, m
    <3>3. m <= g
      BY <3>2
    <3>. QED
      BY <3>3 DEF m, g
  <2>. QED
    BY <1>1, <1>2, <2>7, <2>8
<1>4. CASE at[f] = "acked" /\ mark'[f] = mark[f]
  BY <1>1, <1>2, <1>4 DEF FlushIsBarrier
<1>5. ASSUME NEW a \in Actors,
             \/ BeginEmit(a) \/ BeginFlush(a) \/ Claim(a) \/ Spawn(a) \/ TrySend(a)
             \/ CountDrop(a) \/ SendBarrier(a) \/ PushBarrier(a)
      PROVE  at[f] = "acked" /\ mark'[f] = mark[f]
  <2>1. /\ \E p \in {"idle", "checked", "claimed", "send", "count", "wait", "ack", "failed"} :
             Goto(a, p)
        /\ at[a] # "acked"
        /\ mark' = mark \/ (at[a] = "idle" /\ mark' = [mark EXCEPT ![a] = Len(accepted)])
    BY <1>5 DEF BeginEmit, BeginFlush, Claim, Spawn, TrySend, CountDrop, SendBarrier,
                PushBarrier, AfterLoad
  <2>2. f \in Actors /\ a # f /\ at[f] = "acked"
    BY <1>1, <2>1, EmittersAreActors DEF Goto
  <2>. QED
    BY <1>1, <2>1, <2>2
<1>6. CASE \/ RecvEvent \/ Deliver \/ LoadDropped \/ TellLag \/ LagTold \/ Exit \/ DropBus
           \/ HostStops \/ UNCHANGED vars
  <2>1. at[f] = "acked" /\ UNCHANGED mark
    BY <1>1, <1>6, EmittersAreActors
       DEF RecvEvent, Deliver, LoadDropped, TellLag, LagTold, Exit, DropBus, HostStops, vars
  <2>. QED
    BY <1>4, <2>1
<1>7. CASE RecvBarrier /\ f # Head(queue).by
  <2>1. at[f] = "acked" /\ UNCHANGED mark
    BY <1>1, <1>7, EmittersAreActors DEF RecvBarrier, Goto
  <2>. QED
    BY <1>4, <2>1
<1>. QED
  BY <1>3, <1>4, <1>5, <1>6, <1>7, EmittersAreActors
     DEF Next, EmitStep, FlushStep, DispatcherStep

-----------------------------------------------------------------------------
LEMMA InitBus == Init => BusInv
<1>. SUFFICES ASSUME Init PROVE BusInv
  OBVIOUS
<1>1. TypeInv
  BY InitType
<1>2. EveryEventAccounted
  <2>1. Begun = {} /\ InFlight = {} /\ Len(accepted) = 0 /\ dropped = 0
    BY EmittersAreActors DEF Init, Begun, InFlight, IsEvent
  <2>. QED
    BY <2>1, FS_EmptySet DEF EveryEventAccounted
<1>3. /\ \A o \in Ids : seen[o] = <<>> /\ told[o] = <<>>
      /\ queue = <<>> /\ accepted = <<>> /\ disp = "none" /\ reported = 0 /\ dropped = 0
      /\ \A f \in Flushers : mark[f] = 0 /\ at[f] = "idle"
  BY EmittersAreActors DEF Init
<1>4. LanesComplete
  <2>1. \A o \in Ids : InHand(o) = <<>>
    BY <1>3 DEF InHand
  <2>2. <<>> \o <<>> \o <<>> = <<>>
    OBVIOUS
  <2>. QED
    BY <1>3, <2>1, <2>2, NoEvents DEF LanesComplete
<1>5. GivenInOrder
  BY <1>3 DEF GivenInOrder, IsPrefix
<1>6. LagIsTrue
  BY <1>3 DEF LagIsTrue
<1>7. FencesStand
  BY <1>3 DEF FencesStand
<1>8. FlushIsBarrier
  BY <1>3 DEF FlushIsBarrier
<1>. QED
  BY <1>1, <1>2, <1>4, <1>5, <1>6, <1>7, <1>8 DEF BusInv

LEMMA BusInduction == Spec => []BusInv
<1>1. BusInv /\ [Next]_vars => BusInv'
  BY NextType, NextAccounted, NextLanes, NextInOrder, NextLag, NextFences, NextFlush DEF BusInv
<1>. QED
  BY InitBus, <1>1, PTL DEF Spec

(* Whatever emitters, flushes and panicking observers do, an observer that  *)
(* works is given exactly the accepted events, in their order; one that     *)
(* panicked was given a prefix of them; every event that began is either    *)
(* accepted, counted as dropped or still on its way; and the drop counts    *)
(* observers are told are true and grow.                                    *)
THEOREM EveryObserverIsServed == Spec => []ObserversAgree
<1>1. BusInv => ObserversAgree
  <2>. SUFFICES ASSUME BusInv PROVE ObserversAgree
    OBVIOUS
  <2>1. LagReportsGrow
    <3>1. /\ dropped \in Nat /\ total \in Nat /\ reported \in Nat
          /\ told \in [Ids -> Seq(Nat)]
      BY DEF BusInv, TypeInv, TypeOK
    <3>2. \A o \in Ids : Told(o) <= dropped /\ Told(o) \in Nat
      BY <3>1 DEF BusInv, LagIsTrue, Told
    <3>. QED
      BY <3>1, <3>2 DEF BusInv, LagIsTrue, LagReportsGrow
  <2>. QED
    BY <2>1 DEF BusInv, ObserversAgree, LanesComplete, GivenInOrder
<1>. QED
  BY BusInduction, <1>1, PTL

(* A flush that returned acknowledged has waited for everything accepted    *)
(* before it began: every working observer was given it.                    *)
THEOREM FlushWaits == Spec => []FlushIsBarrier
<1>1. BusInv => FlushIsBarrier
  BY DEF BusInv
<1>. QED
  BY BusInduction, <1>1, PTL

=============================================================================
