---------------------------- MODULE MemoryProofs ----------------------------
(***************************************************************************)
(* What holds of the two stores the management face works on, for every    *)
(* instance.  The long-term graph (MemoryGraph): for every set of names    *)
(* and of conversations, and every number of drafts, relations, runs and   *)
(* calls; above the types the inductive invariant says that an id is never *)
(* seen under two names (OneName): without it a forget could take an       *)
(* entity that nobody asked it to take, and leave relations that end       *)
(* nowhere.  The event summaries (MemoryFace): for every finite set of     *)
(* callers, every number of entries and every page size; the invariant of  *)
(* the listing puts each entry on one side of the cursor.                  *)
(***************************************************************************)
EXTENDS MemoryGraph, MemoryFace, FiniteSetTheorems, SequenceTheorems, TLAPS

MaxLeft == IF MaxDrafts > MaxEdges THEN MaxDrafts ELSE MaxEdges
Canons  == {<<>>} \cup UNION {[drafts -> Names] : drafts \in SUBSET Names}
Singles == {<<>>} \cup {<<n>> : n \in Names}
PCs     == {"idle", "resolving", "embedding", "writing", "relating", "fetching", "repairing"}
Run     == [pc : PCs, left : 0..MaxLeft, draft : Singles, canon : Canons, known : GraphStore,
            into : Singles, targets : SUBSET Names]
CallPCs == {"idle", "editing", "refreshing", "unindexing", "removing", "unlinking"}
Call    == [pc : CallPCs, found : Entity \cup {Absent}, located : Singles]
Slots   == Names \X Managers

(* A run, or a call, has what its step is about to use. *)
Ready(r) ==
  /\ r.pc \in {"resolving", "embedding", "writing", "relating"} => r.left # 0
  /\ r.pc \in {"embedding", "writing"} => r.draft # <<>> /\ r.into # <<>>
  /\ r.pc = "repairing" => r.draft # <<>>

Holding(r) ==
  /\ r.pc \in {"editing", "unindexing", "removing", "unlinking"} => r.found # Absent
  /\ r.pc = "unlinking" => r.located # <<>>

Typed ==
  /\ TypeOK
  /\ \A c \in Convs : Ready(run[c])
  /\ \A k \in Slots : Holding(call[k])

-----------------------------------------------------------------------------
(* Types *)

LEMMA TypeForm ==
  TypeOK <=> /\ graph \in GraphStore /\ edges \subseteq Relation
             /\ vectors \in VectorStore /\ forgotten \cup loose \subseteq Names
             /\ touched \in [Convs -> SUBSET Names]
             /\ lastId \in Nat /\ runs \in [Convs -> 0..MaxRuns] /\ calls \in 0..MaxCalls
             /\ run \in [Convs -> Run] /\ call \in [Slots -> Call]
BY DEF TypeOK, Run, Call, CallPCs, Slots, Canons, Singles, PCs, MaxLeft

LEMMA MaxLeftIs == MaxLeft \in Nat /\ MaxDrafts <= MaxLeft /\ MaxEdges <= MaxLeft
BY GraphAssumption DEF MaxLeft

LEMMA CanonIs ==
  ASSUME NEW f \in Canons
  PROVE  DOMAIN f \subseteq Names /\ \A d \in DOMAIN f : f[d] \in Names
<1>1. CASE f = <<>>
  BY <1>1
<1>2. CASE f # <<>>
  <2>1. PICK drafts \in SUBSET Names : f \in [drafts -> Names]
    BY <1>2 DEF Canons
  <2>. QED
    BY <2>1
<1>. QED
  BY <1>1, <1>2

LEMMA CanonExtends ==
  ASSUME NEW f \in Canons, NEW d \in Names, NEW n \in Names
  PROVE  [x \in DOMAIN f \cup {d} |-> IF x = d THEN n ELSE f[x]] \in Canons
<1>1. DOMAIN f \subseteq Names /\ \A x \in DOMAIN f : f[x] \in Names
  BY CanonIs
<1>2. [x \in DOMAIN f \cup {d} |-> IF x = d THEN n ELSE f[x]] \in [DOMAIN f \cup {d} -> Names]
  BY <1>1
<1>3. DOMAIN f \cup {d} \in SUBSET Names
  BY <1>1
<1>. QED
  BY <1>2, <1>3 DEF Canons

LEMMA RestingTyped == Resting \in Run /\ Ready(Resting)
<1>1. [n \in Names |-> Absent] \in GraphStore
  BY DEF GraphStore
<1>. QED
  BY <1>1, MaxLeftIs DEF Resting, Run, PCs, Singles, Canons, Ready

(* The entity a run is about to write. *)
LEMMA RunNames ==
  ASSUME TypeOK, NEW c \in Convs, Ready(run[c])
  PROVE  /\ run[c] \in Run
         /\ run[c].pc \in {"embedding", "writing"} => Into(c) \in Names /\ Draft(c) \in Names
         /\ run[c].pc = "repairing" => Draft(c) \in Names
<1>1. run[c] \in Run
  BY TypeForm
<1>2. \A s \in Singles : s # <<>> => s[1] \in Names
  BY DEF Singles
<1>. QED
  BY <1>1, <1>2 DEF Ready, Into, Draft, Run

LEMMA WrittenIs ==
  ASSUME TypeOK, NEW c \in Convs, Ready(run[c]), run[c].pc = "writing"
  PROVE  /\ Written(c) \in Entity /\ Written(c) # Absent
         /\ \/ Written(c).id = lastId + 1
            \/ Written(c).id = run[c].known[Into(c)].id
<1>1. Into(c) \in Names /\ Draft(c) \in Names /\ run[c] \in Run
  BY RunNames
<1>2. run[c].known[Into(c)] \in Entity \cup {Absent}
  BY <1>1 DEF Run, GraphStore
<1>3. lastId \in Nat
  BY TypeForm
<1>4. run[c].known[Into(c)].aliases \in SUBSET Names
  BY <1>2 DEF Entity, Absent
<1>5. CASE run[c].known[Into(c)] = Absent
  BY <1>1, <1>3, <1>4, <1>5 DEF Written, Entity, Absent
<1>6. CASE run[c].known[Into(c)] \in Entity
  BY <1>1, <1>4, <1>6 DEF Written, Entity, Absent
<1>. QED
  BY <1>2, <1>5, <1>6

LEMMA UpsertedIs ==
  ASSUME graph \in GraphStore, NEW n \in Names, NEW e \in Entity
  PROVE  /\ Upserted(n, e) \in GraphStore
         /\ \A m \in Names \ {n} : Upserted(n, e)[m] = graph[m]
         /\ Upserted(n, e)[n] # Absent
         /\ Upserted(n, e)[n].id = IF graph[n] = Absent THEN e.id ELSE graph[n].id
<1>1. graph[n] \in Entity \cup {Absent}
  BY DEF GraphStore
<1>2. e.id # 0 /\ e.id \in Nat /\ e.aliases \in SUBSET Names
  BY DEF Entity
<1>3. (IF graph[n] = Absent THEN e ELSE [e EXCEPT !.id = graph[n].id]) \in Entity
  BY <1>1, <1>2 DEF Entity, Absent
<1>. QED
  BY <1>1, <1>2, <1>3 DEF Upserted, GraphStore, Entity, Absent

-----------------------------------------------------------------------------
(* Only one run, or one call, moves *)

RunMoves(c) ==
  /\ run' \in [Convs -> Run] /\ Ready(run'[c])
  /\ \A d \in Convs \ {c} : run'[d] = run[d]

CallMoves(k) ==
  /\ call' \in [Slots -> Call] /\ Holding(call'[k])
  /\ \A j \in Slots \ {k} : call'[j] = call[j]

LEMMA RunReplaced ==
  ASSUME TypeOK, NEW c \in Convs, NEW r \in Run, Ready(r), run' = [run EXCEPT ![c] = r]
  PROVE  RunMoves(c) /\ run'[c] = r
BY TypeForm DEF RunMoves

LEMMA CallReplaced ==
  ASSUME TypeOK, NEW k \in Slots, NEW r \in Call, Holding(r), call' = [call EXCEPT ![k] = r]
  PROVE  CallMoves(k) /\ call'[k] = r
BY TypeForm DEF CallMoves

LEMMA EndRunMoves ==
  ASSUME TypeOK, NEW c \in Convs, EndRun(c)
  PROVE  RunMoves(c) /\ run'[c] = Resting
BY RestingTyped, RunReplaced DEF EndRun

LEMMA GoMoves ==
  ASSUME TypeOK, NEW c \in Convs, Ready(run[c]), NEW p \in PCs, Go(c, p),
         \/ p = "writing" /\ At(c, "embedding")
         \/ p = "fetching"
  PROVE  RunMoves(c) /\ run'[c] = [run[c] EXCEPT !.pc = p]
<1>. DEFINE r == [run[c] EXCEPT !.pc = p]
<1>1. run[c] \in Run
  BY TypeForm
<1>2. r \in Run /\ Ready(r)
  BY <1>1 DEF Run, Ready, At
<1>3. run' = [run EXCEPT ![c] = r]
  BY DEF Go
<1>. HIDE DEF r
<1>4. RunMoves(c) /\ run'[c] = r
  BY <1>2, <1>3, RunReplaced
<1>. QED
  BY <1>4 DEF r

LEMMA SlotIs == ASSUME NEW n \in Names, NEW u \in Managers PROVE <<n, u>> \in Slots
BY DEF Slots

LEMMA ReturnMoves ==
  ASSUME TypeOK, NEW n \in Names, NEW u \in Managers, Return(n, u)
  PROVE  CallMoves(<<n, u>>) /\ call'[<<n, u>>] = NoCall
<1>1. NoCall \in Call /\ Holding(NoCall)
  BY DEF NoCall, Call, CallPCs, Singles, Holding
<1>2. PICK k \in Slots : k = <<n, u>>
  BY SlotIs
<1>3. call' = [call EXCEPT ![k] = NoCall]
  BY <1>2 DEF Return
<1>. QED
  BY <1>1, <1>2, <1>3, CallReplaced

LEMMA StepMoves ==
  ASSUME TypeOK, NEW n \in Names, NEW u \in Managers, NEW p \in {"refreshing", "removing"},
         Step(n, u, p), call[<<n, u>>].found # Absent
  PROVE  CallMoves(<<n, u>>) /\ call'[<<n, u>>] = [call[<<n, u>>] EXCEPT !.pc = p]
<1>1. PICK k \in Slots : k = <<n, u>>
  BY SlotIs
<1>. DEFINE r == [call[k] EXCEPT !.pc = p]
<1>2. call[k] \in Call
  BY TypeForm
<1>3. r \in Call /\ r.found # Absent /\ r.pc = p
  BY <1>1, <1>2 DEF Call, CallPCs
<1>4. call' = [call EXCEPT ![k] = r]
  BY <1>1 DEF Step
<1>. HIDE DEF r
<1>5. Holding(r)
  BY <1>3 DEF Holding
<1>6. CallMoves(k) /\ call'[k] = r
  BY <1>3, <1>4, <1>5, CallReplaced
<1>. QED
  BY <1>1, <1>6 DEF r

(* The lookup of a forget either ends it or finds a name that has the id.   *)
LEMMA LocateMoves ==
  ASSUME TypeOK, NEW n \in Names, NEW u \in Managers, Holding(call[<<n, u>>]), LocateEntity(n, u)
  PROVE  /\ CallMoves(<<n, u>>)
         /\ \/ call'[<<n, u>>] = NoCall
            \/ \E x \in HasId(call[<<n, u>>].found.id) :
                 /\ call'[<<n, u>>].pc = "unlinking" /\ call'[<<n, u>>].located = <<x>>
                 /\ call'[<<n, u>>].found = call[<<n, u>>].found
<1>1. CASE Return(n, u)
  BY <1>1, ReturnMoves
<1>2. CASE ~Return(n, u)
  <2>1. PICK x \in HasId(call[<<n, u>>].found.id) :
          call' = [call EXCEPT ![<<n, u>>].pc = "unlinking", ![<<n, u>>].located = <<x>>]
    BY <1>2 DEF LocateEntity
  <2>2. PICK k \in Slots : k = <<n, u>>
    BY SlotIs
  <2>. DEFINE r == [call[k] EXCEPT !.pc = "unlinking", !.located = <<x>>]
  <2>3. call[k] \in Call /\ call[k].found # Absent
    BY <2>2, TypeForm DEF LocateEntity, Calling, Holding
  <2>4. <<x>> \in Singles /\ <<x>> # <<>>
    BY DEF HasId, Held, Singles
  <2>5. r \in Call /\ r.found = call[k].found /\ r.pc = "unlinking" /\ r.located = <<x>>
    BY <2>3, <2>4 DEF Call, CallPCs
  <2>6. call' = [call EXCEPT ![k] = r]
    BY <2>1, <2>2
  <2>. HIDE DEF r
  <2>7. Holding(r)
    BY <2>3, <2>4, <2>5 DEF Holding
  <2>8. CallMoves(k) /\ call'[k] = r
    BY <2>5, <2>6, <2>7, CallReplaced
  <2>. QED
    BY <2>2, <2>5, <2>8
<1>. QED
  BY <1>1, <1>2

(* The parts of the type that a step of a run, or of a call, leaves alone. *)
LEMMA TypedByRun ==
  ASSUME Typed, NEW c \in Convs, RunMoves(c), call' = call,
         graph' \in GraphStore, edges' \subseteq Relation, vectors' \in VectorStore,
         forgotten' \cup loose' \subseteq Names, touched' \in [Convs -> SUBSET Names],
         lastId' \in Nat, runs' \in [Convs -> 0..MaxRuns], calls' \in 0..MaxCalls
  PROVE  Typed'
<1>1. TypeOK'
  BY TypeForm DEF Typed, RunMoves, TypeOK, Run, Canons, Singles, PCs, MaxLeft
<1>. QED
  BY <1>1 DEF Typed, RunMoves

LEMMA TypedByCall ==
  ASSUME Typed, NEW k \in Slots, CallMoves(k), run' = run,
         graph' \in GraphStore, edges' \subseteq Relation, vectors' \in VectorStore,
         forgotten' \cup loose' \subseteq Names, UNCHANGED <<touched, lastId, runs>>,
         calls' \in 0..MaxCalls
  PROVE  Typed'
<1>1. TypeOK'
  BY TypeForm DEF Typed, CallMoves, TypeOK, Call, CallPCs, Slots, Singles
<1>. QED
  BY <1>1 DEF Typed, CallMoves

-----------------------------------------------------------------------------
(* What each step of a run makes of what the run knows *)

(* It knows no more than it did, or than the graph holds, and has merged    *)
(* no other draft.                                                          *)
Keeps(c) ==
  /\ RunMoves(c)
  /\ \A n \in Names : run'[c].known[n] \in {run[c].known[n], graph[n], Absent}
  /\ \A d \in DOMAIN run'[c].canon : /\ d \in DOMAIN run[c].canon
                                     /\ run'[c].canon[d] = run[c].canon[d]

LEMMA EndRunKeeps ==
  ASSUME TypeOK, NEW c \in Convs, EndRun(c)
  PROVE  Keeps(c) /\ run'[c].pc = "idle"
BY EndRunMoves DEF Keeps, Resting

LEMMA ExtractKeeps ==
  ASSUME TypeOK, NEW c \in Convs, Extract(c)
  PROVE  Keeps(c) /\ run'[c].pc = "resolving"
<1>1. PICK k \in 1..MaxDrafts :
        run' = [run EXCEPT ![c] = [Resting EXCEPT !.pc = "resolving", !.left = k, !.known = graph]]
  BY DEF Extract
<1>. DEFINE r == [Resting EXCEPT !.pc = "resolving", !.left = k, !.known = graph]
<1>2. r \in Run /\ Ready(r)
  <2>1. graph \in GraphStore /\ k \in 0..MaxLeft /\ k # 0
    BY TypeForm, MaxLeftIs, GraphAssumption
  <2>. QED
    BY <2>1, RestingTyped DEF Run, Ready, PCs, Resting
<1>3. r.pc = "resolving" /\ r.known = graph /\ r.canon = <<>>
  BY DEF Resting
<1>. HIDE DEF r
<1>4. RunMoves(c) /\ run'[c] = r
  BY <1>1, <1>2, RunReplaced DEF r
<1>. QED
  BY <1>3, <1>4 DEF Keeps

(* The draft resolved last is the only one that may not be merged yet.      *)
LEMMA ResolveMoves ==
  ASSUME TypeOK, NEW c \in Convs, Ready(run[c]), Resolve(c)
  PROVE  /\ RunMoves(c) /\ run'[c].pc = "embedding" /\ run'[c].known = run[c].known
         /\ \A d \in DOMAIN run'[c].canon :
              \/ run'[c].canon[d] = run'[c].into[1]
              \/ d \in DOMAIN run[c].canon /\ run'[c].canon[d] = run[c].canon[d]
<1>. DEFINE Merging(d, n) ==
       run' = [run EXCEPT ![c].draft = <<d>>, ![c].into = <<n>>, ![c].pc = "embedding",
                          ![c].canon = [x \in DOMAIN @ \cup {d} |-> IF x = d THEN n ELSE @[x]]]
<1>0. PICK d \in Names : \E n \in Canonical(c, d) : Merging(d, n)
  BY DEF Resolve, Extracted
<1>1. PICK n \in Canonical(c, d) : Merging(d, n)
  BY <1>0
<1>. DEFINE f == [x \in DOMAIN run[c].canon \cup {d} |-> IF x = d THEN n ELSE run[c].canon[x]]
            r == [run[c] EXCEPT !.draft = <<d>>, !.into = <<n>>, !.pc = "embedding", !.canon = f]
<1>2. run[c] \in Run
  BY TypeForm
<1>3. n \in Names
  BY TypeForm DEF Canonical, Known, Held, Nearest, VectorStore
<1>4. f \in Canons
  BY <1>2, <1>3, CanonExtends DEF Run
<1>5. r \in Run /\ Ready(r)
  <2>1. run[c].left # 0
    BY DEF Ready, Resolve, At
  <2>2. <<d>> \in Singles /\ <<n>> \in Singles /\ <<d>> # <<>> /\ <<n>> # <<>>
    BY <1>3 DEF Singles
  <2>. HIDE DEF f
  <2>. QED
    BY <1>2, <1>4, <2>1, <2>2 DEF Run, Ready, PCs
<1>6. r.pc = "embedding" /\ r.known = run[c].known /\ r.canon = f /\ r.into[1] = n
  BY <1>2 DEF Run
<1>7. run' = [run EXCEPT ![c] = r]
  BY <1>1
<1>. HIDE DEF r
<1>8. RunMoves(c) /\ run'[c] = r
  BY <1>5, <1>7, RunReplaced
<1>. QED
  BY <1>6, <1>8

LEMMA NextDraftKeeps ==
  ASSUME TypeOK, NEW c \in Convs, Ready(run[c]), At(c, "writing"), NextDraft(c)
  PROVE  Keeps(c) /\ run'[c].pc \in {"resolving", "idle", "relating"}
<1>1. run[c] \in Run
  BY TypeForm
<1>2. CASE run[c].left > 1
  <2>. DEFINE r == [run[c] EXCEPT !.left = @ - 1, !.draft = <<>>, !.into = <<>>, !.pc = "resolving"]
  <2>1. r \in Run /\ Ready(r)
    <3>1. run[c].left - 1 \in 0..MaxLeft /\ run[c].left - 1 # 0
      BY <1>1, <1>2, MaxLeftIs DEF Run
    <3>2. <<>> \in Singles /\ "resolving" \in PCs
      BY DEF Singles, PCs
    <3>. QED
      BY <1>1, <3>1, <3>2 DEF Run, Ready
  <2>2. r.pc = "resolving" /\ r.known = run[c].known /\ r.canon = run[c].canon
    BY <1>1 DEF Run
  <2>3. run' = [run EXCEPT ![c] = r]
    BY <1>2 DEF NextDraft
  <2>. HIDE DEF r
  <2>4. RunMoves(c) /\ run'[c] = r
    BY <2>1, <2>3, RunReplaced
  <2>. QED
    BY <2>2, <2>4 DEF Keeps
<1>3. CASE ~(run[c].left > 1) /\ EndRun(c)
  BY <1>3, EndRunKeeps
<1>4. ASSUME NEW k \in 1..MaxEdges,
             run' = [run EXCEPT ![c] = [Resting EXCEPT !.pc = "relating", !.left = k,
                                                       !.canon = run[c].canon]]
      PROVE  Keeps(c) /\ run'[c].pc = "relating"
  <2>. DEFINE r == [Resting EXCEPT !.pc = "relating", !.left = k, !.canon = run[c].canon]
  <2>1. r \in Run /\ Ready(r)
    <3>1. run[c].canon \in Canons /\ k \in 0..MaxLeft /\ k # 0
      BY <1>1, MaxLeftIs, GraphAssumption DEF Run
    <3>. QED
      BY <3>1, RestingTyped DEF Run, Ready, PCs, Resting
  <2>2. r.pc = "relating" /\ r.known = [n \in Names |-> Absent] /\ r.canon = run[c].canon
    BY DEF Resting
  <2>. HIDE DEF r
  <2>3. RunMoves(c) /\ run'[c] = r
    BY <1>4, <2>1, RunReplaced DEF r
  <2>. QED
    BY <2>2, <2>3 DEF Keeps
<1>. QED
  BY <1>2, <1>3, <1>4 DEF NextDraft

LEMMA WriteEdgeKeeps ==
  ASSUME TypeOK, NEW c \in Convs, Ready(run[c]), WriteEdge(c)
  PROVE  Keeps(c) /\ run'[c].pc \in {"idle", "relating"}
<1>1. run[c] \in Run /\ run[c].left # 0 /\ run[c].pc = "relating"
  BY TypeForm DEF WriteEdge, At, Ready
<1>2. CASE run[c].left = 1
  BY <1>2, EndRunKeeps DEF WriteEdge
<1>3. CASE run[c].left # 1
  <2>. DEFINE r == [run[c] EXCEPT !.left = @ - 1]
  <2>1. r \in Run /\ Ready(r)
    BY <1>1, <1>3, MaxLeftIs DEF Run, Ready, PCs
  <2>2. r.pc = "relating" /\ r.known = run[c].known /\ r.canon = run[c].canon
    BY <1>1 DEF Run
  <2>3. run' = [run EXCEPT ![c] = r]
    BY <1>3 DEF WriteEdge
  <2>. HIDE DEF r
  <2>4. RunMoves(c) /\ run'[c] = r
    BY <2>1, <2>3, RunReplaced
  <2>. QED
    BY <2>2, <2>4 DEF Keeps
<1>. QED
  BY <1>2, <1>3

LEMMA TakeTouchedKeeps ==
  ASSUME TypeOK, NEW c \in Convs, TakeTouched(c)
  PROVE  Keeps(c) /\ run'[c].pc = "fetching"
<1>1. run[c] \in Run /\ touched[c] \in SUBSET Names
  BY TypeForm
<1>. DEFINE r == [run[c] EXCEPT !.pc = "fetching", !.targets = touched[c]]
<1>2. r \in Run /\ Ready(r)
  BY <1>1 DEF Run, Ready, PCs
<1>3. r.pc = "fetching" /\ r.known = run[c].known /\ r.canon = run[c].canon
  BY <1>1 DEF Run
<1>4. run' = [run EXCEPT ![c] = r]
  BY DEF TakeTouched
<1>. HIDE DEF r
<1>5. RunMoves(c) /\ run'[c] = r
  BY <1>2, <1>4, RunReplaced
<1>. QED
  BY <1>3, <1>5 DEF Keeps

LEMMA FetchTargetKeeps ==
  ASSUME TypeOK, NEW c \in Convs, FetchTarget(c)
  PROVE  Keeps(c) /\ run'[c].pc \in {"idle", "fetching", "repairing"}
<1>1. run[c] \in Run
  BY TypeForm
<1>2. CASE run[c].targets = {}
  BY <1>2, EndRunKeeps DEF FetchTarget
<1>3. CASE run[c].targets # {}
  <2>1. PICK n \in run[c].targets :
          run' = [run EXCEPT ![c].targets = @ \ {n}, ![c].draft = <<n>>,
                             ![c].pc = IF graph[n] = Absent THEN "fetching" ELSE "repairing"]
    BY <1>3 DEF FetchTarget
  <2>. DEFINE p == IF graph[n] = Absent THEN "fetching" ELSE "repairing"
              r == [run[c] EXCEPT !.targets = @ \ {n}, !.draft = <<n>>, !.pc = p]
  <2>2. run' = [run EXCEPT ![c] = r]
    BY <2>1
  <2>3. p \in {"fetching", "repairing"} /\ n \in Names
    BY <1>1 DEF Run
  <2>. HIDE DEF p
  <2>4. r \in Run /\ Ready(r)
    BY <1>1, <2>3 DEF Run, Ready, PCs, Singles
  <2>5. r.pc = p /\ r.known = run[c].known /\ r.canon = run[c].canon
    BY <1>1 DEF Run
  <2>. HIDE DEF r
  <2>6. RunMoves(c) /\ run'[c] = r
    BY <2>2, <2>4, RunReplaced
  <2>. QED
    BY <2>3, <2>5, <2>6 DEF Keeps
<1>. QED
  BY <1>2, <1>3

(* Writing or repairing a vector changes nothing a run knows. *)
LEMMA GoKeeps ==
  ASSUME TypeOK, NEW c \in Convs, Ready(run[c]), WriteVector(c) \/ RepairTarget(c)
  PROVE  /\ RunMoves(c) /\ run'[c].known = run[c].known /\ run'[c].canon = run[c].canon
         /\ run'[c].into = run[c].into
         /\ run'[c].pc = IF At(c, "embedding") THEN "writing" ELSE "fetching"
<1>1. run[c] \in Run
  BY TypeForm
<1>2. CASE WriteVector(c)
  <2>1. "writing" \in PCs /\ Go(c, "writing") /\ At(c, "embedding")
    BY <1>2 DEF WriteVector, PCs
  <2>2. RunMoves(c) /\ run'[c] = [run[c] EXCEPT !.pc = "writing"]
    BY <2>1, GoMoves
  <2>. QED
    BY <1>1, <2>1, <2>2 DEF Run
<1>3. CASE RepairTarget(c)
  <2>1. "fetching" \in PCs /\ Go(c, "fetching") /\ ~At(c, "embedding")
    BY <1>3 DEF RepairTarget, PCs, At
  <2>2. RunMoves(c) /\ run'[c] = [run[c] EXCEPT !.pc = "fetching"]
    BY <2>1, GoMoves
  <2>. QED
    BY <1>1, <2>1, <2>2 DEF Run
<1>. QED
  BY <1>2, <1>3

-----------------------------------------------------------------------------
(* The types are kept *)

LEMMA InitTyped == Init => Typed
<1>. SUFFICES ASSUME Init PROVE Typed
  OBVIOUS
<1>1. NoCall \in Call /\ [n \in Names |-> Absent] \in GraphStore
  BY DEF NoCall, Call, CallPCs, Singles, GraphStore
<1>2. TypeOK
  BY <1>1, RestingTyped, TypeForm, GraphAssumption DEF Init, VectorStore, Slots
<1>. QED
  BY <1>2, RestingTyped DEF Init, Typed, NoCall, Slots, Holding

LEMMA WriteEntityTyped ==
  ASSUME Typed, NEW c \in Convs, WriteEntity(c)
  PROVE  /\ Keeps(c) /\ run'[c].pc \in {"resolving", "idle", "relating"}
         /\ Into(c) \in Names /\ Written(c) \in Entity /\ Typed'
<1>1. TypeOK /\ Ready(run[c]) /\ At(c, "writing") /\ run[c].pc = "writing"
  BY DEF Typed, WriteEntity, At
<1>2. Keeps(c) /\ run'[c].pc \in {"resolving", "idle", "relating"}
  BY <1>1, NextDraftKeeps DEF WriteEntity
<1>3. Into(c) \in Names /\ Written(c) \in Entity
  BY <1>1, RunNames, WrittenIs
<1>4. graph' \in GraphStore
  BY <1>1, <1>3, UpsertedIs, TypeForm DEF WriteEntity
<1>5. touched' \in [Convs -> SUBSET Names] /\ lastId' \in Nat
  BY <1>1, <1>3, TypeForm DEF WriteEntity, Touched
<1>6. Typed'
  BY <1>1, <1>2, <1>4, <1>5, TypeForm, TypedByRun DEF WriteEntity, bounds, Keeps
<1>. QED
  BY <1>2, <1>3, <1>6

(* The ends a relation is written with. *)
LEMMA ResolvedIs ==
  ASSUME TypeOK, NEW c \in Convs, NEW n \in Names
  PROVE  Resolved(c, n) \in Names
<1>1. run[c] \in Run
  BY TypeForm
<1>2. run[c].canon \in Canons
  BY <1>1 DEF Run
<1>. QED
  BY <1>2, CanonIs DEF Resolved

LEMMA WriteEdgeTyped ==
  ASSUME Typed, NEW c \in Convs, WriteEdge(c)
  PROVE  Typed'
<1>1. TypeOK /\ Ready(run[c])
  BY DEF Typed
<1>2. RunMoves(c)
  BY <1>1, WriteEdgeKeeps DEF Keeps
<1>3. PICK from \in Names, to \in Names :
        /\ edges' = Linked(<<Resolved(c, from), Resolved(c, to)>>)
        /\ loose' = loose \cup ({from, to} \ DOMAIN run[c].canon)
  BY DEF WriteEdge, Extracted
<1>4. edges' \subseteq Relation
  BY <1>1, <1>3, ResolvedIs, TypeForm DEF Linked, Relation
<1>5. forgotten' \cup loose' \subseteq Names
  BY <1>1, <1>3, TypeForm DEF WriteEdge
<1>. QED
  BY <1>1, <1>2, <1>4, <1>5, TypeForm, TypedByRun DEF WriteEdge, bounds

LEMMA RunTyped ==
  ASSUME Typed, NEW c \in Convs, Distill(c) \/ Repair(c)
  PROVE  Typed'
<1>0. TypeOK /\ Ready(run[c])
  BY DEF Typed
<1>1. CASE Extract(c)
  <2>1. runs[c] \in 0..MaxRuns /\ runs[c] < MaxRuns
    BY <1>0, <1>1, TypeForm DEF Extract
  <2>2. runs[c] + 1 \in 0..MaxRuns
    BY <2>1, GraphAssumption
  <2>3. runs' \in [Convs -> 0..MaxRuns]
    BY <1>0, <1>1, <2>2, TypeForm DEF Extract
  <2>4. RunMoves(c)
    BY <1>0, <1>1, ExtractKeeps DEF Keeps
  <2>. QED
    BY <1>0, <1>1, <2>3, <2>4, TypedByRun, TypeForm DEF Extract, stores
<1>2. CASE Resolve(c)
  BY <1>0, <1>2, ResolveMoves, TypedByRun, TypeForm DEF Resolve, stores, bounds
<1>3. CASE WriteVector(c)
  <2>1. At(c, "embedding") /\ Into(c) \in Names
    BY <1>0, <1>3, RunNames DEF WriteVector, At
  <2>2. vectors' \in VectorStore
    BY <1>0, <1>3, <2>1, TypeForm DEF WriteVector, VectorStore
  <2>. QED
    BY <1>0, <1>3, <2>2, GoKeeps, TypedByRun, TypeForm DEF WriteVector, bounds
<1>4. CASE WriteEntity(c)
  BY <1>4, WriteEntityTyped
<1>5. CASE WriteEdge(c)
  BY <1>5, WriteEdgeTyped
<1>6. CASE FailRun(c)
  BY <1>0, <1>6, EndRunMoves, TypedByRun, TypeForm DEF FailRun, stores, bounds
<1>7. CASE TakeTouched(c)
  <2>1. RunMoves(c) /\ touched' \in [Convs -> SUBSET Names]
    BY <1>0, <1>7, TakeTouchedKeeps, TypeForm DEF Keeps, TakeTouched
  <2>. QED
    BY <1>0, <1>7, <2>1, TypedByRun, TypeForm DEF TakeTouched, stores, bounds
<1>8. CASE FetchTarget(c)
  BY <1>0, <1>8, FetchTargetKeeps, TypedByRun, TypeForm DEF FetchTarget, stores, bounds, Keeps
<1>9. CASE RepairTarget(c)
  <2>1. At(c, "repairing") /\ Draft(c) \in Names
    BY <1>0, <1>9, RunNames DEF RepairTarget, At
  <2>2. vectors' \in VectorStore
    BY <1>0, <1>9, <2>1, TypeForm DEF RepairTarget, VectorStore
  <2>. QED
    BY <1>0, <1>9, <2>2, GoKeeps, TypedByRun, TypeForm DEF RepairTarget, bounds
<1>. QED
  BY <1>1, <1>2, <1>3, <1>4, <1>5, <1>6, <1>7, <1>8, <1>9 DEF Distill, Repair

LEMMA FindMoves ==
  ASSUME TypeOK, NEW n \in Names, NEW u \in Managers, Find(n, u)
  PROVE  /\ CallMoves(<<n, u>>) /\ call'[<<n, u>>].found = graph[n]
         /\ \/ call'[<<n, u>>].pc = "editing" /\ forgotten' = forgotten
            \/ call'[<<n, u>>].pc = "unindexing" /\ forgotten' = forgotten \cup {n}
<1>1. graph[n] \in Entity \cup {Absent} /\ graph[n] # Absent
  BY TypeForm DEF GraphStore, Find
<1>2. ASSUME NEW p \in {"editing", "unindexing"},
             call' = [call EXCEPT ![<<n, u>>] = [NoCall EXCEPT !.pc = p, !.found = graph[n]]]
      PROVE  CallMoves(<<n, u>>) /\ call'[<<n, u>>].found = graph[n] /\ call'[<<n, u>>].pc = p
  <2>. DEFINE r == [NoCall EXCEPT !.pc = p, !.found = graph[n]]
  <2>1. r \in Call /\ r.found = graph[n] /\ r.pc = p
    BY <1>1 DEF NoCall, Call, CallPCs, Singles
  <2>2. PICK k \in Slots : k = <<n, u>>
    BY SlotIs
  <2>3. call' = [call EXCEPT ![k] = r]
    BY <1>2, <2>2
  <2>. HIDE DEF r
  <2>4. Holding(r)
    BY <1>1, <2>1 DEF Holding
  <2>5. CallMoves(k) /\ call'[k] = r
    BY <2>1, <2>3, <2>4, CallReplaced
  <2>. QED
    BY <2>1, <2>2, <2>5
<1>. QED
  BY <1>2 DEF Find

LEMMA CallTyped ==
  ASSUME Typed, NEW n \in Names, NEW u \in Managers, Manage(n, u)
  PROVE  Typed'
<1>0. TypeOK /\ Holding(call[<<n, u>>]) /\ <<n, u>> \in Slots /\ call[<<n, u>>] \in Call
  BY SlotIs, TypeForm DEF Typed
<1>1. CASE Find(n, u)
  <2>1. CallMoves(<<n, u>>) /\ forgotten' \subseteq Names
    BY <1>0, <1>1, FindMoves, TypeForm
  <2>2. calls' \in 0..MaxCalls
    BY <1>0, <1>1, TypeForm, GraphAssumption DEF Find
  <2>. QED
    BY <1>0, <1>1, <2>1, <2>2, TypedByCall, TypeForm DEF Find, stores
<1>2. CASE EditEntity(n, u)
  <2>1. call[<<n, u>>].found \in Entity /\ call[<<n, u>>].found # Absent
    BY <1>0, <1>2 DEF EditEntity, Calling, Call, Holding
  <2>2. graph' \in GraphStore
    BY <1>0, <1>2, <2>1, UpsertedIs, TypeForm DEF EditEntity
  <2>3. CallMoves(<<n, u>>)
    BY <1>0, <1>2, <2>1, StepMoves DEF EditEntity
  <2>. QED
    BY <1>0, <1>2, <2>2, <2>3, TypedByCall, TypeForm DEF EditEntity, bounds
<1>3. CASE RefreshVector(n, u)
  <2>1. CallMoves(<<n, u>>) /\ vectors' \in VectorStore
    BY <1>0, <1>3, ReturnMoves, TypeForm DEF RefreshVector, Refreshed, VectorStore
  <2>. QED
    BY <1>0, <1>3, <2>1, TypedByCall, TypeForm DEF RefreshVector, bounds
<1>4. CASE RemoveVector(n, u)
  <2>1. CallMoves(<<n, u>>)
    BY <1>0, <1>4, StepMoves DEF RemoveVector, Calling, Holding
  <2>2. vectors' \in VectorStore
    BY <1>0, <1>4, TypeForm DEF RemoveVector, VectorStore
  <2>. QED
    BY <1>0, <1>4, <2>1, <2>2, TypedByCall, TypeForm DEF RemoveVector, bounds
<1>5. CASE LocateEntity(n, u)
  <2>1. CallMoves(<<n, u>>)
    BY <1>0, <1>5, LocateMoves
  <2>. QED
    BY <1>0, <1>5, <2>1, TypedByCall, TypeForm DEF LocateEntity, stores, bounds
<1>6. CASE RemoveEntity(n, u)
  <2>1. CallMoves(<<n, u>>)
    BY <1>0, <1>6, ReturnMoves DEF RemoveEntity
  <2>2. graph' \in GraphStore
    BY <1>0, <1>6, TypeForm DEF RemoveEntity, GraphStore
  <2>3. edges' \subseteq Relation
    BY <1>0, <1>6, TypeForm DEF RemoveEntity
  <2>. QED
    BY <1>0, <1>6, <2>1, <2>2, <2>3, TypedByCall, TypeForm DEF RemoveEntity, bounds
<1>7. CASE FailCall(n, u)
  BY <1>0, <1>7, ReturnMoves, TypedByCall, TypeForm DEF FailCall, stores, bounds
<1>. QED
  BY <1>1, <1>2, <1>3, <1>4, <1>5, <1>6, <1>7 DEF Manage, Forget

LEMMA ForgetRelationTyped ==
  ASSUME Typed, ForgetRelation
  PROVE  Typed'
<1>1. TypeOK
  BY DEF Typed
<1>2. /\ edges' \subseteq Relation /\ calls' \in 0..MaxCalls
      /\ UNCHANGED <<graph, vectors, lastId, touched, run, call, runs, forgotten, loose>>
  BY <1>1, TypeForm, GraphAssumption DEF ForgetRelation, Unlinked
<1>3. TypeOK'
  BY <1>1, <1>2, TypeForm DEF TypeOK
<1>. QED
  BY <1>2, <1>3 DEF Typed

LEMMA StepTyped ==
  ASSUME Typed, [Next]_vars
  PROVE  Typed'
<1>1. CASE UNCHANGED vars
  BY <1>1 DEF vars, Typed, TypeOK
<1>. QED
  BY <1>1, RunTyped, CallTyped, ForgetRelationTyped DEF Next

(* Every value keeps its type, in every instance. *)
THEOREM GraphTypes == Spec => []TypeOK
<1>1. Typed /\ [Next]_vars => Typed'
  BY StepTyped
<1>2. Typed => TypeOK
  BY DEF Typed
<1>. QED
  BY <1>1, <1>2, InitTyped, PTL DEF Spec

-----------------------------------------------------------------------------
(* What a step makes of the graph *)

(* It is left alone, written at one name, or loses entities. *)
Writes(n, e) == n \in Names /\ e \in Entity /\ graph' = Upserted(n, e)
Loses        == \A m \in Names : graph'[m] \in {graph[m], Absent}

LEMMA GraphSteps ==
  ASSUME Typed, Next
  PROVE  \/ Loses
         \/ \E c \in Convs : WriteEntity(c) /\ Writes(Into(c), Written(c))
         \/ \E n \in Names, u \in Managers : EditEntity(n, u) /\ Writes(n, call[<<n, u>>].found)
<1>1. ASSUME NEW c \in Convs, Distill(c) \/ Repair(c), ~WriteEntity(c)
      PROVE  graph' = graph
  BY <1>1 DEF Distill, Repair, Extract, Resolve, WriteVector, WriteEdge, FailRun, TakeTouched,
              FetchTarget, RepairTarget, stores
<1>2. ASSUME NEW c \in Convs, WriteEntity(c)
      PROVE  Writes(Into(c), Written(c))
  BY <1>2, WriteEntityTyped DEF Writes, WriteEntity
<1>3. ASSUME NEW n \in Names, NEW u \in Managers, Manage(n, u), ~EditEntity(n, u)
      PROVE  Loses
  <2>1. CASE RemoveEntity(n, u)
    BY <2>1, TypeForm DEF Typed, GraphStore, RemoveEntity, Loses
  <2>2. CASE ~RemoveEntity(n, u)
    BY <1>3, <2>2 DEF Manage, Forget, Find, RefreshVector, RemoveVector, LocateEntity, FailCall, stores, Loses
  <2>. QED
    BY <2>1, <2>2
<1>4. ASSUME NEW n \in Names, NEW u \in Managers, EditEntity(n, u)
      PROVE  Writes(n, call[<<n, u>>].found)
  <2>1. call[<<n, u>>] \in Call /\ Holding(call[<<n, u>>])
    BY SlotIs, TypeForm DEF Typed
  <2>. QED
    BY <1>4, <2>1 DEF EditEntity, Calling, Call, Holding, Writes
<1>5. ForgetRelation => Loses
  BY DEF ForgetRelation, Loses
<1>. QED
  BY <1>1, <1>2, <1>3, <1>4, <1>5 DEF Next, Loses

LEMMA StepKeepsIds ==
  ASSUME Typed, [Next]_vars
  PROVE  [\A n \in Held(graph) : graph'[n] # Absent => graph'[n].id = graph[n].id]_graph
<1>1. CASE UNCHANGED vars
  BY <1>1 DEF vars
<1>2. CASE Next
  <2>1. CASE Loses
    BY <2>1 DEF Loses, Held
  <2>2. ASSUME NEW n, NEW e, Writes(n, e)
        PROVE  \A m \in Held(graph) : graph'[m].id = graph[m].id
    BY <2>2, UpsertedIs, TypeForm DEF Writes, Held, Typed
  <2>. QED
    BY <1>2, <2>1, <2>2, GraphSteps
<1>. QED
  BY <1>1, <1>2

(* An entity keeps its id as long as it is there, whoever writes it and      *)
(* however old the reading the writer works from.                            *)
THEOREM IdsAreStable == Spec => IdentityIsStable
<1>1. Typed /\ [Next]_vars => Typed'
  BY StepTyped
<1>2. Typed /\ [Next]_vars
        => [\A n \in Held(graph) : graph'[n] # Absent => graph'[n].id = graph[n].id]_graph
  BY StepKeepsIds
<1>. QED
  BY <1>1, <1>2, InitTyped, PTL DEF Spec, IdentityIsStable

-----------------------------------------------------------------------------
(* The invariant *)

(* An id is seen under a name by a reader of the graph, by a run that read   *)
(* it before its first draft, and by a call that found it.                   *)
SeenAt(i, n) ==
  \/ graph[n].id = i
  \/ \E u \in Managers : call[<<n, u>>].found.id = i
  \/ \E c \in Convs : run[c].known[n].id = i

(* An id is seen under one name, and none is seen that was not handed out. *)
OneName ==
  \A i \in Nat \ {0}, n \in Names :
     SeenAt(i, n) => i <= lastId /\ \A m \in Names : SeenAt(i, m) => m = n

(* Who is about to put an entity back has seen to its vector, or a forget    *)
(* was called for it. A forget is about to take the entity it was called for.*)
Indexed ==
  /\ EntitiesAreRecallable
  /\ \A c \in Convs : At(c, "writing") => Into(c) \in vectors \cup forgotten
  /\ \A n \in Names, u \in Managers :
       /\ Calling(n, u, "editing") => n \in vectors \cup forgotten
       /\ Calling(n, u, "unindexing") \/ Calling(n, u, "removing") \/ Calling(n, u, "unlinking")
            => n \in forgotten
       /\ Calling(n, u, "unlinking") => call[<<n, u>>].located = <<n>>

(* A draft is merged into an entity of the graph, except the one at hand.    *)
Merged ==
  \A c \in Convs : \A d \in DOMAIN run[c].canon :
     \/ run[c].canon[d] \in Held(graph) \cup forgotten
     \/ (At(c, "embedding") \/ At(c, "writing")) /\ run[c].canon[d] = Into(c)

IInv == Typed /\ OneName /\ Indexed /\ Merged /\ RelationsAreResolved

LEMMA InitIInv == Init => IInv
<1>. SUFFICES ASSUME Init PROVE IInv
  OBVIOUS
<1>1. Typed
  BY InitTyped
<1>2. OneName
  BY DEF Init, OneName, SeenAt, Absent, NoCall, Resting
<1>3. Indexed
  BY DEF Init, Indexed, EntitiesAreRecallable, Held, At, Calling, Resting, NoCall, Slots
<1>4. Merged /\ RelationsAreResolved
  BY DEF Init, Merged, RelationsAreResolved, Resting
<1>. QED
  BY <1>1, <1>2, <1>3, <1>4 DEF IInv

-----------------------------------------------------------------------------
(* Ids *)

(* Nothing is seen that was not seen before. *)
SeesNoMore == \A i \in Nat \ {0}, n \in Names : SeenAt(i, n)' => SeenAt(i, n)

LEMMA OneNameKept ==
  ASSUME OneName, SeesNoMore, lastId \in Nat, lastId' \in {lastId, lastId + 1}
  PROVE  OneName'
BY DEF OneName, SeesNoMore

LEMMA OneNameGrows ==
  ASSUME OneName, lastId \in Nat, lastId' = lastId + 1, NEW n0 \in Names,
         \A i \in Nat \ {0}, n \in Names :
            SeenAt(i, n)' => SeenAt(i, n) \/ (n = n0 /\ i = lastId + 1)
  PROVE  OneName'
<1>. SUFFICES ASSUME NEW i \in Nat \ {0}, NEW n \in Names, SeenAt(i, n)'
              PROVE  i <= lastId' /\ \A m \in Names : SeenAt(i, m)' => m = n
  BY DEF OneName
<1>1. CASE i = lastId + 1
  BY <1>1 DEF OneName
<1>2. CASE i # lastId + 1
  BY <1>2 DEF OneName
<1>. QED
  BY <1>1, <1>2

(* What a run knows without it having moved, or having read the graph. *)
LEMMA RunSees ==
  ASSUME NEW c \in Convs, Keeps(c), call' = call,
         \A n \in Names : graph'[n] = graph[n]
  PROVE  SeesNoMore
<1>. SUFFICES ASSUME NEW i \in Nat \ {0}, NEW n \in Names, SeenAt(i, n)'
              PROVE  SeenAt(i, n)
  BY DEF SeesNoMore
<1>1. CASE graph'[n].id = i
  BY <1>1 DEF SeenAt
<1>2. ASSUME NEW u \in Managers, call'[<<n, u>>].found.id = i
      PROVE  SeenAt(i, n)
  BY <1>2 DEF SeenAt
<1>3. ASSUME NEW d \in Convs, run'[d].known[n].id = i
      PROVE  SeenAt(i, n)
  BY <1>3 DEF SeenAt, Keeps, RunMoves, Absent
<1>. QED
  BY <1>1, <1>2, <1>3 DEF SeenAt

LEMMA RunOneName ==
  ASSUME Typed, OneName, NEW c \in Convs, Distill(c) \/ Repair(c)
  PROVE  OneName'
<1>0. TypeOK /\ Ready(run[c]) /\ lastId \in Nat
  BY TypeForm DEF Typed
<1>1. CASE Extract(c) \/ WriteEdge(c) \/ FailRun(c) \/ TakeTouched(c) \/ FetchTarget(c)
  <2>1. Keeps(c)
    BY <1>0, <1>1, ExtractKeeps, WriteEdgeKeeps, EndRunKeeps, TakeTouchedKeeps, FetchTargetKeeps
       DEF FailRun
  <2>2. call' = call /\ graph' = graph /\ lastId' = lastId
    BY <1>1 DEF Extract, WriteEdge, FailRun, TakeTouched, FetchTarget, stores
  <2>. QED
    BY <1>0, <2>1, <2>2, RunSees, OneNameKept
<1>2. CASE Resolve(c) \/ WriteVector(c) \/ RepairTarget(c)
  <2>1. RunMoves(c) /\ run'[c].known = run[c].known
    BY <1>0, <1>2, ResolveMoves, GoKeeps
  <2>2. call' = call /\ graph' = graph /\ lastId' = lastId
    BY <1>2 DEF Resolve, WriteVector, RepairTarget, stores
  <2>3. SeesNoMore
    BY <2>1, <2>2 DEF SeesNoMore, SeenAt, RunMoves
  <2>. QED
    BY <1>0, <2>2, <2>3, OneNameKept
<1>3. CASE WriteEntity(c)
  <2>. DEFINE n0 == Into(c)
  <2>1. Keeps(c) /\ n0 \in Names /\ Written(c) \in Entity
    BY <1>3, WriteEntityTyped
  <2>2. Written(c).id \in {lastId + 1, run[c].known[n0].id}
    BY <1>0, <1>3, WrittenIs DEF WriteEntity, At
  <2>3. call' = call /\ graph' = Upserted(n0, Written(c)) /\ lastId' = lastId + 1
    BY <1>3 DEF WriteEntity
  <2>. HIDE DEF n0
  <2>4. graph'[n0].id \in {graph[n0].id, Written(c).id} /\ \A m \in Names \ {n0} : graph'[m] = graph[m]
    BY <1>0, <2>1, <2>3, UpsertedIs, TypeForm
  <2>5. \A i \in Nat \ {0}, n \in Names : SeenAt(i, n)' => SeenAt(i, n) \/ (n = n0 /\ i = lastId + 1)
    <3>. SUFFICES ASSUME NEW i \in Nat \ {0}, NEW n \in Names, SeenAt(i, n)'
                  PROVE  SeenAt(i, n) \/ (n = n0 /\ i = lastId + 1)
      OBVIOUS
    <3>1. CASE graph'[n].id = i
      BY <2>2, <2>4, <3>1 DEF SeenAt
    <3>2. ASSUME NEW u \in Managers, call'[<<n, u>>].found.id = i
          PROVE  SeenAt(i, n)
      BY <2>3, <3>2 DEF SeenAt
    <3>3. ASSUME NEW d \in Convs, run'[d].known[n].id = i
          PROVE  SeenAt(i, n)
      BY <2>1, <3>3 DEF SeenAt, Keeps, RunMoves, Absent
    <3>. QED
      BY <3>1, <3>2, <3>3 DEF SeenAt
  <2>. QED
    BY <1>0, <2>1, <2>3, <2>5, OneNameGrows
<1>. QED
  BY <1>1, <1>2, <1>3 DEF Distill, Repair

(* What a call holds after its step, and what the step made of the graph.   *)
LEMMA CallFinds ==
  ASSUME Typed, NEW n \in Names, NEW u \in Managers, Manage(n, u)
  PROVE  CallMoves(<<n, u>>) /\ call'[<<n, u>>].found \in {graph[n], call[<<n, u>>].found, Absent}
<1>0. TypeOK /\ call[<<n, u>>] \in Call /\ Holding(call[<<n, u>>])
  BY SlotIs, TypeForm DEF Typed
<1>1. CASE Find(n, u)
  BY <1>0, <1>1, FindMoves
<1>2. CASE Return(n, u)
  <2>1. CallMoves(<<n, u>>) /\ call'[<<n, u>>] = NoCall
    BY <1>0, <1>2, ReturnMoves
  <2>. QED
    BY <2>1 DEF NoCall
<1>3. ASSUME NEW p \in {"refreshing", "removing"}, Step(n, u, p), call[<<n, u>>].found # Absent
      PROVE  CallMoves(<<n, u>>) /\ call'[<<n, u>>].found = call[<<n, u>>].found
  <2>1. CallMoves(<<n, u>>) /\ call'[<<n, u>>] = [call[<<n, u>>] EXCEPT !.pc = p]
    BY <1>0, <1>3, StepMoves
  <2>. QED
    BY <1>0, <2>1 DEF Call
<1>4. CASE EditEntity(n, u)
  BY <1>0, <1>3, <1>4 DEF EditEntity, Calling, Holding
<1>5. CASE RemoveVector(n, u)
  BY <1>0, <1>3, <1>5 DEF RemoveVector, Calling, Holding
<1>6. CASE LocateEntity(n, u)
  <2>1. CallMoves(<<n, u>>) /\ (call'[<<n, u>>] = NoCall \/ call'[<<n, u>>].found = call[<<n, u>>].found)
    BY <1>0, <1>6, LocateMoves
  <2>. QED
    BY <2>1 DEF NoCall
<1>7. CASE RefreshVector(n, u) \/ RemoveEntity(n, u) \/ FailCall(n, u)
  BY <1>2, <1>7 DEF RefreshVector, RemoveEntity, FailCall
<1>. QED
  BY <1>1, <1>4, <1>5, <1>6, <1>7 DEF Manage, Forget

LEMMA CallOneName ==
  ASSUME Typed, OneName, NEW n \in Names, NEW u \in Managers, Manage(n, u)
  PROVE  OneName'
<1>0. TypeOK /\ lastId \in Nat /\ call[<<n, u>>] \in Call /\ Holding(call[<<n, u>>])
  BY SlotIs, TypeForm DEF Typed
<1>1. run' = run /\ lastId' = lastId
  BY DEF Manage, Forget, Find, EditEntity, RefreshVector, RemoveVector, LocateEntity, RemoveEntity,
         FailCall, stores
<1>2. CallMoves(<<n, u>>) /\ call'[<<n, u>>].found \in {graph[n], call[<<n, u>>].found, Absent}
  BY CallFinds
<1>3. \A m \in Names : \/ graph'[m].id \in {0, graph[m].id}
                       \/ m = n /\ graph'[m].id = call[<<n, u>>].found.id
  <2>1. CASE EditEntity(n, u)
    <3>1. call[<<n, u>>].found \in Entity
      BY <1>0, <2>1 DEF EditEntity, Calling, Call, Holding
    <3>. QED
      BY <1>0, <2>1, <3>1, UpsertedIs, TypeForm DEF EditEntity
  <2>2. CASE RemoveEntity(n, u)
    BY <1>0, <2>2, TypeForm DEF RemoveEntity, Absent, GraphStore
  <2>. QED
    BY <2>1, <2>2 DEF Manage, Forget, Find, RefreshVector, RemoveVector, LocateEntity, FailCall, stores
<1>4. SeesNoMore
  <2>. SUFFICES ASSUME NEW i \in Nat \ {0}, NEW m \in Names, SeenAt(i, m)'
                PROVE  SeenAt(i, m)
    BY DEF SeesNoMore
  <2>1. CASE graph'[m].id = i
    BY <1>3, <2>1 DEF SeenAt
  <2>2. ASSUME NEW w \in Managers, call'[<<m, w>>].found.id = i
        PROVE  SeenAt(i, m)
    <3>1. CASE <<m, w>> = <<n, u>>
      <4>1. m = n /\ w = u
        BY <3>1
      <4>2. call'[<<n, u>>].found.id = i
        BY <2>2, <4>1
      <4>. QED
        BY <1>2, <4>1, <4>2 DEF SeenAt, Absent
    <3>2. CASE <<m, w>> # <<n, u>>
      <4>1. call'[<<m, w>>] = call[<<m, w>>]
        BY <1>2, <3>2, SlotIs DEF CallMoves
      <4>. QED
        BY <2>2, <4>1 DEF SeenAt
    <3>. QED
      BY <3>1, <3>2
  <2>. QED
    BY <1>1, <2>1, <2>2 DEF SeenAt
<1>. QED
  BY <1>0, <1>1, <1>4, OneNameKept

LEMMA StepOneName ==
  ASSUME Typed, OneName, [Next]_vars
  PROVE  OneName'
<1>1. CASE UNCHANGED vars
  BY <1>1 DEF vars, OneName, SeenAt
<1>2. CASE ForgetRelation
  BY <1>2 DEF ForgetRelation, OneName, SeenAt
<1>. QED
  BY <1>1, <1>2, RunOneName, CallOneName DEF Next

-----------------------------------------------------------------------------
(* Nothing that was seen to, or forgotten, is lost again *)

Grown ==
  /\ vectors \cup forgotten \subseteq vectors' \cup forgotten'
  /\ Held(graph) \cup forgotten \subseteq Held(graph') \cup forgotten'
  /\ forgotten \subseteq forgotten' /\ loose \subseteq loose'

(* A forget takes the entity its caller found, and no other. *)
LEMMA LocatesItsOwn ==
  ASSUME Typed, OneName, NEW n \in Names, NEW u \in Managers, LocateEntity(n, u)
  PROVE  HasId(call[<<n, u>>].found.id) \subseteq {n}
<1>1. call[<<n, u>>].found \in Entity
  BY SlotIs, TypeForm DEF Typed, LocateEntity, Calling, Call, Holding
<1>2. call[<<n, u>>].found.id \in Nat \ {0}
  BY <1>1 DEF Entity
<1>3. SeenAt(call[<<n, u>>].found.id, n)
  BY DEF SeenAt
<1>. QED
  BY <1>2, <1>3 DEF OneName, SeenAt, HasId, Held

LEMMA RemovesItsOwn ==
  ASSUME Typed, Indexed, NEW n \in Names, NEW u \in Managers, RemoveEntity(n, u)
  PROVE  n \in forgotten /\ graph' = [graph EXCEPT ![n] = Absent]
<1>1. Calling(n, u, "unlinking") /\ graph' = [graph EXCEPT ![call[<<n, u>>].located[1]] = Absent]
  BY DEF RemoveEntity
<1>2. n \in forgotten /\ call[<<n, u>>].located = <<n>>
  BY <1>1 DEF Indexed
<1>3. call[<<n, u>>].located[1] = n
  BY <1>2
<1>. QED
  BY <1>1, <1>2, <1>3

LEMMA StepGrows ==
  ASSUME Typed, OneName, Indexed, Next
  PROVE  Grown
<1>1. ASSUME NEW c \in Convs, Distill(c) \/ Repair(c), ~WriteEntity(c)
      PROVE  Grown
  BY <1>1 DEF Distill, Repair, Extract, Resolve, WriteVector, WriteEdge, FailRun, TakeTouched,
              FetchTarget, RepairTarget, stores, Grown
<1>2. ASSUME NEW n, NEW e, Writes(n, e) PROVE Held(graph) \subseteq Held(graph')
  BY <1>2, UpsertedIs, TypeForm DEF Writes, Held, Typed
<1>3. ASSUME NEW c \in Convs, WriteEntity(c)
      PROVE  Grown
  <2>1. Held(graph) \subseteq Held(graph')
    BY <1>2, <1>3, WriteEntityTyped DEF Writes, WriteEntity
  <2>. QED
    BY <1>3, <2>1 DEF WriteEntity, Grown
<1>4. ASSUME NEW n \in Names, NEW u \in Managers, Manage(n, u)
      PROVE  Grown
  <2>1. CASE Find(n, u)
    BY <2>1 DEF Find, stores, Grown
  <2>2. CASE EditEntity(n, u)
    <3>0. call[<<n, u>>] \in Call /\ Holding(call[<<n, u>>])
      BY SlotIs, TypeForm DEF Typed
    <3>1. Held(graph) \subseteq Held(graph')
      BY <1>2, <2>2, <3>0 DEF EditEntity, Calling, Call, Holding, Writes
    <3>. QED
      BY <2>2, <3>1 DEF EditEntity, Grown
  <2>3. CASE RefreshVector(n, u)
    BY <2>3 DEF RefreshVector, Refreshed, Grown
  <2>4. CASE RemoveVector(n, u)
    BY <2>4 DEF RemoveVector, Indexed, Grown
  <2>5. CASE LocateEntity(n, u) \/ FailCall(n, u)
    BY <2>5 DEF LocateEntity, FailCall, stores, Grown
  <2>6. CASE RemoveEntity(n, u)
    <3>1. n \in forgotten /\ graph' = [graph EXCEPT ![n] = Absent]
      BY <2>6, RemovesItsOwn
    <3>2. graph \in GraphStore
      BY TypeForm DEF Typed
    <3>3. Held(graph) \subseteq Held(graph') \cup {n}
      BY <3>1, <3>2 DEF GraphStore, Held
    <3>. QED
      BY <2>6, <3>1, <3>3 DEF RemoveEntity, Grown
  <2>. QED
    BY <1>4, <2>1, <2>2, <2>3, <2>4, <2>5, <2>6 DEF Manage, Forget
<1>5. ForgetRelation => Grown
  BY DEF ForgetRelation, Grown
<1>. QED
  BY <1>1, <1>3, <1>4, <1>5 DEF Next

-----------------------------------------------------------------------------
(* Vectors before entities *)

LEMMA RunIndexed ==
  ASSUME Typed, Indexed, Grown, NEW c \in Convs, Distill(c) \/ Repair(c)
  PROVE  Indexed'
<1>0. TypeOK /\ Ready(run[c])
  BY DEF Typed
<1>1. call' = call /\ forgotten' = forgotten
  BY DEF Distill, Repair, Extract, Resolve, WriteVector, WriteEntity, WriteEdge, FailRun,
         TakeTouched, FetchTarget, RepairTarget
<1>2. /\ \A d \in Convs \ {c} : run'[d] = run[d]
      /\ run'[c].pc = "writing" => run'[c].into[1] \in vectors' \cup forgotten'
  <2>1. CASE Extract(c) \/ WriteEdge(c) \/ FailRun(c) \/ TakeTouched(c) \/ FetchTarget(c)
    BY <1>0, <2>1, ExtractKeeps, WriteEdgeKeeps, EndRunKeeps, TakeTouchedKeeps, FetchTargetKeeps
       DEF FailRun, Keeps, RunMoves
  <2>2. CASE Resolve(c)
    BY <1>0, <2>2, ResolveMoves DEF RunMoves
  <2>3. CASE WriteVector(c)
    BY <1>0, <2>3, GoKeeps DEF WriteVector, RunMoves, Into
  <2>4. CASE RepairTarget(c)
    BY <1>0, <2>4, GoKeeps DEF RepairTarget, RunMoves, At
  <2>5. CASE WriteEntity(c)
    BY <2>5, WriteEntityTyped DEF Keeps, RunMoves
  <2>. QED
    BY <2>1, <2>2, <2>3, <2>4, <2>5 DEF Distill, Repair
<1>3. \A d \in Convs : (At(d, "writing") => Into(d) \in vectors \cup forgotten)'
  <2>. SUFFICES ASSUME NEW d \in Convs, run'[d].pc = "writing"
                PROVE  run'[d].into[1] \in vectors' \cup forgotten'
    BY DEF At, Into
  <2>1. CASE d = c
    BY <1>2, <2>1
  <2>2. CASE d # c
    BY <1>2, <2>2 DEF Indexed, Grown, At, Into
  <2>. QED
    BY <2>1, <2>2
<1>4. EntitiesAreRecallable'
  <2>1. CASE WriteEntity(c)
    <3>1. Into(c) \in vectors \cup forgotten
      BY <2>1 DEF Indexed, WriteEntity
    <3>2. Held(graph') \subseteq Held(graph) \cup {Into(c)}
      BY <1>0, <2>1, WriteEntityTyped, UpsertedIs, TypeForm DEF WriteEntity, Held
    <3>. QED
      BY <3>1, <3>2 DEF Indexed, EntitiesAreRecallable, Grown
  <2>2. CASE ~WriteEntity(c)
    <3>1. graph' = graph
      BY <2>2 DEF Distill, Repair, Extract, Resolve, WriteVector, WriteEdge, FailRun, TakeTouched,
                  FetchTarget, RepairTarget, stores
    <3>. QED
      BY <3>1 DEF Indexed, EntitiesAreRecallable, Grown, Held
  <2>. QED
    BY <2>1, <2>2
<1>. QED
  BY <1>1, <1>3, <1>4 DEF Indexed, Calling, Grown

(* What a call that is at a step has seen to. *)
CallReady(n, r, vs, fs) ==
  /\ r.pc = "editing" => n \in vs \cup fs
  /\ r.pc \in {"unindexing", "removing", "unlinking"} => n \in fs
  /\ r.pc = "unlinking" => r.located = <<n>>

LEMMA IndexedForm ==
  Indexed <=> /\ EntitiesAreRecallable
              /\ \A c \in Convs : At(c, "writing") => Into(c) \in vectors \cup forgotten
              /\ \A n \in Names, u \in Managers : CallReady(n, call[<<n, u>>], vectors, forgotten)
BY DEF Indexed, Calling, CallReady

LEMMA CallStaysReady ==
  ASSUME Typed, OneName, Indexed, Grown, NEW n \in Names, NEW u \in Managers, Manage(n, u)
  PROVE  CallReady(n, call'[<<n, u>>], vectors', forgotten')
<1>0. TypeOK /\ call[<<n, u>>] \in Call /\ Holding(call[<<n, u>>])
      /\ CallReady(n, call[<<n, u>>], vectors, forgotten)
  BY SlotIs, TypeForm, IndexedForm DEF Typed
<1>1. CASE Find(n, u)
  <2>1. n \in vectors \cup forgotten
    BY <1>1 DEF Find, Indexed, EntitiesAreRecallable, Held
  <2>2. \/ call'[<<n, u>>].pc = "editing" /\ forgotten' = forgotten
        \/ call'[<<n, u>>].pc = "unindexing" /\ forgotten' = forgotten \cup {n}
    BY <1>0, <1>1, FindMoves
  <2>. QED
    BY <2>1, <2>2 DEF Grown, CallReady
<1>2. CASE Return(n, u)
  <2>1. call'[<<n, u>>] = NoCall
    BY <1>0, <1>2, ReturnMoves
  <2>. QED
    BY <2>1 DEF NoCall, CallReady
<1>3. ASSUME NEW p \in {"refreshing", "removing"}, Step(n, u, p), call[<<n, u>>].found # Absent
      PROVE  call'[<<n, u>>].pc = p
  <2>1. call'[<<n, u>>] = [call[<<n, u>>] EXCEPT !.pc = p]
    BY <1>0, <1>3, StepMoves
  <2>. QED
    BY <1>0, <2>1 DEF Call
<1>4. CASE EditEntity(n, u)
  <2>1. call'[<<n, u>>].pc = "refreshing"
    BY <1>0, <1>3, <1>4 DEF EditEntity, Calling, Holding
  <2>. QED
    BY <2>1 DEF CallReady
<1>5. CASE RemoveVector(n, u)
  <2>1. call'[<<n, u>>].pc = "removing"
    BY <1>0, <1>3, <1>5 DEF RemoveVector, Calling, Holding
  <2>2. n \in forgotten'
    BY <1>0, <1>5 DEF RemoveVector, Calling, CallReady, Grown
  <2>. QED
    BY <2>1, <2>2 DEF CallReady
<1>6. CASE LocateEntity(n, u)
  <2>1. n \in forgotten'
    BY <1>0, <1>6 DEF LocateEntity, Calling, CallReady, Grown
  <2>2. \/ call'[<<n, u>>] = NoCall
        \/ call'[<<n, u>>].pc = "unlinking" /\ call'[<<n, u>>].located = <<n>>
    BY <1>0, <1>6, LocateMoves, LocatesItsOwn
  <2>. QED
    BY <2>1, <2>2 DEF NoCall, CallReady
<1>7. CASE RefreshVector(n, u) \/ RemoveEntity(n, u) \/ FailCall(n, u)
  BY <1>2, <1>7 DEF RefreshVector, RemoveEntity, FailCall
<1>. QED
  BY <1>1, <1>4, <1>5, <1>6, <1>7 DEF Manage, Forget

LEMMA CallIndexed ==
  ASSUME Typed, OneName, Indexed, Grown, NEW n \in Names, NEW u \in Managers, Manage(n, u)
  PROVE  Indexed'
<1>0. TypeOK /\ call[<<n, u>>] \in Call /\ Holding(call[<<n, u>>])
  BY SlotIs, TypeForm DEF Typed
<1>1. run' = run
  BY DEF Manage, Forget, Find, EditEntity, RefreshVector, RemoveVector, LocateEntity, RemoveEntity, FailCall
<1>2. EntitiesAreRecallable'
  <2>1. CASE EditEntity(n, u)
    <3>1. n \in vectors \cup forgotten /\ call[<<n, u>>].found \in Entity
      BY <1>0, <2>1 DEF EditEntity, Indexed, Calling, Call, Holding
    <3>2. Held(graph') \subseteq Held(graph) \cup {n}
      BY <1>0, <2>1, <3>1, UpsertedIs, TypeForm DEF EditEntity, Held
    <3>. QED
      BY <3>1, <3>2 DEF Indexed, EntitiesAreRecallable, Grown
  <2>2. CASE RemoveEntity(n, u)
    <3>1. graph' = [graph EXCEPT ![n] = Absent] /\ graph \in GraphStore
      BY <1>0, <2>2, RemovesItsOwn, TypeForm
    <3>2. Held(graph') \subseteq Held(graph)
      BY <3>1 DEF GraphStore, Held
    <3>. QED
      BY <3>2 DEF Indexed, EntitiesAreRecallable, Grown
  <2>3. CASE ~EditEntity(n, u) /\ ~RemoveEntity(n, u)
    <3>1. graph' = graph
      BY <2>3 DEF Manage, Forget, Find, RefreshVector, RemoveVector, LocateEntity, FailCall, stores
    <3>. QED
      BY <3>1 DEF Indexed, EntitiesAreRecallable, Grown, Held
  <2>. QED
    BY <2>1, <2>2, <2>3
<1>3. \A c \in Convs : (At(c, "writing") => Into(c) \in vectors \cup forgotten)'
  BY <1>1 DEF Indexed, Grown, At, Into
<1>4. ASSUME NEW m \in Names, NEW w \in Managers
      PROVE  CallReady(m, call'[<<m, w>>], vectors', forgotten')
  <2>1. CASE <<m, w>> = <<n, u>>
    <3>1. m = n /\ w = u
      BY <2>1
    <3>. QED
      BY <3>1, CallStaysReady
  <2>2. CASE <<m, w>> # <<n, u>>
    <3>1. call'[<<m, w>>] = call[<<m, w>>]
      BY <2>2, CallFinds, SlotIs DEF CallMoves
    <3>2. CallReady(m, call[<<m, w>>], vectors, forgotten)
      BY IndexedForm
    <3>. QED
      BY <3>1, <3>2 DEF CallReady, Grown
  <2>. QED
    BY <2>1, <2>2
<1>. QED
  BY <1>2, <1>3, <1>4 DEF Indexed, Calling, CallReady

LEMMA ForgetRelationIndexed ==
  ASSUME Indexed, ForgetRelation
  PROVE  Indexed'
BY DEF ForgetRelation, Indexed, EntitiesAreRecallable, Held, At, Into, Calling

-----------------------------------------------------------------------------
(* Relations end where their drafts were merged *)

LEMMA RunMerged ==
  ASSUME Typed, Merged, Grown, NEW c \in Convs, Distill(c) \/ Repair(c)
  PROVE  Merged'
<1>0. TypeOK /\ Ready(run[c])
  BY DEF Typed
<1>. DEFINE Kept == Held(graph') \cup forgotten'
<1>1. /\ RunMoves(c)
      /\ \A d \in DOMAIN run'[c].canon :
           \/ run'[c].canon[d] \in Kept
           \/ run'[c].pc \in {"embedding", "writing"} /\ run'[c].canon[d] = run'[c].into[1]
  <2>1. ASSUME Keeps(c), ~At(c, "embedding"), ~At(c, "writing")
        PROVE  RunMoves(c) /\ \A d \in DOMAIN run'[c].canon : run'[c].canon[d] \in Kept
    BY <2>1 DEF Keeps, Merged, Grown
  <2>2. CASE Extract(c) \/ WriteEdge(c) \/ TakeTouched(c) \/ FetchTarget(c)
    <3>1. Keeps(c)
      BY <1>0, <2>2, ExtractKeeps, WriteEdgeKeeps, TakeTouchedKeeps, FetchTargetKeeps
    <3>2. ~At(c, "embedding") /\ ~At(c, "writing")
      BY <2>2 DEF Extract, WriteEdge, TakeTouched, FetchTarget, At
    <3>. QED
      BY <2>1, <3>1, <3>2
  <2>3. CASE FailRun(c)
    BY <1>0, <2>3, EndRunMoves DEF FailRun, Resting
  <2>4. CASE Resolve(c)
    <3>1. \A d \in DOMAIN run[c].canon : run[c].canon[d] \in Kept
      BY <2>4 DEF Resolve, At, Merged, Grown
    <3>. QED
      BY <1>0, <2>4, <3>1, ResolveMoves
  <2>5. CASE WriteVector(c)
    <3>1. /\ RunMoves(c) /\ run'[c].canon = run[c].canon /\ run'[c].into = run[c].into
          /\ run'[c].pc = "writing"
      BY <1>0, <2>5, GoKeeps DEF WriteVector
    <3>. QED
      BY <3>1 DEF Merged, Grown, Into
  <2>6. CASE RepairTarget(c)
    <3>1. RunMoves(c) /\ run'[c].canon = run[c].canon
      BY <1>0, <2>6, GoKeeps
    <3>2. ~At(c, "embedding") /\ ~At(c, "writing")
      BY <2>6 DEF RepairTarget, At
    <3>. QED
      BY <3>1, <3>2 DEF Merged, Grown
  <2>7. CASE WriteEntity(c)
    <3>1. Keeps(c) /\ Into(c) \in Held(graph')
      BY <1>0, <2>7, WriteEntityTyped, UpsertedIs, TypeForm DEF WriteEntity, Held
    <3>. QED
      BY <3>1 DEF Keeps, Merged, Grown
  <2>. QED
    BY <2>2, <2>3, <2>4, <2>5, <2>6, <2>7 DEF Distill, Repair
<1>2. \A d \in Convs \ {c} : run'[d] = run[d]
  BY <1>1 DEF RunMoves
<1>3. SUFFICES ASSUME NEW d \in Convs, NEW x \in DOMAIN run'[d].canon
               PROVE  \/ run'[d].canon[x] \in Kept
                      \/ /\ run'[d].pc \in {"embedding", "writing"}
                         /\ run'[d].canon[x] = run'[d].into[1]
  BY DEF Merged, At, Into
<1>4. CASE d = c
  BY <1>1, <1>4
<1>5. CASE d # c
  BY <1>2, <1>5 DEF Merged, Grown, At, Into
<1>. QED
  BY <1>4, <1>5

LEMMA StepMerged ==
  ASSUME Typed, Merged, Grown, Next
  PROVE  Merged'
<1>1. CASE run' = run
  BY <1>1 DEF Merged, Grown, At, Into
<1>2. ASSUME NEW n \in Names, NEW u \in Managers, Manage(n, u)
      PROVE  run' = run
  BY <1>2 DEF Manage, Forget, Find, EditEntity, RefreshVector, RemoveVector, LocateEntity, RemoveEntity, FailCall
<1>3. ForgetRelation => run' = run
  BY DEF ForgetRelation
<1>. QED
  BY <1>1, <1>2, <1>3, RunMerged DEF Next

LEMMA StepRelations ==
  ASSUME Typed, Merged, RelationsAreResolved, Grown, Next
  PROVE  RelationsAreResolved'
<1>1. ASSUME edges' \subseteq edges PROVE RelationsAreResolved'
  BY <1>1 DEF RelationsAreResolved, Grown
<1>2. ASSUME NEW c \in Convs, WriteEdge(c) PROVE RelationsAreResolved'
  <2>1. PICK from \in Names, to \in Names :
          /\ edges' = Linked(<<Resolved(c, from), Resolved(c, to)>>)
          /\ loose' = loose \cup ({from, to} \ DOMAIN run[c].canon)
    BY <1>2 DEF WriteEdge, Extracted
  <2>2. \A x \in {from, to} : Resolved(c, x) \in Held(graph') \cup forgotten' \cup loose'
    BY <1>2, <2>1 DEF WriteEdge, At, Resolved, Merged, Grown
  <2>. HIDE DEF Resolved
  <2>3. \A e \in edges' : \/ e \in edges
                          \/ e[1] = Resolved(c, from) /\ e[2] = Resolved(c, to)
    BY <2>1 DEF Linked
  <2>. QED
    BY <2>2, <2>3 DEF RelationsAreResolved, Grown
<1>3. ASSUME NEW c \in Convs, Distill(c) \/ Repair(c), ~WriteEdge(c) PROVE edges' = edges
  BY <1>3 DEF Distill, Repair, Extract, Resolve, WriteVector, WriteEntity, FailRun, TakeTouched,
              FetchTarget, RepairTarget, stores
<1>4. ASSUME NEW n \in Names, NEW u \in Managers, Manage(n, u) PROVE edges' \subseteq edges
  BY <1>4 DEF Manage, Forget, Find, EditEntity, RefreshVector, RemoveVector, LocateEntity, RemoveEntity,
              FailCall, stores
<1>5. ForgetRelation => edges' \subseteq edges
  BY DEF ForgetRelation, Unlinked
<1>. QED
  BY <1>1, <1>2, <1>3, <1>4, <1>5 DEF Next

-----------------------------------------------------------------------------
LEMMA StepIInv == IInv /\ [Next]_vars => IInv'
<1>. SUFFICES ASSUME IInv, [Next]_vars PROVE IInv'
  OBVIOUS
<1>1. Typed' /\ OneName'
  BY StepTyped, StepOneName DEF IInv
<1>2. CASE UNCHANGED vars
  <2>1. Indexed'
    BY <1>2 DEF IInv, vars, Indexed, EntitiesAreRecallable, Held, At, Into, Calling
  <2>2. Merged' /\ RelationsAreResolved'
    BY <1>2 DEF IInv, vars, Merged, RelationsAreResolved, Held, At, Into
  <2>. QED
    BY <1>1, <2>1, <2>2 DEF IInv
<1>3. CASE Next
  <2>1. Grown
    BY <1>3, StepGrows DEF IInv
  <2>2. Indexed'
    BY <1>3, <2>1, RunIndexed, CallIndexed, ForgetRelationIndexed DEF IInv, Next
  <2>3. Merged' /\ RelationsAreResolved'
    BY <1>3, <2>1, StepMerged, StepRelations DEF IInv
  <2>. QED
    BY <1>1, <2>2, <2>3 DEF IInv
<1>. QED
  BY <1>2, <1>3

(* Every entity that no forget was called for can be recalled, and every     *)
(* relation whose ends were drafted ends at what the drafts were merged      *)
(* into: however many conversations distill, fail and repair at once.        *)
THEOREM EverythingIsReachable == Spec => []GraphIsReachable
<1>1. IInv => GraphIsReachable
  BY DEF IInv, Indexed, GraphIsReachable
<1>. QED
  BY <1>1, InitIInv, StepIInv, PTL DEF Spec

-----------------------------------------------------------------------------
(* The order of the listings, and a page of them *)

Records == [at : Nat, id : Nat]

(* The order of the listings is a strict total order. *)
LEMMA PrecedesIsStrict ==
  /\ \A a \in Records : ~Precedes(a, a)
  /\ \A a, b, c \in Records : Precedes(a, b) /\ Precedes(b, c) => Precedes(a, c)
  /\ \A a, b \in Records : a = b \/ Precedes(a, b) \/ Precedes(b, a)
<1>1. \A a, b \in Records : a.at = b.at /\ a.id = b.id => a = b
  BY DEF Records
<1>. QED
  BY <1>1 DEF Precedes, Records

(* To be after a cursor is to be preceded by it. *)
LEMMA AfterIsPrecedes ==
  ASSUME NEW a \in Records, NEW b \in Records
  PROVE  IsAfter(a, b) <=> Precedes(b, a)
BY DEF IsAfter, Precedes, Records

(* A finite set of records has a ranking: each at one more than the number   *)
(* of those before it.                                                       *)
LEMMA RankingExists ==
  ASSUME NEW S, IsFiniteSet(S), S \subseteq Records
  PROVE  \E s \in SetToSeqs(S) : \A j, k \in DOMAIN s : j < k => Precedes(s[j], s[k])
<1>. DEFINE N == Cardinality(S)
            Before(x) == {y \in S : Precedes(y, x)}
            rank == [x \in S |-> Cardinality(Before(x)) + 1]
<1>1. N \in Nat
  BY FS_CardinalityType
<1>2. \A x \in S : IsFiniteSet(Before(x)) /\ Cardinality(Before(x)) \in Nat /\ Cardinality(Before(x)) + 1 <= N
  <2>. TAKE x \in S
  <2>1. IsFiniteSet(S \ {x}) /\ Cardinality(S \ {x}) = N - 1
    BY FS_RemoveElement
  <2>2. Before(x) \in SUBSET (S \ {x})
    BY PrecedesIsStrict
  <2>3. IsFiniteSet(Before(x)) /\ Cardinality(Before(x)) <= N - 1
    BY <2>1, <2>2, FS_Subset
  <2>. QED
    BY <1>1, <2>3, FS_CardinalityType
<1>3. \A x, y \in S : Precedes(x, y) => rank[x] < rank[y]
  <2>. SUFFICES ASSUME NEW x \in S, NEW y \in S, Precedes(x, y) PROVE rank[x] < rank[y]
    OBVIOUS
  <2>1. IsFiniteSet(Before(x)) /\ IsFiniteSet(Before(y))
    BY <1>2
  <2>2. x \notin Before(x) /\ Before(x) \cup {x} \in SUBSET Before(y)
    BY PrecedesIsStrict
  <2>3. Cardinality(Before(x) \cup {x}) = Cardinality(Before(x)) + 1
    BY <2>1, <2>2, FS_AddElement
  <2>4. Cardinality(Before(x) \cup {x}) <= Cardinality(Before(y))
    BY <2>1, <2>2, FS_Subset
  <2>. QED
    <3>. HIDE DEF Before
    <3>. QED
      BY <1>2, <2>3, <2>4
<1>4. rank \in [S -> 1..N]
  <2>. HIDE DEF N, Before
  <2>. QED
    BY <1>1, <1>2
<1>. HIDE DEF rank
<1>5. \A x, y \in S : rank[x] = rank[y] => x = y
  BY <1>3, <1>4, PrecedesIsStrict
<1>6. \A k \in 1..N : \E x \in S : rank[x] = k
  <2>1. rank \in Injection(S, 1..N)
    BY <1>4, <1>5 DEF Injection, IsInjective
  <2>2. IsFiniteSet(1..N) /\ Cardinality(1..N) = N
    BY <1>1, FS_Interval
  <2>3. rank \in Surjection(S, 1..N)
    BY <2>1, <2>2, FS_Injection
  <2>. QED
    BY <2>3 DEF Surjection
<1>. DEFINE s == [k \in 1..N |-> CHOOSE x \in S : rank[x] = k]
<1>7. \A k \in 1..N : s[k] \in S /\ rank[s[k]] = k
  BY <1>6
<1>8. s \in [1..N -> S]
  BY <1>7
<1>. HIDE DEF s
<1>9. \A j, k \in 1..N : j # k => s[j] # s[k]
  BY <1>7
<1>10. \A j, k \in 1..N : j < k => Precedes(s[j], s[k])
  <2>. SUFFICES ASSUME NEW j \in 1..N, NEW k \in 1..N, j < k PROVE Precedes(s[j], s[k])
    OBVIOUS
  <2>1. ~Precedes(s[k], s[j])
    BY <1>1, <1>3, <1>7
  <2>. QED
    BY <1>1, <1>7, <1>9, <2>1, PrecedesIsStrict
<1>11. s \in SetToSeqs(S)
  BY <1>8, <1>9 DEF SetToSeqs
<1>. QED
  BY <1>8, <1>10, <1>11

(* A ranking has each of its records at one place, and in order. *)
LEMMA RankedIs ==
  ASSUME NEW S, IsFiniteSet(S), S \subseteq Records
  PROVE  /\ Cardinality(S) \in Nat /\ Ranked(S) \in [1..Cardinality(S) -> S]
         /\ \A j, k \in 1..Cardinality(S) : j < k => Precedes(Ranked(S)[j], Ranked(S)[k])
         /\ \A x \in S : \E k \in 1..Cardinality(S) : Ranked(S)[k] = x
<1>. DEFINE N == Cardinality(S)
            s == Ranked(S)
<1>1. N \in Nat
  BY FS_CardinalityType
<1>2. s \in SetToSeqs(S) /\ \A j, k \in DOMAIN s : j < k => Precedes(s[j], s[k])
  BY RankingExists DEF Ranked
<1>. HIDE DEF s
<1>3. s \in [1..N -> S] /\ \A j, k \in 1..N : j # k => s[j] # s[k]
  BY <1>2 DEF SetToSeqs
<1>4. \A x \in S : \E k \in 1..N : s[k] = x
  <2>1. s \in Injection(1..N, S)
    BY <1>3 DEF Injection, IsInjective
  <2>2. Cardinality(1..N) = N
    BY <1>1, FS_Interval
  <2>3. s \in Surjection(1..N, S)
    BY <2>1, <2>2, FS_Injection
  <2>. QED
    BY <2>3 DEF Surjection
<1>. QED
  BY <1>1, <1>2, <1>3, <1>4 DEF s

(* The ids a page may still list.                                            *)
Past(f, cursor) == {i \in DOMAIN f : cursor = None \/ IsAfter(Item(f, i), cursor)}

(* A store, or a part of one: times by id, and no id is 0.                   *)
Entries(f) ==
  /\ IsFiniteSet(DOMAIN f) /\ DOMAIN f \subseteq Nat \ {0}
  /\ f = [i \in DOMAIN f |-> f[i]] /\ \A i \in DOMAIN f : f[i] \in Nat

(* A page lists what is past the cursor, each id once and in order; its own  *)
(* cursor splits what is past the old one into the listed and the rest.      *)
Pages(f, cursor, limit, page) ==
  /\ page.items \in Seq(Records) /\ Len(page.items) <= limit
  /\ \A k \in 1..Len(page.items) :
       page.items[k].id \in Past(f, cursor) /\ page.items[k] = Item(f, page.items[k].id)
  /\ \A j, k \in 1..Len(page.items) : page.items[j].id = page.items[k].id => j = k
  /\ page.next = None /\ limit > 0 =>
       \A i \in Past(f, cursor) : \E k \in 1..Len(page.items) : page.items[k].id = i
  /\ page.next # None =>
       /\ \E i \in Past(f, cursor) : page.next = Item(f, i)
       /\ \A k \in 1..Len(page.items) : ~IsAfter(page.items[k], page.next)
       /\ \A i \in Past(f, cursor) : \/ \E k \in 1..Len(page.items) : page.items[k].id = i
                                     \/ IsAfter(Item(f, i), page.next)

LEMMA ItemIs ==
  ASSUME NEW f, Entries(f), NEW i \in DOMAIN f
  PROVE  Item(f, i) \in Records /\ Item(f, i) # None /\ Item(f, i).id = i /\ Item(f, i).at = f[i]
BY DEF Entries, Item, None, Records

LEMMA PastIsFinite ==
  ASSUME NEW f, Entries(f), NEW cursor
  PROVE  LET S == {item \in Items(f) : cursor = None \/ IsAfter(item, cursor)} IN
         IsFiniteSet(S) /\ S \subseteq Records
<1>. DEFINE S == {item \in Items(f) : cursor = None \/ IsAfter(item, cursor)}
            g == [i \in DOMAIN f |-> Item(f, i)]
<1>1. g \in Surjection(DOMAIN f, Items(f))
  BY DEF Surjection, Items
<1>. HIDE DEF g
<1>2. IsFiniteSet(DOMAIN f)
  BY DEF Entries
<1>3. IsFiniteSet(Items(f))
  BY <1>1, <1>2, FS_Surjection
<1>4. S \in SUBSET Items(f)
  OBVIOUS
<1>5. Items(f) \subseteq Records
  BY ItemIs DEF Items
<1>. HIDE DEF S
<1>6. IsFiniteSet(S)
  BY <1>3, <1>4, FS_Subset
<1>. QED
  BY <1>4, <1>5, <1>6 DEF S

(* page_of returns a page. *)
LEMMA PageIs ==
  ASSUME NEW f, Entries(f), NEW cursor \in Records, NEW limit \in Nat
  PROVE  Pages(f, cursor, limit, PageOf(f, cursor, limit))
<1>. DEFINE S == {item \in Items(f) : cursor = None \/ IsAfter(item, cursor)}
            N == Cardinality(S)
            rest == Ranked(S)
            take == IF N < limit THEN N ELSE limit
            page == PageOf(f, cursor, limit)
            items == page.items
<1>1. IsFiniteSet(S) /\ S \subseteq Records
  BY PastIsFinite
<1>2. /\ S = {Item(f, i) : i \in Past(f, cursor)}
      /\ \A i \in Past(f, cursor) : i \in DOMAIN f
  BY DEF Past, Items
<1>. HIDE DEF S
<1>3. /\ N \in Nat /\ rest \in [1..N -> S]
      /\ \A j, k \in 1..N : j < k => Precedes(rest[j], rest[k])
      /\ \A x \in S : \E k \in 1..N : rest[k] = x
  BY <1>1, RankedIs
<1>. HIDE DEF N, rest
<1>4. rest \in Seq(S) /\ Len(rest) = N
  BY <1>3
<1>5. /\ take \in 0..N /\ take <= limit /\ (take \in 1..(N - 1) => N > take /\ take \in 1..N)
      /\ (limit > 0 /\ take \notin 1..(N - 1) => take = N)
  BY <1>3
<1>6. /\ items = SubSeq(rest, 1, take)
      /\ page.next = IF take \in 1..(N - 1) THEN rest[take] ELSE None
  BY <1>4 DEF PageOf, S, rest
<1>. HIDE DEF take, page
<1>7. /\ items \in Seq(S) /\ Len(items) = take
      /\ \A k \in 1..take : items[k] = rest[k]
  <2>1. \A i \in 1..take : rest[i] \in S
    BY <1>3, <1>5
  <2>2. /\ SubSeq(rest, 1, take) \in Seq(S)
        /\ Len(SubSeq(rest, 1, take)) = IF 1 <= take THEN take - 1 + 1 ELSE 0
        /\ \A i \in 1..(take - 1 + 1) : SubSeq(rest, 1, take)[i] = rest[1 + i - 1]
    BY <2>1, <1>5, SubSeqProperties
  <2>. QED
    BY <2>2, <1>5, <1>6
<1>8. \A x \in S : x \in Records /\ x.id \in Past(f, cursor) /\ x = Item(f, x.id) /\ x # None
  BY <1>1, <1>2, ItemIs
<1>9. items \in Seq(Records)
  BY <1>1, <1>7, SeqMonotonic
<1>10. \A k \in 1..take : items[k] = rest[k] /\ rest[k] \in S
  BY <1>3, <1>5, <1>7
<1>11. \A k \in 1..take : items[k].id \in Past(f, cursor) /\ items[k] = Item(f, items[k].id)
  BY <1>8, <1>10
<1>12. \A j, k \in 1..N : rest[j].id = rest[k].id => j = k
  <2>. SUFFICES ASSUME NEW j \in 1..N, NEW k \in 1..N, rest[j].id = rest[k].id PROVE j = k
    OBVIOUS
  <2>1. rest[j] = rest[k] /\ rest[j] \in Records
    BY <1>3, <1>8
  <2>2. ~(j < k) /\ ~(k < j)
    BY <2>1, <1>3, PrecedesIsStrict
  <2>. QED
    BY <2>2, <1>3
<1>13. \A j, k \in 1..take : items[j].id = items[k].id => j = k
  <2>1. \A k \in 1..take : k \in 1..N
    BY <1>5, <1>3
  <2>. QED
    BY <2>1, <1>10, <1>12
<1>14. \A i \in Past(f, cursor) : \E k \in 1..N : rest[k] = Item(f, i) /\ rest[k].id = i
  <2>. TAKE i \in Past(f, cursor)
  <2>1. Item(f, i) \in S
    BY <1>2
  <2>2. Item(f, i).id = i
    BY <1>2, ItemIs
  <2>. QED
    BY <2>1, <2>2, <1>3
<1>15. ASSUME page.next = None, limit > 0
       PROVE  \A i \in Past(f, cursor) : \E k \in 1..take : items[k].id = i
  <2>1. take \notin 1..(N - 1)
    BY <1>15, <1>3, <1>5, <1>6, <1>8
  <2>3. take = N
    BY <2>1, <1>15, <1>5
  <2>. QED
    BY <2>3, <1>10, <1>14
<1>16. ASSUME page.next # None
       PROVE  /\ \E i \in Past(f, cursor) : page.next = Item(f, i)
              /\ \A k \in 1..take : ~IsAfter(items[k], page.next)
              /\ \A i \in Past(f, cursor) : (\E k \in 1..take : items[k].id = i) \/ IsAfter(Item(f, i), page.next)
  <2>1. N > take /\ page.next = rest[take] /\ take \in 1..N
    BY <1>16, <1>5, <1>6
  <2>2. rest[take] \in S /\ rest[take] \in Records
    BY <2>1, <1>3, <1>8
  <2>3. ASSUME NEW k \in 1..take PROVE ~IsAfter(items[k], page.next)
    <3>1. items[k] = rest[k] /\ rest[k] \in Records
      BY <1>8, <1>10
    <3>2. k = take \/ Precedes(rest[k], rest[take])
      BY <2>1, <1>3
    <3>3. ~Precedes(rest[take], rest[k])
      BY <3>1, <3>2, <2>2, PrecedesIsStrict
    <3>. QED
      BY <3>1, <3>3, <2>1, <2>2, AfterIsPrecedes
  <2>4. ASSUME NEW i \in Past(f, cursor), ~ \E k \in 1..take : items[k].id = i
        PROVE  IsAfter(Item(f, i), page.next)
    <3>1. PICK k \in 1..N : rest[k] = Item(f, i) /\ rest[k].id = i
      BY <1>14
    <3>2. take < k
      BY <2>4, <3>1, <1>3, <1>5, <1>10
    <3>3. Precedes(rest[take], rest[k]) /\ rest[k] \in Records
      BY <3>2, <2>1, <1>3, <1>8
    <3>. QED
      BY <3>1, <3>3, <2>1, <2>2, AfterIsPrecedes
  <2>. QED
    BY <2>1, <2>2, <2>3, <2>4, <1>8
<1>. HIDE DEF items
<1>. QED
  BY <1>5, <1>7, <1>9, <1>11, <1>13, <1>15, <1>16 DEF Pages, items, page

Upserting(id, at) == [i \in Present \cup {id} |-> IF i = id THEN at ELSE store[i]]

LEMMA NoneIs == None \in Records
BY DEF None, Records

(* An upsert writes its entry, keeps the others or drops them, and keeps to the capacity. *)
LEMMA UpsertIs ==
  ASSUME FaceAssumption, Entries(store), NEW id \in Nat \ {0}, NEW at \in Nat
  PROVE  /\ Entries(Upsert(id, at)) /\ DOMAIN Upsert(id, at) \subseteq Present \cup {id}
         /\ \A i \in DOMAIN Upsert(id, at) : Upsert(id, at)[i] = IF i = id THEN at ELSE store[i]
         /\ Cardinality(DOMAIN Upsert(id, at)) <= Capacity
<1>. DEFINE new == Upserting(id, at)
            page == PageOf(new, None, Capacity)
            n == Len(page.items)
            best == {item.id : item \in Range(page.items)}
            ident == [k \in 1..n |-> page.items[k].id]
<1>1. /\ IsFiniteSet(Present \cup {id}) /\ DOMAIN new = Present \cup {id}
      /\ \A i \in DOMAIN new : new[i] \in Nat /\ new[i] = IF i = id THEN at ELSE store[i]
  BY FS_AddElement DEF Entries, Upserting, Present
<1>2. Entries(new)
  BY <1>1 DEF Entries, Upserting, Present
<1>3. Upsert(id, at) = [i \in best |-> new[i]]
  BY DEF Upsert, Upserting
<1>. HIDE DEF new
<1>4. Pages(new, None, Capacity, page)
  BY <1>2, NoneIs, PageIs DEF FaceAssumption
<1>. HIDE DEF page
<1>5. /\ n \in Nat /\ n <= Capacity /\ DOMAIN page.items = 1..n
      /\ \A k \in 1..n : page.items[k].id \in DOMAIN new
  BY <1>4, LenProperties DEF Pages, Past
<1>6. ident \in Surjection(1..n, best)
  <2>1. best = {page.items[k].id : k \in 1..n}
    BY <1>5 DEF Range
  <2>2. ident \in [1..n -> best]
    BY <2>1
  <2>. QED
    BY <2>1, <2>2 DEF Surjection
<1>7. best \subseteq DOMAIN new
  BY <1>5 DEF Range
<1>. HIDE DEF best, ident
<1>8. IsFiniteSet(1..n) /\ Cardinality(1..n) = n
  BY <1>5, FS_Interval
<1>9. IsFiniteSet(best) /\ Cardinality(best) <= n
  BY <1>6, <1>8, FS_Surjection
<1>10. Cardinality(best) <= Capacity
  BY <1>5, <1>9, FS_CardinalityType DEF FaceAssumption
<1>. QED
  BY <1>1, <1>2, <1>3, <1>7, <1>9, <1>10 DEF Entries

-----------------------------------------------------------------------------
(* What the variables hold, given the ids handed out and the time *)

Lists == [pc : {"closed", "open", "done"}, limit : Nat, cursor : Records, seen : Seq(Ids)]
Work  == [pc : {"free", "editing", "writing", "removing", "unlinking"}, todo : Seq(Entry), gone : SUBSET Entry, at : Nat]

StoreFits(s, I, t) ==
  Entries(s) /\ DOMAIN s \subseteq I /\ Cardinality(DOMAIN s) <= Capacity /\ \A i \in DOMAIN s : s[i] <= t

ListingFits(l, I) ==
  /\ l \in Lists
  /\ \A k \in 1..Len(l.seen) : l.seen[k] \in I

GraphFits(g, t) == DOMAIN g \subseteq Entities /\ \A i \in DOMAIN g : g[i] \in Nat /\ g[i] <= t

(* A call works on distinct entries, and has not yet removed those to come.  *)
WorkFits(w, I, t) ==
  /\ w \in Work /\ w.gone \subseteq I /\ w.at <= t
  /\ (w.pc \in {"editing", "writing", "unlinking"} => w.todo # <<>>)
  /\ (w.pc = "unlinking" => Head(w.todo) \in Entities)
  /\ (w.pc \notin {"removing", "unlinking"} => w.gone = {})
  /\ \A k \in 1..Len(w.todo) : w.todo[k] \in I /\ w.todo[k] \notin w.gone
  /\ \A j, k \in 1..Len(w.todo) : w.todo[j] = w.todo[k] => j = k

CompactFits(p, I, t) ==
  p \in [pc : {"idle", "summarizing", "writing"}, existing : SUBSET I, at : 0..t, left : Int]

(* What a call may name. *)
Handed == ids \cup Entities

FaceTyped ==
  /\ now \in 1..MaxTime /\ ids \subseteq Ids /\ requests \in 0..MaxRequests
  /\ StoreFits(store, ids, now) /\ ListingFits(listing, ids) /\ CompactFits(compact, ids, now)
  /\ GraphFits(longterm, now)
  /\ caller = [c \in Callers |-> caller[c]] /\ \A c \in Callers : WorkFits(caller[c], Handed, now)
  /\ told \in [Entry -> Nat] /\ removed \in [Entry -> Nat] /\ edited \subseteq Ids /\ rewritten \subseteq Ids

(* The types as the proofs use them give the types the runs check. *)
LEMMA FaceTypesImplied == FaceAssumption /\ FaceTyped => FaceTypeOK
<1>. SUFFICES ASSUME FaceAssumption, FaceTyped PROVE FaceTypeOK
  OBVIOUS
<1>1. now \in 0..MaxTime /\ now \in Nat /\ ids \subseteq Ids /\ requests \in 0..MaxRequests
  <2>1. now \in 1..MaxTime /\ MaxTime \in Nat
    BY DEF FaceAssumption, FaceTyped
  <2>2. ids \subseteq Ids /\ requests \in 0..MaxRequests
    BY DEF FaceTyped
  <2>. QED
    BY <2>1, <2>2
<1>2. listing.pc \in {"closed", "open", "done"} /\ Range(listing.seen) \subseteq ids
  <2>. DEFINE seen == listing.seen
  <2>1. ListingFits(listing, ids)
    BY DEF FaceTyped
  <2>2. listing.pc \in {"closed", "open", "done"} /\ seen \in Seq(Ids) /\ \A k \in 1..Len(seen) : seen[k] \in ids
    BY <2>1 DEF ListingFits, Lists
  <2>. HIDE DEF seen
  <2>3. DOMAIN seen = 1..Len(seen)
    BY <2>2, LenProperties
  <2>4. Range(seen) \subseteq ids
    BY <2>2, <2>3 DEF Range
  <2>. QED
    BY <2>2, <2>4 DEF seen
<1>3. ASSUME NEW c \in Callers
      PROVE  /\ caller[c].pc \in {"free", "editing", "writing", "removing", "unlinking"}
             /\ Range(caller[c].todo) \cup caller[c].gone \subseteq ids \cup Entities
             /\ caller[c].at \in 0..now
  <2>. DEFINE w == caller[c]
              todo == w.todo
  <2>1. WorkFits(w, Handed, now)
    BY DEF FaceTyped
  <2>. HIDE DEF w
  <2>2. /\ w.pc \in {"free", "editing", "writing", "removing", "unlinking"} /\ w.gone \subseteq Handed
        /\ w.at \in Nat /\ w.at <= now
    BY <2>1 DEF WorkFits, Work
  <2>3. todo \in Seq(Entry) /\ \A k \in 1..Len(todo) : todo[k] \in Handed
    BY <2>1 DEF WorkFits, Work
  <2>. HIDE DEF todo
  <2>4. DOMAIN todo = 1..Len(todo)
    BY <2>3, LenProperties
  <2>5. Range(todo) \subseteq Handed
    BY <2>3, <2>4 DEF Range
  <2>6. w.at \in 0..now
    BY <1>1, <2>2
  <2>. QED
    BY <2>2, <2>5, <2>6 DEF w, todo, Handed
<1>4. compact.pc \in {"idle", "summarizing", "writing"} /\ compact.existing \subseteq ids /\ compact.at \in 0..now
  BY DEF FaceTyped, CompactFits
<1>5. Stored /\ Present \subseteq ids
  <2>1. StoreFits(store, ids, now)
    BY DEF FaceTyped
  <2>2. \A i \in Present : store[i] \in Nat /\ store[i] <= now
    BY <2>1 DEF StoreFits, Entries, Present
  <2>3. \A i \in Present : store[i] \in 0..now
    BY <1>1, <2>2
  <2>. QED
    BY <2>1, <2>3 DEF StoreFits, Stored, Present
<1>6. Remembered \subseteq Entities /\ \A i \in Remembered : longterm[i] \in 0..now
  <2>1. /\ Remembered \subseteq Entities
        /\ \A i \in Remembered : longterm[i] \in Nat /\ longterm[i] <= now
    BY DEF FaceTyped, GraphFits, Remembered
  <2>. QED
    BY <1>1, <2>1
<1>. QED
  BY <1>1, <1>2, <1>3, <1>4, <1>5, <1>6 DEF FaceTypeOK

(* Ids are only handed out, and time only passes.                            *)
LEMMA FitsLater ==
  ASSUME NEW I, NEW J, I \subseteq J, NEW t \in Nat, NEW u \in Nat, t <= u
  PROVE  /\ \A s : StoreFits(s, I, t) => StoreFits(s, J, u)
         /\ \A g : GraphFits(g, t) => GraphFits(g, u)
         /\ \A l : ListingFits(l, I) => ListingFits(l, J)
         /\ \A w : WorkFits(w, I, t) => WorkFits(w, J, u)
         /\ \A p : CompactFits(p, I, t) => CompactFits(p, J, u)
<1>1. ASSUME NEW s, StoreFits(s, I, t) PROVE StoreFits(s, J, u)
  BY <1>1 DEF StoreFits, Entries
<1>2. ASSUME NEW l, ListingFits(l, I) PROVE ListingFits(l, J)
  BY <1>2 DEF ListingFits
<1>3. ASSUME NEW w, WorkFits(w, I, t) PROVE WorkFits(w, J, u)
  <2>1. w \in Work /\ w.at \in Nat /\ w.at <= u
    BY <1>3 DEF WorkFits, Work
  <2>2. /\ w.gone \subseteq J /\ (w.pc \in {"editing", "writing", "unlinking"} => w.todo # <<>>)
        /\ (w.pc = "unlinking" => Head(w.todo) \in Entities)
        /\ (w.pc \notin {"removing", "unlinking"} => w.gone = {})
    BY <1>3 DEF WorkFits
  <2>3. \A k \in 1..Len(w.todo) : w.todo[k] \in J /\ w.todo[k] \notin w.gone
    BY <1>3 DEF WorkFits
  <2>4. \A j, k \in 1..Len(w.todo) : w.todo[j] = w.todo[k] => j = k
    BY <1>3 DEF WorkFits
  <2>. QED
    BY <2>1, <2>2, <2>3, <2>4 DEF WorkFits
<1>4. ASSUME NEW p, CompactFits(p, I, t) PROVE CompactFits(p, J, u)
  BY <1>4 DEF CompactFits
<1>5. ASSUME NEW g, GraphFits(g, t) PROVE GraphFits(g, u)
  BY <1>5 DEF GraphFits
<1>. QED
  BY <1>1, <1>2, <1>3, <1>4, <1>5

LEMMA FreeFits == ASSUME NEW I, NEW t \in Nat PROVE WorkFits(Free, I, t)
<1>1. <<>> \in Seq(Entry) /\ Len(<<>>) = 0
  BY EmptySeq
<1>. QED
  BY <1>1 DEF WorkFits, Work, Free

LEMMA NoWorkFits == ASSUME NEW I, NEW t \in Nat PROVE CompactFits(NoWork, I, t)
BY DEF CompactFits, NoWork

LEMMA FaceInitTyped == FaceAssumption /\ FaceInit => FaceTyped
<1>. SUFFICES ASSUME FaceAssumption, FaceInit PROVE FaceTyped
  OBVIOUS
<1>1. StoreFits(store, ids, now)
  <2>1. DOMAIN store = Seeded /\ store = [i \in Seeded |-> store[i]] /\ \A i \in Seeded : store[i] \in {0, 1}
    BY DEF FaceInit
  <2>. QED
    BY <2>1 DEF FaceInit, FaceAssumption, StoreFits, Entries
<1>2. ListingFits(listing, ids)
  <2>1. <<>> \in Seq(Ids) /\ Len(<<>>) = 0
    BY EmptySeq
  <2>. QED
    BY <2>1, NoneIs DEF FaceInit, ListingFits, Lists
<1>3. CompactFits(compact, ids, now) /\ \A c \in Callers : WorkFits(caller[c], Handed, now)
  BY FreeFits, NoWorkFits DEF FaceInit
<1>4. caller = [c \in Callers |-> caller[c]]
  BY DEF FaceInit
<1>5. GraphFits(longterm, now)
  BY DEF FaceInit, GraphFits
<1>. QED
  BY <1>1, <1>2, <1>3, <1>4, <1>5 DEF FaceInit, FaceAssumption, FaceTyped

(* What a call does next leaves the other calls alone.                       *)
LEMMA CallerMoves ==
  ASSUME FaceTyped, NEW c \in Callers, NEW w, caller' = [caller EXCEPT ![c] = w]
  PROVE  /\ caller' = [d \in Callers |-> caller'[d]]
         /\ caller'[c] = w /\ \A d \in Callers \ {c} : caller'[d] = caller[d]
BY DEF FaceTyped

LEMMA CallerFits ==
  ASSUME FaceTyped, NEW c \in Callers, NEW w, caller' = [caller EXCEPT ![c] = w],
         WorkFits(w, Handed', now'), ids' = ids, now' = now
  PROVE  caller' = [d \in Callers |-> caller'[d]] /\ \A d \in Callers : WorkFits(caller'[d], Handed', now')
<1>1. (\A d \in Callers : WorkFits(caller[d], Handed, now)) /\ Handed' = Handed
  BY DEF FaceTyped, Handed
<1>. HIDE DEF WorkFits, Handed
<1>. QED
  BY <1>1, CallerMoves

LEMMA TickTyped == FaceAssumption /\ FaceTyped /\ Tick => FaceTyped'
<1>. SUFFICES ASSUME FaceAssumption, FaceTyped, Tick PROVE FaceTyped'
  OBVIOUS
<1>1. now \in Nat /\ now' \in Nat /\ now <= now' /\ now' \in 1..MaxTime
  BY DEF FaceAssumption, FaceTyped, Tick
<1>2. /\ StoreFits(store, ids, now') /\ CompactFits(compact, ids, now')
      /\ \A c \in Callers : WorkFits(caller[c], Handed, now')
      /\ GraphFits(longterm, now')
  BY <1>1, FitsLater DEF FaceTyped
<1>. QED
  BY <1>1, <1>2 DEF FaceTyped, Tick, facts, Handed

LEMMA OpenListingTyped == FaceAssumption /\ FaceTyped /\ OpenListing => FaceTyped'
<1>. SUFFICES ASSUME FaceAssumption, FaceTyped, OpenListing PROVE FaceTyped'
  OBVIOUS
<1>1. PICK limit \in Limits : listing' = [listing EXCEPT !.pc = "open", !.limit = limit]
  BY DEF OpenListing
<1>2. ListingFits(listing', ids)
  <2>1. limit \in Nat /\ ListingFits(listing, ids)
    BY DEF FaceAssumption, FaceTyped
  <2>. QED
    BY <1>1, <2>1 DEF ListingFits, Lists
<1>. QED
  BY <1>2 DEF FaceTyped, OpenListing, facts, Handed

LEMMA StoreIsEntries == FaceAssumption /\ FaceTyped => Entries(store) /\ now \in Nat
BY DEF FaceTyped, StoreFits

(* The ids of a page are a sequence of their own.                            *)
LEMMA PageIds ==
  ASSUME NEW f, NEW cursor, NEW limit, NEW page, Pages(f, cursor, limit, page), NEW D, DOMAIN f \subseteq D,
         NEW listed, listed = [k \in DOMAIN page.items |-> page.items[k].id]
  PROVE  /\ listed \in Seq(D) /\ Len(listed) = Len(page.items) /\ Len(listed) \in Nat
         /\ \A k \in 1..Len(listed) : listed[k] = page.items[k].id /\ listed[k] \in Past(f, cursor)
         /\ \A j, k \in 1..Len(listed) : listed[j] = listed[k] => j = k
<1>. DEFINE n == Len(page.items)
<1>1. n \in Nat /\ DOMAIN page.items = 1..n
  BY LenProperties DEF Pages
<1>2. \A k \in 1..n : page.items[k].id \in Past(f, cursor) /\ page.items[k].id \in D
  BY DEF Pages, Past
<1>3. listed \in [1..n -> D]
  BY <1>1, <1>2
<1>4. listed \in Seq(D) /\ Len(listed) = n
  BY <1>1, <1>3
<1>5. \A k \in 1..n : listed[k] = page.items[k].id
  BY <1>1
<1>6. \A j, k \in 1..n : page.items[j].id = page.items[k].id => j = k
  BY DEF Pages
<1>. HIDE DEF n
<1>. QED
  BY <1>1, <1>2, <1>4, <1>5, <1>6 DEF n

(* One page: its ids are appended, and the cursor moves to the last of them. *)
LEMMA NextPageIs ==
  ASSUME FaceAssumption, FaceTyped, NextPage
  PROVE  \E page, listed :
           /\ page = PageOf(store, listing.cursor, listing.limit)
           /\ Pages(store, listing.cursor, listing.limit, page)
           /\ listed = [k \in DOMAIN page.items |-> page.items[k].id]
           /\ listing' = [listing EXCEPT !.seen = listing.seen \o listed, !.cursor = page.next,
                                         !.pc = IF page.next = None THEN "done" ELSE "open"]
<1>. DEFINE page == PageOf(store, listing.cursor, listing.limit)
            listed == [k \in DOMAIN page.items |-> page.items[k].id]
<1>1. listing.cursor \in Records /\ listing.limit \in Nat /\ Entries(store)
  BY DEF FaceTyped, StoreFits, ListingFits, Lists, NextPage
<1>2. Pages(store, listing.cursor, listing.limit, page)
  BY <1>1, PageIs
<1>3. listing' = [listing EXCEPT !.seen = listing.seen \o listed, !.cursor = page.next,
                                 !.pc = IF page.next = None THEN "done" ELSE "open"]
  BY DEF NextPage
<1>. HIDE DEF page
<1>. QED
  BY <1>2, <1>3 DEF page

(* The places of a concatenation are those of its two parts.                 *)
LEMMA ConcatPlaces ==
  ASSUME NEW s \in Seq(Ids), NEW t \in Seq(Ids)
  PROVE  /\ \A j \in 1..Len(s \o t) : \/ j \in 1..Len(s) /\ (s \o t)[j] = s[j]
                                      \/ \E l \in 1..Len(t) : j = Len(s) + l /\ (s \o t)[j] = t[l]
         /\ \A x : (\E k \in 1..Len(s \o t) : (s \o t)[k] = x)
                   <=> (\E k \in 1..Len(s) : s[k] = x) \/ (\E k \in 1..Len(t) : t[k] = x)
<1>. DEFINE n == Len(s)
            m == Len(t)
            all == s \o t
            size == Len(s \o t)
<1>1. /\ n \in Nat /\ m \in Nat /\ size = n + m
      /\ \A k \in 1..(n + m) : all[k] = IF k <= n THEN s[k] ELSE t[k - n]
  BY ConcatProperties, LenProperties
<1>. HIDE DEF n, m, all, size
<1>2. ASSUME NEW j \in 1..size
      PROVE  (j \in 1..n /\ all[j] = s[j]) \/ \E l \in 1..m : j = n + l /\ all[j] = t[l]
  <2>1. CASE j <= n
    BY <1>1, <2>1
  <2>2. CASE ~(j <= n)
    <3>1. j - n \in 1..m /\ j = n + (j - n) /\ all[j] = t[j - n]
      BY <1>1, <2>2
    <3>. QED
      BY <3>1
  <2>. QED
    BY <2>1, <2>2
<1>3. ASSUME NEW x, NEW k \in 1..n, s[k] = x PROVE \E j \in 1..size : all[j] = x
  <2>1. k \in 1..size /\ all[k] = x
    BY <1>1, <1>3
  <2>. QED
    BY <2>1
<1>4. ASSUME NEW x, NEW k \in 1..m, t[k] = x PROVE \E j \in 1..size : all[j] = x
  <2>1. n + k \in 1..(n + m) /\ ~(n + k <= n) /\ (n + k) - n = k
    BY <1>1
  <2>2. all[n + k] = x
    BY <1>1, <1>4, <2>1
  <2>. QED
    BY <1>1, <2>1, <2>2
<1>5. \A x : (\E k \in 1..size : all[k] = x) <=> (\E k \in 1..n : s[k] = x) \/ (\E k \in 1..m : t[k] = x)
  BY <1>2, <1>3, <1>4
<1>. QED
  BY <1>2, <1>5 DEF n, m, all, size

LEMMA NextPageTyped == FaceAssumption /\ FaceTyped /\ NextPage => FaceTyped'
<1>. SUFFICES ASSUME FaceAssumption, FaceTyped, NextPage PROVE FaceTyped'
  OBVIOUS
<1>1. PICK page, listed :
        /\ Pages(store, listing.cursor, listing.limit, page)
        /\ listed = [k \in DOMAIN page.items |-> page.items[k].id]
        /\ listing' = [listing EXCEPT !.seen = listing.seen \o listed, !.cursor = page.next,
                                      !.pc = IF page.next = None THEN "done" ELSE "open"]
  BY NextPageIs
<1>2. Present \subseteq Ids /\ Present \subseteq ids /\ Entries(store) /\ ListingFits(listing, ids)
  BY DEF FaceTyped, StoreFits, Present
<1>3. /\ listed \in Seq(Ids) /\ Len(listed) \in Nat
      /\ \A k \in 1..Len(listed) : listed[k] \in ids
  <2>. DEFINE cursor == listing.cursor
  <2>. HIDE DEF cursor
  <2>1. DOMAIN store \subseteq Ids /\ DOMAIN store \subseteq ids
    BY <1>2 DEF Present
  <2>2. Pages(store, cursor, listing.limit, page) /\ listed = [k \in DOMAIN page.items |-> page.items[k].id]
    BY <1>1 DEF cursor
  <2>3. /\ listed \in Seq(Ids) /\ Len(listed) \in Nat
        /\ \A k \in 1..Len(listed) : listed[k] \in Past(store, cursor)
    BY <2>1, <2>2, PageIds
  <2>. QED
    BY <2>1, <2>3 DEF Past
<1>4. page.next \in Records
  BY <1>1, <1>2, NoneIs, ItemIs DEF Pages, Past
<1>5. /\ listing.seen \in Seq(Ids) /\ Len(listing.seen) \in Nat
      /\ \A k \in 1..Len(listing.seen) : listing.seen[k] \in ids
  BY <1>2, LenProperties DEF ListingFits, Lists
<1>6. /\ listing.seen \o listed \in Seq(Ids)
      /\ \A k \in 1..Len(listing.seen \o listed) : (listing.seen \o listed)[k] \in ids
  <2>. DEFINE s == listing.seen
              all == s \o listed
  <2>. HIDE DEF s
  <2>1. s \in Seq(Ids) /\ \A k \in 1..Len(s) : s[k] \in ids
    BY <1>5 DEF s
  <2>2. all \in Seq(Ids)
    BY <2>1, <1>3
  <2>3. \A k \in 1..Len(all) : \/ k \in 1..Len(s) /\ all[k] = s[k]
                              \/ \E l \in 1..Len(listed) : k = Len(s) + l /\ all[k] = listed[l]
    BY <2>1, <1>3, ConcatPlaces
  <2>. HIDE DEF all
  <2>4. \A k \in 1..Len(all) : all[k] \in ids
    BY <2>1, <2>3, <1>3
  <2>. QED
    BY <2>2, <2>4 DEF all, s
<1>8. ListingFits(listing', ids)
  <2>. DEFINE seen == listing.seen \o listed
  <2>. HIDE DEF seen
  <2>1. listing' = [listing EXCEPT !.seen = seen, !.cursor = page.next,
                                   !.pc = IF page.next = None THEN "done" ELSE "open"]
    BY <1>1 DEF seen
  <2>2. seen \in Seq(Ids) /\ \A k \in 1..Len(seen) : seen[k] \in ids
    BY <1>6 DEF seen
  <2>3. listing'.seen = seen /\ listing'.limit = listing.limit /\ listing' \in Lists
    BY <1>2, <1>4, <2>1, <2>2 DEF ListingFits, Lists
  <2>. QED
    BY <2>2, <2>3 DEF ListingFits
<1>. QED
  BY <1>8 DEF FaceTyped, NextPage, facts, Handed

(* A call begins with the entries it is to work on.                          *)
LEMMA BeginTyped ==
  ASSUME FaceAssumption, FaceTyped, NEW c \in Callers, NEW pc \in {"editing", "removing"}, NEW todo \in Seq(Entry),
         \A k \in 1..Len(todo) : todo[k] \in Handed, todo # <<>> \/ pc = "removing",
         \A j, k \in 1..Len(todo) : todo[j] = todo[k] => j = k,
         Begin(c, pc, todo)
  PROVE  FaceTyped'
<1>. DEFINE w == [Free EXCEPT !.pc = pc, !.todo = todo]
<1>1. w.pc = pc /\ w.todo = todo /\ w.gone = {} /\ w.at = 0 /\ w \in Work
  BY DEF Free, Work
<1>. HIDE DEF w
<1>2. now \in Nat /\ now' = now /\ ids' = ids /\ Handed' = Handed
  BY DEF FaceTyped, Begin, Handed
<1>3. WorkFits(w, Handed', now')
  BY <1>1, <1>2 DEF WorkFits
<1>4. caller' = [caller EXCEPT ![c] = w]
  BY DEF Begin, w
<1>5. caller' = [d \in Callers |-> caller'[d]] /\ \A d \in Callers : WorkFits(caller'[d], Handed', now')
  BY <1>2, <1>3, <1>4, CallerFits
<1>6. requests' \in 0..MaxRequests
  <2>1. requests < MaxRequests /\ requests' = requests + 1
    BY DEF Begin
  <2>2. requests \in 0..MaxRequests /\ MaxRequests \in Nat
    BY DEF FaceAssumption, FaceTyped
  <2>. QED
    BY <2>1, <2>2
<1>. QED
  BY <1>5, <1>6 DEF FaceTyped, Begin, facts

LEMMA FoundIsHanded == FaceTyped => Present \cup Remembered \subseteq Handed /\ Handed \subseteq Entry
BY DEF FaceTyped, StoreFits, GraphFits, Present, Remembered, Handed, Entry

LEMMA BeginOneTyped ==
  ASSUME FaceAssumption, FaceTyped, NEW c \in Callers, NEW pc \in {"editing", "removing"},
         NEW i \in Present \cup Remembered, Begin(c, pc, <<i>>)
  PROVE  FaceTyped'
<1>1. i \in Handed /\ i \in Entry
  BY FoundIsHanded
<1>. DEFINE todo == <<i>>
<1>2. todo \in Seq(Entry) /\ Len(todo) = 1 /\ todo[1] = i /\ todo # <<>> /\ Begin(c, pc, todo)
  BY <1>1
<1>. HIDE DEF todo
<1>3. /\ \A k \in 1..Len(todo) : todo[k] \in Handed
      /\ \A j, k \in 1..Len(todo) : todo[j] = todo[k] => j = k
  BY <1>1, <1>2
<1>. QED
  BY <1>2, <1>3, BeginTyped

(* The entries a query collects are distinct.                                *)
LEMMA CollectBegins ==
  ASSUME FaceAssumption, FaceTyped, NEW c \in Callers, Collect(c)
  PROVE  \E todo \in Seq(Entry) : /\ Begin(c, "removing", todo)
                                  /\ \A k \in 1..Len(todo) : todo[k] \in Handed
                                  /\ \A j, k \in 1..Len(todo) : todo[j] = todo[k] => j = k
<1>1. PICK q \in Query :
        /\ q.matching \subseteq Present \cup Remembered
        /\ LET matching == PageOf([i \in q.matching |-> Found(i)], None, q.limit).items IN
             Begin(c, "removing", [k \in DOMAIN matching |-> matching[k].id])
  BY DEF Collect
<1>. DEFINE f == [i \in q.matching |-> Found(i)]
            page == PageOf(f, None, q.limit)
            todo == [k \in DOMAIN page.items |-> page.items[k].id]
<1>2. Begin(c, "removing", todo)
  BY <1>1
<1>3. Entries(f)
  <2>1. Entries(store) /\ GraphFits(longterm, now) /\ IsFiniteSet(Entities) /\ Entities \subseteq Nat \ {0}
    BY DEF FaceTyped, StoreFits, FaceAssumption
  <2>2. Remembered \in SUBSET Entities
    BY <2>1 DEF GraphFits, Remembered
  <2>3. IsFiniteSet(Present) /\ IsFiniteSet(Remembered)
    BY <2>1, <2>2, FS_Subset DEF Entries, Present
  <2>4. IsFiniteSet(Present \cup Remembered)
    BY <2>3, FS_Union
  <2>5. IsFiniteSet(q.matching)
    BY <1>1, <2>4, FS_Subset
  <2>6. q.matching \subseteq Nat \ {0} /\ \A i \in q.matching : Found(i) \in Nat
    BY <1>1, <2>1, <2>2 DEF Entries, GraphFits, Found, Present, Remembered
  <2>. QED
    BY <2>5, <2>6 DEF Entries
<1>4. DOMAIN f \subseteq Handed /\ DOMAIN f \subseteq Entry
  BY <1>1, FoundIsHanded
<1>. HIDE DEF f
<1>5. q.limit \in Nat
  BY DEF Query, FaceAssumption
<1>6. Pages(f, None, q.limit, page)
  BY <1>3, <1>5, NoneIs, PageIs
<1>. HIDE DEF page
<1>7. /\ todo \in Seq(Entry) /\ \A k \in 1..Len(todo) : todo[k] \in Past(f, None)
      /\ \A j, k \in 1..Len(todo) : todo[j] = todo[k] => j = k
  BY <1>4, <1>6, PageIds
<1>. HIDE DEF todo
<1>. QED
  BY <1>2, <1>4, <1>7 DEF Past

LEMMA CollectTyped ==
  ASSUME FaceAssumption, FaceTyped, NEW c \in Callers, Collect(c)
  PROVE  FaceTyped'
BY CollectBegins, BeginTyped

LEMMA StampTyped ==
  ASSUME FaceAssumption, FaceTyped, NEW c \in Callers, Stamp(c)
  PROVE  FaceTyped'
<1>. DEFINE w == [caller[c] EXCEPT !.pc = "writing", !.at = now]
<1>1. WorkFits(caller[c], Handed, now) /\ now \in Nat
  BY DEF FaceTyped
<1>2. caller[c].pc = "editing" /\ caller' = [caller EXCEPT ![c] = w] /\ ids' = ids /\ now' = now
      /\ Handed' = Handed
  BY DEF Stamp, Handed
<1>3. /\ w \in Work /\ w.pc = "writing" /\ w.at = now
      /\ w.todo = caller[c].todo /\ w.gone = caller[c].gone
  BY <1>1 DEF WorkFits, Work
<1>. HIDE DEF w
<1>4. WorkFits(w, Handed', now')
  <2>1. w.gone \subseteq Handed /\ w.todo # <<>> /\ w.gone = {}
    BY <1>1, <1>2, <1>3 DEF WorkFits
  <2>2. \A k \in 1..Len(w.todo) : w.todo[k] \in Handed /\ w.todo[k] \notin w.gone
    BY <1>1, <1>3 DEF WorkFits
  <2>3. \A j, k \in 1..Len(w.todo) : w.todo[j] = w.todo[k] => j = k
    BY <1>1, <1>3 DEF WorkFits
  <2>4. w.at <= now
    BY <1>1, <1>3
  <2>. QED
    BY <1>2, <1>3, <2>1, <2>2, <2>3, <2>4 DEF WorkFits
<1>5. caller' = [d \in Callers |-> caller'[d]] /\ \A d \in Callers : WorkFits(caller'[d], Handed', now')
  BY <1>2, <1>4, CallerFits
<1>. QED
  BY <1>5 DEF FaceTyped, Stamp, facts

(* An upsert under an id given before, with a time that has come.            *)
LEMMA UpsertFits ==
  ASSUME FaceAssumption, FaceTyped, NEW i \in Ids, NEW at \in Nat, at <= now
  PROVE  StoreFits(Upsert(i, at), ids \cup {i}, now)
<1>1. Entries(store) /\ Present \subseteq ids /\ i \in Nat \ {0} /\ \A j \in Present : store[j] <= now
  BY DEF FaceTyped, StoreFits, Present, FaceAssumption
<1>. DEFINE new == Upsert(i, at)
<1>2. /\ Entries(new) /\ DOMAIN new \subseteq Present \cup {i} /\ Cardinality(DOMAIN new) <= Capacity
      /\ \A j \in DOMAIN new : new[j] = IF j = i THEN at ELSE store[j]
  BY <1>1, UpsertIs
<1>. HIDE DEF new
<1>3. StoreFits(new, ids \cup {i}, now)
  BY <1>1, <1>2 DEF StoreFits
<1>. QED
  BY <1>3 DEF new

(* The histories of a write stay sets of ids. *)
LEMMA HistoriesTyped ==
  ASSUME FaceTyped, NEW i \in Ids, NEW at, Histories(i, at)
  PROVE  edited' \subseteq Ids /\ rewritten' \subseteq Ids
BY DEF FaceTyped, Histories

(* What a call works on next was handed to it.                              *)
LEMMA HeadIs ==
  ASSUME FaceTyped, NEW c \in Callers, caller[c].todo # <<>>
  PROVE  Head(caller[c].todo) \in Handed /\ Head(caller[c].todo) \notin caller[c].gone
<1>1. WorkFits(caller[c], Handed, now)
  BY DEF FaceTyped
<1>2. caller[c].todo \in Seq(Entry)
  BY <1>1 DEF WorkFits, Work
<1>3. Head(caller[c].todo) = caller[c].todo[1] /\ 1 \in 1..Len(caller[c].todo)
  BY <1>2
<1>. QED
  BY <1>1, <1>3 DEF WorkFits

(* What an edit writes: a summary, an entity, or nothing.                    *)
LEMMA EditIs ==
  ASSUME FaceAssumption, FaceTyped, NEW c \in Callers, Edit(c)
  PROVE  /\ caller[c].at \in Nat /\ caller[c].at <= now
         /\ \/ \E i \in ids : /\ store' = Upsert(i, caller[c].at) /\ Histories(i, caller[c].at)
                             /\ longterm' = longterm
            \/ \E i \in Entities : longterm' = Restored(i, caller[c].at) /\ UNCHANGED <<store, edited, rewritten>>
            \/ UNCHANGED <<store, longterm, edited, rewritten>>
<1>. DEFINE i == Head(caller[c].todo)
<1>1. WorkFits(caller[c], Handed, now) /\ caller[c].pc = "writing"
  BY DEF FaceTyped, Edit
<1>2. caller[c].at \in Nat /\ caller[c].at <= now /\ i \in Handed
  BY <1>1, HeadIs DEF WorkFits, Work
<1>3. \/ i \in Ids /\ store' = Upsert(i, caller[c].at) /\ Histories(i, caller[c].at) /\ UNCHANGED longterm
      \/ i \in Entities /\ longterm' = Restored(i, caller[c].at) /\ UNCHANGED <<store, edited, rewritten>>
      \/ UNCHANGED <<store, longterm, edited, rewritten>>
  BY DEF Edit
<1>. HIDE DEF i
<1>4. i \in Ids => i \in ids
  BY <1>2 DEF Handed, FaceAssumption
<1>. QED
  BY <1>2, <1>3, <1>4

LEMMA EditTyped ==
  ASSUME FaceAssumption, FaceTyped, NEW c \in Callers, Edit(c)
  PROVE  FaceTyped'
<1>1. /\ now \in Nat /\ caller' = [caller EXCEPT ![c] = Free] /\ ids' = ids /\ now' = now
  BY DEF Edit, FaceTyped
<1>2. /\ caller[c].at \in Nat /\ caller[c].at <= now
      /\ \/ \E i \in ids : /\ store' = Upsert(i, caller[c].at) /\ Histories(i, caller[c].at)
                          /\ longterm' = longterm
         \/ \E i \in Entities : longterm' = Restored(i, caller[c].at) /\ UNCHANGED <<store, edited, rewritten>>
         \/ UNCHANGED <<store, longterm, edited, rewritten>>
  BY EditIs
<1>3. StoreFits(store', ids, now) /\ edited' \subseteq Ids /\ rewritten' \subseteq Ids
  <2>1. CASE UNCHANGED <<store, edited, rewritten>>
    BY <2>1 DEF FaceTyped
  <2>2. ASSUME NEW i \in ids, store' = Upsert(i, caller[c].at), Histories(i, caller[c].at)
        PROVE  StoreFits(store', ids, now) /\ edited' \subseteq Ids /\ rewritten' \subseteq Ids
    <3>1. i \in Ids /\ ids \cup {i} = ids
      BY DEF FaceTyped
    <3>2. StoreFits(store', ids \cup {i}, now)
      BY <3>1, <2>2, <1>2, UpsertFits
    <3>3. edited' \subseteq Ids /\ rewritten' \subseteq Ids
      BY <3>1, <2>2, HistoriesTyped
    <3>. QED
      BY <3>1, <3>2, <3>3
  <2>. QED
    BY <1>2, <2>1, <2>2
<1>4. GraphFits(longterm', now)
  BY <1>2 DEF FaceTyped, GraphFits, Restored, Remembered
<1>5. caller' = [d \in Callers |-> caller'[d]] /\ \A d \in Callers : WorkFits(caller'[d], Handed', now')
  BY <1>1, FreeFits, CallerFits
<1>. QED
  BY <1>1, <1>3, <1>4, <1>5 DEF FaceTyped, Edit, facts

(* One entry less to do, and perhaps one more gone.                          *)
Onward(w, gone) == [w EXCEPT !.pc = "removing", !.todo = Tail(@), !.gone = @ \cup gone]

LEMMA RestFits ==
  ASSUME NEW I, NEW t \in Nat, NEW w, WorkFits(w, I, t), w.todo # <<>>,
         NEW gone, gone \subseteq {Head(w.todo)}
  PROVE  /\ Head(w.todo) \in I /\ Head(w.todo) \notin w.gone
         /\ WorkFits(Onward(w, gone), I, t)
<1>. DEFINE i == Head(w.todo)
            v == Onward(w, gone)
            rest == Tail(w.todo)
<1>1. w \in Work /\ w.todo \in Seq(Entry) /\ Len(w.todo) \in Nat /\ w.gone \subseteq Entry
  BY LenProperties DEF WorkFits, Work
<1>2. /\ rest \in Seq(Entry) /\ Len(rest) = Len(w.todo) - 1
      /\ \A k \in 1..Len(rest) : rest[k] = w.todo[k + 1]
  BY <1>1, HeadTailProperties
<1>3. i = w.todo[1] /\ 1 \in 1..Len(w.todo) /\ Len(rest) \in Nat /\ i \in Entry
  BY <1>1, <1>2, EmptySeq, HeadTailProperties
<1>4. i \in I /\ i \notin w.gone
  BY <1>3 DEF WorkFits
<1>5. \A k \in 1..Len(rest) : /\ k + 1 \in 1..Len(w.todo) /\ k + 1 # 1
                              /\ rest[k] = w.todo[k + 1]
  BY <1>1, <1>2, <1>3
<1>6. \A k \in 1..Len(rest) : rest[k] \in I /\ rest[k] \notin w.gone /\ rest[k] # i
  BY <1>3, <1>5 DEF WorkFits
<1>7. \A j, k \in 1..Len(rest) : rest[j] = rest[k] => j = k
  <2>. SUFFICES ASSUME NEW j \in 1..Len(rest), NEW k \in 1..Len(rest), rest[j] = rest[k] PROVE j = k
    OBVIOUS
  <2>1. j + 1 = k + 1
    BY <1>5 DEF WorkFits
  <2>. QED
    BY <2>1, <1>3
<1>8. v = [pc |-> "removing", todo |-> rest, gone |-> w.gone \cup gone, at |-> w.at]
  <2>1. v = [w EXCEPT !.pc = "removing", !.todo = rest, !.gone = w.gone \cup gone]
    BY DEF Onward
  <2>. HIDE DEF v, rest
  <2>. QED
    BY <2>1, <1>1 DEF Work
<1>. HIDE DEF v, rest
<1>9. gone \subseteq Entry /\ gone \subseteq I /\ \A k \in 1..Len(rest) : rest[k] \notin gone
  BY <1>3, <1>4, <1>6
<1>10. v \in Work /\ v.todo = rest /\ v.gone = w.gone \cup gone /\ v.pc = "removing" /\ v.at = w.at
  BY <1>1, <1>2, <1>8, <1>9 DEF Work
<1>. HIDE DEF i
<1>11. w.gone \subseteq I /\ w.at <= t
  BY DEF WorkFits
<1>12. WorkFits(v, I, t)
  BY <1>6, <1>7, <1>9, <1>10, <1>11 DEF WorkFits
<1>. QED
  BY <1>4, <1>12 DEF i, v

(* A removal leaves a part of the store. *)
LEMMA WithoutFits ==
  ASSUME NEW I, NEW t, StoreFits(store, I, t), NEW i
  PROVE  StoreFits(Without(i), I, t)
<1>1. IsFiniteSet(Present) /\ Present \ {i} \in SUBSET Present
  BY DEF StoreFits, Entries, Present
<1>2. /\ IsFiniteSet(Present \ {i}) /\ Cardinality(Present \ {i}) <= Cardinality(Present)
      /\ Cardinality(Present \ {i}) \in Nat /\ Cardinality(Present) \in Nat
  BY <1>1, FS_Subset, FS_CardinalityType
<1>3. Cardinality(Present \ {i}) <= Capacity
  BY <1>2, FaceAssumption DEF StoreFits, Present, FaceAssumption
<1>4. Without(i) = [j \in Present \ {i} |-> store[j]]
  BY DEF Without
<1>. QED
  BY <1>2, <1>3, <1>4 DEF StoreFits, Entries, Present

(* What a step of a removal does: the entry it is about goes from its store, *)
(* or is passed over, and the call keeps what it took.                       *)
RemovalIs(c, i, gone) ==
  /\ caller' = [caller EXCEPT ![c] = Onward(caller[c], gone)]
  /\ \/ /\ i \in Ids /\ gone = {i} \cap Present /\ store' = Without(i) /\ edited' = edited \cup {i}
        /\ Counted(i, i \in Present) /\ longterm' = longterm
     \/ /\ i \in Entities /\ gone = {i} /\ caller[c].pc = "unlinking"
        /\ longterm' = Cut(i) /\ Counted(i, i \in Remembered) /\ UNCHANGED <<store, edited>>
     \/ gone = {} /\ UNCHANGED <<store, longterm, edited, removed>>

Removal(c) == RemoveSummary(c) \/ RemovalFails(c) \/ FindEntity(c) \/ UnlinkEntity(c)

LEMMA PassedOver ==
  ASSUME FaceTyped, NEW c \in Callers, caller[c].pc = "removing", PassOver(c)
  PROVE  caller' = [caller EXCEPT ![c] = Onward(caller[c], {})]
<1>1. caller[c] \in Work
  BY DEF FaceTyped, WorkFits
<1>2. Onward(caller[c], {}) = [caller[c] EXCEPT !.todo = Tail(@)]
  <2>. DEFINE rest == Tail(caller[c].todo)
  <2>1. caller[c] = [pc |-> "removing", todo |-> caller[c].todo, gone |-> caller[c].gone, at |-> caller[c].at]
    BY <1>1 DEF Work
  <2>2. Onward(caller[c], {}) = [caller[c] EXCEPT !.pc = "removing", !.todo = rest, !.gone = caller[c].gone]
    BY DEF Onward
  <2>. HIDE DEF rest
  <2>3. [caller[c] EXCEPT !.pc = "removing", !.todo = rest, !.gone = caller[c].gone] = [caller[c] EXCEPT !.todo = rest]
    BY <1>1, <2>1 DEF Work
  <2>. QED
    BY <2>2, <2>3 DEF rest
<1>. QED
  BY <1>2 DEF PassOver

LEMMA Claimed ==
  ASSUME NEW c, NEW gone, Claim(c, gone)
  PROVE  caller' = [caller EXCEPT ![c] = Onward(caller[c], gone)]
BY DEF Claim, Onward

LEMMA RemovalSteps ==
  ASSUME FaceTyped, NEW c \in Callers, Removal(c)
  PROVE  /\ caller[c].todo # <<>> /\ UNCHANGED <<now, ids, listing, compact, told, rewritten, requests>>
         /\ \/ \E gone \in SUBSET {Due(c)} : RemovalIs(c, Due(c), gone)
            \/ /\ Due(c) \in Entities /\ Due(c) \in Remembered /\ caller[c].pc = "removing"
               /\ caller' = [caller EXCEPT ![c] = [caller[c] EXCEPT !.pc = "unlinking"]]
               /\ UNCHANGED <<store, longterm, edited, removed>>
<1>1. CASE RemoveSummary(c)
  <2>1. RemovalIs(c, Due(c), {Due(c)} \cap Present)
    BY <1>1, Claimed DEF RemoveSummary, RemovalIs, Gone
  <2>. QED
    BY <1>1, <2>1 DEF RemoveSummary, Removing
<1>2. CASE RemovalFails(c)
  <2>1. RemovalIs(c, Due(c), {})
    BY <1>2, PassedOver DEF RemovalFails, Removing, RemovalIs, facts
  <2>. QED
    BY <1>2, <2>1 DEF RemovalFails, Removing, facts
<1>3. CASE FindEntity(c)
  <2>1. /\ caller[c].pc = "removing" /\ caller[c].todo # <<>> /\ Due(c) \in Entities
        /\ IF Due(c) \in Remembered THEN caller' = [caller EXCEPT ![c].pc = "unlinking"] ELSE PassOver(c)
        /\ UNCHANGED <<now, store, longterm, ids, listing, compact, told, removed, edited, rewritten, requests>>
    BY <1>3 DEF FindEntity, Removing, facts
  <2>2. CASE Due(c) \in Remembered
    BY <2>1, <2>2
  <2>3. CASE Due(c) \notin Remembered
    <3>1. RemovalIs(c, Due(c), {})
      BY <2>1, <2>3, PassedOver DEF RemovalIs
    <3>. QED
      BY <2>1, <3>1
  <2>. QED
    BY <2>2, <2>3
<1>4. CASE UnlinkEntity(c)
  <2>1. caller[c].pc = "unlinking" /\ caller[c].todo # <<>> /\ Due(c) \in Entities
    BY <1>4 DEF UnlinkEntity, Removing, FaceTyped, WorkFits, Due
  <2>2. RemovalIs(c, Due(c), {Due(c)})
    BY <1>4, <2>1, Claimed DEF UnlinkEntity, RemovalIs
  <2>. QED
    BY <1>4, <2>1, <2>2 DEF UnlinkEntity
<1>. QED
  BY <1>1, <1>2, <1>3, <1>4 DEF Removal

LEMMA RemovalTyped ==
  ASSUME FaceAssumption, FaceTyped, NEW c \in Callers, Removal(c)
  PROVE  FaceTyped'
<1>1. /\ UNCHANGED <<now, ids, listing, compact, told, rewritten, requests>> /\ Handed' = Handed
      /\ caller[c].todo # <<>> /\ WorkFits(caller[c], Handed, now) /\ now \in Nat
      /\ Due(c) \in Entry
  <2>1. UNCHANGED <<now, ids, listing, compact, told, rewritten, requests>> /\ caller[c].todo # <<>>
    BY RemovalSteps
  <2>2. Handed' = Handed
    BY <2>1 DEF Handed
  <2>3. Due(c) \in Entry
    BY <2>1, HeadIs, FoundIsHanded DEF Due
  <2>4. WorkFits(caller[c], Handed, now)
    BY DEF FaceTyped
  <2>5. now \in Nat
    BY DEF FaceTyped
  <2>. QED
    BY <2>1, <2>2, <2>3, <2>4, <2>5
<1>2. ASSUME NEW gone \in SUBSET {Due(c)}, RemovalIs(c, Due(c), gone) PROVE FaceTyped'
  <2>1. WorkFits(Onward(caller[c], gone), Handed', now')
    BY <1>1, RestFits DEF Due
  <2>2. caller' = [d \in Callers |-> caller'[d]] /\ \A d \in Callers : WorkFits(caller'[d], Handed', now')
    BY <1>1, <1>2, <2>1, CallerFits DEF RemovalIs
  <2>3. StoreFits(store', ids, now) /\ edited' \subseteq Ids
    BY <1>2, WithoutFits DEF FaceTyped, RemovalIs
  <2>4. GraphFits(longterm', now)
    BY <1>2 DEF FaceTyped, RemovalIs, GraphFits, Cut, Remembered
  <2>5. removed' \in [Entry -> Nat]
    BY <1>1, <1>2 DEF FaceTyped, RemovalIs, Counted
  <2>. QED
    BY <1>1, <2>2, <2>3, <2>4, <2>5 DEF FaceTyped
<1>3. CASE /\ Due(c) \in Entities /\ caller[c].pc = "removing"
           /\ caller' = [caller EXCEPT ![c] = [caller[c] EXCEPT !.pc = "unlinking"]]
           /\ UNCHANGED <<store, longterm, edited, removed>>
  <2>. DEFINE w == [caller[c] EXCEPT !.pc = "unlinking"]
  <2>1. /\ w \in Work /\ w.pc = "unlinking" /\ w.at = caller[c].at
        /\ w.todo = caller[c].todo /\ w.gone = caller[c].gone
    BY <1>1 DEF WorkFits, Work
  <2>. HIDE DEF w
  <2>2. w.at <= now /\ w.gone \subseteq Handed
    BY <1>1, <2>1 DEF WorkFits
  <2>3. \A k \in 1..Len(w.todo) : w.todo[k] \in Handed /\ w.todo[k] \notin w.gone
    BY <1>1, <2>1 DEF WorkFits
  <2>4. \A j, k \in 1..Len(w.todo) : w.todo[j] = w.todo[k] => j = k
    BY <1>1, <2>1 DEF WorkFits
  <2>5. WorkFits(w, Handed', now')
    BY <1>1, <1>3, <2>1, <2>2, <2>3, <2>4 DEF WorkFits, Due
  <2>6. caller' = [d \in Callers |-> caller'[d]] /\ \A d \in Callers : WorkFits(caller'[d], Handed', now')
    BY <1>1, <1>3, <2>5, CallerFits DEF w
  <2>. QED
    BY <1>1, <1>3, <2>6 DEF FaceTyped
<1>. QED
  BY <1>2, <1>3, RemovalSteps

LEMMA AnnounceTyped ==
  ASSUME FaceAssumption, FaceTyped, NEW c \in Callers, Announce(c)
  PROVE  FaceTyped'
<1>1. caller' = [caller EXCEPT ![c] = Free] /\ ids' = ids /\ now' = now /\ now \in Nat
  BY DEF FaceTyped, Announce
<1>2. caller' = [d \in Callers |-> caller'[d]] /\ \A d \in Callers : WorkFits(caller'[d], Handed', now')
  BY <1>1, FreeFits, CallerFits
<1>3. told' \in [Entry -> Nat]
  BY DEF FaceTyped, Announce, Tell
<1>. QED
  BY <1>2, <1>3 DEF FaceTyped, Announce

LEMMA StartCompactTyped == FaceAssumption /\ FaceTyped /\ StartCompact => FaceTyped'
<1>. SUFFICES ASSUME FaceAssumption, FaceTyped, StartCompact PROVE FaceTyped'
  OBVIOUS
<1>1. now \in Nat /\ now' = now /\ ids' = ids /\ Present \subseteq ids
  BY DEF FaceTyped, StoreFits, Present, StartCompact
<1>2. CompactFits(compact', ids, now)
  <2>1. compact' = [pc |-> "summarizing", existing |-> Present, at |-> 0, left |-> 0]
    BY DEF StartCompact, NoWork
  <2>. QED
    BY <1>1, <2>1 DEF CompactFits
<1>3. requests' \in 0..MaxRequests
  BY DEF FaceAssumption, FaceTyped, StartCompact
<1>. QED
  BY <1>1, <1>2, <1>3 DEF FaceTyped, StartCompact, facts, Handed

LEMMA SummarizedTyped == FaceAssumption /\ FaceTyped /\ Summarized => FaceTyped'
<1>. SUFFICES ASSUME FaceAssumption, FaceTyped, Summarized PROVE FaceTyped'
  OBVIOUS
<1>1. now \in Nat /\ CompactFits(compact, ids, now)
  BY DEF FaceTyped
<1>2. CompactFits(compact', ids, now)
  <2>1. CASE compact' = NoWork
    BY <1>1, <2>1, NoWorkFits
  <2>2. CASE \E n \in Summaries : compact' = [compact EXCEPT !.pc = "writing", !.at = now, !.left = n]
    <3>1. PICK n \in Summaries : compact' = [compact EXCEPT !.pc = "writing", !.at = now, !.left = n]
      BY <2>2
    <3>2. n \in Int /\ now \in 0..now
      BY <1>1 DEF Summaries, FaceAssumption
    <3>3. /\ compact'.pc = "writing" /\ compact'.at = now /\ compact'.left = n
          /\ compact'.existing = compact.existing /\ DOMAIN compact' = {"pc", "existing", "at", "left"}
      BY <1>1, <3>1 DEF CompactFits
    <3>. QED
      BY <1>1, <3>1, <3>2, <3>3 DEF CompactFits
  <2>. QED
    BY <2>1, <2>2 DEF Summarized
<1>. QED
  BY <1>2 DEF FaceTyped, Summarized, facts, Handed

(* One entry of a compaction: over one it was shown, or under a new id.      *)
LEMMA WriteEntryIs ==
  ASSUME FaceTyped, WriteEntry
  PROVE  \/ \E i \in Ids : /\ compact.at \in Nat /\ compact.at <= now
                           /\ store' = Upsert(i, compact.at) /\ ids' = ids \cup {i} /\ Histories(i, compact.at)
                           /\ compact' = IF compact.left = 1 THEN NoWork ELSE [compact EXCEPT !.left = @ - 1]
         \/ compact' = NoWork /\ UNCHANGED <<store, ids, edited, rewritten>>
<1>1. compact.at \in Nat /\ compact.at <= now /\ compact.existing \subseteq ids /\ ids \subseteq Ids
  BY DEF FaceTyped, CompactFits
<1>2. Targets \subseteq Ids
  BY <1>1 DEF Targets
<1>. QED
  BY <1>1, <1>2 DEF WriteEntry

LEMMA WriteEntryTyped == FaceAssumption /\ FaceTyped /\ WriteEntry => FaceTyped'
<1>. SUFFICES ASSUME FaceAssumption, FaceTyped, WriteEntry PROVE FaceTyped'
  OBVIOUS
<1>1. now \in Nat /\ CompactFits(compact, ids, now)
  BY DEF FaceTyped
<1>2. CASE compact' = NoWork /\ UNCHANGED <<store, ids, edited, rewritten>>
  <2>1. CompactFits(compact', ids, now)
    BY <1>1, <1>2, NoWorkFits
  <2>. QED
    BY <1>2, <2>1 DEF FaceTyped, WriteEntry, facts, Handed
<1>3. ASSUME NEW i \in Ids, compact.at \in Nat, compact.at <= now,
             store' = Upsert(i, compact.at), ids' = ids \cup {i}, Histories(i, compact.at),
             compact' = IF compact.left = 1 THEN NoWork ELSE [compact EXCEPT !.left = @ - 1]
      PROVE  FaceTyped'
  <2>1. StoreFits(store', ids', now)
    BY <1>3, UpsertFits
  <2>2. CompactFits(compact', ids, now)
    <3>1. CompactFits([compact EXCEPT !.left = @ - 1], ids, now)
      BY <1>1 DEF CompactFits
    <3>. QED
      BY <1>1, <1>3, <3>1, NoWorkFits
  <2>3. edited' \subseteq Ids /\ rewritten' \subseteq Ids
    BY <1>3, HistoriesTyped
  <2>4. /\ CompactFits(compact', ids', now) /\ ListingFits(listing, ids')
        /\ \A c \in Callers : WorkFits(caller[c], Handed', now)
    <3>1. ids \subseteq ids' /\ Handed \subseteq Handed' /\ now <= now
      BY <1>1, <1>3 DEF Handed
    <3>2. ListingFits(listing, ids) /\ \A c \in Callers : WorkFits(caller[c], Handed, now)
      BY DEF FaceTyped
    <3>. QED
      BY <1>1, <2>2, <3>1, <3>2, FitsLater
  <2>5. ids' \subseteq Ids
    BY <1>3 DEF FaceTyped
  <2>. QED
    BY <2>1, <2>3, <2>4, <2>5 DEF FaceTyped, WriteEntry, facts
<1>. QED
  BY <1>2, <1>3, WriteEntryIs

LEMMA FaceStepTyped == FaceAssumption /\ FaceTyped /\ [FaceNext]_faceVars => FaceTyped'
<1>. SUFFICES ASSUME FaceAssumption, FaceTyped, [FaceNext]_faceVars PROVE FaceTyped'
  OBVIOUS
<1>1. CASE UNCHANGED faceVars
  BY <1>1 DEF FaceTyped, faceVars, Handed
<1>2. ASSUME NEW c \in Callers, FindToEdit(c) \/ FindToForget(c) PROVE FaceTyped'
  <2>1. PICK i \in Present \cup Remembered, pc \in {"editing", "removing"} : Begin(c, pc, <<i>>)
    BY <1>2 DEF FindToEdit, FindToForget
  <2>. QED
    BY <2>1, BeginOneTyped
<1>. QED
  BY <1>1, <1>2, TickTyped, OpenListingTyped, NextPageTyped, CollectTyped, StampTyped, EditTyped,
     RemovalTyped, AnnounceTyped, StartCompactTyped, SummarizedTyped, WriteEntryTyped DEF FaceNext, Removal

(* The store keeps to its capacity whatever is edited, removed and compacted *)
(* at once, no entry is of the future, and every id in use was given out.    *)
THEOREM FaceTypes == FaceSpec => []FaceTypeOK
<1>. USE FaceAssumption
<1>1. FaceTyped => FaceTypeOK
  BY FaceTypesImplied
<1>. QED
  BY <1>1, FaceInitTyped, FaceStepTyped, PTL DEF FaceSpec

-----------------------------------------------------------------------------
(* Removals *)

Claiming(i) == {c \in Callers : i \in caller[c].gone}

(* A call about to remove an entity found it: it is there, or someone else   *)
(* has removed it in between.                                                *)
FoundOrGone ==
  \A c \in Callers : caller[c].pc = "unlinking" => Due(c) \in Remembered \/ removed[Due(c)] > 0

(* With it the account is inductive once the callers are typed: what a call  *)
(* is about to remove it has not yet claimed.                                *)
Account == RemovalsAreTold /\ FoundOrGone

Balanced(i, n, r, t) == IF i \in Ids THEN r = t + n ELSE r <= t + n /\ (t + n > 0 => r > 0)

LEMMA ToldIs ==
  FaceAssumption =>
    (RemovalsAreTold <=> \A i \in Entry : Balanced(i, Cardinality(Claiming(i)), removed[i], told[i]))
BY DEF RemovalsAreTold, Claims, Claiming, Balanced, Entry, FaceAssumption

LEMMA ClaimingIsFinite ==
  ASSUME FaceAssumption
  PROVE  \A i : IsFiniteSet(Claiming(i)) /\ Cardinality(Claiming(i)) \in Nat
<1>1. ASSUME NEW i PROVE Claiming(i) \in SUBSET Callers
  BY DEF Claiming
<1>. HIDE DEF Claiming
<1>. QED
  BY <1>1, FS_Subset, FS_CardinalityType DEF FaceAssumption

(* A call that ends claims nothing any more; another claims what it did.     *)
LEMMA ClaimingMoves ==
  ASSUME FaceTyped, NEW c \in Callers, NEW w, caller' = [caller EXCEPT ![c] = w], NEW i
  PROVE  Claiming(i)' = IF i \in w.gone THEN Claiming(i) \cup {c} ELSE Claiming(i) \ {c}
<1>1. caller'[c] = w /\ \A d \in Callers \ {c} : caller'[d] = caller[d]
  BY CallerMoves
<1>. QED
  BY <1>1 DEF Claiming

(* What calls do to the graph and to removed keeps what they found.          *)
LEMMA FoundKept ==
  ASSUME FaceTyped, FoundOrGone, \A i \in Remembered \ Remembered' : removed'[i] > 0,
         \A i \in Entry : removed[i] > 0 => removed'[i] > 0,
         NEW c \in Callers, \A d \in Callers \ {c} : caller'[d] = caller[d],
         caller'[c].pc = "unlinking" =>
           \/ caller[c].pc = "unlinking" /\ caller'[c].todo = caller[c].todo
           \/ Head(caller'[c].todo) \in Remembered
  PROVE  FoundOrGone'
<1>. SUFFICES ASSUME NEW d \in Callers, caller'[d].pc = "unlinking"
              PROVE  Head(caller'[d].todo) \in Remembered' \/ removed'[Head(caller'[d].todo)] > 0
  BY DEF FoundOrGone, Due
<1>1. ASSUME NEW i, i \in Remembered PROVE i \in Remembered' \/ removed'[i] > 0
  BY <1>1
<1>2. CASE caller[d].pc = "unlinking" /\ caller'[d].todo = caller[d].todo
  <2>1. WorkFits(caller[d], Handed, now)
    BY DEF FaceTyped
  <2>2. Due(d) \in Entry /\ Due(d) = Head(caller'[d].todo)
    BY <1>2, <2>1 DEF Due, WorkFits, Entry
  <2>. QED
    BY <1>1, <1>2, <2>2 DEF FoundOrGone
<1>3. CASE Head(caller'[d].todo) \in Remembered
  BY <1>1, <1>3
<1>. QED
  BY <1>2, <1>3

LEMMA RemovalTold ==
  ASSUME FaceAssumption, FaceTyped, Account, NEW c \in Callers, NEW i, i = Due(c), NEW gone \in SUBSET {i},
         caller[c].todo # <<>>, told' = told, RemovalIs(c, i, gone)
  PROVE  Account'
<1>. DEFINE w == Onward(caller[c], gone)
<1>1. /\ i \in Entry /\ i \notin caller[c].gone
      /\ w.gone = caller[c].gone \cup gone /\ w.pc = "removing"
  BY HeadIs, FoundIsHanded DEF Due, FaceTyped, WorkFits, Work, Onward
<1>2. caller' = [caller EXCEPT ![c] = w]
  BY DEF RemovalIs
<1>3. /\ \/ i \in Ids /\ gone = {i} \cap Present /\ Counted(i, i \in Present) /\ longterm' = longterm
         \/ /\ i \in Entities /\ gone = {i} /\ caller[c].pc = "unlinking"
            /\ longterm' = Cut(i) /\ Counted(i, i \in Remembered)
         \/ gone = {} /\ removed' = removed /\ longterm' = longterm
  BY DEF RemovalIs
<1>. HIDE DEF w
<1>4. \A j \in Entry : Claiming(j)' = IF j \in w.gone THEN Claiming(j) \cup {c} ELSE Claiming(j) \ {c}
  BY <1>2, ClaimingMoves
<1>5. \A j \in Entry : c \in Claiming(j) <=> j \in caller[c].gone
  BY DEF Claiming
<1>6. /\ \A j \in Entry \ gone : Claiming(j)' = Claiming(j)
      /\ \A j \in gone : j \in Entry => Claiming(j)' = Claiming(j) \cup {c}
  <2>. DEFINE Before(j) == Claiming(j)
              After(j) == Claiming(j)'
  <2>. HIDE DEF Before, After
  <2>1. /\ \A j \in Entry : After(j) = IF j \in w.gone THEN Before(j) \cup {c} ELSE Before(j) \ {c}
        /\ \A j \in Entry : c \in Before(j) <=> j \in caller[c].gone
    BY <1>4, <1>5 DEF Before, After
  <2>4. \A j : j \in w.gone <=> j \in caller[c].gone \/ j \in gone
    BY <1>1
  <2>2. ASSUME NEW j \in Entry \ gone PROVE After(j) = Before(j)
    <3>1. After(j) = IF c \in Before(j) THEN Before(j) \cup {c} ELSE Before(j) \ {c}
      BY <2>1, <2>4
    <3>2. Before(j) \cup {c} = Before(j) \/ c \notin Before(j)
      OBVIOUS
    <3>3. Before(j) \ {c} = Before(j) \/ c \in Before(j)
      OBVIOUS
    <3>. QED
      BY <3>1, <3>2, <3>3
  <2>3. \A j \in gone : j \in Entry => After(j) = Before(j) \cup {c}
    BY <2>1, <2>4
  <2>. QED
    BY <2>2, <2>3 DEF Before, After
<1>7. told \in [Entry -> Nat] /\ removed \in [Entry -> Nat] /\ gone \subseteq {i}
  BY DEF FaceTyped
<1>8. \A j \in Entry \ {i} : removed'[j] = removed[j] /\ Claiming(j)' = Claiming(j)
  BY <1>3, <1>6, <1>7 DEF Counted
<1>9. /\ IsFiniteSet(Claiming(i)) /\ Cardinality(Claiming(i)) \in Nat
      /\ Balanced(i, Cardinality(Claiming(i)), removed[i], told[i])
  BY <1>1, ClaimingIsFinite, ToldIs DEF Account
<1>10. /\ i \in gone => Cardinality(Claiming(i)') = Cardinality(Claiming(i)) + 1
       /\ i \notin gone => Cardinality(Claiming(i)') = Cardinality(Claiming(i))
  <2>1. CASE i \in gone
    <3>1. Claiming(i)' = Claiming(i) \cup {c} /\ c \notin Claiming(i)
      BY <1>1, <1>5, <1>6, <2>1
    <3>. QED
      BY <2>1, <3>1, <1>9, FS_AddElement
  <2>2. CASE i \notin gone
    BY <1>1, <1>6, <2>2
  <2>. QED
    BY <2>1, <2>2
<1>11. Balanced(i, Cardinality(Claiming(i)'), removed'[i], told'[i])
  <2>1. CASE i \in Ids /\ gone = {i} \cap Present /\ Counted(i, i \in Present)
    <3>1. removed'[i] = IF i \in gone THEN removed[i] + 1 ELSE removed[i]
      BY <1>1, <1>7, <2>1 DEF Counted
    <3>. QED
      BY <2>1, <3>1, <1>1, <1>7, <1>9, <1>10 DEF Balanced
  <2>2. CASE i \in Entities /\ gone = {i} /\ caller[c].pc = "unlinking" /\ Counted(i, i \in Remembered)
    <3>1. removed'[i] = IF i \in Remembered THEN removed[i] + 1 ELSE removed[i]
      BY <1>1, <1>7, <2>2 DEF Counted
    <3>2. i \in Remembered \/ removed[i] > 0
      BY <2>2 DEF Account, FoundOrGone
    <3>3. i \notin Ids /\ removed[i] \in Nat /\ told[i] \in Nat /\ told'[i] = told[i]
      BY <2>2, <1>1, <1>7 DEF FaceAssumption
    <3>4. removed[i] <= told[i] + Cardinality(Claiming(i))
      BY <3>3, <1>9 DEF Balanced
    <3>. QED
      BY <2>2, <3>1, <3>2, <3>3, <3>4, <1>9, <1>10 DEF Balanced
  <2>3. CASE gone = {} /\ removed' = removed
    BY <2>3, <1>9, <1>10
  <2>. QED
    BY <1>3, <2>1, <2>2, <2>3
<1>12. \A j \in Entry \ {i} : Balanced(j, Cardinality(Claiming(j)'), removed'[j], told'[j])
  BY <1>8, ToldIs DEF Account
<1>13. RemovalsAreTold'
  <2>1. \A j \in Entry : Balanced(j, Cardinality(Claiming(j)'), removed'[j], told'[j])
    BY <1>11, <1>12
  <2>. QED
    BY <2>1 DEF RemovalsAreTold, Claims, Claiming, Balanced, Entry, FaceAssumption
<1>14. FoundOrGone'
  <2>1. \A j \in Entry : removed[j] > 0 => removed'[j] > 0
    BY <1>3, <1>7, <1>8 DEF Counted
  <2>2. \A j \in Remembered \ Remembered' : removed'[j] > 0
    BY <1>1, <1>3, <1>7 DEF Counted, Cut, Remembered
  <2>3. caller'[c].pc # "unlinking" /\ \A d \in Callers \ {c} : caller'[d] = caller[d]
    BY <1>1, <1>2, CallerMoves
  <2>. QED
    BY <2>1, <2>2, <2>3, FoundKept DEF Account
<1>. QED
  BY <1>13, <1>14 DEF Account

(* A step that removes and announces nothing, and claims nothing new.        *)
LEMMA AccountKept ==
  ASSUME FaceTyped, Account, UNCHANGED facts, Remembered \subseteq Remembered',
         NEW c \in Callers, NEW w, caller' = [caller EXCEPT ![c] = w], w.gone = caller[c].gone,
         w.pc = "unlinking" => w.todo = caller[c].todo /\ Due(c) \in Remembered
  PROVE  Account'
<1>1. \A i : Claiming(i)' = Claiming(i)
  BY ClaimingMoves DEF Claiming
<1>2. RemovalsAreTold'
  BY <1>1 DEF Account, RemovalsAreTold, Claims, Claiming, facts
<1>3. caller'[c] = w /\ \A d \in Callers \ {c} : caller'[d] = caller[d]
  BY CallerMoves
<1>4. removed' = removed
  BY DEF facts
<1>5. w.pc = "unlinking" => Head(w.todo) \in Remembered
  BY DEF Due
<1>6. FoundOrGone'
  BY <1>3, <1>4, <1>5, FoundKept DEF Account
<1>. QED
  BY <1>2, <1>6 DEF Account

LEMMA AnnounceTold ==
  ASSUME FaceAssumption, FaceTyped, Account, NEW c \in Callers, Announce(c)
  PROVE  Account'
<1>1. /\ caller' = [caller EXCEPT ![c] = Free] /\ UNCHANGED <<removed, longterm>>
      /\ Free.gone = {} /\ Free.pc # "unlinking"
      /\ told' = [i \in Entry |-> told[i] + (IF i \in caller[c].gone THEN 1 ELSE 0)]
  BY DEF Announce, Tell, Result, Free
<1>2. \A i \in Entry : Claiming(i)' = Claiming(i) \ {c}
  BY <1>1, ClaimingMoves
<1>3. \A i \in Entry : c \in Claiming(i) <=> i \in caller[c].gone
  BY DEF Claiming
<1>4. told \in [Entry -> Nat] /\ removed \in [Entry -> Nat]
  BY DEF FaceTyped
<1>5. ASSUME NEW i \in Entry PROVE Balanced(i, Cardinality(Claiming(i)'), removed'[i], told'[i])
  <2>1. Cardinality(Claiming(i) \ {c})
          = IF c \in Claiming(i) THEN Cardinality(Claiming(i)) - 1 ELSE Cardinality(Claiming(i))
    BY ClaimingIsFinite, FS_RemoveElement
  <2>2. Cardinality(Claiming(i)) \in Nat /\ Balanced(i, Cardinality(Claiming(i)), removed[i], told[i])
    BY ClaimingIsFinite, ToldIs DEF Account
  <2>. HIDE DEF Claiming
  <2>3. Cardinality(Claiming(i)') = Cardinality(Claiming(i) \ {c})
    BY <1>2
  <2>4. /\ removed'[i] = removed[i] /\ told[i] \in Nat /\ removed[i] \in Nat
        /\ told'[i] = told[i] + (IF c \in Claiming(i) THEN 1 ELSE 0)
    BY <1>1, <1>3, <1>4
  <2>5. told'[i] + Cardinality(Claiming(i)') = told[i] + Cardinality(Claiming(i))
    BY <2>1, <2>2, <2>3, <2>4
  <2>. QED
    BY <2>2, <2>4, <2>5 DEF Balanced
<1>6. RemovalsAreTold'
  BY <1>5 DEF RemovalsAreTold, Claims, Claiming, Balanced, Entry, FaceAssumption
<1>7. FoundOrGone'
  <2>1. caller'[c].pc # "unlinking" /\ (\A d \in Callers \ {c} : caller'[d] = caller[d]) /\ Remembered' = Remembered
    BY <1>1, CallerMoves DEF Remembered
  <2>. QED
    BY <1>1, <2>1, FoundKept DEF Account
<1>. QED
  BY <1>6, <1>7 DEF Account

LEMMA FaceInitTold == FaceAssumption /\ FaceInit => Account
<1>. SUFFICES ASSUME FaceAssumption, FaceInit PROVE Account
  OBVIOUS
<1>1. ASSUME NEW i \in Entry PROVE Balanced(i, Cardinality(Claiming(i)), removed[i], told[i])
  <2>1. Claiming(i) = {}
    BY DEF FaceInit, Claiming, Free
  <2>2. Cardinality(Claiming(i)) = 0
    BY <2>1, FS_EmptySet
  <2>. QED
    BY <2>2 DEF FaceInit, Balanced
<1>2. FoundOrGone
  BY DEF FaceInit, Free, FoundOrGone
<1>. QED
  BY <1>1, <1>2, ToldIs DEF Account

LEMMA FaceStepTold ==
  FaceAssumption /\ FaceTyped /\ Account /\ [FaceNext]_faceVars => Account'
<1>. SUFFICES ASSUME FaceAssumption, FaceTyped, Account, [FaceNext]_faceVars PROVE Account'
  OBVIOUS
<1>1. ASSUME UNCHANGED <<caller, facts, longterm>> PROVE Account'
  BY <1>1 DEF Account, RemovalsAreTold, Claims, FoundOrGone, Due, Remembered, facts
<1>2. CASE Tick \/ OpenListing \/ NextPage \/ StartCompact \/ Summarized \/ WriteEntry \/ UNCHANGED faceVars
  BY <1>1, <1>2 DEF Tick, OpenListing, NextPage, StartCompact, Summarized, WriteEntry, faceVars, facts
<1>3. ASSUME NEW c \in Callers, NEW pc \in {"editing", "removing"}, NEW todo, Begin(c, pc, todo) PROVE Account'
  <2>. DEFINE w == [Free EXCEPT !.pc = pc, !.todo = todo]
  <2>1. /\ w.gone = {} /\ w.pc # "unlinking" /\ caller' = [caller EXCEPT ![c] = w] /\ UNCHANGED facts
        /\ Remembered' = Remembered
    BY <1>3 DEF Begin, Free, Remembered
  <2>2. caller[c].gone = {}
    BY <1>3 DEF Begin, FaceTyped, WorkFits
  <2>. HIDE DEF w
  <2>. QED
    BY <2>1, <2>2, AccountKept
<1>4. ASSUME NEW c \in Callers, FindToEdit(c) \/ FindToForget(c) \/ Collect(c) PROVE Account'
  <2>1. \E pc \in {"editing", "removing"} : \E todo : Begin(c, pc, todo)
    BY <1>4 DEF FindToEdit, FindToForget, Collect
  <2>. QED
    BY <2>1, <1>3
<1>5. ASSUME NEW c \in Callers, Stamp(c) PROVE Account'
  <2>. DEFINE w == [caller[c] EXCEPT !.pc = "writing", !.at = now]
  <2>1. /\ caller' = [caller EXCEPT ![c] = w] /\ w.gone = caller[c].gone /\ w.pc # "unlinking"
        /\ UNCHANGED facts /\ Remembered' = Remembered
    BY <1>5 DEF Stamp, FaceTyped, WorkFits, Work, Remembered
  <2>. HIDE DEF w
  <2>. QED
    BY <2>1, AccountKept
<1>6. ASSUME NEW c \in Callers, Edit(c) PROVE Account'
  <2>1. caller' = [caller EXCEPT ![c] = Free] /\ Free.gone = {} /\ Free.pc # "unlinking" /\ UNCHANGED facts
    BY <1>6 DEF Edit, Free
  <2>2. caller[c].gone = {}
    BY <1>6 DEF Edit, FaceTyped, WorkFits
  <2>3. Remembered \subseteq Remembered'
    BY <1>6, EditIs DEF Restored, Remembered
  <2>. QED
    BY <2>1, <2>2, <2>3, AccountKept
<1>7. ASSUME NEW c \in Callers, Removal(c) PROVE Account'
  <2>1. caller[c].todo # <<>> /\ told' = told
    BY <1>7, RemovalSteps
  <2>2. CASE \E gone \in SUBSET {Due(c)} : RemovalIs(c, Due(c), gone)
    BY <2>1, <2>2, RemovalTold
  <2>3. CASE /\ Due(c) \in Remembered
             /\ caller' = [caller EXCEPT ![c] = [caller[c] EXCEPT !.pc = "unlinking"]]
             /\ UNCHANGED <<store, longterm, edited, removed>>
    <3>. DEFINE w == [caller[c] EXCEPT !.pc = "unlinking"]
    <3>1. w.gone = caller[c].gone /\ w.todo = caller[c].todo
      BY DEF FaceTyped, WorkFits, Work
    <3>2. caller' = [caller EXCEPT ![c] = w] /\ UNCHANGED facts /\ Remembered' = Remembered
      BY <2>1, <2>3 DEF facts, Remembered
    <3>. HIDE DEF w
    <3>. QED
      BY <2>3, <3>1, <3>2, AccountKept
  <2>. QED
    BY <1>7, <2>2, <2>3, RemovalSteps
<1>8. CASE \E c \in Callers : FindToEdit(c) \/ FindToForget(c) \/ Collect(c) \/ Stamp(c) \/ Edit(c)
                              \/ Removal(c) \/ Announce(c)
  BY <1>4, <1>5, <1>6, <1>7, <1>8, AnnounceTold
<1>. QED
  BY <1>2, <1>8 DEF FaceNext, Removal

(* However the edits, removals and compactions interleave, a summary is      *)
(* announced once for each time it was removed, by the call that removed it; *)
(* and of an entity no removal goes untold, and none is told that no call    *)
(* made (forget, forget_matching, remove_entity_by_id).                      *)
THEOREM RemovalsAreToldOnce == FaceSpec => []RemovalsAreTold
<1>. USE FaceAssumption
<1>1. FaceInit => FaceTyped /\ Account
  BY FaceInitTyped, FaceInitTold
<1>2. FaceTyped /\ Account /\ [FaceNext]_faceVars => (FaceTyped /\ Account)'
  BY FaceStepTyped, FaceStepTold
<1>3. Account => RemovalsAreTold
  BY DEF Account
<1>. QED
  BY <1>1, <1>2, <1>3, PTL DEF FaceSpec

-----------------------------------------------------------------------------
(* The listing: an entry listed and not moved back since is behind the       *)
(* cursor, and would be if it were edited now; one that nobody touched is    *)
(* listed, or ahead of the cursor.                                           *)
Listed(i)  == \E k \in 1..Len(listing.seen) : listing.seen[k] = i
Behind(i)  == /\ ~IsAfter([at |-> now, id |-> i], listing.cursor)
              /\ i \in Present => ~IsAfter(Item(store, i), listing.cursor)
Ahead(i)   == listing.cursor = None \/ IsAfter(Item(store, i), listing.cursor)

ListedOnce ==
  \A j, k \in 1..Len(listing.seen) :
    listing.seen[j] = listing.seen[k] /\ listing.seen[j] \notin rewritten => j = k

ListedIsBehind ==
  listing.pc = "open" =>
    /\ listing.cursor.at <= now
    /\ IF listing.cursor = None THEN listing.seen = <<>>
       ELSE \A i \in Ids \ rewritten : Listed(i) => Behind(i)

UntouchedIsListed ==
  listing.pc # "closed" /\ listing.limit > 0 =>
    \A i \in Present \ edited : Listed(i) \/ (listing.pc = "open" /\ Ahead(i))

ListingInv ==
  /\ ListedOnce /\ ListedIsBehind /\ UntouchedIsListed
  /\ listing.pc = "closed" => listing.seen = <<>> /\ listing.cursor = None
  /\ listing.pc # "closed" => rewritten \subseteq edited

(* The positions of an id in the listing. *)
Places(i) == {k \in DOMAIN listing.seen : listing.seen[k] = i}

LEMMA SeenIs ==
  ASSUME FaceTyped
  PROVE  /\ listing.seen \in Seq(Ids) /\ Len(listing.seen) \in Nat
         /\ DOMAIN listing.seen = 1..Len(listing.seen)
BY LenProperties DEF FaceTyped, ListingFits, Lists

(* An entry listed once has one place, and a finished listing has no page to come. *)
LEMMA ListingInvImplies == FaceTyped /\ ListingInv => ListingIsExact
<1>. SUFFICES ASSUME FaceTyped, ListingInv PROVE ListingIsExact
  OBVIOUS
<1>1. ASSUME NEW i \in Ids, i \notin rewritten
      PROVE  Times(i) <= 1 /\ (Listed(i) => Times(i) = 1)
  <2>1. \A j, k \in Places(i) : j = k
    BY <1>1, SeenIs DEF ListingInv, ListedOnce, Places
  <2>2. Listed(i) => Places(i) # {}
    BY SeenIs DEF Listed, Places
  <2>3. Times(i) = Cardinality(Places(i))
    BY DEF Times, Places
  <2>. HIDE DEF Places
  <2>4. Places(i) = {} \/ \E k : Places(i) = {k}
    BY <2>1
  <2>5. Times(i) \in {0, 1} /\ (Places(i) # {} => Times(i) = 1)
    BY <2>3, <2>4, FS_EmptySet, FS_Singleton
  <2>. QED
    BY <2>2, <2>5
<1>2. ASSUME listing.pc = "done", listing.limit > 0, NEW i \in Present, i \notin edited PROVE Times(i) = 1
  <2>1. Listed(i) /\ i \notin rewritten
    BY <1>2 DEF ListingInv, UntouchedIsListed
  <2>2. i \in Ids
    BY DEF FaceTyped, StoreFits, Present
  <2>. QED
    BY <2>1, <2>2, <1>1
<1>. QED
  BY <1>1, <1>2 DEF ListingIsExact

LEMMA ListingInvInit == FaceInit => ListingInv
<1>. SUFFICES ASSUME FaceInit PROVE ListingInv
  OBVIOUS
<1>1. listing.pc = "closed" /\ listing.seen = <<>> /\ listing.cursor = None
  BY DEF FaceInit
<1>2. ListedOnce
  BY <1>1, EmptySeq DEF ListedOnce
<1>. QED
  BY <1>1, <1>2 DEF ListingInv, ListedIsBehind, UntouchedIsListed

(* What a step may do to the entries while a listing is open: leave them,    *)
(* drop them, put one at the present, or one at the past and say so.         *)
EntriesMove ==
  /\ edited \subseteq edited' /\ rewritten \subseteq rewritten'
  /\ rewritten \subseteq edited => rewritten' \subseteq edited'
  /\ \A j \in Present' : \/ j \in Present /\ store'[j] = store[j]
                         \/ j \in edited' /\ (store'[j] = now \/ j \in rewritten')

(* A step of that kind that leaves the listing alone keeps the invariant. *)
LEMMA ListingKept ==
  ASSUME FaceTyped, ListingInv, EntriesMove, listing' = listing, now' = now
  PROVE  ListingInv'
<1>1. ListedOnce'
  BY DEF ListingInv, ListedOnce, EntriesMove
<1>2. \A i : Listed(i)' <=> Listed(i)
  BY DEF Listed
<1>3. \A i, f : Item(f, i) = [at |-> f[i], id |-> i]
  BY DEF Item
<1>4. ListedIsBehind'
  <2>1. ASSUME listing.pc = "open", listing.cursor # None, NEW i \in Ids, i \notin rewritten', Behind(i)
        PROVE  Behind(i)'
    <3>1. i \in Present' => (i \in Present /\ store'[i] = store[i]) \/ store'[i] = now
      BY <2>1 DEF EntriesMove
    <3>. QED
      BY <2>1, <3>1, <1>3 DEF Behind
  <2>2. rewritten \subseteq rewritten'
    BY DEF EntriesMove
  <2>. HIDE DEF Behind
  <2>. QED
    BY <1>2, <2>1, <2>2 DEF ListingInv, ListedIsBehind
<1>5. UntouchedIsListed'
  <2>1. ASSUME NEW i \in Present', i \notin edited' PROVE i \in Present /\ i \notin edited /\ (Ahead(i) => Ahead(i)')
    <3>1. i \in Present /\ store'[i] = store[i] /\ i \notin edited
      BY <2>1 DEF EntriesMove
    <3>. QED
      BY <3>1, <1>3 DEF Ahead
  <2>. HIDE DEF Ahead
  <2>. QED
    BY <1>2, <2>1 DEF ListingInv, UntouchedIsListed
<1>. QED
  BY <1>1, <1>4, <1>5 DEF ListingInv, EntriesMove

(* A write is a step of that kind. *)
LEMMA UpsertMoves ==
  ASSUME FaceAssumption, FaceTyped, NEW i \in Ids, NEW at \in Nat, at <= now,
         store' = Upsert(i, at), Histories(i, at)
  PROVE  EntriesMove
<1>1. Entries(store) /\ now \in Nat /\ i \in Nat \ {0}
  BY StoreIsEntries DEF FaceAssumption
<1>2. /\ DOMAIN store' \subseteq Present \cup {i}
      /\ \A j \in DOMAIN store' : store'[j] = IF j = i THEN at ELSE store[j]
  BY <1>1, UpsertIs
<1>3. edited' = edited \cup {i} /\ rewritten' = IF at < now THEN rewritten \cup {i} ELSE rewritten
  BY DEF Histories
<1>4. at = now \/ i \in rewritten'
  BY <1>1, <1>3
<1>. QED
  BY <1>2, <1>3, <1>4 DEF EntriesMove, Present

LEMMA EntriesStay == ASSUME UNCHANGED <<store, edited, rewritten>> PROVE EntriesMove
BY DEF EntriesMove, Present

LEMMA EditMoves == ASSUME FaceAssumption, FaceTyped, NEW c \in Callers, Edit(c) PROVE EntriesMove
<1>1. ids \subseteq Ids
  BY DEF FaceTyped
<1>. QED
  BY <1>1, EditIs, UpsertMoves, EntriesStay

LEMMA RemovalMoves == ASSUME FaceTyped, NEW c \in Callers, Removal(c) PROVE EntriesMove
<1>1. /\ rewritten' = rewritten
      /\ \/ store' = Without(Due(c)) /\ edited' = edited \cup {Due(c)}
         \/ UNCHANGED <<store, edited>>
  BY RemovalSteps DEF RemovalIs
<1>2. CASE store' = Without(Due(c)) /\ edited' = edited \cup {Due(c)}
  BY <1>1, <1>2 DEF EntriesMove, Without, Present
<1>. QED
  BY <1>1, <1>2, EntriesStay

LEMMA WriteEntryMoves == ASSUME FaceAssumption, FaceTyped, WriteEntry PROVE EntriesMove
BY WriteEntryIs, UpsertMoves, EntriesStay

LEMMA TickKeepsListing == FaceTyped /\ ListingInv /\ Tick => ListingInv'
<1>. SUFFICES ASSUME FaceTyped, ListingInv, Tick PROVE ListingInv'
  OBVIOUS
<1>1. now \in Nat /\ now' = now + 1 /\ UNCHANGED <<store, listing, edited, rewritten>>
  BY DEF FaceTyped, Tick
<1>2. ListedOnce' /\ UntouchedIsListed' /\ (\A i : Listed(i)' <=> Listed(i))
  BY <1>1 DEF ListingInv, ListedOnce, UntouchedIsListed, Listed, Ahead, Item, Present
<1>3. ASSUME listing.pc = "open", listing.cursor.at <= now, NEW i \in Ids, Behind(i) PROVE Behind(i)'
  <2>1. listing.cursor \in Records
    BY DEF FaceTyped, ListingFits, Lists
  <2>2. listing.cursor.at \in Nat /\ listing.cursor.at < now'
    BY <1>1, <1>3, <2>1 DEF Records
  <2>3. ~IsAfter([at |-> now', id |-> i], listing.cursor)
    BY <1>1, <2>2 DEF IsAfter
  <2>. QED
    BY <1>1, <1>3, <2>3 DEF Behind, Present, Item
<1>4. listing.cursor \in Records
  BY DEF FaceTyped, ListingFits, Lists
<1>5. listing.cursor.at <= now => listing.cursor.at <= now'
  BY <1>1, <1>4 DEF Records
<1>. HIDE DEF Behind
<1>6. ListedIsBehind'
  BY <1>1, <1>2, <1>3, <1>5 DEF ListingInv, ListedIsBehind
<1>. QED
  BY <1>1, <1>2, <1>6 DEF ListingInv

LEMMA OpenListingBegins == FaceAssumption /\ FaceTyped /\ ListingInv /\ OpenListing => ListingInv'
<1>. SUFFICES ASSUME FaceAssumption, FaceTyped, ListingInv, OpenListing PROVE ListingInv'
  OBVIOUS
<1>1. PICK limit \in Limits : listing' = [listing EXCEPT !.pc = "open", !.limit = limit]
  BY DEF OpenListing
<1>2. listing.seen = <<>> /\ listing.cursor = None
  BY DEF ListingInv, OpenListing
<1>3. listing'.pc = "open" /\ listing'.seen = <<>> /\ listing'.cursor = None
  BY <1>1, <1>2 DEF FaceTyped, ListingFits, Lists
<1>4. rewritten' = {} /\ now' = now /\ now \in Nat
  BY DEF FaceTyped, OpenListing
<1>5. ListedOnce'
  BY <1>3, EmptySeq DEF ListedOnce
<1>6. ListedIsBehind' /\ UntouchedIsListed'
  BY <1>3, <1>4 DEF ListedIsBehind, UntouchedIsListed, Ahead, None
<1>. QED
  BY <1>3, <1>4, <1>5, <1>6 DEF ListingInv

LEMMA AfterIsTransitive ==
  ASSUME NEW a \in Records, NEW b \in Records, NEW c \in Records, IsAfter(a, b), IsAfter(b, c)
  PROVE  IsAfter(a, c)
BY DEF IsAfter, Records

(* An entry behind a record is behind it too when its time is now.           *)
LEMMA NowIsFirst ==
  ASSUME NEW a \in Records, NEW b \in Records, NEW t \in Nat, a.at <= t, ~IsAfter(a, b)
  PROVE  ~IsAfter([at |-> t, id |-> a.id], b)
BY DEF IsAfter, Records

(* A page moves the cursor on, past what it lists. *)
LEMMA NextPageAdvances == FaceAssumption /\ FaceTyped /\ ListingInv /\ NextPage => ListingInv'
<1>. SUFFICES ASSUME FaceAssumption, FaceTyped, ListingInv, NextPage PROVE ListingInv'
  OBVIOUS
<1>. DEFINE cursor == listing.cursor
            seen   == listing.seen
            n      == Len(seen)
<1>1. PICK page, listed :
        /\ Pages(store, cursor, listing.limit, page)
        /\ listed = [k \in DOMAIN page.items |-> page.items[k].id]
        /\ listing' = [listing EXCEPT !.seen = seen \o listed, !.cursor = page.next,
                                      !.pc = IF page.next = None THEN "done" ELSE "open"]
  BY NextPageIs
<1>. DEFINE m == Len(listed)
<1>2. /\ Entries(store) /\ Present \subseteq Ids /\ cursor \in Records /\ now \in Nat /\ listing.pc = "open"
      /\ \A i \in Present : store[i] <= now
  BY DEF FaceTyped, StoreFits, ListingFits, Lists, Present, NextPage
<1>3. /\ listed \in Seq(Ids) /\ m = Len(page.items) /\ m \in Nat
      /\ \A k \in 1..m : listed[k] = page.items[k].id /\ listed[k] \in Past(store, cursor)
      /\ \A j, k \in 1..m : listed[j] = listed[k] => j = k
  <2>1. DOMAIN store \subseteq Ids
    BY <1>2 DEF Present
  <2>2. Pages(store, cursor, listing.limit, page) /\ listed = [k \in DOMAIN page.items |-> page.items[k].id]
    BY <1>1
  <2>. HIDE DEF cursor
  <2>. QED
    BY <2>1, <2>2, PageIds
<1>4. seen \in Seq(Ids) /\ n \in Nat
  BY SeenIs
<1>5. UNCHANGED <<now, store, edited, rewritten>>
  BY DEF NextPage
<1>6. listing'.seen = seen \o listed /\ listing'.cursor = page.next
      /\ listing'.pc = IF page.next = None THEN "done" ELSE "open"
  BY <1>1 DEF FaceTyped, ListingFits, Lists
<1>16. listing'.limit = listing.limit
  BY DEF NextPage, FaceTyped, ListingFits, Lists
<1>. DEFINE all == seen \o listed
            Turned(i) == \E k \in 1..m : listed[k] = i
<1>7. /\ \A j \in 1..Len(all) : \/ j \in 1..n /\ all[j] = seen[j] /\ Listed(all[j])
                               \/ \E l \in 1..m : j = n + l /\ all[j] = listed[l] /\ Turned(all[j])
      /\ \A i : (\E k \in 1..Len(all) : all[k] = i) <=> Listed(i) \/ Turned(i)
  <2>1. seen \in Seq(Ids) /\ listed \in Seq(Ids)
    BY <1>3, <1>4
  <2>2. /\ \A j \in 1..Len(all) : \/ j \in 1..n /\ all[j] = seen[j]
                                 \/ \E l \in 1..m : j = n + l /\ all[j] = listed[l]
        /\ \A x : (\E k \in 1..Len(all) : all[k] = x)
                  <=> (\E k \in 1..n : seen[k] = x) \/ (\E k \in 1..m : listed[k] = x)
    <3>. HIDE DEF seen
    <3>. QED
      BY <2>1, ConcatPlaces
  <2>3. \A x : Listed(x) <=> \E k \in 1..n : seen[k] = x
    BY DEF Listed
  <2>. HIDE DEF all, n, m, seen, Listed
  <2>. QED
    BY <2>2, <2>3
<1>8. \A i : i \in Past(store, cursor) <=> i \in Present /\ Ahead(i)
  BY DEF Past, Ahead, Present
<1>9. \A i : Listed(i)' <=> Listed(i) \/ Turned(i)
  <2>1. listing'.seen = all
    BY <1>6
  <2>. HIDE DEF all, Turned
  <2>2. \A i : Listed(i)' <=> \E k \in 1..Len(all) : all[k] = i
    BY <2>1 DEF Listed
  <2>. HIDE DEF Listed
  <2>. QED
    BY <2>2, <1>7
(* What the page lists was ahead of the cursor, what was listed is behind. *)
<1>10. ASSUME NEW i \in Ids, i \notin rewritten, Listed(i) PROVE cursor # None /\ Behind(i) /\ ~Turned(i)
  <2>1. seen # <<>>
    BY <1>10, <1>4, EmptySeq DEF Listed
  <2>2. cursor # None /\ Behind(i)
    BY <2>1, <1>2, <1>10 DEF ListingInv, ListedIsBehind
  <2>3. i \notin Past(store, cursor)
    BY <2>2, <1>8 DEF Behind, Ahead
  <2>. QED
    BY <2>2, <2>3, <1>3
<1>. HIDE DEF Turned, all
<1>11. ListedOnce'
  <2>. SUFFICES ASSUME NEW j \in 1..Len(all), NEW k \in 1..Len(all), all[j] = all[k], all[j] \notin rewritten
                PROVE  j = k
    BY <1>5, <1>6 DEF ListedOnce, all
  <2>1. (Listed(all[j]) \/ Turned(all[j])) => all[j] \in Ids
    BY <1>3, <1>4 DEF Listed, Turned
  <2>2. ~(Listed(all[j]) /\ Turned(all[j]))
    BY <2>1, <1>10
  <2>3. CASE Listed(all[j])
    <3>1. j \in 1..n /\ k \in 1..n /\ seen[j] = seen[k] /\ seen[j] \notin rewritten
      BY <2>2, <2>3, <1>7
    <3>. QED
      BY <3>1 DEF ListingInv, ListedOnce
  <2>4. CASE ~Listed(all[j])
    <3>1. PICK l \in 1..m : j = n + l /\ all[j] = listed[l]
      BY <2>4, <1>7
    <3>2. PICK h \in 1..m : k = n + h /\ all[k] = listed[h]
      BY <2>4, <1>7
    <3>. QED
      BY <3>1, <3>2, <1>3
  <2>. QED
    BY <2>3, <2>4
<1>12. ASSUME page.next # None
       PROVE  /\ page.next \in Records /\ page.next.at <= now
              /\ cursor = None \/ IsAfter(page.next, cursor)
              /\ \A k \in 1..m : ~IsAfter(page.items[k], page.next)
              /\ \A i \in Past(store, cursor) : Turned(i) \/ IsAfter(Item(store, i), page.next)
  <2>1. PICK i \in Past(store, cursor) : page.next = Item(store, i)
    BY <1>1, <1>12 DEF Pages
  <2>2. i \in DOMAIN store /\ (cursor = None \/ IsAfter(Item(store, i), cursor))
    BY DEF Past
  <2>3. Item(store, i) \in Records /\ Item(store, i).at <= now
    BY <2>2, <1>2, ItemIs DEF Present
  <2>4. /\ \A k \in 1..Len(page.items) : ~IsAfter(page.items[k], page.next)
        /\ \A j \in Past(store, cursor) : \/ \E k \in 1..Len(page.items) : page.items[k].id = j
                                          \/ IsAfter(Item(store, j), page.next)
    BY <1>1, <1>12 DEF Pages
  <2>5. \A j : (\E k \in 1..m : page.items[k].id = j) => Turned(j)
    BY <1>3 DEF Turned
  <2>. QED
    BY <2>1, <2>2, <2>3, <2>4, <2>5, <1>3
<1>13. ListedIsBehind'
  <2>. SUFFICES ASSUME page.next # None
                PROVE  /\ page.next.at <= now
                       /\ \A i \in Ids \ rewritten : Listed(i)' => Behind(i)'
    BY <1>5, <1>6 DEF ListedIsBehind
  <2>1. ASSUME NEW i \in Ids, i \notin rewritten, Listed(i) PROVE Behind(i)'
    <3>1. cursor # None /\ ~IsAfter([at |-> now, id |-> i], cursor) /\ (i \in Present => ~IsAfter(Item(store, i), cursor))
      BY <2>1, <1>10 DEF Behind
    <3>2. page.next \in Records /\ IsAfter(page.next, cursor)
      BY <3>1, <1>12
    <3>3. [at |-> now, id |-> i] \in Records /\ (i \in Present => Item(store, i) \in Records)
      BY <1>2, ItemIs DEF Records, FaceAssumption, Present
    <3>4. ~IsAfter([at |-> now, id |-> i], page.next) /\ (i \in Present => ~IsAfter(Item(store, i), page.next))
      BY <3>1, <3>2, <3>3, <1>2, AfterIsTransitive
    <3>. QED
      BY <3>4, <1>5, <1>6 DEF Behind, Present, Item
  <2>2. ASSUME NEW i \in Ids, Turned(i) PROVE Behind(i)'
    <3>1. PICK k \in 1..m : listed[k] = i
      BY <2>2 DEF Turned
    <3>2. \A l \in 1..Len(page.items) : page.items[l] = Item(store, page.items[l].id)
      BY <1>1 DEF Pages
    <3>3. page.items[k] = Item(store, i) /\ i \in Past(store, cursor)
      BY <3>2, <3>1, <1>3
    <3>4. i \in Present /\ Item(store, i) \in Records /\ Item(store, i).id = i /\ Item(store, i).at <= now
      BY <3>3, <1>2, ItemIs DEF Past, Present
    <3>5. ~IsAfter(Item(store, i), page.next) /\ page.next \in Records
      BY <3>3, <1>12
    <3>6. ~IsAfter([at |-> now, id |-> i], page.next)
      BY <3>4, <3>5, <1>2, NowIsFirst
    <3>. QED
      BY <3>5, <3>6, <1>5, <1>6 DEF Behind, Present, Item
  <2>. HIDE DEF Behind
  <2>. QED
    BY <2>1, <2>2, <1>9, <1>12
<1>14. UntouchedIsListed'
  <2>1. ASSUME listing.limit > 0, NEW i \in Present, i \notin edited
        PROVE  Listed(i)' \/ (listing'.pc = "open" /\ Ahead(i)')
    <3>1. CASE Listed(i)
      BY <3>1, <1>9
    <3>2. CASE ~Listed(i)
      <4>1. i \in Past(store, cursor)
        BY <3>2, <2>1, <1>2, <1>8 DEF ListingInv, UntouchedIsListed
      <4>2. CASE page.next = None
        <5>1. \E k \in 1..Len(page.items) : page.items[k].id = i
          BY <2>1, <4>1, <4>2, <1>1 DEF Pages
        <5>. QED
          BY <5>1, <1>3, <1>9 DEF Turned
      <4>3. CASE page.next # None
        BY <4>1, <4>3, <1>5, <1>6, <1>9, <1>12 DEF Ahead, Item
      <4>. QED
        BY <4>2, <4>3
    <3>. QED
      BY <3>1, <3>2
  <2>. HIDE DEF Ahead, Listed
  <2>. QED
    BY <2>1, <1>5, <1>16 DEF UntouchedIsListed, Present
<1>15. listing'.pc # "closed" /\ rewritten' \subseteq edited'
  BY <1>2, <1>5, <1>6 DEF ListingInv
<1>. QED
  BY <1>11, <1>13, <1>14, <1>15 DEF ListingInv

LEMMA FaceStepListing == FaceAssumption /\ FaceTyped /\ ListingInv /\ [FaceNext]_faceVars => ListingInv'
<1>. SUFFICES ASSUME FaceAssumption, FaceTyped, ListingInv, [FaceNext]_faceVars PROVE ListingInv'
  OBVIOUS
<1>1. CASE UNCHANGED faceVars \/ StartCompact \/ Summarized
  BY <1>1, EntriesStay, ListingKept DEF faceVars, StartCompact, Summarized
<1>2. CASE WriteEntry
  BY <1>2, WriteEntryMoves, ListingKept DEF WriteEntry
<1>3. ASSUME NEW c \in Callers, FindToEdit(c) \/ FindToForget(c) \/ Collect(c) \/ Stamp(c) \/ Announce(c)
      PROVE  ListingInv'
  BY <1>3, EntriesStay, ListingKept DEF FindToEdit, FindToForget, Collect, Begin, Stamp, Announce
<1>4. ASSUME NEW c \in Callers, Edit(c) PROVE ListingInv'
  BY <1>4, EditMoves, ListingKept DEF Edit
<1>5. ASSUME NEW c \in Callers, Removal(c) PROVE ListingInv'
  BY <1>5, RemovalSteps, RemovalMoves, ListingKept
<1>. QED
  BY <1>1, <1>2, <1>3, <1>4, <1>5, TickKeepsListing, OpenListingBegins, NextPageAdvances DEF FaceNext, Removal

(* Keyset paging is exact over any number of entries and of callers, with    *)
(* pages of any size and ties of any length: what nobody touched is listed   *)
(* once, and nothing twice but what a write of the past moved back.          *)
THEOREM ListingsAreExact == FaceSpec => []ListingIsExact
<1>. USE FaceAssumption
<1>1. FaceInit => FaceTyped /\ ListingInv
  BY FaceInitTyped, ListingInvInit
<1>2. FaceTyped /\ ListingInv /\ [FaceNext]_faceVars => (FaceTyped /\ ListingInv)'
  BY FaceStepTyped, FaceStepListing
<1>3. FaceTyped /\ ListingInv => ListingIsExact
  BY ListingInvImplies
<1>. QED
  BY <1>1, <1>2, <1>3, PTL DEF FaceSpec
=============================================================================
