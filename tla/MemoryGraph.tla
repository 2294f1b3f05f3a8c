----------------------------- MODULE MemoryGraph -----------------------------
(***************************************************************************)
(* Long-term memory (L3): one partition's entity graph, its recall vectors *)
(* and the bookkeeping for their repair.  The distillations of several     *)
(* conversations write it, each serialized within its conversation only,   *)
(* while callers of the management face edit and forget entities.          *)
(*                                                                         *)
(* An entity is its id and its aliases, a relation its two ends:           *)
(* descriptions, types and stamps decide nothing here.  A step is a store  *)
(* call or an await; a failure may end a run before any of its steps and   *)
(* leaves what was written.                                                *)
(***************************************************************************)
EXTENDS Integers, Sequences

CONSTANTS
  Names,      \* the names an extraction may produce
  Convs,      \* the conversations that distill into the partition
  Managers,   \* the callers of the management face
  Faults,     \* whether model calls, embeddings and stores may fail
  MaxDrafts,  \* bound on the entities of one extraction
  MaxEdges,   \* bound on the relations of one extraction
  MaxRuns,    \* bound on the distillations of a conversation
  MaxCalls    \* bound on the calls of the management face

ASSUME GraphAssumption ==
  /\ Faults \in BOOLEAN /\ MaxDrafts \in Nat /\ MaxEdges \in Nat /\ MaxRuns \in Nat /\ MaxCalls \in Nat

VARIABLES
  graph,      \* L3MemoryGraphStore: canonical name -> entity
  edges,      \* its relations: the names of their two ends
  vectors,    \* L3MemoryVectorStore: the names with a vector
  touched,    \* the names each conversation wrote since its last repair
  run,        \* the distillation or the repair of each conversation
  call,       \* what each of them is doing to the entity under a name
  lastId,     \* ids handed out so far
  runs,       \* distillations started, by conversation
  calls,      \* management calls so far
  forgotten,  \* history: the names a forget was called for
  loose       \* history: the ends no draft of their extraction introduced

vars == <<graph, edges, vectors, touched, run, call, lastId, runs, calls, forgotten, loose>>

Absent  == [id |-> 0, aliases |-> {}]
Entity  == [id : Nat \ {0}, aliases : SUBSET Names]
Held(g) == {n \in Names : g[n] # Absent}

(* A relation's type is left out: its identity is its two ends. *)
Relation    == Names \X Names
GraphStore  == [Names -> Entity \cup {Absent}]
VectorStore == SUBSET Names

(* What the extractor may name: anything, for the known entities are only  *)
(* offered to it. A reply it cannot read is a failure.                     *)
Extracted == Names

Resting == [pc |-> "idle", left |-> 0, draft |-> <<>>, canon |-> <<>>, known |-> [n \in Names |-> Absent], into |-> <<>>, targets |-> {}]
NoCall  == [pc |-> "idle", found |-> Absent, located |-> <<>>]

TypeOK ==
  /\ graph \in GraphStore /\ edges \subseteq Relation
  /\ vectors \in VectorStore /\ forgotten \cup loose \subseteq Names /\ touched \in [Convs -> SUBSET Names]
  /\ lastId \in Nat /\ runs \in [Convs -> 0..MaxRuns] /\ calls \in 0..MaxCalls
  /\ run \in [Convs ->
       [pc : {"idle", "resolving", "embedding", "writing", "relating", "fetching", "repairing"},
        left : 0..(IF MaxDrafts > MaxEdges THEN MaxDrafts ELSE MaxEdges), draft : {<<>>} \cup {<<n>> : n \in Names},
        canon : {<<>>} \cup UNION {[drafts -> Names] : drafts \in SUBSET Names},
        known : GraphStore, into : {<<>>} \cup {<<n>> : n \in Names}, targets : SUBSET Names]]
  /\ call \in [Names \X Managers ->
       [pc : {"idle", "editing", "refreshing", "unindexing", "removing", "unlinking"},
        found : Entity \cup {Absent}, located : {<<>>} \cup {<<n>> : n \in Names}]]

Init ==
  /\ graph = [n \in Names |-> Absent] /\ edges = {} /\ vectors = {}
  /\ touched = [c \in Convs |-> {}] /\ run = [c \in Convs |-> Resting]
  /\ call = [k \in Names \X Managers |-> NoCall] /\ lastId = 0 /\ runs = [c \in Convs |-> 0] /\ calls = 0
  /\ forgotten = {} /\ loose = {}

stores == <<graph, edges, vectors, lastId>>
bounds == <<runs, calls>>
-----------------------------------------------------------------------------
(* The stores *)

(* Variant: a store that takes the record as it comes. *)
UpsertedWhole(n, e) == [graph EXCEPT ![n] = e]

(* upsert_entity: the record held under the name keeps its id. *)
Upserted(n, e) == [graph EXCEPT ![n] = IF graph[n] = Absent THEN e ELSE [e EXCEPT !.id = graph[n].id]]

(* upsert_edge, remove_edge, edges_of. *)
Linked(e)   == edges \cup {e}
Unlinked(e) == edges \ {e}
EdgesOf(n)  == {e \in edges : n \in {e[1], e[2]}}

(* Whatever the measure of similarity, a search answers vectors it holds.  *)
Nearest == vectors

-----------------------------------------------------------------------------
(* distill and write_graph, one run of a conversation at a time *)

At(c, pc)  == run[c].pc = pc
Go(c, pc)  == run' = [run EXCEPT ![c].pc = pc]
EndRun(c)  == run' = [run EXCEPT ![c] = Resting]
Draft(c)   == run[c].draft[1]
Into(c)    == run[c].into[1]

(* The extraction, and the entities read before its first draft is written. *)
(* Its drafts and relations are drawn as they are consumed; one without a   *)
(* draft writes loose relations only and is left out.                       *)
Extract(c) ==
  /\ At(c, "idle") /\ runs[c] < MaxRuns
  /\ runs' = [runs EXCEPT ![c] = @ + 1]
  /\ \E k \in 1..MaxDrafts :
       run' = [run EXCEPT ![c] = [Resting EXCEPT !.pc = "resolving", !.left = k, !.known = graph]]
  /\ UNCHANGED <<stores, touched, call, calls, forgotten, loose>>

(* The names resolve_canonical may answer: an entity of the snapshot with  *)
(* this name or alias, else an entity the vectors propose and the model    *)
(* judges the same, else the name itself.                                  *)
Known(c, d)      == {n \in Held(run[c].known) : n = d \/ d \in run[c].known[n].aliases}
Canonical(c, d)  == IF Known(c, d) # {} THEN Known(c, d) ELSE {d} \cup (Nearest \cap Held(graph))

Resolve(c) ==
  /\ At(c, "resolving")
  /\ \E d \in Extracted : \E n \in Canonical(c, d) :
       run' = [run EXCEPT ![c].draft = <<d>>, ![c].into = <<n>>, ![c].pc = "embedding",
                          ![c].canon = [x \in DOMAIN @ \cup {d} |-> IF x = d THEN n ELSE @[x]]]
  /\ UNCHANGED <<stores, touched, call, bounds, forgotten, loose>>

(* The written record takes id and aliases from the snapshot. *)
Written(c) ==
  LET old == run[c].known[Into(c)]
  IN  [id      |-> IF old = Absent THEN lastId + 1 ELSE old.id,
       aliases |-> old.aliases \cup ({Draft(c)} \ {Into(c)})]

(* Variant: the graph first. *)
WriteGraphFirst(c) ==
  /\ At(c, "embedding") /\ Go(c, "writing")
  /\ graph' = Upserted(Into(c), Written(c)) /\ lastId' = lastId + 1
  /\ UNCHANGED <<edges, vectors, touched, call, bounds, forgotten, loose>>

(* Vectors first. *)
WriteVector(c) ==
  /\ At(c, "embedding") /\ Go(c, "writing")
  /\ vectors' = vectors \cup {Into(c)}
  /\ UNCHANGED <<graph, edges, lastId, touched, call, bounds, forgotten, loose>>

(* Past the last draft come the relations of the extraction. *)
NextDraft(c) ==
  IF run[c].left > 1
    THEN run' = [run EXCEPT ![c].left = @ - 1, ![c].draft = <<>>, ![c].into = <<>>, ![c].pc = "resolving"]
    ELSE \/ EndRun(c)
         \/ \E k \in 1..MaxEdges :
              run' = [run EXCEPT ![c] = [Resting EXCEPT !.pc = "relating", !.left = k, !.canon = run[c].canon]]

(* What a conversation wrote is kept for the repair at its end. *)
Touched(c, n) == [touched EXCEPT ![c] = @ \cup {n}]

(* Variant: the drafts are counted one too far. *)
WriteEntityOnceMore(c) ==
  /\ At(c, "writing")
  /\ graph' = Upserted(Into(c), Written(c)) /\ lastId' = lastId + 1
  /\ touched' = Touched(c, Into(c))
  /\ run' = [run EXCEPT ![c].left = @ - 1, ![c].draft = <<>>, ![c].into = <<>>, ![c].pc = "resolving"]
  /\ UNCHANGED <<edges, vectors, call, bounds, forgotten, loose>>

WriteEntity(c) ==
  /\ At(c, "writing")
  /\ graph' = Upserted(Into(c), Written(c)) /\ lastId' = lastId + 1
  /\ touched' = Touched(c, Into(c))
  /\ NextDraft(c)
  /\ UNCHANGED <<edges, vectors, call, bounds, forgotten, loose>>

(* The name an end of a relation was resolved to, if a draft introduced it. *)
Resolved(c, n) == IF n \in DOMAIN run[c].canon THEN run[c].canon[n] ELSE n

(* upsert_edge, one relation after the other. *)
WriteEdge(c) ==
  /\ At(c, "relating")
  /\ \E from, to \in Extracted :
       /\ edges' = Linked(<<Resolved(c, from), Resolved(c, to)>>)
       /\ loose' = loose \cup ({from, to} \ DOMAIN run[c].canon)
  /\ IF run[c].left = 1 THEN EndRun(c) ELSE run' = [run EXCEPT ![c].left = @ - 1]
  /\ UNCHANGED <<graph, vectors, lastId, touched, call, bounds, forgotten>>

(* A failed embedding, verdict or store call ends the run where it stands. *)
FailRun(c) ==
  /\ Faults /\ ~At(c, "idle") /\ EndRun(c)
  /\ UNCHANGED <<stores, touched, call, bounds, forgotten, loose>>
-----------------------------------------------------------------------------
(* repair_touched, when the conversation ends *)

TakeTouched(c) ==
  /\ At(c, "idle") /\ touched[c] # {}
  /\ run' = [run EXCEPT ![c].pc = "fetching", ![c].targets = touched[c]]
  /\ touched' = [touched EXCEPT ![c] = {}]
  /\ UNCHANGED <<stores, call, bounds, forgotten, loose>>

(* One target at a time: one no longer in the graph is passed over. *)
FetchTarget(c) ==
  /\ At(c, "fetching")
  /\ IF run[c].targets = {} THEN EndRun(c)
     ELSE \E n \in run[c].targets :
            run' = [run EXCEPT ![c].targets = @ \ {n}, ![c].draft = <<n>>,
                               ![c].pc = IF graph[n] = Absent THEN "fetching" ELSE "repairing"]
  /\ UNCHANGED <<stores, touched, call, bounds, forgotten, loose>>

RepairTarget(c) ==
  /\ At(c, "repairing") /\ Go(c, "fetching")
  /\ vectors' = vectors \cup {Draft(c)}
  /\ UNCHANGED <<graph, edges, lastId, touched, call, bounds, forgotten, loose>>
-----------------------------------------------------------------------------
(* The management face: m on the entity found under the name n *)

Calling(n, m, pc) == call[<<n, m>>].pc = pc
Return(n, m)      == call' = [call EXCEPT ![<<n, m>>] = NoCall]
Step(n, m, pc)    == call' = [call EXCEPT ![<<n, m>>].pc = pc]

Find(n, m) ==
  /\ Calling(n, m, "idle") /\ graph[n] # Absent /\ calls < MaxCalls /\ calls' = calls + 1
  /\ \/ call' = [call EXCEPT ![<<n, m>>] = [NoCall EXCEPT !.pc = "editing", !.found = graph[n]]]
        /\ UNCHANGED forgotten
     \/ /\ call' = [call EXCEPT ![<<n, m>>] = [NoCall EXCEPT !.pc = "unindexing", !.found = graph[n]]]
        /\ forgotten' = forgotten \cup {n}
  /\ UNCHANGED <<stores, touched, run, runs, loose>>

(* embed_inline_passage: no inline path, a failing one, or a vector.        *)
Refreshed(n) == {vectors, vectors \cup {n}}

(* edit_entity writes the record it found, then refreshes the vector where *)
(* the embedding port has an inline path that succeeds.                    *)
EditEntity(n, m) ==
  /\ Calling(n, m, "editing") /\ Step(n, m, "refreshing")
  /\ graph' = Upserted(n, call[<<n, m>>].found)
  /\ UNCHANGED <<edges, vectors, lastId, touched, run, bounds, forgotten, loose>>

RefreshVector(n, m) ==
  /\ Calling(n, m, "refreshing") /\ Return(n, m)
  /\ vectors' \in Refreshed(n)
  /\ UNCHANGED <<graph, edges, lastId, touched, run, bounds, forgotten, loose>>

(* forget_entity: the vector, then the entity that has the id.              *)
RemoveVector(n, m) ==
  /\ Calling(n, m, "unindexing") /\ Step(n, m, "removing")
  /\ vectors' = vectors \ {n}
  /\ UNCHANGED <<graph, edges, lastId, touched, run, bounds, forgotten, loose>>

HasId(id) == {x \in Held(graph) : graph[x].id = id}

(* remove_entity_by_id looks the id up in one section of its lock, and is   *)
(* done when nothing has it ...                                             *)
LocateEntity(n, m) ==
  /\ Calling(n, m, "removing")
  /\ IF HasId(call[<<n, m>>].found.id) = {} THEN Return(n, m)
     ELSE \E x \in HasId(call[<<n, m>>].found.id) :
            call' = [call EXCEPT ![<<n, m>>].pc = "unlinking", ![<<n, m>>].located = <<x>>]
  /\ UNCHANGED <<stores, touched, run, bounds, forgotten, loose>>

(* ... and in another removes what is then under the name, with its         *)
(* relations, and answers true either way.                                  *)
RemoveEntity(n, m) ==
  /\ Calling(n, m, "unlinking") /\ Return(n, m)
  /\ graph' = [graph EXCEPT ![call[<<n, m>>].located[1]] = Absent]
  /\ edges' = edges \ EdgesOf(call[<<n, m>>].located[1])
  /\ UNCHANGED <<vectors, lastId, touched, run, bounds, forgotten, loose>>

(* forget_l3_memory_relation: one store call.                               *)
ForgetRelation ==
  /\ calls < MaxCalls /\ calls' = calls + 1
  /\ \E e \in edges : edges' = Unlinked(e)
  /\ UNCHANGED <<graph, vectors, lastId, touched, run, call, runs, forgotten, loose>>

FailCall(n, m) ==
  /\ Faults /\ call[<<n, m>>].pc \in {"editing", "unindexing", "removing"} /\ Return(n, m)
  /\ UNCHANGED <<stores, touched, run, bounds, forgotten, loose>>
-----------------------------------------------------------------------------
Distill(c) == Extract(c) \/ Resolve(c) \/ WriteVector(c) \/ WriteEntity(c) \/ WriteEdge(c) \/ FailRun(c)
Repair(c)  == TakeTouched(c) \/ FetchTarget(c) \/ RepairTarget(c)
Forget(n, m) == RemoveVector(n, m) \/ LocateEntity(n, m) \/ RemoveEntity(n, m)
Manage(n, m) == Find(n, m) \/ EditEntity(n, m) \/ RefreshVector(n, m) \/ Forget(n, m) \/ FailCall(n, m)

Next ==
  \/ \E c \in Convs : Distill(c) \/ Repair(c)
  \/ ForgetRelation \/ \E n \in Names, m \in Managers : Manage(n, m)

Spec == Init /\ [][Next]_vars
-----------------------------------------------------------------------------
(* "Vectors first: a partial failure leaves a harmless orphan vector        *)
(* instead of an unrecallable entity": whatever fails half-way and however  *)
(* distillations and repairs overlap, an entity without a vector is one     *)
(* that a forget was called for.                                            *)
EntitiesAreRecallable == Held(graph) \subseteq vectors \cup forgotten

(* An end of a relation that the extraction introduced with a draft is the  *)
(* entity the draft was merged into, there or forgotten: never the name the *)
(* model used for it (write_graph, canonical_names).                        *)
RelationsAreResolved ==
  \A e \in edges : {e[1], e[2]} \subseteq Held(graph) \cup forgotten \cup loose

GraphIsReachable == EntitiesAreRecallable /\ RelationsAreResolved

(* The id a caller holds stays the entity's as long as the entity is there, *)
(* although every writer brings a record made from an older reading.        *)
IdentityIsStable ==
  [][\A n \in Held(graph) : graph'[n] # Absent => graph'[n].id = graph[n].id]_graph

(* L3MemoryGraphEntity.aliases: "Alternative names merged into this entity." *)
(* A name merged into an entity stays among its aliases.                     *)
AliasesAreKept ==
  [][\A n \in Held(graph) : graph'[n] # Absent => graph[n].aliases \subseteq graph'[n].aliases]_graph
=============================================================================
