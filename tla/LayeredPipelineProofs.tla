----------------------- MODULE LayeredPipelineProofs ------------------------
(***************************************************************************)
(* What holds of the layered memory's write phase for every window, store  *)
(* capacity, number of turns and of concurrent hooks, with or without      *)
(* failures and restarts.  One inductive invariant carries all of it:      *)
(* above the types, that a batch and the end's backlog reach back to what  *)
(* is compacted (Contiguous), which is what makes a late mark harmless.    *)
(***************************************************************************)
EXTENDS LayeredPipeline, FiniteSetTheorems, TLAPS

PCs == HookSteps \cup TaskSteps \cup EndSteps \cup Outcomes

Typed == TypeOK /\ \A a \in Actors : At(a, "writing") => job[a].left # 0

Numbered ==
  /\ \A t \in Turns : t > next => At(t, "idle")
  /\ held \subseteq 1..next /\ rest \subseteq 1..next /\ cursor <= next
  /\ \A a \in Actors : job[a].batch \subseteq 1..next

(* A cursor that the store no longer holds is older than all it holds. *)
CursorLeads == cursor \notin held => \A t \in held : t > cursor

(* A held turn below a member of S is in S, or its summary was written. *)
ReachesBack(S) == \A s \in S : \A t \in held : t <= s => t \in S \cup compacted
Contiguous     == ReachesBack(rest) /\ \A a \in Actors : ReachesBack(job[a].batch)

WrittenFirst ==
  \A a \in Actors : At(a, "marking") \/ (a = End /\ At(a, "distilling")) =>
     job[a].batch \subseteq compacted

(* What the end still owes is what it has yet to drain. *)
Owing ==
  /\ job[End].pc \in EndSteps \ {"repairing"} => owed \subseteq rest
  /\ job[End].pc \in {"repairing", "ok"} => owed = {}

IInv == /\ Typed /\ Numbered /\ CursorLeads /\ CursorFollowsWrites
        /\ Contiguous /\ WrittenFirst /\ OneMaintenance /\ Owing

-----------------------------------------------------------------------------
(* Sets of turns *)

LEMMA TurnSets ==
  ASSUME NEW S \in SUBSET Turns
  PROVE  IsFiniteSet(S) /\ Cardinality(S) \in Nat
<1>1. MaxTurns \in Nat
  BY PipelineAssumption
<1>2. IsFiniteSet(1..MaxTurns)
  BY <1>1, FS_Interval
<1>3. IsFiniteSet(S)
  BY <1>2, FS_Subset DEF Turns
<1>. QED
  BY <1>3, FS_CardinalityType

(* The oldest turns of a set reach back to its beginning. *)
LEMMA OldestReachBack ==
  ASSUME NEW S \in SUBSET Turns, NEW n \in Nat, NEW b \in Oldest(S, n),
         NEW t \in S, t <= b
  PROVE  t \in Oldest(S, n)
<1>. DEFINE Before(x) == {u \in S : u < x}
<1>1. b \in S /\ Cardinality(Before(b)) < n
  BY DEF Oldest
<1>2. Before(t) \subseteq Before(b)
  <2>1. \A x \in S : x \in Int
    BY DEF Turns
  <2>. QED
    BY <1>1, <2>1
<1>3. Cardinality(Before(t)) <= Cardinality(Before(b))
  <2>1. Before(b) \in SUBSET Turns
    OBVIOUS
  <2>2. IsFiniteSet(Before(b))
    BY <2>1, TurnSets
  <2>. HIDE DEF Before
  <2>. QED
    BY <1>2, <2>2, FS_Subset
<1>4. Cardinality(Before(t)) \in Nat /\ Cardinality(Before(b)) \in Nat
  BY TurnSets
<1>. HIDE DEF Before
<1>5. Cardinality(Before(t)) < n
  BY <1>1, <1>3, <1>4
<1>. QED
  BY <1>5 DEF Oldest, Before

(* What the newest leave out is older than all of them. *)
LEMMA NewestAreNewer ==
  ASSUME NEW S \in SUBSET Turns, NEW n \in Nat, NEW t \in Newest(S, n),
         NEW c \in S, c \notin Newest(S, n)
  PROVE  t > c
<1>. DEFINE After(x) == {u \in S : u > x}
<1>1. t \in S /\ Cardinality(After(t)) < n /\ ~(Cardinality(After(c)) < n)
  BY DEF Newest
<1>2. SUFFICES ASSUME t <= c PROVE FALSE
  BY <1>1 DEF Turns
<1>3. After(c) \subseteq After(t)
  <2>1. \A x \in S : x \in Int
    BY DEF Turns
  <2>. QED
    BY <1>1, <1>2, <2>1
<1>4. Cardinality(After(c)) <= Cardinality(After(t))
  <2>1. After(t) \in SUBSET Turns
    OBVIOUS
  <2>2. IsFiniteSet(After(t))
    BY <2>1, TurnSets
  <2>. HIDE DEF After
  <2>. QED
    BY <1>3, <2>2, FS_Subset
<1>5. Cardinality(After(t)) \in Nat /\ Cardinality(After(c)) \in Nat
  BY TurnSets
<1>. HIDE DEF After
<1>. QED
  BY <1>1, <1>4, <1>5

LEMMA UncompactedFacts ==
  ASSUME TypeOK
  PROVE  /\ Uncompacted \subseteq held
         /\ Capped(Cardinality(Uncompacted)) \in 0..L1Turns
         /\ Batch(Uncompacted) \subseteq Uncompacted
<1>1. Uncompacted \subseteq held
  BY DEF Uncompacted
<1>2. Cardinality(Uncompacted) \in Nat
  BY <1>1, TurnSets DEF TypeOK
<1>3. Capped(Cardinality(Uncompacted)) \in 0..L1Turns
  BY <1>2, PipelineAssumption DEF Capped
<1>. QED
  BY <1>1, <1>3 DEF Batch, Oldest

LEMMA UncompactedReachBack ==
  ASSUME TypeOK, CursorFollowsWrites
  PROVE  ReachesBack(Uncompacted)
BY DEF ReachesBack, Uncompacted, CursorFollowsWrites, TypeOK, Turns, None

LEMMA BatchReachesBack ==
  ASSUME NEW S \in SUBSET Turns, ReachesBack(S)
  PROVE  ReachesBack(Batch(S))
<1>1. L1Turns \in Nat
  BY PipelineAssumption
<1>. QED
  BY <1>1, OldestReachBack DEF ReachesBack, Batch, Oldest

LEMMA AppendedFacts ==
  ASSUME TypeOK, Numbered, next < MaxTurns
  PROVE  Appended(next + 1) \subseteq held \cup {next + 1}
BY DEF Appended, Newest

-----------------------------------------------------------------------------
(* One actor moves *)

(* Only a's job changed, to a value of its type. *)
Moves(a) == /\ job' \in [Actors -> Job]
            /\ \A b \in Actors \ {a} : job'[b] = job[b]

LEMMA GoMoves ==
  ASSUME TypeOK, NEW a \in Actors, NEW p \in PCs, Go(a, p)
  PROVE  /\ Moves(a) /\ job'[a].pc = p /\ job'[a].batch = job[a].batch
         /\ job'[a].left = job[a].left
BY DEF TypeOK, Go, Moves, Job, PCs

LEMMA QuitMoves ==
  ASSUME TypeOK, NEW a \in Actors, NEW p \in PCs, Quit(a, p)
  PROVE  Moves(a) /\ job'[a].pc = p /\ job'[a].batch = {} /\ job'[a].left = 0
<1>1. 0 \in 0..L1Turns /\ 0 \in 0..MaxSummaries
  BY PipelineAssumption
<1>. QED
  BY <1>1 DEF TypeOK, Quit, Moves, Job, PCs, Asleep

LEMMA Places ==
  /\ HookSteps \subseteq PCs /\ TaskSteps \subseteq PCs
  /\ EndSteps \subseteq PCs /\ Outcomes \subseteq PCs
BY DEF PCs

LEMMA FailMoves ==
  ASSUME TypeOK, NEW a \in Actors, Fail(a)
  PROVE  /\ Moves(a) /\ job'[a].pc = (IF a = End THEN "failed" ELSE "refreshing")
         /\ job'[a].batch = {} /\ job'[a].left = 0
<1>1. "failed" \in PCs /\ "refreshing" \in PCs
  BY DEF PCs, Outcomes, TaskSteps
<1>. QED
  BY <1>1, QuitMoves DEF Fail

LEMMA NextChunkMoves ==
  ASSUME TypeOK, NEW S \in SUBSET Turns, NextChunk(S)
  PROVE  /\ Moves(End)
         /\ job'[End].pc = (IF S = {} THEN "distilling" ELSE "summarizing")
         /\ job'[End].batch = Batch(S) /\ job'[End].left = 0
<1>1. 0 \in 0..L1Turns /\ 0 \in 0..MaxSummaries /\ End \in Actors
  BY PipelineAssumption DEF Actors
<1>2. Batch(S) \in SUBSET Turns
  BY DEF Batch, Oldest
<1>3. "distilling" \in PCs /\ "summarizing" \in PCs
  BY DEF PCs, TaskSteps
<1>. QED
  BY <1>1, <1>2, <1>3 DEF TypeOK, NextChunk, Moves, Job, PCs, Asleep

-----------------------------------------------------------------------------
(* The kinds of steps, in the terms the invariant speaks of *)

ArchiveMove(t) ==
  /\ Moves(t) /\ t = next + 1 /\ next' = next + 1
  /\ held' \in {held, Appended(t)}
  /\ job'[t].pc \in HookSteps /\ job'[t].batch = job[t].batch
  /\ UNCHANGED <<busy, rest, cursor, compacted, owed>>

HookMove(t) ==
  /\ Moves(t) /\ job[t].pc \in HookSteps
  /\ job'[t].pc \in HookSteps \cup Outcomes
  /\ job'[t].batch \in {job[t].batch, {}, Batch(Uncompacted)}
  /\ UNCHANGED <<busy, rest, held, cursor, next, compacted, owed>>

ClaimMove(t) ==
  /\ Moves(t) /\ job[t].pc \in HookSteps
  /\ job'[t].pc \in {"summarizing", "distilling"} /\ job'[t].batch = job[t].batch
  /\ ~busy /\ busy'
  /\ UNCHANGED <<rest, held, cursor, next, compacted, owed>>

(* What an actor that compacts may do to the cursor and the summaries. *)
Compacts(a) ==
  /\ compacted \subseteq compacted'
  /\ \/ cursor' = cursor
     \/ /\ At(a, "marking")
        /\ \E through \in job[a].batch :
             IsLast(through, job[a].batch) /\ cursor' = Marked(through)
  /\ UNCHANGED <<busy, held, next>>

TaskMove(t) ==
  /\ Moves(t) /\ Compacts(t)
  /\ job[t].pc \in TaskSteps /\ job'[t].pc \in TaskSteps
  /\ job'[t].batch \in {job[t].batch, {}}
  /\ job'[t].pc = "marking" => job'[t].batch \subseteq compacted'
  /\ rest' = rest /\ owed' \subseteq owed

ReleaseMove(t) ==
  /\ Moves(t) /\ At(t, "releasing") /\ job'[t].pc = "done"
  /\ job'[t].batch = job[t].batch /\ ~busy'
  /\ UNCHANGED <<rest, held, cursor, next, compacted, owed>>

EndMove ==
  /\ Moves(End) /\ Compacts(End)
  /\ job'[End].batch \in {job[End].batch, {}, Batch(rest')}
  /\ job'[End].pc \in {"marking", "distilling"} => job'[End].batch \subseteq compacted'
  /\ \/ rest' \in {rest, Uncompacted}
     \/ rest' = rest \ job[End].batch /\ job[End].batch \subseteq compacted

CrashMove ==
  /\ job' \in [Actors -> Job]
  /\ \A a \in Actors : \/ job'[a] = job[a] /\ job[a].pc \in Outcomes
                       \/ job'[a].pc \in {"idle", "done"} /\ job'[a].batch = {} /\ job[a].pc \notin Outcomes
  /\ job'[End] = job[End] \/ job'[End].pc = "idle"
  /\ ~busy' /\ rest' = {}
  /\ UNCHANGED <<held, cursor, next, compacted, owed>>

LEMMA MovesTyped ==
  ASSUME Typed, NEW a \in Actors, Moves(a), job'[a].pc = "writing" => job'[a].left # 0
  PROVE  job' \in [Actors -> Job] /\ \A b \in Actors : At(b, "writing")' => job'[b].left # 0
<1>1. ASSUME NEW b \in Actors, At(b, "writing")' PROVE job'[b].left # 0
  BY <1>1 DEF Moves, Typed, At
<1>. QED
  BY <1>1 DEF Moves

LEMMA ArchiveStep ==
  ASSUME IInv, ArchiveTurn
  PROVE  Typed' /\ \E t \in Turns : ArchiveMove(t)
<1>. USE DEF IInv
<1>. DEFINE t == next + 1
<1>1. next \in Nat /\ next' = t /\ next < MaxTurns /\ MaxTurns \in Nat
  BY PipelineAssumption DEF ArchiveTurn, Typed, TypeOK
<1>2. t \in Turns /\ t \in Actors
  BY <1>1 DEF Turns, Actors
<1>3. held' \in {held, Appended(t)} /\ (Go(t, "counting") \/ Go(t, "checking"))
  BY <1>1 DEF ArchiveTurn
<1>4. Moves(t) /\ job'[t].pc \in HookSteps /\ job'[t].pc # "writing" /\ job'[t].batch = job[t].batch
  BY <1>2, <1>3, GoMoves DEF HookSteps, PCs, Typed
<1>5. UNCHANGED <<pending, busy, rest, cursor, entries, compacted, owed, crashes>>
  BY DEF ArchiveTurn
<1>6. held' \subseteq Turns
  BY <1>1, <1>2, <1>3, AppendedFacts DEF Typed, TypeOK
<1>7. TypeOK'
  BY <1>1, <1>4, <1>5, <1>6 DEF TypeOK, Typed, Moves
<1>8. Typed'
  BY <1>2, <1>4, <1>7, MovesTyped DEF Typed, At
<1>. QED
  BY <1>1, <1>2, <1>3, <1>4, <1>5, <1>8 DEF ArchiveMove

LEMMA HookStep ==
  ASSUME IInv, NEW t \in Turns, Hook(t)
  PROVE  Typed' /\ (HookMove(t) \/ ClaimMove(t))
<1>. USE DEF IInv
<1>1. t \in Actors /\ TypeOK
  BY DEF Actors, Typed
<1>2. L1Turns \in Nat \ {0} /\ 0 \in 0..L1Turns
  BY PipelineAssumption
<1>3. UNCHANGED <<rest, durable, next, compacted, owed, crashes>>
  BY DEF Hook, CountArchived, CheckHint, ReadPending, HintPending, Claim, history
<1>4. ASSUME Moves(t), job'[t].pc # "writing", pending' \in 0..L1Turns \cup {Unknown},
             busy' \in BOOLEAN
      PROVE  Typed'
  <2>1. TypeOK'
    BY <1>1, <1>3, <1>4 DEF TypeOK, Moves, durable
  <2>. QED
    BY <1>1, <1>4, <2>1, MovesTyped DEF Typed, At
<1>5. CASE CountArchived(t)
  <2>1. Moves(t) /\ job'[t].pc = "checking" /\ job'[t].batch = job[t].batch
    BY <1>1, <1>5, GoMoves DEF CountArchived, PCs, HookSteps
  <2>2. pending' \in 0..L1Turns \cup {Unknown}
    <3>1. pending \in 0..L1Turns => Capped(pending + 1) \in 0..L1Turns
      BY <1>2 DEF Capped
    <3>. QED
      BY <1>1, <1>5, <3>1 DEF CountArchived, TypeOK
  <2>3. busy' = busy /\ At(t, "counting")
    BY <1>5 DEF CountArchived
  <2>. QED
    BY <1>1, <1>3, <1>4, <2>1, <2>2, <2>3 DEF HookMove, HookSteps, At, durable, TypeOK
<1>6. CASE CheckHint(t)
  <2>0. PICK shift \in BOOLEAN :
           \/ Quit(t, "done")
           \/ job' = [job EXCEPT ![t].distill = shift, ![t].pc = "reading"]
    BY <1>6 DEF CheckHint
  <2>1. /\ Moves(t) /\ job'[t].pc \in {"done", "reading"}
        /\ job'[t].batch \in {job[t].batch, {}}
    <3>1. CASE Quit(t, "done")
      BY <1>1, <3>1, QuitMoves DEF PCs, Outcomes
    <3>2. CASE job' = [job EXCEPT ![t].distill = shift, ![t].pc = "reading"]
      BY <1>1, <3>2, ZenonT(60) DEF Moves, TypeOK, Job, HookSteps
    <3>. QED
      BY <2>0, <3>1, <3>2
  <2>2. busy' = busy /\ pending' = pending /\ At(t, "checking")
    BY <1>6 DEF CheckHint
  <2>. QED
    BY <1>1, <1>3, <1>4, <2>1, <2>2 DEF HookMove, HookSteps, Outcomes, At, durable, TypeOK
<1>7. CASE ReadPending(t)
  <2>1. /\ Moves(t) /\ job'[t].pc \in {"done", "hinting"}
        /\ job'[t].batch \in {Batch(Uncompacted), {}}
        /\ pending' \in {pending, Unknown}
    <3>1. CASE Quit(t, "done") /\ pending' = Unknown
      BY <1>1, <3>1, QuitMoves DEF PCs, Outcomes
    <3>2. CASE /\ job' = [job EXCEPT ![t].pc = "hinting",
                                     ![t].seen = Capped(Cardinality(Uncompacted)),
                                     ![t].batch = Batch(Uncompacted)]
               /\ pending' = pending
      <4>1. Batch(Uncompacted) \subseteq Turns
        BY <1>1, UncompactedFacts DEF TypeOK
      <4>. QED
        BY <1>1, <3>2, <4>1, UncompactedFacts, ZenonT(60) DEF Moves, TypeOK, Job, HookSteps
    <3>. QED
      BY <1>7, <3>1, <3>2 DEF ReadPending
  <2>2. busy' = busy /\ At(t, "reading")
    BY <1>7 DEF ReadPending
  <2>. QED
    BY <1>1, <1>3, <1>4, <2>1, <2>2 DEF HookMove, HookSteps, Outcomes, At, durable, TypeOK
<1>8. CASE HintPending(t)
  <2>1. /\ Moves(t) /\ job'[t].pc \in {"done", "claiming"}
        /\ job'[t].batch \in {job[t].batch, {}}
    <3>1. CASE Quit(t, "done")
      BY <1>1, <3>1, QuitMoves DEF PCs, Outcomes
    <3>2. ASSUME NEW d \in BOOLEAN,
                 job' = [job EXCEPT ![t].distill = d, ![t].seen = 0, ![t].pc = "claiming"]
          PROVE  /\ Moves(t) /\ job'[t].pc = "claiming"
                 /\ job'[t].batch = job[t].batch
      BY <1>1, <1>2, <3>2, ZenonT(60) DEF Moves, TypeOK, Job, HookSteps
    <3>3. PICK aged \in BOOLEAN :
             \/ Quit(t, "done")
             \/ job' = [job EXCEPT ![t].distill = (job[t].distill \/ (FullBatch(t) /\ aged)),
                                   ![t].seen = 0, ![t].pc = "claiming"]
      BY <1>8 DEF HintPending
    <3>4. job[t].distill \in BOOLEAN
      BY <1>1 DEF TypeOK, Job
    <3>5. (job[t].distill \/ (FullBatch(t) /\ aged)) \in BOOLEAN
      BY <3>4
    <3>. QED
      BY <3>1, <3>2, <3>3, <3>5
  <2>2. pending' \in 0..L1Turns
    BY <1>1, <1>8 DEF HintPending, TypeOK, Job
  <2>3. busy' = busy /\ At(t, "hinting")
    BY <1>8 DEF HintPending
  <2>. QED
    BY <1>1, <1>3, <1>4, <2>1, <2>2, <2>3 DEF HookMove, HookSteps, Outcomes, At, durable, TypeOK
<1>9. CASE Claim(t)
  <2>1. At(t, "claiming") /\ busy' = TRUE /\ pending' = pending
    BY <1>9 DEF Claim
  <2>2. CASE busy
    <3>1. Moves(t) /\ job'[t].pc = "done" /\ job'[t].batch = {}
      BY <1>1, <1>9, <2>2, QuitMoves DEF Claim, PCs, Outcomes
    <3>2. busy' = busy
      BY <1>1, <2>1, <2>2 DEF TypeOK
    <3>. QED
      BY <1>1, <1>3, <1>4, <2>1, <3>1, <3>2
      DEF HookMove, HookSteps, Outcomes, At, durable, TypeOK
  <2>3. CASE ~busy
    <3>1. PICK p \in {"summarizing", "distilling"} : Go(t, p)
      BY <1>9, <2>3 DEF Claim
    <3>2. Moves(t) /\ job'[t].pc = p /\ job'[t].batch = job[t].batch
      BY <1>1, <3>1, GoMoves DEF PCs, TaskSteps
    <3>. QED
      BY <1>1, <1>3, <1>4, <2>1, <2>3, <3>2 DEF ClaimMove, HookSteps, At, durable, TypeOK
  <2>. QED
    BY <2>2, <2>3
<1>. QED
  BY <1>5, <1>6, <1>7, <1>8, <1>9 DEF Hook

LEMMA CompactStep ==
  ASSUME IInv, NEW a \in Actors, Compact(a)
  PROVE  /\ Typed' /\ Moves(a) /\ Compacts(a)
         /\ job[a].pc \in {"summarizing", "writing", "marking"}
         /\ job'[a].pc \in {"writing", "marking", "distilling",
                            IF a = End THEN "failed" ELSE "refreshing"}
         /\ job'[a].batch \in {job[a].batch, {}}
         /\ job'[a].pc \in {"marking"} \cup (IF a = End THEN {"distilling"} ELSE {}) =>
               job'[a].batch \subseteq compacted'
         /\ UNCHANGED <<rest, owed>>
<1>. USE DEF IInv
<1>1. TypeOK /\ job[a].batch \subseteq Turns
  BY DEF Typed, TypeOK, Job
<1>2. UNCHANGED <<pending, busy, rest, held, next, owed, crashes>>
  BY DEF Compact, Summarize, WriteEntry, MarkCompacted, durable, history
<1>3. ASSUME Moves(a), job'[a].pc = "writing" => job'[a].left # 0,
             cursor' \in Turns \cup {None}, entries' \in BOOLEAN, compacted' \subseteq Turns
      PROVE  Typed'
  <2>1. TypeOK'
    BY <1>1, <1>2, <1>3 DEF TypeOK, Moves
  <2>. QED
    BY <1>3, <2>1, MovesTyped DEF Typed, At
<1>4. CASE Summarize(a)
  <2>1. At(a, "summarizing") /\ UNCHANGED <<cursor, entries>>
    BY <1>4 DEF Summarize, durable
  <2>2. CASE Fail(a) /\ UNCHANGED compacted
    BY <1>1, <1>2, <1>3, <2>1, <2>2, FailMoves DEF Compacts, At, TypeOK
  <2>3. CASE Go(a, "marking") /\ compacted' = compacted \cup job[a].batch
    <3>1. Moves(a) /\ job'[a].pc = "marking" /\ job'[a].batch = job[a].batch
      BY <1>1, <2>3, GoMoves DEF PCs, TaskSteps
    <3>. QED
      BY <1>1, <1>2, <1>3, <2>1, <2>3, <3>1 DEF Compacts, At, TypeOK
  <2>4. CASE \E n \in 1..MaxSummaries :
               /\ job' = [job EXCEPT ![a].pc = "writing", ![a].left = n]
               /\ UNCHANGED compacted
    <3>1. PICK n \in 1..MaxSummaries :
             job' = [job EXCEPT ![a].pc = "writing", ![a].left = n] /\ UNCHANGED compacted
      BY <2>4
    <3>2. n \in 0..MaxSummaries /\ n # 0
      BY PipelineAssumption
    <3>3. job[a] \in Job
      BY <1>1 DEF TypeOK
    <3>4. job'[a] = [job[a] EXCEPT !.pc = "writing", !.left = n]
      BY <1>1, <3>1 DEF TypeOK
    <3>5. /\ job'[a] \in Job /\ job'[a].pc = "writing" /\ job'[a].left = n
          /\ job'[a].batch = job[a].batch
      BY <3>2, <3>3, <3>4 DEF Job, TaskSteps
    <3>6. Moves(a)
      BY <1>1, <3>1, <3>4, <3>5 DEF TypeOK, Moves
    <3>. QED
      BY <1>1, <1>2, <1>3, <2>1, <3>1, <3>2, <3>5, <3>6 DEF Compacts, At, TypeOK
  <2>. QED
    BY <1>4, <2>2, <2>3, <2>4 DEF Summarize
<1>5. CASE WriteEntry(a)
  <2>1. At(a, "writing") /\ UNCHANGED cursor /\ job[a].left \in 1..MaxSummaries
    <3>1. At(a, "writing") /\ UNCHANGED cursor
      BY <1>5 DEF WriteEntry
    <3>2. job[a].left \in 0..MaxSummaries /\ job[a].left # 0
      BY <1>1, <3>1 DEF TypeOK, Job, Typed
    <3>. QED
      BY <3>1, <3>2, PipelineAssumption
  <2>2. CASE Fail(a) /\ UNCHANGED <<entries, compacted>>
    BY <1>1, <1>2, <1>3, <2>1, <2>2, FailMoves DEF Compacts, At, TypeOK
  <2>3. CASE entries' = TRUE /\ job[a].left = 1 /\ Go(a, "marking")
             /\ compacted' = compacted \cup job[a].batch
    <3>1. Moves(a) /\ job'[a].pc = "marking" /\ job'[a].batch = job[a].batch
      BY <1>1, <2>3, GoMoves DEF PCs, TaskSteps
    <3>. QED
      BY <1>1, <1>2, <1>3, <2>1, <2>3, <3>1 DEF Compacts, At, TypeOK
  <2>4. CASE /\ entries' = TRUE /\ job[a].left # 1 /\ UNCHANGED compacted
             /\ job' = [job EXCEPT ![a].left = @ - 1]
    <3>1. job[a].left - 1 \in 1..MaxSummaries
      BY <2>1, <2>4, PipelineAssumption
    <3>2. Moves(a) /\ job'[a].pc = job[a].pc /\ job'[a].left = job[a].left - 1
          /\ job'[a].batch = job[a].batch
      BY <1>1, <2>4, <3>1, PipelineAssumption DEF Moves, TypeOK, Job
    <3>. QED
      BY <1>1, <1>2, <1>3, <2>1, <2>4, <3>1, <3>2, PipelineAssumption
      DEF Compacts, At, TypeOK
  <2>. QED
    BY <1>5, <2>2, <2>3, <2>4 DEF WriteEntry
<1>6. CASE MarkCompacted(a)
  <2>1. At(a, "marking") /\ UNCHANGED <<entries, compacted>>
    BY <1>6 DEF MarkCompacted, history
  <2>2. CASE Fail(a) /\ UNCHANGED cursor
    BY <1>1, <1>2, <1>3, <2>1, <2>2, FailMoves DEF Compacts, At, TypeOK
  <2>3. ASSUME NEW through \in job[a].batch, IsLast(through, job[a].batch),
               cursor' = Marked(through),
               IF a = End \/ job[a].distill THEN Go(a, "distilling") ELSE Quit(a, "refreshing")
        PROVE  /\ Moves(a)
               /\ \/ job'[a].pc = "distilling" /\ job'[a].batch = job[a].batch
                  \/ job'[a].pc = "refreshing" /\ a # End /\ job'[a].batch = {}
               /\ cursor' \in Turns \cup {None}
    <3>1. cursor' \in Turns \cup {None}
      BY <1>1, <2>3 DEF Marked, TypeOK
    <3>2. CASE a = End \/ job[a].distill
      BY <1>1, <2>3, <3>1, <3>2, GoMoves DEF PCs, TaskSteps
    <3>3. CASE ~(a = End \/ job[a].distill)
      BY <1>1, <2>3, <3>1, <3>3, QuitMoves DEF PCs, TaskSteps
    <3>. QED
      BY <3>2, <3>3
  <2>4. job[a].batch \subseteq compacted
    BY <2>1 DEF WrittenFirst
  <2>5. CASE ~Fail(a)
    <3>1. PICK through \in job[a].batch :
                 IsLast(through, job[a].batch) /\ cursor' = Marked(through)
      BY <1>6, <2>5 DEF MarkCompacted
    <3>2. IF a = End \/ job[a].distill THEN Go(a, "distilling") ELSE Quit(a, "refreshing")
      BY <1>6, <2>5 DEF MarkCompacted
    <3>. QED
      BY <1>1, <1>2, <1>3, <2>1, <2>3, <2>4, <3>1, <3>2 DEF Compacts, At, TypeOK
  <2>6. CASE Fail(a) /\ ~UNCHANGED cursor
    <3>1. PICK through \in job[a].batch :
                 IsLast(through, job[a].batch) /\ cursor' = Marked(through)
      BY <1>6, <2>6 DEF MarkCompacted
    <3>2. IF a = End \/ job[a].distill THEN Go(a, "distilling") ELSE Quit(a, "refreshing")
      BY <1>6, <2>6 DEF MarkCompacted
    <3>. QED
      BY <1>1, <1>2, <1>3, <2>1, <2>3, <2>4, <3>1, <3>2 DEF Compacts, At, TypeOK
  <2>. QED
    BY <2>2, <2>5, <2>6
<1>. QED
  BY <1>4, <1>5, <1>6 DEF Compact

LEMMA TaskStep ==
  ASSUME IInv, NEW t \in Turns, Task(t)
  PROVE  Typed' /\ (TaskMove(t) \/ ReleaseMove(t))
<1>. USE DEF IInv
<1>1. t \in Actors /\ t # End /\ TypeOK
  BY DEF Actors, Typed, Turns, End
<1>2. 0 \in 0..L1Turns
  BY PipelineAssumption
<1>3. CASE Compact(t)
  BY <1>1, <1>3, CompactStep DEF TaskMove, TaskSteps
<1>4. ASSUME Moves(t), job'[t].pc # "writing", pending' \in 0..L1Turns \cup {Unknown},
             busy' \in BOOLEAN, owed' \subseteq owed,
             UNCHANGED <<rest, held, cursor, entries, next, compacted, crashes>>
      PROVE  Typed'
  <2>1. TypeOK'
    BY <1>1, <1>4 DEF TypeOK, Moves
  <2>. QED
    BY <1>1, <1>4, <2>1, MovesTyped DEF Typed, At
<1>5. CASE DistillTask(t)
  <2>1. /\ At(t, "distilling") /\ owed' \subseteq owed
        /\ UNCHANGED <<pending, busy, rest, held, cursor, entries, next, compacted, crashes>>
    BY <1>5 DEF DistillTask, Settled, durable
  <2>2. Moves(t) /\ job'[t].pc = "refreshing" /\ job'[t].batch = {}
    BY <1>1, <1>5, QuitMoves DEF DistillTask, PCs, TaskSteps
  <2>. QED
    BY <1>1, <1>4, <2>1, <2>2 DEF TaskMove, Compacts, TaskSteps, At, TypeOK
<1>6. CASE Refresh(t)
  <2>1. /\ At(t, "refreshing") /\ pending' \in {pending, Unknown}
        /\ UNCHANGED <<busy, rest, held, cursor, entries, next, compacted, owed, crashes>>
    BY <1>6 DEF Refresh, durable, history
  <2>2. Moves(t) /\ job'[t].pc \in {"rehinting", "releasing"} /\ job'[t].batch = job[t].batch
    <3>1. CASE Go(t, "releasing")
      BY <1>1, <3>1, GoMoves DEF PCs, TaskSteps
    <3>2. CASE job' = [job EXCEPT ![t].pc = "rehinting",
                                  ![t].seen = Capped(Cardinality(Uncompacted))]
      BY <1>1, <3>2, UncompactedFacts, ZenonT(60) DEF Moves, TypeOK, Job, TaskSteps
    <3>. QED
      BY <1>6, <3>1, <3>2 DEF Refresh
  <2>. QED
    BY <1>1, <1>4, <2>1, <2>2 DEF TaskMove, Compacts, TaskSteps, At, TypeOK
<1>7. CASE Rehint(t)
  <2>1. /\ At(t, "rehinting") /\ pending' = job[t].seen
        /\ UNCHANGED <<busy, rest, held, cursor, entries, next, compacted, owed, crashes>>
    BY <1>7 DEF Rehint, durable, history
  <2>2. Moves(t) /\ job'[t].pc = "releasing" /\ job'[t].batch = {}
    BY <1>1, <1>7, QuitMoves DEF Rehint, PCs, TaskSteps
  <2>3. pending' \in 0..L1Turns
    BY <1>1, <2>1 DEF TypeOK, Job
  <2>. QED
    BY <1>1, <1>4, <2>1, <2>2, <2>3 DEF TaskMove, Compacts, TaskSteps, At, TypeOK
<1>8. CASE Release(t)
  <2>1. /\ At(t, "releasing") /\ busy' = FALSE
        /\ UNCHANGED <<pending, rest, held, cursor, entries, next, compacted, owed, crashes>>
    BY <1>8 DEF Release, durable, history
  <2>2. Moves(t) /\ job'[t].pc = "done" /\ job'[t].batch = job[t].batch
    BY <1>1, <1>8, GoMoves DEF Release, PCs, Outcomes
  <2>. QED
    BY <1>1, <1>4, <2>1, <2>2 DEF ReleaseMove, At, TypeOK
<1>. QED
  BY <1>3, <1>5, <1>6, <1>7, <1>8 DEF Task

LEMMA EndStep ==
  ASSUME IInv, OpenEnd \/ Finalize
  PROVE  Typed' /\ EndMove /\ Owing'
<1>. USE DEF IInv
<1>1. End \in Actors /\ TypeOK /\ rest \subseteq Turns
  BY DEF Actors, Typed, TypeOK
<1>2. CASE Compact(End)
  <2>1. job'[End].pc \in EndSteps \ {"repairing"} => owed \subseteq rest
    BY <1>1, <1>2, CompactStep DEF Owing, EndSteps
  <2>2. job'[End].pc \notin {"repairing", "ok"} /\ owed' = owed /\ rest' = rest
    BY <1>1, <1>2, CompactStep
  <2>3. EndMove
    BY <1>1, <1>2, CompactStep DEF EndMove
  <2>. QED
    BY <1>1, <1>2, <2>1, <2>2, <2>3, CompactStep DEF Owing
<1>3. ASSUME Moves(End), job'[End].pc # "writing", pending' \in {pending, Unknown},
             owed' \subseteq Turns, rest' \subseteq Turns,
             UNCHANGED <<busy, held, cursor, entries, next, compacted, crashes>>
      PROVE  Typed'
  <2>1. TypeOK'
    BY <1>1, <1>3 DEF TypeOK, Moves
  <2>. QED
    BY <1>1, <1>3, <2>1, MovesTyped DEF Typed, At
<1>4. CASE OpenEnd
  <2>1. /\ owed' = Uncompacted /\ rest' = Uncompacted
        /\ UNCHANGED <<pending, busy, held, cursor, entries, next, compacted, crashes>>
    BY <1>4 DEF OpenEnd, durable
  <2>2. Moves(End) /\ job'[End].pc = "opening" /\ job'[End].batch = job[End].batch
    BY <1>1, <1>4, GoMoves DEF OpenEnd, PCs, EndSteps
  <2>3. Uncompacted \subseteq Turns
    BY <1>1, UncompactedFacts DEF TypeOK
  <2>4. At(End, "idle")
    BY <1>4 DEF OpenEnd
  <2>5. EndMove
    BY <2>1, <2>2 DEF EndMove, Compacts
  <2>. QED
    BY <1>1, <1>3, <2>1, <2>2, <2>3, <2>5 DEF Owing
<1>5. CASE StartEnd
  <2>1. /\ At(End, "opening")
        /\ UNCHANGED <<pending, busy, rest, held, cursor, entries, next, compacted, owed, crashes>>
    BY <1>5 DEF StartEnd, durable, history
  <2>2. owed \subseteq rest
    BY <2>1 DEF Owing, At, EndSteps
  <2>3. CASE Fail(End)
    <3>1. Moves(End) /\ job'[End].pc = "failed" /\ job'[End].batch = {}
      BY <1>1, <2>3, FailMoves
    <3>. QED
      BY <1>1, <1>3, <2>1, <3>1 DEF EndMove, Compacts, Owing, EndSteps, TypeOK
  <2>4. CASE NextChunk(rest)
    <3>1. /\ Moves(End) /\ job'[End].pc = (IF rest = {} THEN "distilling" ELSE "summarizing")
          /\ job'[End].batch = Batch(rest)
      BY <1>1, <2>4, NextChunkMoves
    <3>2. rest = {} => Batch(rest) = {}
      BY DEF Batch, Oldest
    <3>. QED
      BY <1>1, <1>3, <2>1, <2>2, <3>1, <3>2 DEF EndMove, Compacts, Owing, EndSteps, TypeOK
  <2>5. CASE Go(End, IF rest = {} /\ ~entries THEN "ok" ELSE "failed")
    <3>1. PICK p \in {"ok", "failed"} : Go(End, p) /\ (p = "ok" => rest = {})
      BY <2>5
    <3>2. Moves(End) /\ job'[End].pc = p /\ job'[End].batch = job[End].batch
      BY <1>1, <3>1, GoMoves DEF PCs, Outcomes
    <3>. QED
      BY <1>1, <1>3, <2>1, <2>2, <3>1, <3>2 DEF EndMove, Compacts, Owing, EndSteps, TypeOK
  <2>. QED
    BY <1>5, <2>3, <2>4, <2>5 DEF StartEnd
<1>6. CASE DistillEnd
  <2>1. /\ At(End, "distilling")
        /\ UNCHANGED <<pending, busy, held, cursor, entries, next, compacted, crashes>>
    BY <1>6 DEF DistillEnd, durable
  <2>2. owed \subseteq rest /\ job[End].batch \subseteq compacted
    BY <1>1, <2>1 DEF Owing, At, EndSteps, WrittenFirst
  <2>3. CASE Fail(End) /\ UNCHANGED <<owed, rest>>
    <3>1. Moves(End) /\ job'[End].pc = "failed" /\ job'[End].batch = {}
      BY <1>1, <2>3, FailMoves
    <3>. QED
      BY <1>1, <1>3, <2>1, <2>3, <3>1 DEF EndMove, Compacts, Owing, EndSteps, TypeOK
  <2>4. CASE /\ owed' = Settled(End) /\ rest' = rest \ job[End].batch
             /\ IF rest' = {} THEN Quit(End, "repairing") ELSE NextChunk(rest')
    <3>1. owed' \subseteq rest' /\ rest' \subseteq Turns
      BY <1>1, <2>2, <2>4 DEF Settled
    <3>2. CASE rest' = {}
      <4>1. Moves(End) /\ job'[End].pc = "repairing" /\ job'[End].batch = {}
        BY <1>1, <2>4, <3>2, QuitMoves DEF PCs, EndSteps
      <4>. QED
        BY <1>1, <1>3, <2>1, <2>2, <2>4, <3>1, <3>2, <4>1
        DEF EndMove, Compacts, Owing, EndSteps, TypeOK
    <3>3. CASE rest' # {}
      <4>1. Moves(End) /\ job'[End].pc = "summarizing" /\ job'[End].batch = Batch(rest')
        BY <1>1, <2>4, <3>1, <3>3, NextChunkMoves
      <4>. QED
        BY <1>1, <1>3, <2>1, <2>2, <2>4, <3>1, <3>3, <4>1
        DEF EndMove, Compacts, Owing, EndSteps, TypeOK
    <3>. QED
      BY <3>2, <3>3
  <2>. QED
    BY <1>6, <2>3, <2>4 DEF DistillEnd
<1>7. CASE CloseEnd
  <2>1. /\ At(End, "repairing") /\ pending' \in {pending, Unknown}
        /\ UNCHANGED <<busy, rest, held, cursor, entries, next, compacted, owed, crashes>>
    BY <1>7 DEF CloseEnd, durable, history
  <2>2. owed = {}
    BY <2>1 DEF Owing, At
  <2>3. Moves(End) /\ job'[End].pc \in {"ok", "failed"} /\ job'[End].batch \in {job[End].batch, {}}
    BY <1>1, <1>7, GoMoves, FailMoves DEF CloseEnd, PCs, Outcomes
  <2>. QED
    BY <1>1, <1>3, <2>1, <2>2, <2>3 DEF EndMove, Compacts, Owing, EndSteps, TypeOK
<1>. QED
  BY <1>2, <1>4, <1>5, <1>6, <1>7 DEF Finalize

LEMMA CrashStep ==
  ASSUME IInv, Crash
  PROVE  Typed' /\ CrashMove
<1>. USE DEF IInv
<1>1. TypeOK
  BY DEF Typed
<1>2. /\ crashes' = crashes + 1 /\ crashes < MaxCrashes
      /\ pending' = Unknown /\ busy' = FALSE /\ rest' = {}
      /\ UNCHANGED <<held, cursor, entries, next, compacted, owed>>
  BY DEF Crash, durable
<1>3. ASSUME NEW a \in Actors
      PROVE  /\ job'[a] \in Job
             /\ \/ job'[a] = job[a] /\ job[a].pc \in Outcomes
                \/ /\ job'[a].pc = (IF a = End THEN "idle" ELSE "done")
                   /\ job'[a].batch = {} /\ job[a].pc \notin Outcomes
  <2>1. 0 \in 0..L1Turns /\ 0 \in 0..MaxSummaries /\ job[a] \in Job
    BY <1>1, PipelineAssumption DEF TypeOK
  <2>2. job'[a] = IF job[a].pc \in Outcomes THEN job[a]
                  ELSE [Asleep EXCEPT !.pc = IF a = End THEN "idle" ELSE "done"]
    BY DEF Crash
  <2>. QED
    BY <2>1, <2>2 DEF Asleep, Job, Outcomes
<1>4. job' \in [Actors -> Job]
  BY <1>3 DEF Crash
<1>5. crashes' \in 0..MaxCrashes
  BY <1>1, <1>2, PipelineAssumption DEF TypeOK
<1>6. Typed'
  BY <1>1, <1>2, <1>3, <1>4, <1>5 DEF Typed, TypeOK, At, Outcomes
<1>. QED
  BY <1>2, <1>3, <1>4, <1>6 DEF CrashMove, Actors, Outcomes

(* A step of the component is one of the moves. *)
Step == \/ \E t \in Turns : ArchiveMove(t) \/ HookMove(t) \/ ClaimMove(t)
                            \/ TaskMove(t) \/ ReleaseMove(t)
        \/ EndMove /\ Owing'
        \/ CrashMove

LEMMA NextKinds == IInv /\ Next => Typed' /\ Step
BY ArchiveStep, HookStep, TaskStep, EndStep, CrashStep DEF Next, Step

-----------------------------------------------------------------------------
(* Every move preserves the invariant *)

LEMMA MarkFacts ==
  ASSUME IInv, NEW a \in Actors, Compacts(a)
  PROVE  /\ cursor' = cursor \/ (cursor' \in held /\ cursor' > cursor)
         /\ cursor' # cursor => \A t \in held : t <= cursor' => t \in compacted
<1>. USE DEF IInv
<1>1. SUFFICES ASSUME cursor' # cursor
               PROVE  /\ cursor' \in held /\ cursor' > cursor
                      /\ \A t \in held : t <= cursor' => t \in compacted
  OBVIOUS
<1>2. PICK through \in job[a].batch : cursor' = Marked(through) /\ At(a, "marking")
  BY <1>1 DEF Compacts
<1>3. cursor' = through /\ through \in held /\ (cursor \in held => cursor < through)
  BY <1>1, <1>2 DEF Marked
<1>4. cursor' > cursor
  <2>1. through \in Int /\ cursor \in Int
    BY <1>3 DEF Typed, TypeOK, Turns, None
  <2>. QED
    BY <1>3, <2>1 DEF CursorLeads
<1>5. job[a].batch \subseteq compacted /\ ReachesBack(job[a].batch)
  BY <1>2 DEF WrittenFirst, Contiguous
<1>. QED
  BY <1>2, <1>3, <1>4, <1>5 DEF ReachesBack

LEMMA NumberedStep == IInv /\ Step => Numbered'
<1>. SUFFICES ASSUME IInv, Step PROVE Numbered'
  OBVIOUS
<1>. USE DEF IInv
<1>1. /\ next \in Nat /\ cursor \in Int /\ held \subseteq Turns
      /\ \A t \in Turns : t \in Actors /\ t # End
      /\ TypeOK
  BY PipelineAssumption DEF Typed, TypeOK, Turns, None, Actors, End
<1>2. ASSUME NEW t \in Turns, ArchiveMove(t) PROVE Numbered'
  <2>1. Moves(t) /\ t = next + 1 /\ next' = next + 1 /\ job'[t].batch = job[t].batch
        /\ UNCHANGED <<rest, cursor>>
    BY <1>2 DEF ArchiveMove
  <2>2. held' \subseteq 1..next'
    <3>1. held' \subseteq held \cup {next + 1}
      BY <1>2 DEF ArchiveMove, Appended, Newest
    <3>. QED
      BY <1>1, <2>1, <3>1 DEF Numbered
  <2>3. \A a \in Actors : job'[a].batch \subseteq 1..next'
    <3>1. \A a \in Actors : job'[a].batch = job[a].batch
      BY <2>1 DEF Moves
    <3>. QED
      BY <1>1, <2>1, <3>1 DEF Numbered
  <2>4. \A u \in Turns : u > next' => job'[u].pc = "idle"
    BY <1>1, <2>1 DEF Moves, Numbered, At, Turns
  <2>5. rest' \subseteq 1..next'
    <3>1. rest \subseteq 1..next
      BY DEF Numbered
    <3>. QED
      BY <1>1, <2>1, <3>1
  <2>6. cursor' <= next'
    <3>1. cursor <= next
      BY DEF Numbered
    <3>. QED
      BY <1>1, <2>1, <3>1
  <2>. QED
    BY <2>2, <2>3, <2>4, <2>5, <2>6 DEF Numbered, At
<1>3. ASSUME NEW a \in Actors, Moves(a), a = End \/ job[a].pc # "idle",
             job'[a].batch \in {job[a].batch, {}, Batch(Uncompacted), Batch(rest')},
             rest' \subseteq 1..next, UNCHANGED <<held, next>>,
             cursor' = cursor \/ cursor' \in held
      PROVE  Numbered'
  <2>1. cursor' <= next
    <3>1. \A t \in held : t <= next
      <4>1. held \subseteq 1..next
        BY DEF Numbered
      <4>. QED
        BY <1>1, <4>1
    <3>2. cursor <= next
      BY DEF Numbered
    <3>3. CASE cursor' = cursor
      BY <3>2, <3>3
    <3>4. CASE cursor' \in held
      BY <3>1, <3>4
    <3>. QED
      BY <1>3, <3>3, <3>4
  <2>2. Batch(Uncompacted) \subseteq held /\ Batch(rest') \subseteq rest'
    BY <1>1, UncompactedFacts DEF Batch, Oldest
  <2>3. \A b \in Actors : job'[b].batch \subseteq 1..next
    BY <1>3, <2>2 DEF Numbered, Moves
  <2>4. \A u \in Turns : u > next => job'[u].pc = "idle"
    BY <1>1, <1>3 DEF Numbered, Moves, At
  <2>. QED
    BY <1>3, <2>1, <2>3, <2>4 DEF Numbered, At
<1>4. ASSUME NEW t \in Turns, HookMove(t) \/ ClaimMove(t) \/ TaskMove(t) \/ ReleaseMove(t)
      PROVE  Numbered'
  <2>1. job[t].pc # "idle" /\ Moves(t) /\ UNCHANGED <<held, next, rest>>
        /\ job'[t].batch \in {job[t].batch, {}, Batch(Uncompacted)}
    BY <1>4 DEF HookMove, ClaimMove, TaskMove, ReleaseMove, Compacts, HookSteps, TaskSteps, At
  <2>2. cursor' = cursor \/ cursor' \in held
    BY <1>1, <1>4, MarkFacts DEF HookMove, ClaimMove, TaskMove, ReleaseMove
  <2>. QED
    BY <1>1, <1>3, <2>1, <2>2 DEF Numbered
<1>5. ASSUME EndMove PROVE Numbered'
  <2>1. End \in Actors
    BY DEF Actors
  <2>2. rest' \subseteq 1..next
    BY <1>1, <1>5, UncompactedFacts DEF EndMove, Numbered
  <2>. QED
    BY <1>3, <1>5, <2>1, <2>2, MarkFacts DEF EndMove, Compacts
<1>6. ASSUME CrashMove PROVE Numbered'
  <2>1. \A a \in Actors : job'[a].batch \in {job[a].batch, {}}
    BY <1>6 DEF CrashMove
  <2>2. \A t \in Turns : job[t].pc = "idle" => job'[t] = job[t]
    BY <1>1, <1>6 DEF CrashMove, Outcomes
  <2>. QED
    BY <1>6, <2>1, <2>2 DEF Numbered, CrashMove, At
<1>. QED
  BY <1>2, <1>4, <1>5, <1>6 DEF Step

(* Every move but an archive leaves the store as it is; the cursor and the *)
(* summaries only grow, and the cursor stays on summarized turns.          *)
LEMMA QuietStore ==
  ASSUME IInv, Step
  PROVE  /\ compacted \subseteq compacted'
         /\ \/ \E t \in Turns : ArchiveMove(t)
            \/ /\ held' = held
               /\ cursor' = cursor \/ (cursor' \in held /\ cursor' > cursor)
               /\ cursor' # cursor => \A t \in held : t <= cursor' => t \in compacted
<1>1. \A t \in Turns : t \in Actors
  BY DEF Actors
<1>2. End \in Actors
  BY DEF Actors
<1>3. ASSUME NEW t \in Turns, TaskMove(t)
      PROVE  /\ compacted \subseteq compacted' /\ held' = held
             /\ cursor' = cursor \/ (cursor' \in held /\ cursor' > cursor)
             /\ cursor' # cursor => \A u \in held : u <= cursor' => u \in compacted
  <2>1. Compacts(t)
    BY <1>3 DEF TaskMove
  <2>. QED
    BY <1>1, <2>1, MarkFacts DEF Compacts
<1>4. ASSUME EndMove
      PROVE  /\ compacted \subseteq compacted' /\ held' = held
             /\ cursor' = cursor \/ (cursor' \in held /\ cursor' > cursor)
             /\ cursor' # cursor => \A u \in held : u <= cursor' => u \in compacted
  <2>1. Compacts(End)
    BY <1>4 DEF EndMove
  <2>. QED
    BY <1>2, <2>1, MarkFacts DEF Compacts
<1>. QED
  BY <1>3, <1>4 DEF Step, ArchiveMove, HookMove, ClaimMove, ReleaseMove, CrashMove

(* The newest turn is newer than everything the store or the cursor knows. *)
LEMMA ArchivedIsNew ==
  ASSUME IInv, NEW t \in Turns, ArchiveMove(t)
  PROVE  /\ \A u \in held : u < t
         /\ cursor < t /\ cursor' = cursor
         /\ \A S : S \subseteq 1..next => \A u \in S : u < t
         /\ held' \subseteq held \cup {t}
<1>1. next \in Nat /\ t = next + 1
  BY DEF IInv, Typed, TypeOK, ArchiveMove
<1>2. held \subseteq 1..next /\ cursor <= next
  BY DEF IInv, Numbered
<1>3. cursor \in Int
  BY DEF IInv, Typed, TypeOK, Turns, None
<1>4. held' \subseteq held \cup {t} /\ cursor' = cursor
  BY DEF ArchiveMove, Appended, Newest
<1>. QED
  BY <1>1, <1>2, <1>3, <1>4

LEMMA CursorLeadsStep == IInv /\ Step => CursorLeads'
<1>. SUFFICES ASSUME IInv, Step PROVE CursorLeads'
  OBVIOUS
<1>1. cursor \in Int /\ held \subseteq Turns /\ \A t \in Turns : t \in Int
  BY DEF IInv, Typed, TypeOK, Turns, None
<1>2. CASE held' = held /\ (cursor' = cursor \/ cursor' \in held)
  BY <1>2 DEF IInv, CursorLeads
<1>3. ASSUME NEW n \in Turns, ArchiveMove(n) PROVE CursorLeads'
  <2>1. held' = held \/ held' = Newest(held \cup {n}, Retained)
    BY <1>3 DEF ArchiveMove, Appended
  <2>2. cursor' = cursor /\ cursor < n
    BY <1>3, ArchivedIsNew
  <2>3. CASE held' = held
    BY <2>2, <2>3 DEF IInv, CursorLeads
  <2>4. CASE held' = Newest(held \cup {n}, Retained)
    <3>1. SUFFICES ASSUME cursor \notin held', NEW t \in held' PROVE t > cursor
      BY <2>2 DEF CursorLeads
    <3>2. CASE cursor \in held
      <4>1. held \cup {n} \in SUBSET Turns /\ Retained \in Nat
        BY <1>1, PipelineAssumption
      <4>. QED
        BY <2>4, <3>1, <3>2, <4>1, NewestAreNewer
    <3>3. CASE cursor \notin held
      <4>1. t \in held \/ t = n
        BY <1>3, ArchivedIsNew
      <4>. QED
        BY <1>1, <2>2, <3>3, <4>1 DEF IInv, CursorLeads
    <3>. QED
      BY <3>2, <3>3
  <2>. QED
    BY <2>1, <2>3, <2>4
<1>. QED
  BY <1>2, <1>3, QuietStore

LEMMA CursorFollowsStep == IInv /\ Step => CursorFollowsWrites'
<1>. SUFFICES ASSUME IInv, Step PROVE CursorFollowsWrites'
  OBVIOUS
<1>1. CursorFollowsWrites /\ compacted \subseteq compacted'
  BY QuietStore DEF IInv
<1>2. CASE /\ held' = held
           /\ cursor' # cursor => \A t \in held : t <= cursor' => t \in compacted
  BY <1>1, <1>2 DEF CursorFollowsWrites
<1>3. ASSUME NEW n \in Turns, ArchiveMove(n) PROVE CursorFollowsWrites'
  <2>1. SUFFICES ASSUME cursor' \in held', NEW t \in held', t <= cursor'
                 PROVE  t \in compacted'
    BY DEF CursorFollowsWrites
  <2>2. cursor' = cursor /\ cursor < n /\ held' \subseteq held \cup {n}
    BY <1>3, ArchivedIsNew
  <2>3. n \in Int /\ cursor \in Int
    BY DEF IInv, Typed, TypeOK, Turns, None
  <2>4. t \in held /\ cursor \in held
    BY <2>1, <2>2, <2>3
  <2>. QED
    BY <1>1, <2>1, <2>2, <2>4 DEF CursorFollowsWrites
<1>. QED
  BY <1>2, <1>3, QuietStore

LEMMA ContiguousStep == IInv /\ Step => Contiguous'
<1>. SUFFICES ASSUME IInv, Step PROVE Contiguous'
  OBVIOUS
<1>1. compacted \subseteq compacted' /\ TypeOK /\ CursorFollowsWrites /\ Contiguous
  BY QuietStore DEF IInv, Typed
<1>2. ASSUME NEW S, S \subseteq 1..next, ReachesBack(S)
      PROVE  \A s \in S : \A t \in held' : t <= s => t \in S \cup compacted'
  <2>1. CASE held' = held
    BY <1>1, <1>2, <2>1 DEF ReachesBack
  <2>2. ASSUME NEW n \in Turns, ArchiveMove(n), NEW s \in S, NEW t \in held', t <= s
        PROVE  t \in S \cup compacted'
    <3>1. s < n /\ held' \subseteq held \cup {n}
      BY <1>2, <2>2, ArchivedIsNew
    <3>2. n \in Int /\ s \in Int
      BY <1>2 DEF Turns
    <3>3. t \in held
      BY <2>2, <3>1, <3>2
    <3>. QED
      BY <1>1, <1>2, <2>2, <3>3 DEF ReachesBack
  <2>. QED
    BY <2>1, <2>2, QuietStore
<1>3. /\ rest \subseteq 1..next /\ rest \subseteq Turns
      /\ \A a \in Actors : job[a].batch \subseteq 1..next
  BY DEF IInv, Numbered, Typed, TypeOK
<1>4. /\ Uncompacted \subseteq 1..next /\ Uncompacted \subseteq Turns /\ ReachesBack(Uncompacted)
      /\ Batch(Uncompacted) \subseteq 1..next /\ ReachesBack(Batch(Uncompacted))
  <2>1. held \subseteq 1..next /\ held \subseteq Turns
    BY <1>1 DEF IInv, Numbered, TypeOK
  <2>2. Uncompacted \subseteq held /\ Batch(Uncompacted) \subseteq Uncompacted
    BY <1>1, UncompactedFacts
  <2>. QED
    BY <1>1, <2>1, <2>2, UncompactedReachBack, BatchReachesBack
<1>5. \A t \in Turns : t \in Actors /\ t # End
  BY DEF Actors, Turns, End
<1>6. /\ rest' \subseteq 1..next /\ rest' \subseteq Turns /\ ReachesBack(rest')
  <2>1. CASE rest' = rest
    BY <1>1, <1>3, <2>1 DEF Contiguous
  <2>2. CASE rest' = Uncompacted
    BY <1>4, <2>2
  <2>3. CASE rest' = {}
    BY <2>3 DEF ReachesBack
  <2>4. CASE rest' = rest \ job[End].batch /\ job[End].batch \subseteq compacted
    BY <1>1, <1>3, <2>4 DEF Contiguous, ReachesBack
  <2>. QED
    BY <2>1, <2>2, <2>3, <2>4
    DEF Step, ArchiveMove, HookMove, ClaimMove, TaskMove, ReleaseMove, EndMove, CrashMove
<1>7. Batch(rest') \subseteq 1..next /\ ReachesBack(Batch(rest'))
  <2>1. Batch(rest') \subseteq rest'
    BY DEF Batch, Oldest
  <2>. QED
    BY <1>6, <2>1, BatchReachesBack
<1>8. ASSUME NEW a \in Actors
      PROVE  job'[a].batch \in {job[a].batch, {}, Batch(Uncompacted), Batch(rest')}
  BY <1>5 DEF Step, ArchiveMove, HookMove, ClaimMove, TaskMove, ReleaseMove, EndMove, CrashMove,
              Moves
<1>9. ASSUME NEW a \in Actors
      PROVE  /\ job'[a].batch \subseteq 1..next /\ ReachesBack(job'[a].batch)
  <2>1. {} \subseteq 1..next /\ ReachesBack({})
    BY DEF ReachesBack
  <2>. QED
    BY <1>1, <1>3, <1>4, <1>7, <1>8, <2>1 DEF Contiguous
<1>10. \A s \in rest' : \A t \in held' : t <= s => t \in rest' \cup compacted'
  BY <1>2, <1>6
<1>11. \A a \in Actors : \A s \in job'[a].batch : \A t \in held' :
          t <= s => t \in job'[a].batch \cup compacted'
  BY <1>2, <1>9
<1>. QED
  BY <1>10, <1>11 DEF Contiguous, ReachesBack

LEMMA WrittenFirstStep == IInv /\ Step => WrittenFirst'
<1>. SUFFICES ASSUME IInv, Step, NEW a \in Actors,
                     job'[a].pc = "marking" \/ (a = End /\ job'[a].pc = "distilling")
              PROVE  job'[a].batch \subseteq compacted'
  BY DEF WrittenFirst, At
<1>1. compacted \subseteq compacted' /\ WrittenFirst
  BY QuietStore DEF IInv
<1>2. \A t \in Turns : t # End
  BY DEF Turns, End
<1>3. CASE job'[a] = job[a]
  BY <1>1, <1>3 DEF WrittenFirst, At
<1>. QED
  BY <1>1, <1>2, <1>3
  DEF Step, ArchiveMove, HookMove, ClaimMove, TaskMove, ReleaseMove, EndMove, CrashMove,
      Moves, HookSteps, Outcomes

LEMMA OneMaintenanceStep == IInv /\ Step => OneMaintenance'
<1>. SUFFICES ASSUME IInv, Step PROVE OneMaintenance'
  OBVIOUS
<1>1. /\ OneMaintenance /\ busy \in BOOLEAN
      /\ \A t \in Turns : t \in Actors /\ t # End
  BY DEF IInv, Typed, TypeOK, Actors, Turns, End
<1>2. ASSUME busy' = busy,
             \A t \in Turns : job'[t].pc \in TaskSteps <=> job[t].pc \in TaskSteps
      PROVE  OneMaintenance'
  BY <1>1, <1>2 DEF OneMaintenance
<1>3. HookSteps \cap TaskSteps = {} /\ Outcomes \cap TaskSteps = {}
  BY DEF HookSteps, TaskSteps, Outcomes
<1>4. ASSUME NEW t \in Turns, ArchiveMove(t) PROVE OneMaintenance'
  <2>1. At(t, "idle")
    <3>1. next \in Int
      BY DEF IInv, Typed, TypeOK
    <3>. QED
      BY <1>4, <3>1 DEF ArchiveMove, IInv, Numbered
  <2>. QED
    BY <1>1, <1>2, <1>3, <1>4, <2>1 DEF ArchiveMove, Moves, At, Outcomes
<1>5. ASSUME NEW t \in Turns, HookMove(t) \/ TaskMove(t) PROVE OneMaintenance'
  BY <1>1, <1>2, <1>3, <1>5 DEF HookMove, TaskMove, Compacts, Moves
<1>6. ASSUME NEW t \in Turns, ClaimMove(t) PROVE OneMaintenance'
  <2>1. ~busy /\ busy' /\ \A u \in Turns : job[u].pc \notin TaskSteps
    BY <1>1, <1>6 DEF ClaimMove, OneMaintenance
  <2>2. \A u \in Turns : job'[u].pc \in TaskSteps <=> u = t
    BY <1>1, <1>6, <2>1 DEF ClaimMove, Moves, TaskSteps
  <2>. QED
    BY <2>1, <2>2 DEF OneMaintenance
<1>7. ASSUME NEW t \in Turns, ReleaseMove(t) PROVE OneMaintenance'
  <2>1. \A u \in Turns : job[u].pc \in TaskSteps => u = t
    BY <1>1, <1>7 DEF ReleaseMove, OneMaintenance, At, TaskSteps
  <2>2. \A u \in Turns : job'[u].pc \notin TaskSteps
    BY <1>1, <1>7, <2>1 DEF ReleaseMove, Moves, TaskSteps
  <2>3. ~busy'
    BY <1>7 DEF ReleaseMove
  <2>. QED
    BY <2>2, <2>3 DEF OneMaintenance
<1>8. ASSUME EndMove PROVE OneMaintenance'
  BY <1>1, <1>2, <1>8 DEF EndMove, Compacts, Moves
<1>9. ASSUME CrashMove PROVE OneMaintenance'
  <2>1. \A u \in Turns : job'[u].pc \notin TaskSteps
    BY <1>1, <1>9 DEF CrashMove, Outcomes, TaskSteps
  <2>. QED
    BY <1>9, <2>1 DEF OneMaintenance, CrashMove
<1>. QED
  BY <1>4, <1>5, <1>6, <1>7, <1>8, <1>9 DEF Step

LEMMA OwingStep == IInv /\ Step => Owing'
<1>. SUFFICES ASSUME IInv, Step PROVE Owing'
  OBVIOUS
<1>1. Owing /\ End \in Actors /\ \A t \in Turns : t # End
  BY DEF IInv, Actors, Turns, End
<1>2. CASE job'[End] = job[End] /\ owed' \subseteq owed /\ rest' = rest
  BY <1>1, <1>2 DEF Owing
<1>3. CASE CrashMove
  <2>1. job'[End].pc \notin EndSteps /\ (job'[End].pc = "ok" => job[End].pc = "ok")
    BY <1>1, <1>3 DEF CrashMove, Outcomes, EndSteps
  <2>2. owed' = owed
    BY <1>3 DEF CrashMove
  <2>. QED
    BY <1>1, <2>1, <2>2 DEF Owing, EndSteps
<1>. QED
  BY <1>1, <1>2, <1>3 DEF Step, ArchiveMove, HookMove, ClaimMove, TaskMove, ReleaseMove, Moves

LEMMA InitIInv == Init => IInv
<1>. SUFFICES ASSUME Init PROVE IInv
  OBVIOUS
<1>1. /\ 0 \in 0..L1Turns /\ 0 \in 0..MaxSummaries /\ 0 \in 0..MaxTurns /\ 0 \in 0..MaxCrashes
  BY PipelineAssumption
<1>2. Asleep \in Job
  BY <1>1 DEF Asleep, Job, Outcomes
<1>3. \A a \in Actors : job[a] = Asleep
  BY DEF Init
<1>4. TypeOK
  BY <1>1, <1>2 DEF Init, TypeOK, None, Unknown
<1>5. Typed /\ WrittenFirst /\ Contiguous
  BY <1>3, <1>4 DEF Init, Typed, WrittenFirst, Contiguous, ReachesBack, At, Asleep
<1>6. Numbered /\ CursorLeads /\ CursorFollowsWrites
  BY <1>3 DEF Init, Numbered, CursorLeads, CursorFollowsWrites, At, Asleep, None, Turns, Actors
<1>7. OneMaintenance /\ Owing
  BY <1>3 DEF Init, OneMaintenance, Owing, Asleep, TaskSteps, Turns, Actors, EndSteps
<1>. QED
  BY <1>5, <1>6, <1>7 DEF IInv

LEMMA StutterIInv == IInv /\ UNCHANGED vars => IInv'
BY DEF IInv, Typed, TypeOK, Numbered, CursorLeads, CursorFollowsWrites, Contiguous, ReachesBack,
       WrittenFirst, OneMaintenance, Owing, At, vars, volatile, durable, history

LEMMA Inductive == Spec => []IInv
<1>1. IInv /\ [Next]_vars => IInv'
  BY NextKinds, NumberedStep, CursorLeadsStep, CursorFollowsStep, ContiguousStep,
     WrittenFirstStep, OneMaintenanceStep, OwingStep, StutterIInv DEF IInv
<1>. QED
  BY <1>1, InitIInv, PTL DEF Spec

-----------------------------------------------------------------------------
(* The stores, the hint and every actor's job keep their types: the hint   *)
(* never leaves the window, and no write loop counts below zero.           *)
THEOREM PipelineTypes == Spec => []TypeOK
  BY Inductive, PTL DEF IInv, Typed

(* No turn that the store still holds behind the cursor lacks a summary,   *)
(* whichever task, late batch or end moved the cursor there.               *)
THEOREM CursorIsBacked == Spec => []CursorFollowsWrites
  BY Inductive, PTL DEF IInv

(* The busy slot is a mutual exclusion of the background tasks. *)
THEOREM MaintenanceIsExclusive == Spec => []OneMaintenance
  BY Inductive, PTL DEF IInv

(* An end that returned Ok has drained the backlog it found. *)
THEOREM SuccessfulEndDrains == Spec => []EndDrains
<1>1. IInv => EndDrains
  BY DEF IInv, Owing, EndDrains, At
<1>. QED
  BY <1>1, Inductive, PTL

(* The cursor of the store only moves forward. *)
THEOREM CursorMovesForward == Spec => CursorOnlyAdvances
<1>1. IInv /\ [Next]_vars => [cursor' # cursor => cursor' > cursor]_cursor
  BY NextKinds, QuietStore, ArchivedIsNew DEF vars, durable
<1>. QED
  BY <1>1, Inductive, PTL DEF Spec, CursorOnlyAdvances
=============================================================================
