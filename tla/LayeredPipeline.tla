--------------------------- MODULE LayeredPipeline ---------------------------
(***************************************************************************)
(* The write phase of the layered memory component for one conversation:   *)
(* what each completed turn's hooks do, the background maintenance they    *)
(* start, and the maintenance that ends the conversation.                  *)
(*                                                                         *)
(* Turns are numbered in the order L1 receives them, so the store's queue  *)
(* is the set of the turns it holds.  The actors are the turns (a turn's   *)
(* hooks run, then the task they spawn) and End, finalize_conversation.    *)
(* Every lock section and every await of an actor is a step of its own.    *)
(***************************************************************************)
EXTENDS Integers, FiniteSets

CONSTANTS
  L1Turns,       \* config.l1_turns: the compaction window
  Retained,      \* the turn capacity of the L1 store
  Faults,        \* whether stores, model calls and embeddings may fail
  MaxTurns,      \* bound on the turns of the conversation
  MaxHooks,      \* bound on the turns whose hooks run at once (handles on the conversation)
  MaxSummaries,  \* bound on the entries one compaction writes
  MaxCrashes     \* bound on restarts of the process

ASSUME PipelineAssumption ==
  /\ L1Turns \in Nat \ {0} /\ Retained \in Nat \ {0}
  /\ Faults \in BOOLEAN /\ MaxTurns \in Nat /\ MaxHooks \in Nat /\ MaxSummaries \in Nat \ {0} /\ MaxCrashes \in Nat

VARIABLES
  held,       \* L1: the turns the store holds
  cursor,     \* L1: the last turn marked compacted; None while unset
  entries,    \* L2: the conversation has entries
  pending,    \* MaintenanceState.pending: the trigger hint, capped; Unknown before the first read
  busy,       \* MaintenanceState.busy holds the conversation
  next,       \* the number of turns that reached the archive hook
  job,        \* what each actor is doing
  rest,       \* End: the turns it still has to drain
  compacted,  \* history: the turns whose compaction writes succeeded
  owed,       \* history: the turns End found pending and that lack summaries or distillation
  crashes     \* restarts so far

volatile == <<pending, busy, job, rest>>
durable  == <<held, cursor, entries>>
history  == <<next, compacted, owed, crashes>>
vars     == <<volatile, durable, history>>

Turns  == 1..MaxTurns
End    == 0
Actors == Turns \cup {End}
None    == 0    \* no cursor
Unknown == -1   \* no hint

HookSteps == {"counting", "checking", "reading", "hinting", "claiming"}
TaskSteps == {"summarizing", "writing", "marking", "distilling",
              "refreshing", "rehinting", "releasing"}
EndSteps  == {"opening", "summarizing", "writing", "marking", "distilling", "repairing"}
Outcomes  == {"idle", "done", "ok", "failed"}

At(a, pc)  == job[a].pc = pc
Working(a) == job[a].pc \in TaskSteps \cup EndSteps

Asleep == [pc |-> "idle", batch |-> {}, seen |-> 0, distill |-> FALSE, left |-> 0]

Job == [pc : HookSteps \cup TaskSteps \cup EndSteps \cup Outcomes, batch : SUBSET Turns,
        seen : 0..L1Turns, distill : BOOLEAN, left : 0..MaxSummaries]

TypeOK ==
  /\ held \subseteq Turns /\ cursor \in Turns \cup {None}
  /\ entries \in BOOLEAN
  /\ compacted \subseteq Turns /\ owed \subseteq Turns
  /\ pending \in 0..L1Turns \cup {Unknown} /\ busy \in BOOLEAN
  /\ next \in 0..MaxTurns /\ rest \subseteq Turns /\ crashes \in 0..MaxCrashes
  /\ job \in [Actors -> Job]
-----------------------------------------------------------------------------
(* InProcessL1MemoryStore over the turns held *)

Oldest(S, n) == {t \in S : Cardinality({u \in S : u < t}) < n}
Newest(S, n) == {t \in S : Cardinality({u \in S : u > t}) < n}
IsLast(t, S) == t \in S /\ \A u \in S : u <= t

Appended(t) == Newest(held \cup {t}, Retained)
Uncompacted == IF cursor \in held THEN {t \in held : t > cursor} ELSE held

(* Variant: a mark that does not look where the cursor stands. *)
MarkedBlindly(through) == IF through \in held THEN through ELSE cursor

(* mark_compacted: a turn no longer held, or already behind the cursor, is a no-op. *)
Marked(through) ==
  IF through \in held /\ (cursor \in held => cursor < through) THEN through ELSE cursor

(* The hint is only compared with the window: it is kept up to there. *)
Capped(n) == IF n < L1Turns THEN n ELSE L1Turns

Batch(S) == Oldest(S, L1Turns)

Init ==
  /\ held = {} /\ cursor = None /\ entries = FALSE
  /\ pending = Unknown /\ busy = FALSE /\ job = [a \in Actors |-> Asleep] /\ rest = {}
  /\ next = 0 /\ compacted = {} /\ owed = {} /\ crashes = 0

Go(a, pc)   == job' = [job EXCEPT ![a].pc = pc]
Quit(a, pc) == job' = [job EXCEPT ![a] = [Asleep EXCEPT !.pc = pc]]
-----------------------------------------------------------------------------
(* The turn's hooks *)

(* archive_turn appends the entry; a store that refuses it skips the count, *)
(* and the background hook runs all the same.                               *)
ArchiveTurn ==
  /\ next < MaxTurns
  /\ Cardinality({t \in Turns : job[t].pc \in HookSteps}) < MaxHooks
  /\ next' = next + 1
  /\ \/ held' = Appended(next') /\ Go(next', "counting")
     \/ Faults /\ held' = held /\ Go(next', "checking")
  /\ UNCHANGED <<pending, busy, rest, cursor, entries, compacted, owed, crashes>>

CountArchived(t) ==
  /\ At(t, "counting") /\ Go(t, "checking")
  /\ pending' = IF pending = Unknown THEN Unknown ELSE Capped(pending + 1)
  /\ UNCHANGED <<busy, rest, durable, history>>

(* spawn_task: a hint below the window ends the hook, unless the topic changed. *)
CheckHint(t) ==
  /\ At(t, "checking")
  /\ \E shift \in BOOLEAN :
       IF pending # Unknown /\ pending < L1Turns /\ ~shift THEN Quit(t, "done")
       ELSE job' = [job EXCEPT ![t].distill = shift, ![t].pc = "reading"]
  /\ UNCHANGED <<pending, busy, rest, durable, history>>

ReadPending(t) ==
  /\ At(t, "reading")
  /\ \/ /\ job' = [job EXCEPT ![t].pc = "hinting", ![t].seen = Capped(Cardinality(Uncompacted)),
                              ![t].batch = Batch(Uncompacted)]
        /\ pending' = pending
     \/ Faults /\ Quit(t, "done") /\ pending' = Unknown
  /\ UNCHANGED <<busy, rest, durable, history>>

FullBatch(t) == Cardinality(job[t].batch) >= L1Turns

(* The hint is replaced and the batch read before is judged: compact a full *)
(* window, distill on a topic change or when the compacted batch has aged.  *)
HintPending(t) ==
  /\ At(t, "hinting")
  /\ pending' = job[t].seen
  /\ \E aged \in BOOLEAN :
       LET distill == job[t].distill \/ (FullBatch(t) /\ aged)
       IN  IF job[t].batch # {} /\ (FullBatch(t) \/ distill)
             THEN job' = [job EXCEPT ![t].distill = distill, ![t].seen = 0, ![t].pc = "claiming"]
             ELSE Quit(t, "done")
  /\ UNCHANGED <<busy, rest, durable, history>>

(* Variant: a claim that does not look at the slot. *)
ClaimUnchecked(t) ==
  /\ At(t, "claiming") /\ busy' = TRUE
  /\ Go(t, IF FullBatch(t) THEN "summarizing" ELSE "distilling")
  /\ UNCHANGED <<pending, rest, durable, history>>

(* A task in flight keeps the slot: this turn gives up. *)
Claim(t) ==
  /\ At(t, "claiming")
  /\ busy' = TRUE
  /\ IF busy THEN Quit(t, "done") ELSE Go(t, IF FullBatch(t) THEN "summarizing" ELSE "distilling")
  /\ UNCHANGED <<pending, rest, durable, history>>
-----------------------------------------------------------------------------
(* Compacting and distilling a batch, in a turn's task or at the end *)

Fail(a) == Faults /\ Quit(a, IF a = End THEN "failed" ELSE "refreshing")

(* The summarizer fails, finds nothing to remember, or asks for entries. *)
Summarize(a) ==
  /\ At(a, "summarizing")
  /\ \/ Fail(a) /\ UNCHANGED compacted
     \/ Go(a, "marking") /\ compacted' = compacted \cup job[a].batch
     \/ \E n \in 1..MaxSummaries :
          /\ job' = [job EXCEPT ![a].pc = "writing", ![a].left = n]
          /\ UNCHANGED compacted
  /\ UNCHANGED <<pending, busy, rest, durable, next, owed, crashes>>

(* Each entry is embedded and written by itself; a failure leaves the earlier ones. *)
WriteEntry(a) ==
  /\ At(a, "writing")
  /\ \/ Fail(a) /\ UNCHANGED <<entries, compacted>>
     \/ /\ entries' = TRUE
        /\ IF job[a].left = 1
             THEN Go(a, "marking") /\ compacted' = compacted \cup job[a].batch
             ELSE job' = [job EXCEPT ![a].left = @ - 1] /\ UNCHANGED compacted
  /\ UNCHANGED <<pending, busy, rest, held, cursor, next, owed, crashes>>

(* Variant: the log is marked up to its newest turn rather than the batch's. *)
MarkCompactedNewest(a) ==
  /\ At(a, "marking")
  /\ \E through \in held : IsLast(through, held) /\ cursor' = Marked(through)
  /\ IF a = End \/ job[a].distill THEN Go(a, "distilling") ELSE Quit(a, "refreshing")
  /\ UNCHANGED <<pending, busy, rest, held, entries, history>>

MarkCompacted(a) ==
  /\ At(a, "marking")
  /\ \/ Fail(a) /\ UNCHANGED cursor
     \/ /\ \E through \in job[a].batch : IsLast(through, job[a].batch) /\ cursor' = Marked(through)
        /\ IF a = End \/ job[a].distill THEN Go(a, "distilling") ELSE Quit(a, "refreshing")
  /\ UNCHANGED <<pending, busy, rest, held, entries, history>>

(* The entries are read and shown to the extraction with the batch; it may fail. *)
Settled(a) == owed \ (job[a].batch \cap compacted)

DistillTask(t) ==
  /\ At(t, "distilling") /\ Quit(t, "refreshing")
  /\ owed' \in {Settled(t)} \cup (IF Faults THEN {owed} ELSE {})
  /\ UNCHANGED <<pending, busy, rest, durable, next, compacted, crashes>>
-----------------------------------------------------------------------------
(* The end of a turn's task: the hint is refreshed whatever the outcome, *)
(* then the guard is dropped.                                            *)
Refresh(t) ==
  /\ At(t, "refreshing")
  /\ \/ /\ job' = [job EXCEPT ![t].pc = "rehinting", ![t].seen = Capped(Cardinality(Uncompacted))]
        /\ pending' = pending
     \/ Faults /\ Go(t, "releasing") /\ pending' = Unknown
  /\ UNCHANGED <<busy, rest, durable, history>>

(* Variant: the hint is counted down by the batch instead of read again. *)
RehintSubtracting(t) ==
  /\ At(t, "rehinting") /\ Quit(t, "releasing")
  /\ pending' = pending - L1Turns
  /\ UNCHANGED <<busy, rest, durable, history>>

Rehint(t) ==
  /\ At(t, "rehinting") /\ Quit(t, "releasing")
  /\ pending' = job[t].seen
  /\ UNCHANGED <<busy, rest, durable, history>>

Release(t) ==
  /\ At(t, "releasing") /\ Go(t, "done")
  /\ busy' = FALSE
  /\ UNCHANGED <<pending, rest, durable, history>>
-----------------------------------------------------------------------------
(* finalize_conversation: it does not claim the slot *)

OpenEnd ==
  /\ At(End, "idle") /\ Go(End, "opening")
  /\ owed' = Uncompacted /\ rest' = Uncompacted
  /\ UNCHANGED <<pending, busy, durable, next, compacted, crashes>>

NextChunk(S) ==
  job' = [job EXCEPT ![End] = [Asleep EXCEPT !.pc = IF S = {} THEN "distilling" ELSE "summarizing",
                                             !.batch = Batch(S)]]

(* Without a model there must be nothing to do. *)
StartEnd ==
  /\ At(End, "opening")
  /\ \/ \E model \in BOOLEAN :
          IF model THEN NextChunk(rest)
          ELSE Go(End, IF rest = {} /\ ~entries THEN "ok" ELSE "failed")
     \/ Fail(End)
  /\ UNCHANGED <<pending, busy, rest, durable, history>>

(* Variant: the end stops after one batch. *)
DistillEndOnce ==
  /\ At(End, "distilling")
  /\ \/ Fail(End) /\ UNCHANGED <<owed, rest>>
     \/ owed' = Settled(End) /\ rest' = rest \ job[End].batch /\ Quit(End, "repairing")
  /\ UNCHANGED <<pending, busy, durable, next, compacted, crashes>>

(* A distilled chunk is dropped from the backlog; the rest follows. *)
DistillEnd ==
  /\ At(End, "distilling")
  /\ \/ Fail(End) /\ UNCHANGED <<owed, rest>>
     \/ /\ owed' = Settled(End) /\ rest' = rest \ job[End].batch
        /\ IF rest' = {} THEN Quit(End, "repairing") ELSE NextChunk(rest')
  /\ UNCHANGED <<pending, busy, durable, next, compacted, crashes>>

(* repair_touched may fail; otherwise the hint is forgotten. *)
CloseEnd ==
  /\ At(End, "repairing")
  /\ \/ Go(End, "ok") /\ pending' = Unknown
     \/ Fail(End) /\ UNCHANGED pending
  /\ UNCHANGED <<busy, rest, durable, history>>

(* A restart keeps the stores and loses the hints, the slot and the work. *)
Crash ==
  /\ crashes < MaxCrashes /\ crashes' = crashes + 1
  /\ pending' = Unknown /\ busy' = FALSE /\ rest' = {}
  /\ job' = [a \in Actors |->
               IF job[a].pc \in Outcomes THEN job[a]
               ELSE [Asleep EXCEPT !.pc = IF a = End THEN "idle" ELSE "done"]]
  /\ UNCHANGED <<durable, next, compacted, owed>>
-----------------------------------------------------------------------------
Hook(t)    == CountArchived(t) \/ CheckHint(t) \/ ReadPending(t) \/ HintPending(t) \/ Claim(t)
Compact(a) == Summarize(a) \/ WriteEntry(a) \/ MarkCompacted(a)
Task(t)    == Compact(t) \/ DistillTask(t) \/ Refresh(t) \/ Rehint(t) \/ Release(t)
Finalize   == Compact(End) \/ StartEnd \/ DistillEnd \/ CloseEnd

Next ==
  \/ ArchiveTurn \/ OpenEnd \/ Crash \/ Finalize
  \/ \E t \in Turns : Hook(t) \/ Task(t)

Spec == Init /\ [][Next]_vars
-----------------------------------------------------------------------------
(* A turn the store still holds behind the cursor has had its compaction  *)
(* writes succeed: the cursor, which several writers move (a task, the    *)
(* conversation's end, a batch read before another one finished), never   *)
(* passes a turn that is in no summary.                                   *)
CursorFollowsWrites ==
  cursor \in held => \A t \in held : t <= cursor => t \in compacted

(* The cursor of the log never moves back, whatever late batch is marked. *)
CursorOnlyAdvances == [][cursor' # cursor => cursor' > cursor]_cursor

(* The slot serializes the background maintenance of the conversation: at *)
(* most one turn's task is between its claim and its release, and the     *)
(* slot is taken exactly then.                                            *)
OneMaintenance ==
  /\ \A t, u \in Turns : job[t].pc \in TaskSteps /\ job[u].pc \in TaskSteps => t = u
  /\ busy <=> \E t \in Turns : job[t].pc \in TaskSteps

(* A finalize_conversation that returns Ok left nothing behind: every turn *)
(* it found pending is in summaries and was distilled, although tasks and  *)
(* turns run beside it and the process may have restarted before.          *)
EndDrains == At(End, "ok") => owed = {}

(* pipeline.rs on a skipped trigger: "the next turn retries (the cursor    *)
(* means nothing is lost)".  The store drops only turns that are in        *)
(* summaries or in the batch of running maintenance.                       *)
NothingLost ==
  [][\A t \in held \ held' :
       t \in compacted \cup UNION {job[a].batch : a \in {b \in Actors : Working(b)}}]_held
=============================================================================
