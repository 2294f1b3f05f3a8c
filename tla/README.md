# Synonz: models, model checks and proofs

Synonz is a Rust framework for LLM agents. An `Agent` runs a reasoning loop over a
`Conversation`; a context engine puts the model-visible frame together and hands completed turns
to the memory; a `SynonzRuntime` owns the conversations, the event bus, the background
maintenance of the memory and a scheduler whose Monitor task ends idle conversations; adapters
talk to the model providers. This directory holds TLA+ models of the parts in which several
tasks, threads, handles and stores meet, the TLC runs that check them on small instances, and
TLAPS proofs of the results that hold for every instance. Paths below are relative to the
repository's sources; `synonz` stands for `crates/synonz/src` and `layered` for
`crates/synonz-layered-memory/src`.

## 1. Inventory

| Part | State | Operations | What is hard | Correct when |
|---|---|---|---|---|
| Agent run (`synonz/agent.rs`, `event.rs`) | round, messages of the turn, tool tasks, the event parked in a send, the delivery channel (capacity 1) | the loop's phases, tool tasks, `next`, `cancel`, drop of the `Execution` | a dozen exits; tasks complete in any order or panic; the consumer leaves at any await | one terminal event, last; archive and announcement agree; turns replay |
| Cancellation (`synonz/cancel.rs`) | token, `timeout_fired`, timeout task | cancel, arm, elapse, drop guard | a timeout racing a cancel and a drop; awaits that do not look at the signal | nothing but those awaits keeps a fired signal from ending the run, one reason is reported |
| Event bus (`synonz/bus.rs`) | bounded queue, drop count, lazily spawned dispatcher, disabled observers | emit, flush, deliver, report lag | emitters race to spawn; overflow; panicking observers; the host runtime stops | accepted events reach every live observer in order; drops are counted; flush is a barrier |
| Conversation (`synonz/conversation.rs`, `runtime.rs`) | turns and ended flag per handle, the store, the ownership table, background tasks | create, restore, record, spawn, end (owner, sweep, shutdown), abandon an end | independent handles of one conversation; drain timeout; failed save, list or load; a finalize hook without a budget; crash | one teardown per handle, drain before finalize, nothing left open but what hangs in the hook |
| Scheduler (`synonz/scheduler.rs`) | task table, deadlines, `inflight`/`pending` atomics, condvar | schedule, cancel, stop, scan, execute | two atomics shared without a lock; lost wakeups; panics; stalls | no overlap, no leaked slot, no missed task, stop is final |
| Context engine (`synonz/context.rs`) | the conversation's topic, facts told on the bus | `assemble`, `on_turn_completed`, narrated model | topic read before an await and written after; overlapping runs; extensions that fail or return anything | no failure is silent; the framework's frames end with this run's input, once; facts agree with the archive |
| Write phase of the layered memory (`layered/pipeline.rs`, `l1_memory.rs`) | L1 queue and cursor, trigger hint, busy set, L2 entries | archive and background hooks, compaction, distillation, `finalize_conversation` | late and overlapping batches; failures between store writes; restart | the cursor follows the writes; one maintenance at a time; a successful end leaves nothing |
| L3 graph (`layered/l3_memory.rs`) | entities, relations, vectors, names to repair | distill, merge, repair, edit, forget | snapshots read before awaits; forgets beside merges; half-written runs | entities stay recallable, ids stable, relations resolved |
| Recall (`layered/assembler.rs`, `rewriter.rs`) | none of its own | read L1, L2, L3, rank, rewrite | maintenance moves turns between layers during the reads | no blind spot, no repetition |
| Management face, paging (`layered/memory.rs`, `l2_memory.rs`, `synonz/paging.rs`, `inprocess.rs`) | entries with times, keyset cursor | list, edit, forget, `forget_matching`, compaction | ties at page boundaries, entries that move between pages | what nobody touched is listed once; no removal goes untold, and that of a summary is told once |
| Model adapters (`crates/synonz-openai`, `crates/synonz-anthropic`) | parser buffer, accumulator, items to yield | build and send the request, parse events, finish | chunking, early end, error events, interleaved calls | a finish is what was streamed, once; requests lose, repeat and move no block |
| MCP bridge, derive macro, examples | none | adapters, code generation, a TUI | | |

How they meet: the loop calls the context engine and the conversation, and emits through
`EventSink`, which notifies the bus first and then awaits the delivery channel. The context
engine spawns maintenance through `ConversationTaskSpawner`, which files the task under the
conversation's entry in the runtime's table; that maintenance is the layered memory's write
phase, which compacts L1 turns into L2 summaries and distills them into the L3 graph. `end`
removes the entry, drains its tasks, calls the pipeline's finalize hook, saves and notifies. The
Monitor is a `Skip` task of the scheduler that ends stale conversations; `shutdown` stops the
scheduler, ends what the table owns and flushes the bus.

`PROJECT.json` lists the hazards of this code one by one, each at its line and with the
properties that watch it.

## 2. Modules

    RunContract  <--refines--  AgentRun  <-- MCAgentRun, AgentRunProofs
                               EventBus  <-- MCEventBus, EventBusProofs
                  ConversationLifecycle  <-- MCConversationLifecycle, ConversationProofs
                              Scheduler  <-- MCScheduler, SchedulerProofs
                            TurnContext  <-- MCTurnContext, TurnContextProofs
                        LayeredPipeline  <-- MCLayeredPipeline, LayeredPipelineProofs
                            MemoryGraph  <-- MCMemoryGraph, MemoryProofs
                             MemoryFace  <-- MCMemoryFace, MemoryProofs
                            ModelStream  <-- MCModelStream, ModelStreamProofs

The MC modules give the constants their values. Operators whose comment begins with "Variant:"
are wrong versions of the definition they stand beside: each is a plausible bug, and a property
is only kept if some variant breaks it (`PROJECT.json`, "mutants").

In every module a step is what runs between two awaits or inside one lock section; whatever the
code reads before an await and uses after it is kept in the state of its actor. Texts, vectors,
times of day, token counts and serialization are reduced to what a property tells apart.

### AgentRun and RunContract

One run. `pc` is the program counter of `AgentLoopTask::execute`:

| `pc` | Code |
|---|---|
| `spawned`, `assembling`, `gate` | Started, history and `assemble`, the `is_cancelled` check |
| `round`, `requesting` | the top of the round loop (the next round, or none left) and its `Requested` event |
| `model`, `stream`, `tools` (`Suspended`) | the three `select!`s |
| `relaying`, `responding`, `announcing`, `reporting` | parked in the send of a delta, the answer, a call, a result |
| `responded`, `asking`, `maintaining` | the branch on `calls.is_empty()`, `emit_all_requested`, `on_turn_completed` |
| `closing`, `closingPlain` | parked in the send of a terminal event, with and without `emit!` |
| `done`, `panicked` | the task returned, or the `expect` of agent.rs:962 fired |

`Narrate` is the half of `emit_turn` before its await (the bus sees the event); `SendAccepted`
and the `Refusal...` actions are the other half, one for each thing the code does when the
consumer is gone: ignore it (`let _ =`), record and return (`emit!`), or turn it into a
cancellation (tool results). `out` is the event in flight and `chan` the channel. Dropping the
handle is two steps, as Rust drops fields in order: first the receiver, then the drop guard that
fires the token. `results` keeps, for each call id, the position of the task a result came from,
which is what distinguishes a task that answers for another one. Data is reduced to this: events
and messages are records of kind, round, call and origin; a model answer is a list of calls;
usage, text and prompts are left out.

The round counts from zero: with `max_rounds(0)` the loop body is skipped and the run ends as one
out of rounds. `Assemble` and `Maintain` (`EngineStep`) are the awaits on the context engine, which
answers when its extensions do; no fairness is assumed of them.

`RunContract` is what the rest of the system relies on: settle an outcome in the archive, announce
that same outcome, close. `Abort` is the one other end of the stream: the loop task panics with
nothing settled, which the contract allows only where a tool may panic (`MayAbort`).
`AgentRun!ImplementsContract` is the refinement; a panicked loop maps to the aborted stream.

### EventBus

The observation lane. Each access of `ensure_dispatcher` to the flag and to the receiver slot is
a step, `try_send` and the drop count are two, the dispatcher takes one observer at a time.
`flush` may have to wait for a permit: tokio's channel is a fair semaphore, so permits freed
while someone waits are handed over (`waiting`, `granted`). This and the shutdown of the host
runtime (`HostStops`) are the external part, modelled from how the bus uses them.

### ConversationLifecycle

One conversation id. `Handles` are the application's `Conversation` objects; the sweep restores
its own with `of`, so that two objects may disagree about the same conversation, which is where
the code is most delicate. `record!` is push, snapshot, save; `end_with` is mark, remove the
entry, drain, finalize (the hook begins, and returns if it does), snapshot, save, notify.
`FinalizeReturns` has no fairness: runtime.rs:503 awaits the pipeline's hook without a budget.
`Abandon` is a caller of `end` or `shutdown` who drops the future at an await of the drain, the
hook or the flush (conversation.rs 440-458): the mark and the removal of the entry stay, and only
a sweep can finish the end. A later `shutdown` begins anew and ends what the table still owns
(`teardown` says how far shutdowns have come: once one has stopped the scheduler there is no sweep
any more). The sweep runs as a scheduled task and is not dropped; its `list_stale` may fail
(`SweepListFails`), and so may the load of each conversation (`SweepLoadFails`). The store's calls
fail at most `MaxFails` times, and are then reported as facts; `Crash` loses everything but the
store. The handle the sweep restored is gone when nobody
holds it any more; the next sweep restores it anew. Whether a conversation is stale is a free
choice of `SweepLists`: the property must not depend on the clock. `Create` is `with_id` for an
id the store does not know; creating over a stored id, which overwrites it, is the caller's
documented responsibility and is left out, as are topics and timestamps. `Create` and `Restore`
take the store access and the registration in one step on the application's side; the sweep takes
them in two.

### Scheduler

The timing thread holds the state lock from the start of a scan until it waits, so `Schedule`,
`CancelTask` and `Stop` are guarded by `LockFree`; executions take no lock. For a queued task the
look at `inflight` (`SeeBusy`) and the store to `pending` (`Defer`) are two steps on the thread's
side, and `pending.swap` (`RunAgain`, `Leave`) and the release of the slot (`Release`) two on the
execution's side. A wait is a deadline `wakeAt` and the flag `notified`; a wakeup may be
spurious. `policy` is chosen at the start from `Offered`, so that one run covers two policies for
one task. `MaxSteps` is the `u32::MAX` at which `advance` cuts off the number of periods it skips.

### TurnContext

The runs of one conversation inside the context engine, with the provider behind it. `setup`
chooses the bundled window, the layered component or a foreign provider, and whether a rewriter
or a detector is registered. Each run goes through `assemble` (`Coreference`, `Rewrite`, then
`AssembleBundled`, `AssembleForeign`, or `EmbedQuery`, `RecallFirst`, `RecallSecond`,
`Rank`, `Enhance`, each reading of a layer with its own failure), `Report` and `Loop`, and, once its
turn is completed, `on_turn_completed` (`Detect`, `SetTopic`, `EmitShift`, `Archive`, `Spawn`).
`Background` is the maintenance that moves a turn from L1 to L2, which is what recall must not be
blind to. `Ask`, `Answered` and `Reply` are the two halves of `NarratedModel`'s calls. A message is its turn
and its kind, a recalled item its layer and its turn; `Scored` picks any order of the items,
which stands for the scoring. What `dedupe` takes for one memory, by equal texts or near vectors,
is any relation of `Likenesses` (two turns, a turn and a summary, not necessarily transitive), and
a foreign assembler returns any sequence of up to `MaxForeign` messages, with the input or without.
`Recall` drops the turns whose embedding failed, each with a failure of its own, or the whole layer
when the store refuses; `RecallL3` keeps what it found beside the failures. `NothingSilent` counts
the failures the engine is handed; failures the L3 reads of the layered assembler swallow are
outside it, see section 5.

### LayeredPipeline

The write phase for one conversation. Turns are numbered as L1 receives them, so that its queue
is a set; `cursor` is the last turn marked as compacted. An actor is a turn (its archive hook
`ArchiveTurn`, `CountArchived`; its background hook `CheckHint`, `ReadPending`, `HintPending`,
`Claim`; and the task the hook spawns) or `End`, `finalize_conversation`. The task and the end
share `Summarize`, `WriteEntry`, `MarkCompacted`; then the task distills (`DistillTask`),
refreshes the hint in two steps (`Refresh`, `Rehint`) and releases the slot (`Release`), while
the end takes its next chunk and reports. `Fail` is any store, model or embedding call that
returns an error. `Crash` loses the hint, the slot and all actors and keeps the stores. Several
hooks run at once when several handles of the conversation complete turns (`MaxHooks`).

### MemoryGraph

One partition of the L3 graph, distilled into by several conversations (each serialized by the
slot of LayeredPipeline, which is why one conversation has one run here). A distillation is
`Extract` (what the model names), per draft `Resolve` (an entity of the snapshot with this
name or alias, else one the vectors propose, else a new one), `WriteVector` and `WriteEntity` (vectors first), per relation `WriteEdge`.
`TakeTouched`, `FetchTarget`, `RepairTarget` are `repair_touched`; `Find`, `EditEntity`,
`RefreshVector`, `RemoveVector`, `LocateEntity`, `RemoveEntity`, `ForgetRelation` the management
face, called by several `Managers` at once: `remove_entity_by_id` locates the entity under one lock
and removes what is then under its name under another. An entity
is its id and its aliases. `Upserted` is what the in-process store does with an entity it knows
already, `Unlinked` with a relation. The histories `forgotten` and `loose` record what the
properties excuse: a forget that was called, an end the extraction never drafted.

### MemoryFace

The management face over the L2 entries of one conversation and the L3 entities of its partition,
and keyset paging as every store of the repository does it (`is_after`, `page_of`). `OpenListing` and `NextPage` are the paging
caller; `FindToEdit`, `Stamp`, `Edit` are an edit, which takes its time, refreshes the vector and
only then writes its copy back; `FindToForget`, `Collect`, `RemoveSummary` (or `FindEntity` and
`UnlinkEntity`, the two lock sections of an entity's removal), `RemovalFails`, `Announce` are
`forget` and `forget_matching`; `StartCompact`, `Summarized`, `WriteEntry` a compaction that took its time
and its snapshot before the model call. The clock counts in units so coarse that ties are the
rule.

`Ranked` is the sort of `collect`, stated by what it returns: a sequence of the items in which
each precedes those after it. The histories `edited` and `rewritten` are what `ListingIsExact`
excuses: an entry somebody wrote or removed since the listing began, and one written with a time
that had passed. The second happens in a compaction, and also between two edits of one entry: the
one that stamped first may write last, and so take the entry from the front of the order back
into pages still to come. The variables, `FaceInit`, `FaceNext` and `FaceSpec` have names of
their own so that one proof module can extend both this module and `MemoryGraph`.

### ModelStream

One call of an adapter: `Build` (translation of the messages, or a refusal), `Send` (the HTTP
status, or a transport error), then the response as server-sent events. The backend sends any
legal sequence (`Legal`), cut into chunks at any place: `ReadHalf` leaves an event in the parser's
buffer, `ReadLine` completes it. `ParseDelta`, `ParseStop`, `ParseDone`, `ParseError` are the
events as the two adapters treat them (where they differ, the definition tests `provider`);
`Closed` and `Broken` the end of the connection. The arguments of a call arrive in two fragments,
so that a finish could be built with half of them; an OpenAI call may begin without its name and
never get it, and the chunk with the finish reason may still carry text and a fragment of a call.
A block of a request is a kind and an identity, a message its role and its blocks: what is lost,
repeated or swapped on the wire shows. `SystemOf` is the parameter that Anthropic takes the system
text in.

## 3. Runs

| Run | Instance | Shows |
|---|---|---|
| `agent_run` | 2 call ids, answers with no call, two distinct or twice the same call, 2 rounds, 1 delta, either tool task may panic | archive, announcement and stream agree, tools are reported once, `RunContract` is implemented, a cancelled run ends unless the engine or the consumer holds it |
| `event_bus` | an async and a sync emitter with 2 events each, 1 flush, 2 observers, queue of 2 | order, isolation, accounting, barrier, progress |
| `conversation_lifecycle` | 1 application handle, the sweep's, 1 run, 1 failed call to the store, 1 crash, a hook that may hang | teardown is ordered, once per handle, and completes |
| `scheduler` | a Queue task (period 1, may panic), a Skip or Concurrent task (period 2), jumps of at most 2 periods, clock up to 3 | slots, overlap, catch-up, wakeups, stop |
| `turn_context` | 3 runs (2 at once), 2 topics, four setups, window of 3 messages, 1 turn in L1, top 2, foreign frames of up to 2 messages, 2 relations of likeness, 2 failures | nothing silent, the frame keeps the input, recall is complete |
| `memory_pipeline` | window of 2 turns, L1 holds 3, 4 turns, 1 hook at a time, 1 summary per batch, every call may fail, 1 restart | cursor, slot, successful end |
| `memory_graph` | 2 conversations with one distillation each, 2 names, 1 draft and 1 relation each, 3 management calls by 2 callers, every call may fail | reachability and stable ids |
| `memory_face` | 3 of 4 summaries in a store of 3, 1 entity, 2 managing callers, page sizes 0 and 2, 2 requests, a compaction of up to 2 writes, 2 ticks | exact listings, told removals |
| `model_stream` | both adapters, all conversations of up to 2 messages of up to 2 blocks, all responses of up to 10 events with 2 calls | requests and finishes are faithful |
| `scheduler_deferred_lost` | only the Queue task, without panics | counterexample, section 5 |
| `memory_pipeline_lost` | L1 holds 2, 5 turns, no failure, no restart | counterexample, section 5 |
| `stream_usage_lost` | OpenAI, one message, 4 events | counterexample, section 5 |

Why the bounds are enough to be interesting. *Run:* two calls are the least for which a result
can be attributed to the wrong call, two rounds the least for which a stale result could leak; one
delta puts a send between the two halves of a stream, and two tasks that may panic are the least
whose failures can be swapped. *Bus:* a queue of two with four events
overflows, makes the flush wait and lets a drop happen between two deliveries; two observers are
the least for isolation. *Conversation:* one run and one crash suffice for an end, a sweep and a
shutdown to meet on the same task and the same snapshot; the safety properties are proved for any
number of each. *Scheduler:* a period of 1 and one of 2 with three ticks give stalls in which a
deadline falls several periods behind, and one more period behind than a jump can skip. *Context:* three runs of two messages overflow a window of
three in the middle of a turn, and two at once shift the topic under each other; one turn in L1
makes every further one move to L2 (that several turns of L1 lose their embedding in one read is
left to the theorem); a top of two is smaller than what three layers return, and the relations are
equality and one that takes summaries of two turns, and a summary and a long-term entry, for one
memory.
*Pipeline:* a window of two and four turns give two batches, a late one and an
eviction; proved for all. *Graph:* two names are the least for a draft to be merged into another's entity, two
conversations for a merge into what the other removed, two callers for two removals of one entity
to meet between their lock sections; one draft to a distillation keeps the run small, and the
second is left to the theorems, proved for all. *Face:* pages of 2 over 3 entries with 2 times put a tie on a page
boundary, a page size of 0 is the code's own special case, and a compaction of two writes exceeds
the capacity; one entity and two callers are the least for one removal to be claimed twice; proved
for all. *Stream:* ten events hold a text, two calls opened without a name, named and completed in
two fragments each, and the stop, in any legal order;
two messages of two blocks are the least whose blocks can be lost or swapped within one and
between two; proved for conversations and responses of any length.

`MaxDeltas`, `MaxEvents`, `MaxFails`, `MaxCrashes`, `MaxTime`, `MaxTurns`, `MaxHooks`,
`MaxSummaries`, `MaxDrafts`, `MaxEdges`, `MaxRuns`, `MaxCalls`, `MaxRequests`, `MaxWrites`, `MaxForeign`,
`MaxActive` and `MaxFailures` are bounds of the model only; `MaxRounds`, `MaxSteps`, `L1Turns`, `Retained`,
`Window`, `TopN`, `Likenesses` (the similarity threshold), `Capacity` and `Limits` are parameters of the code. Symmetry is used in
`turn_context`, `memory_graph` and `memory_face`, on sets whose members no definition tells
apart, and those runs check no liveness.

Deadlock checking is off everywhere: a run that ended, a bus that was dropped, a closed
conversation, a stopped scheduler, a finished call and a conversation without further turns
rightly stop.

## 4. Properties and fairness

*Agent run.* `AnnouncedAsArchived` relates the announced outcome, the last thing announced, to
the turn archived before it; `FaceAgreesWithBus` says the consumer's narrative is the bus's, with
no gap or repetition, and ends with a terminal event; `ToolProtocol` that results are reported
once, for announced calls, and archived in call order so that the turn replays, each by a task of its call (`AnswersCall`;
a join error names no task, so the failures of panicked tasks may be swapped, but what a tool
returned is never replaced by another's failure); `OnlySuccessFeedsMemory` relates outcome, archive and memory. `ImplementsContract` is the
refinement. `CancelledRunEnds` is the liveness: a run whose signal fired ends, or from some time on
waits for good in `assemble`, in `on_turn_completed` or in the send to a consumer that does not
poll; nothing else, no model, tool, full channel or refused send, holds it.

*Event bus.* `ObserversAgree` (order, isolation, and an exact account of what was dropped and
told), `FlushIsBarrier`; liveness `DispatcherServes`.

*Conversation.* `HandleEndsOnce`, `DrainPrecedesFinalize`; liveness `EveryEndCompletes`: an end
returns whatever the tasks do, unless the finalize hook does not, and an open conversation is in
the end stored as ended, or shutdown stopped the Monitor, or the sweep hangs in that hook.

*Scheduler.* `NoOverlap` (with the exact slot count), `StartsAreTriggered`, `DeadlinesCatchUp`,
`CancelAndStopAreFinal`; liveness `ThreadIsAwake`.

*Context and recall.* `FactsAreTrue`: every failure the engine is handed becomes a fact, and a
turn that told a shift is archived under the topic it shifted to. `FrameKeepsInput`: the window is a
contiguous tail of what was archived, no frame is empty, and with the framework's assemblers the
model is asked this run's message last, with nothing of an unfinished turn before it.
`RecallIsComplete`: a turn held by L1 or L2 throughout the reading, and whose own reading did not
fail, is found; no two memories shown are alike, and while there is room each candidate is shown,
or one like it.

*Write phase.* `CursorFollowsWrites`, `CursorOnlyAdvances`, `OneMaintenance`, `EndDrains`.

*Graph.* `GraphIsReachable`: an entity without a vector is one a forget was called for, and a
relation between drafted entities ends at what the drafts were merged into. `IdentityIsStable`:
an id stays the entity's.

*Face.* `ListingIsExact`: an entry nobody touched is listed exactly once, and none twice unless it
was written with a time of the past. `RemovalsAreTold`: each removal of a summary is announced
once, by the call that made it, and of an entity none goes untold and none is made up.

*Adapters.* `RequestIsFaithful`: each text, call and result of the conversation is on the wire once,
in its order, said by the role that said it, the system text in the place the backend reads it
from. On OpenAI's wire a message has one field for its text and one for its calls, so the order
between the two is not kept. `FinishIsWhole`; `FinishIsLast`: one finish to a call, and on OpenAI's
stream one terminal item.

Fairness, and why the code justifies it:

- the tokio scheduler polls a ready task and the OS a runnable thread: weak fairness of
  `LoopStep`, of a started emit or flush (`EmitStep`, `FlushStep`), of `DispatcherStep`, of the
  steps of a run and of an end, of the timing thread and of a joining `stop`;
- the Monitor's task triggers the sweep again and again (`Sweep`), which the scheduler's own
  liveness provides while it is not stopped;
- a drop that began finishes (`DropGuard`), an elapsed budget cancels (`TimerCancels`);
- nothing is assumed of the awaits on extension code that the program neither bounds nor selects
  against the signal: `Assemble` and `Maintain` of a run, the finalize hook of an end
  (`FinalizeReturns`), a model or a tool; nor of the consumer (`Receive`). The liveness properties
  name the first three, and the parked send, as where a run or an end may stay;
- an armed time budget need not elapse, a body, a background task or an observer's owner need
  not do anything, nobody has to abandon an end, and the clock of the scheduler need not advance.

`CancelledRunEnds` holds for a stream of finitely many deltas (`MaxDeltas`): the `select!` picks
a ready branch at random, so that an endless stream delays a cancellation with a probability
that vanishes. `TurnContext`, `LayeredPipeline`, `MemoryGraph`, `MemoryFace` and `ModelStream`
are checked for safety only: their actors wait for stores and models, whose answers nothing in
the code guarantees.

## 5. Where the code and its documents differ

Three of these have a run that ends in a counterexample, and an entry under "findings":

1. `scheduler_deferred_lost` (`DeferredHasARunner`): a deferred `Queue` run may be stored after
   the execution that was to run it has looked.
2. `memory_pipeline_lost` (`NothingLost`): `refresh` and `spawn_task` write the trigger hint from
   a count read in an earlier step (pipeline.rs:321, 180). A turn counted in between is lost from
   the hint, its trigger is missed, and L1 evicts a turn that is in no summary, although
   pipeline.rs:202 says that the cursor means nothing is lost.
3. `stream_usage_lost` (`UsageIsReported`): the OpenAI adapter builds the finish at the chunk
   with the finish reason (translate.rs:282); the usage it asked for arrives in the chunk after
   it and is dropped, although CHANGELOG.md:136 says that it is parsed.

The following are stated in the modules but in no run's list. Adding one as an INVARIANT (or
PROPERTY) to the configuration of its module's run gives the counterexample:

- `OneTurnPerRun` (AgentRun): a run whose handle is dropped around its end is archived twice,
  because `emit!` records a cancelled turn on a refused send (agent.rs:787) even if the turn is
  recorded already; ADR 0017:331 has one turn record per execution.
- `LoopAlwaysTerminal` (AgentRun): a panicking tool task is attributed to the first call without
  a result (agent.rs:1044); when that call then answers itself, another has none, the `expect` of
  agent.rs:962 fires and the stream closes without a terminal event (cf. agent.rs:557).
- `BusSeesTerminal` (AgentRun): a run whose consumer left returns at the refused send
  (agent.rs:791) without a terminal event on the bus (cf. event.rs:30).
- `CancelReachesEverySend` (AgentRun, under `LoopSpec`): `consumer.send` (bus.rs:442) is not selected against the signal; a cancelled loop stays parked there for a consumer that holds its handle and does not
  poll (cf. ADR 0004).
- `TurnsSurvive` (ConversationLifecycle): ending a conversation through the sweep's handle
  (conversation.rs:459) saves that handle's older turns over a turn saved meanwhile (cf.
  conversation.rs:214).
- `EndNotifiedOnce` (ConversationLifecycle): the end mark is one per handle (runtime.rs:555), so
  the end of a conversation may be notified through two handles (cf. conversation.rs:12).
- `AliasesAreKept` (MemoryGraph): a merge writes back the aliases of an older reading
  (l3_memory.rs:851), so a name merged meanwhile may drop out of the aliases.
- `OneTerminalItem` (ModelStream): Anthropic's error event becomes a `Failed` item after which the
  stream goes on (lib.rs:303, translate.rs:293), so that a finish or a second `Failed` may follow
  it, and a broken connection after the finish yields a `Failed` too (lib.rs:289). model.rs:84-87
  has exactly one terminal item, and model.rs:100 a `Failed` that is terminal for the call.

In words only, each allowed by the model and excused by name in the property beside it:

- context.rs:53 says a degraded read is never silent. The layered assembler's reads of L3
  (assembler.rs:226, 252, 266) drop their errors; the model leaves the failures of these reads out
  of `failed`, and `NothingSilent` does not speak of them.
- context.rs:84-90 wants a frame with the current turn's message and says that the model never
  silently loses the input. The engine replaces an empty frame only (context.rs:690); a frame of a
  foreign assembler that is not empty and lacks the input is passed on unchanged, which the test at
  context.rs:1082 fixes. `FrameKeepsInput` excepts the foreign provider's frames.
- The finalize hook is awaited without a budget (runtime.rs:503), although the teardown before it is
  said to be delayed by at most the drain budget: one that hangs holds its `end`, and in a sweep
  all later sweeps, since the Monitor skips while one runs. `EveryEndCompletes` excepts the hook.
- The awaits of a run on the engine (agent.rs:720, 919) are not selected against the signal, against
  ADR 0004 again: `CancelledRunEnds` excepts them.
- l3_memory.rs:390-402 finds an entity under one lock, removes what stands under its name under
  another, and answers true in any case. Two callers may both claim, and announce, one removal; and
  a forget may take an entity that was written under the name in between, under a new id.
  `RemovalsAreTold` says for entities what is left.
- A forget removes the vector and then the entity (l3_memory.rs:734), a distillation writes the
  vector and then the entity, an edit the entity and then the vector: where they meet, an entity may
  stay behind without a vector, and an edit may bring a forgotten one back. `GraphIsReachable`
  excepts names a forget was called for.
  A compaction or a late edit may write back a summary that was removed or edited meanwhile
  (l2_memory.rs:463, 510): `ListingIsExact` excepts what was edited or rewritten.
- Anthropic's stream ends without any item when the connection closes and the arguments of a call
  are malformed (lib.rs:281-287), where OpenAI's yields a `Failed`. `FinishIsWhole` speaks of the
  finishes there are.
- With an L1 that retains no more turns than the compaction window, a task that is merely slow
  loses turns as well; `NothingLost` needs no failure and no overlap of hooks to fail.

## 6. Proofs

TLAPS proves, for all values of the constants that satisfy the named assumptions:

*AgentRunProofs* (from `NoCallAssumption`, `ListsAssumption`, `RoundsAssumption`,
`DeltasAssumption`):

- `TypeCorrect`: `Spec => []TypeOK`, from `TypeInv`, which adds that no tool task outlives its
  phase (otherwise `running \subseteq DOMAIN calls` is not preserved by the next answer);
- `TerminalEventIsLast` and `ArchiveBeforeAnnouncement`, from `RunInv`: either no terminal event
  has been notified and no place is terminal, or the last event is terminal, the first archived
  turn has its outcome and the loop is where it can only close. `TerminalIsLast` alone is not
  inductive: it does not say where the loop stands after the event;
- `RunRefinesContract`: initial states map to initial states, and each step to one step of
  `RunContract` or to a stutter. The stream is aborted exactly where the loop panicked, and the
  step into that state has to find nothing settled and a tool that may panic;
- `MemoryFedBySuccessOnly`, from `FactsInv`, which reads the facts against the archive while they
  grow: maintenance is told of completed turns only, and completion only after maintenance;
- `FaceFollowsBus`, from `ChannelInv` (what the handle received, what the channel holds and what
  `send` holds are what the bus was told) and `RoundsInv`, which counts the rounds the narrative
  has told of at every point of the loop;
- `ToolsFollowProtocol`, from `NewsInv` (what was announced and reported of this round),
  `ResultsInv` (a result comes from a task of its call, or from one that may panic while every
  task of the call may panic or still runs and will replace it), `CountInv` (each joined task
  accounts for at most one result, so no result is taken for a task that is still running) and
  `DialogueInv` (the messages so far replay).

*SchedulerProofs* (from `SchedulerAssumption`): `SchedulerTypes`, `SlotAccounting`,
`ExecutionsDoNotOverlap`, `TriggeredStarts`, `FinalCancelAndStop` and `DeadlinesStayInPhase`, the
first five from one inductive invariant `IInv`. Its parts beyond the properties are `TriggersCover` (a trigger the thread is
still deciding about is covered by no other, without which storing it in `pending` could count
one trigger twice), `StopIsObeyed` and `ScanHoldsLock`. The slot count is what makes the guard
`inflight = 0` mean that no execution is left, so `NoOverlap` and `SlotsAreExecutions` are proved
together. `DeadlinesStayInPhase` adds `DeadlineInv` (a deadline is a whole number of periods after
the registration, no more than one ahead of the clock, and past the scan's instant once the scan
visited the task, or at least `MaxSteps` periods after the registration); the arithmetic of
`Advance`, for any period, any stall and any largest jump, is `AdvanceCatchesUp`.

*EventBusProofs* (from `BusAssumption`): `BusTypes`, `EveryObserverIsServed` and `FlushWaits`, for
any number of emitters, flushes and observers and any capacity. `BusInv` adds to the properties
`EveryEventAccounted` (each event begun is accepted, dropped or in flight), `LanesComplete` (what
a working observer was given, what the dispatcher holds for it and what is queued are what the
queue took), `GivenInOrder`, `LagIsTrue` (the count told last is the one reported, or the one the
dispatcher is just telling) and `FencesStand` (a barrier in the queue is that of a flush that
waits, the only one of that flush, and stands behind what the flush has to wait for; the property
speaks of the flush that returned, which is not inductive).

*ConversationProofs* (from `LifecycleAssumption`): `LifecycleTypes`, `HandlesEndOnce` and
`DrainsPrecedeFinalize`, for any number of handles, runs, failed saves and crashes. `IInv` adds
to the properties where enders and handles are (`Located`, `SweptOnce`: the sweep's handle lives
exactly as long as the sweep or a shutdown holds it, which is what makes a restored handle a new
one), `Once`, `Disowning` (an entry whose handle is marked has that very end on its way to remove
it; the property asks for some end, which is not inductive) and `Spawned` (a task that an entry
tracks or an end drains was started for good, so that a drained list never comes back to life).
Every way an end returns, by no-op, notice or abandonment, is one lemma, `ReturnKeeps`.

*LayeredPipelineProofs* (from `PipelineAssumption`): `PipelineTypes`, `CursorIsBacked`,
`MaintenanceIsExclusive`, `SuccessfulEndDrains` and `CursorMovesForward`. `IInv` is `Typed`,
`Numbered` (nobody knows a turn that has not arrived), `CursorLeads` (a cursor the store no longer
holds is older than all it holds), `CursorFollowsWrites`, `Contiguous` (a held turn older than
some turn of a batch is in that batch or its summary was written, which is why a late batch
cannot mark past a gap), `WrittenFirst` (who is about to mark has written its batch),
`OneMaintenance` and `Owing` (what the end still owes is what it has left to do). The steps are
grouped by what they disturb (`ArchiveMove`, `HookMove`, `ClaimMove`, `TaskMove`, `ReleaseMove`,
`EndMove`, `CrashMove`).

*MemoryProofs*, the graph (from `GraphAssumption`): `GraphTypes`, `IdsAreStable` and
`EverythingIsReachable`. `IdsAreStable` needs the types and what a step makes of the graph.
Reachability needs `OneName` (an id is never seen under two names: a forget removes by the id it
found, and must not take another name's entity with it), `Indexed` (who is about to put an entity back has seen to its vector, or a forget was
called) and `Merged` (the drafts of an extraction are merged into entities of the graph, all but
the one at hand).

*MemoryProofs*, the face (from `FaceAssumption`): `FaceTypes`, `RemovalsAreToldOnce` and
`ListingsAreExact`, for any finite set of callers, any entries and every page size. They rest on
what a page is (`PageIs`), and that on the sort: every finite set of items has a ranking
(`RankingExists`: an item's place is one more than the number of items before it), and a ranked sequence has each item at one
place (`RankedIs`). A page is then at most `limit` items past the cursor, and its cursor splits
what is past the old one into the items of the page and those after it (`Pages`).

- `FaceTyped`, the types as the proofs use them, adds that a call works on distinct entries and
  has not yet removed those still to come; this is what `RemovalsAreToldOnce` needs beyond the
  types, since a call that removed an entry twice would claim it once and announce it once. For
  entities `Account` adds `FoundOrGone` (an entity a call has found is still there or was removed),
  without which a call could claim one that nobody removed;
- `ListingInv` is `ListedOnce` (no entry is seen at two places, but for the rewritten),
  `ListedIsBehind` (a listed entry is behind the cursor, as it stands and as an edit stamped now
  would leave it) and `UntouchedIsListed` (an untouched entry is listed, or ahead of the cursor
  with pages to come). `ListingIsExact` says nothing of the cursor, and so is not inductive. The
  cursor never lies in the future, which is why a write with the present time puts an entry
  behind it.

*TurnContextProofs* (from `ContextAssumption`): `ContextTypes`, `FactsTold`, `RecallComplete` and
`FramesKeepInput`, for any number of runs, any topics, every registration of extensions and every
size of the window, of L1 and of the recall. Each rests on one invariant that is stated per run
and read off its point in the engine:

- `FactsInv`: the failures met are those told and those still pending; nothing of the topic is
  told before `shift`, and at `archive` the shift told is the one this turn decided;
- `RecallInv`: a turn held throughout is in one of the two layers until the first is read, and
  from then on among the candidates or still in the second layer. Turns move from L1 to L2 and
  never back, and reading in that order is what the invariant needs. What the top N shows is proved
  for any relation of likeness, by going over the ranked sequence: it need not be transitive;
- `FrameInv`: the window is the tail (`Newest`) of all that was archived; what was archived
  belongs to completed turns; a frame of the framework's own assemblers is a slice of it followed
  by the run's own message, and no frame is empty from the loop on. `FrameKeepsInput` alone is not
  inductive: it relates the frame to a log that grows under it.

*ModelStreamProofs* (from `StreamAssumption`): `StreamTypes`, `FinishesAreWhole`,
`FinishesAreLast` and `RequestsAreFaithful`, for any conversation, any number of calls and
responses of any length. The first three rest on `StreamInv`. `FinishIsWhole` is not inductive: it
says nothing before the finish, and what the finish is built from is spread over the accumulator,
the parser's buffer and the queue. `StreamInv` relates them through a *view* of the response, what
a reader knows of it: some view leads, by the events that are pending and legal after it, to all
that was sent (`Coming`), and the adapter has parsed just that view (`Parsed`): until the stop the
accumulator holds the view, after it nothing is left to finish; or the call ended with both
properties. An event the backend sends extends what is pending (`ComingMore`), a parsed one moves the
view over it (`ParsesNext`), and a line still in the buffer when the connection closes is what
distinguishes `Received` from what was sent.

`RequestsAreFaithful` is about data: for each set of roles and each strand of kinds, the sequence of
blocks the wire tells equals the one the conversation tells. `Spread` (map every element to a
sequence and flatten) distributes over concatenation and spreading twice is spreading once
(`SpreadConcat`, `SpreadTwice`), so it is enough that each message says what it becomes
(`MessageIsFaithful`): picking some kinds distributes over concatenation (`OfConcat`), setting text
and calls apart keeps the order of each (`JoinedKeeps`), and the results of a tool message, one wire
message each, come out in their order (`ToolMessages`). `SystemIsFaithful` is the parameter.

The library's induction theorems take an operator as a parameter, which the provers cannot
instantiate. Where a proof needs induction over data it goes over the least element of a set of
numbers (`LeastElement`, `SetInduction`, and `SequenceInduction` on top of them), and a recursive
function (`EventsIn`, `FaceOf`, `Deduped` and the one in `FlattenSeq`) is given its equation from
the uniqueness of its bounded solutions, for sequences of any length.

Only model-checked: the liveness properties `CancelledRunEnds`, `DispatcherServes`,
`EveryEndCompletes` and `ThreadIsAwake` (liveness under fairness is beyond this prover). Every
invariant and every action property that a passing run checks is a theorem. The three
counterexamples of section 5 are TLC's.

## 7. Not modelled, and what is left

- The MCP bridge is a thin adapter to an external client, without state of its own; the derive
  macro is code generation; the examples are clients of the library.
- Serialization, prompts, vectors and scores, token counts and texts are data that no property
  tells apart. Where the code chooses by them (nearest entity, order of recalled items, a
  detector's verdict, a rewrite) the model chooses freely.
- The walk over the L3 graph in recall (anchors, hops, limits) is abstracted to what it returns;
  entry versions, subject and partition filters and the actuator's reads of the management face,
  several partitions at once, client settings and `list_models` of the adapters are left out.
- Each module models its component against any behaviour of its neighbours the code allows (a
  maintenance task ends when it likes, a store fails when it likes) rather than composed with
  their modules; only `AgentRun` and `RunContract` are joined by a refinement.

What would come next: the walk over the graph as a pure function against a reference definition,
two drafts to a distillation with two managing callers in one run (beyond TLC's reach at this
size), and `UsageIsReported` for the Anthropic adapter, which reports the usage with the stop reason.
