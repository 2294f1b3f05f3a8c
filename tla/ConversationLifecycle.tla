----------------------- MODULE ConversationLifecycle -----------------------
(***************************************************************************)
(* The life of one conversation: handles to it (`Conversation`, an Arc per *)
(* restore), the store behind them, the runtime's ownership table, the     *)
(* runs that record turns and spawn background maintenance, and the three  *)
(* ways it is ended: explicitly, by the idle sweep and by shutdown.        *)
(*                                                                         *)
(* `store.save(self.state())` is two steps: the snapshot, then the write.  *)
(* A crash loses everything but the store.                                 *)
(***************************************************************************)
EXTENDS Naturals, FiniteSets

CONSTANTS
  Handles,    \* the application's Conversation objects
  SweepHandle,\* the one the sweep restores, anew in every sweep
  Runs,       \* executions; each records one turn and spawns one task
  NoHandle,   \* no handle
  MaxFails,   \* bound on the calls to the store that fail
  MaxCrashes  \* bound on the crashes

ASSUME LifecycleAssumption ==
  /\ SweepHandle \notin Handles /\ NoHandle \notin Handles \cup {SweepHandle}
  /\ IsFiniteSet(Runs)
  /\ MaxFails \in Nat /\ MaxCrashes \in Nat

Objects == Handles \cup {SweepHandle}
Enders  == {"explicit", "sweep", "shutdown"}

VARIABLES
  store,    \* the stored state: exists, turns, ended
  made,     \* the handles that exist
  turns,    \* turns of each handle
  ended,    \* the ended flag of each handle
  owner,    \* the handle in the table's entry, NoHandle without an entry
  tasks,    \* the background tasks of the entry
  task,     \* each run's background task
  run,      \* where each run is: at, on (its handle), snap (a snapshot)
  endr,     \* where each ender is: at, on, snap, drain (tasks of the entry it
            \* removed, not awaited yet), told (tasks it reported)
  teardown, \* shutdown: none yet, begun (the scheduler is stopped), done
  ends,     \* Ended notifications per handle
  fails,    \* failed calls to the store
  crashes   \* crashes so far

object == <<made, turns, ended, ends>>
table  == <<owner, tasks>>
bounds == <<fails, crashes>>
vars == <<store, object, table, task, run, endr, teardown, bounds>>

State == [exists : BOOLEAN, turns : SUBSET Runs, ended : BOOLEAN]
Empty == [exists |-> FALSE, turns |-> {}, ended |-> FALSE]

IdleRun == [at |-> "idle", on |-> NoHandle, snap |-> Empty]
IdleEnd == [at |-> "idle", on |-> NoHandle, snap |-> Empty, drain |-> {},
            told |-> {}]

TypeOK ==
  /\ store \in State
  /\ made \subseteq Objects
  /\ turns \in [Objects -> SUBSET Runs]
  /\ ended \in [Objects -> BOOLEAN]
  /\ owner \in made \cup {NoHandle}
  /\ tasks \subseteq Runs /\ (owner = NoHandle => tasks = {})
  /\ task \in [Runs -> {"none", "running", "finished", "panicked"}]
  /\ run \in [Runs -> [at : {"idle", "pushed", "snapped", "recorded", "over"},
                       on : Objects \cup {NoHandle}, snap : State]]
  /\ endr \in [Enders -> [at : {"idle", "listed", "loaded", "called", "marked", "drain",
                                "finalize", "hook", "save", "notify", "flush"},
                          on : Objects \cup {NoHandle}, snap : State,
                          drain : SUBSET Runs, told : SUBSET Runs]]
  /\ teardown \in {"none", "begun", "done"}
  /\ ends \in [Objects -> Nat]
  /\ fails \in 0..MaxFails /\ crashes \in 0..MaxCrashes

Init ==
  /\ store = Empty /\ made = {}
  /\ turns = [h \in Objects |-> {}] /\ ended = [h \in Objects |-> FALSE]
  /\ owner = NoHandle /\ tasks = {}
  /\ task = [r \in Runs |-> "none"]
  /\ run = [r \in Runs |-> IdleRun] /\ endr = [e \in Enders |-> IdleEnd]
  /\ teardown = "none"
  /\ ends = [h \in Objects |-> 0]
  /\ fails = 0 /\ crashes = 0

(* Conversation::state *)
Snapshot(h) == [exists |-> TRUE, turns |-> turns[h], ended |-> ended[h]]

(* ConversationStore::save; a failure is reported and not retried. *)
Save(s) ==
  \/ store' = s /\ UNCHANGED fails
  \/ fails < MaxFails /\ fails' = fails + 1 /\ UNCHANGED store

(* register_conversation: only the first handle of an id gets the entry. *)
Register(h) ==
  /\ owner' = IF owner = NoHandle THEN h ELSE owner
  /\ UNCHANGED tasks

-----------------------------------------------------------------------------
(* Handles *)

(* Conversation::with_id, for an id the store does not know. *)
Create(h) ==
  /\ made = {} /\ ~store.exists
  /\ made' = {h}
  /\ Save(Snapshot(h))
  /\ Register(h)
  /\ UNCHANGED <<turns, ended, ends, task, run, endr, teardown, crashes>>

(* Conversation::of, as the application calls it. *)
Restore(h) ==
  /\ h \notin made /\ store.exists
  /\ made' = made \cup {h}
  /\ turns' = [turns EXCEPT ![h] = store.turns]
  /\ ended' = [ended EXCEPT ![h] = store.ended]
  /\ IF store.ended THEN UNCHANGED table ELSE Register(h)
  /\ UNCHANGED <<store, ends, task, run, endr, teardown, bounds>>

-----------------------------------------------------------------------------
(* A run: record!, then the background maintenance of the turn *)

PushTurn(r, h) ==
  /\ run[r].at = "idle" /\ h \in made \cap Handles
  /\ turns' = [turns EXCEPT ![h] = @ \cup {r}]
  /\ run' = [run EXCEPT ![r] = [IdleRun EXCEPT !.at = "pushed", !.on = h]]
  /\ UNCHANGED <<store, made, ended, ends, table, task, endr, teardown, bounds>>

SnapTurn(r) ==
  /\ run[r].at = "pushed"
  /\ run' = [run EXCEPT ![r].at = "snapped", ![r].snap = Snapshot(run[r].on)]
  /\ UNCHANGED <<store, object, table, task, endr, teardown, bounds>>

SaveTurn(r) ==
  /\ run[r].at = "snapped"
  /\ Save(run[r].snap)
  /\ run' = [run EXCEPT ![r].at = "recorded", ![r].snap = Empty]
  /\ UNCHANGED <<object, table, task, endr, teardown, crashes>>

(* ConversationTaskSpawner::spawn: tracked only if the table has an entry. *)
SpawnTask(r) ==
  /\ run[r].at = "recorded"
  /\ task' = [task EXCEPT ![r] = "running"]
  /\ tasks' = IF owner = NoHandle THEN tasks ELSE tasks \cup {r}
  /\ run' = [run EXCEPT ![r] = [IdleRun EXCEPT !.at = "over"]]
  /\ UNCHANGED <<store, object, owner, endr, teardown, bounds>>

TaskEnds(r) ==
  /\ task[r] = "running"
  /\ \E how \in {"finished", "panicked"} : task' = [task EXCEPT ![r] = how]
  /\ UNCHANGED <<store, object, table, run, endr, teardown, bounds>>

-----------------------------------------------------------------------------
(* Ending: who calls end_with, on which handle *)

Call(e, h) == endr' = [endr EXCEPT ![e] = [IdleEnd EXCEPT !.at = "called", !.on = h]]

EndExplicitly(h) ==
  /\ endr["explicit"].at = "idle" /\ h \in made \cap Handles
  /\ Call("explicit", h)
  /\ UNCHANGED <<store, object, table, task, run, teardown, bounds>>

(* list_stale, with the last activity left open.                           *)
Stale == store.exists /\ ~store.ended

(* Variant: the sweep only looks at what the table owns. *)
SweepListsOwned ==
  /\ teardown = "none" /\ endr["sweep"].at = "idle"
  /\ Stale /\ owner # NoHandle
  /\ endr["shutdown"].on # SweepHandle
  /\ endr' = [endr EXCEPT !["sweep"].at = "listed"]
  /\ UNCHANGED <<store, object, table, task, run, teardown, bounds>>

(* The Monitor's sweep (one at a time): the page lists the conversation,   *)
(* whose last activity may be past the threshold at any time ...           *)
SweepLists ==
  /\ teardown = "none" /\ endr["sweep"].at = "idle"
  /\ Stale
  /\ endr["shutdown"].on # SweepHandle
  /\ endr' = [endr EXCEPT !["sweep"].at = "listed"]
  /\ UNCHANGED <<store, object, table, task, run, teardown, bounds>>

(* ... or the list cannot be read, which ends this sweep ... *)
SweepListFails ==
  /\ teardown = "none" /\ endr["sweep"].at = "idle"
  /\ fails < MaxFails /\ fails' = fails + 1
  /\ UNCHANGED <<store, object, table, task, run, endr, teardown, crashes>>

(* ... `of` loads whatever the store holds by now into a new handle ... *)
SweepLoads ==
  /\ endr["sweep"].at = "listed"
  /\ made' = made \cup {SweepHandle}
  /\ turns' = [turns EXCEPT ![SweepHandle] = store.turns]
  /\ ended' = [ended EXCEPT ![SweepHandle] = store.ended]
  /\ ends' = [ends EXCEPT ![SweepHandle] = 0]
  /\ endr' = [endr EXCEPT !["sweep"].at = "loaded", !["sweep"].on = SweepHandle]
  /\ UNCHANGED <<store, table, task, run, teardown, bounds>>

(* ... or cannot load it: the sweep passes the conversation over ... *)
SweepLoadFails ==
  /\ endr["sweep"].at = "listed"
  /\ fails < MaxFails /\ fails' = fails + 1
  /\ endr' = [endr EXCEPT !["sweep"] = IdleEnd]
  /\ UNCHANGED <<store, object, table, task, run, teardown, crashes>>

(* ... and registers it, unless it has ended, before end_with. *)
SweepRegisters ==
  /\ endr["sweep"].at = "loaded"
  /\ IF ended[SweepHandle] THEN UNCHANGED table ELSE Register(SweepHandle)
  /\ Call("sweep", SweepHandle)
  /\ UNCHANGED <<store, object, task, run, teardown, bounds>>

(* Shutdown stops the scheduler, then ends what the table owns.  One call   *)
(* is inside at a time; after an abandoned one the next does it all again.  *)
ShutdownCollects ==
  /\ teardown # "done" /\ endr["shutdown"].at = "idle"
  /\ teardown' = "begun"
  /\ IF owner = NoHandle THEN endr' = [endr EXCEPT !["shutdown"].at = "flush"]
     ELSE Call("shutdown", owner)
  /\ UNCHANGED <<store, object, table, task, run, bounds>>

(* The bus is flushed: only now later calls find nothing left to do. *)
ShutdownDone ==
  /\ endr["shutdown"].at = "flush"
  /\ teardown' = "done" /\ endr' = [endr EXCEPT !["shutdown"] = IdleEnd]
  /\ UNCHANGED <<store, object, table, task, run, bounds>>

-----------------------------------------------------------------------------
(* Conversation::end_with *)

(* The end call leaves its handle; nobody holds the one the sweep restored *)
(* once the sweep and a shutdown that found it in the table are done.       *)
LetGo(e, at) ==
  /\ endr' = [endr EXCEPT ![e] = [IdleEnd EXCEPT !.at = at]]
  /\ made' = IF endr'["sweep"].on = SweepHandle \/ endr'["shutdown"].on = SweepHandle
             THEN made ELSE made \ {SweepHandle}

(* It returned: shutdown goes on to flush the bus. *)
Return(e) == LetGo(e, IF e = "shutdown" THEN "flush" ELSE "idle")

(* Variant: the flag is set but not tested under the lock. *)
EndMarksAgain(e) ==
  /\ endr[e].at = "called"
  /\ ended' = [ended EXCEPT ![endr[e].on] = TRUE]
  /\ endr' = [endr EXCEPT ![e].at = "marked"]
  /\ UNCHANGED <<store, made, turns, ends, table, task, run, teardown, bounds>>

EndMarks(e) ==
  /\ endr[e].at = "called" /\ ~ended[endr[e].on]
  /\ ended' = [ended EXCEPT ![endr[e].on] = TRUE]
  /\ endr' = [endr EXCEPT ![e].at = "marked"]
  /\ UNCHANGED <<store, made, turns, ends, table, task, run, teardown, bounds>>

EndIsNoOp(e) ==
  /\ endr[e].at = "called" /\ ended[endr[e].on]
  /\ Return(e)
  /\ UNCHANGED <<store, turns, ended, ends, table, task, run, teardown, bounds>>

(* Variant: the entry goes, its task handles stay behind. *)
RemoveEntryKeepingTasks(e) ==
  /\ endr[e].at = "marked"
  /\ owner' = NoHandle
  /\ endr' = [endr EXCEPT ![e].at = "drain", ![e].drain = tasks]
  /\ UNCHANGED <<store, object, tasks, task, run, teardown, bounds>>

(* finalize_conversation: the entry of this id, whoever it belongs to. *)
RemoveEntry(e) ==
  /\ endr[e].at = "marked"
  /\ owner' = NoHandle /\ tasks' = {}
  /\ endr' = [endr EXCEPT ![e].at = "drain", ![e].drain = tasks]
  /\ UNCHANGED <<store, object, task, run, teardown, bounds>>

DrainOne(e) ==
  /\ endr[e].at = "drain"
  /\ \E r \in endr[e].drain :
        /\ task[r] # "running"
        /\ endr' = [endr EXCEPT ![e].drain = @ \ {r},
              ![e].told = IF task[r] = "panicked" THEN @ \cup {r} ELSE @]
  /\ UNCHANGED <<store, object, table, task, run, teardown, bounds>>

(* Variant: tasks left running are not reported. *)
DrainTimesOutSilently(e) ==
  /\ endr[e].at = "drain" /\ \E r \in endr[e].drain : task[r] = "running"
  /\ endr' = [endr EXCEPT ![e].at = "finalize"]
  /\ UNCHANGED <<store, object, table, task, run, teardown, bounds>>

(* The drain budget is over: the tasks not awaited yet are reported and    *)
(* left alone.                                                             *)
DrainTimesOut(e) ==
  /\ endr[e].at = "drain" /\ \E r \in endr[e].drain : task[r] = "running"
  /\ endr' = [endr EXCEPT ![e].at = "finalize", ![e].told = @ \cup endr[e].drain]
  /\ UNCHANGED <<store, object, table, task, run, teardown, bounds>>

(* The drain is over: the pipeline's finalize hook is awaited, by no       *)
(* budget, ...                                                             *)
FinalizeBegins(e) ==
  /\ \/ endr[e].at = "finalize"
     \/ endr[e].at = "drain" /\ endr[e].drain = {}
  /\ endr' = [endr EXCEPT ![e].at = "hook"]
  /\ UNCHANGED <<store, object, table, task, run, teardown, bounds>>

(* ... and if it returns, with a failure or without, the state to save is  *)
(* read.                                                                   *)
FinalizeReturns(e) ==
  /\ endr[e].at = "hook"
  /\ endr' = [endr EXCEPT ![e].at = "save", ![e].snap = Snapshot(endr[e].on)]
  /\ UNCHANGED <<store, object, table, task, run, teardown, bounds>>

SaveEnd(e) ==
  /\ endr[e].at = "save"
  /\ Save(endr[e].snap)
  /\ endr' = [endr EXCEPT ![e].at = "notify", ![e].snap = Empty]
  /\ UNCHANGED <<object, table, task, run, teardown, crashes>>

NotifyEnded(e) ==
  /\ endr[e].at = "notify"
  /\ ends' = [ends EXCEPT ![endr[e].on] = @ + 1]
  /\ Return(e)
  /\ UNCHANGED <<store, turns, ended, table, task, run, teardown, bounds>>

(* The caller of end or shutdown drops the future at an await, of the drain, *)
(* of the hook or of the flush: what was marked and removed stays so.        *)
Abandon(e) ==
  /\ e # "sweep" /\ endr[e].at \in {"drain", "hook", "flush"}
  /\ LetGo(e, "idle")
  /\ UNCHANGED <<store, turns, ended, ends, table, task, run, teardown, bounds>>

-----------------------------------------------------------------------------
(* The process dies and starts again with the store it left. *)
Crash ==
  /\ crashes < MaxCrashes
  /\ crashes' = crashes + 1
  /\ made' = {} /\ turns' = [h \in Objects |-> {}]
  /\ ended' = [h \in Objects |-> FALSE] /\ ends' = [h \in Objects |-> 0]
  /\ owner' = NoHandle /\ tasks' = {}
  /\ task' = [r \in Runs |-> "none"]
  /\ run' = [r \in Runs |-> IF run[r].at = "idle" THEN IdleRun
                            ELSE [IdleRun EXCEPT !.at = "over"]]
  /\ endr' = [e \in Enders |-> IdleEnd]
  /\ teardown' = "none"
  /\ UNCHANGED <<store, fails>>

RunStep(r) == SnapTurn(r) \/ SaveTurn(r) \/ SpawnTask(r)
EndStep(e) == \/ EndMarks(e) \/ EndIsNoOp(e) \/ RemoveEntry(e)
              \/ DrainOne(e) \/ DrainTimesOut(e) \/ FinalizeBegins(e)
              \/ SaveEnd(e) \/ NotifyEnded(e)
Sweep == SweepLists \/ SweepLoads \/ SweepRegisters

Next ==
  \/ \E h \in Handles : Create(h) \/ Restore(h) \/ EndExplicitly(h)
  \/ \E r \in Runs : (\E h \in Handles : PushTurn(r, h)) \/ RunStep(r) \/ TaskEnds(r)
  \/ Sweep \/ SweepListFails \/ SweepLoadFails
  \/ ShutdownCollects \/ ShutdownDone
  \/ \E e \in Enders : EndStep(e) \/ FinalizeReturns(e) \/ Abandon(e)
  \/ Crash

Spec == Init /\ [][Next]_vars

(* What began goes on, and the Monitor is triggered again and again.  No   *)
(* background task has to end and no hook has to return.                   *)
FairSpec == /\ Spec /\ WF_vars(Sweep)
            /\ \A r \in Runs : WF_vars(RunStep(r))
            /\ \A e \in Enders : WF_vars(EndStep(e))

-----------------------------------------------------------------------------
Acting(e) == endr[e].at \in {"marked", "drain", "finalize", "hook", "save", "notify"}

(* The table owns no conversation that ended: an entry whose handle is     *)
(* marked is about to be removed by an end that is under way, so shutdown  *)
(* misses none and nothing leaks.                                          *)
EndedIsDisowned ==
  owner # NoHandle /\ ended[owner] =>
     \E e \in Enders : endr[e].at = "marked"

(* "mark (idempotent - the first call wins, later calls return)": of all   *)
(* the end calls on one handle, the sweep's and shutdown's included, one   *)
(* performs the acts and it notifies once, and none is missed: the table   *)
(* disowns what ended.                                                     *)
HandleEndsOnce ==
  /\ EndedIsDisowned
  /\ \A h \in made : ends[h] <= 1 /\ (ends[h] = 1 => ended[h])
  /\ \A e \in Enders : Acting(e) => ended[endr[e].on] /\ ends[endr[e].on] = 0
  /\ \A e, f \in Enders : Acting(e) /\ Acting(f) /\ endr[e].on = endr[f].on => e = f

(* "drains the conversation's background maintenance tasks, then calls the *)
(* pipeline's finalize hook": no drained task runs past the drain unless   *)
(* that was reported.                                                      *)
DrainPrecedesFinalize ==
  \A e \in Enders : endr[e].at \in {"finalize", "hook", "save", "notify"} =>
     \A r \in endr[e].drain : task[r] = "running" => r \in endr[e].told

InHook(e) == endr[e].at = "hook"

(* "a stuck task delays teardown by at most the configured budget": every  *)
(* end call returns, whatever the tasks do, unless the finalize hook, for  *)
(* which there is no budget, never returns.                                *)
EndReturns == \A e \in Enders : Acting(e) ~> (~Acting(e) \/ []InHook(e))

(* "conversations left open by a hard kill are reconciled by the next      *)
(* runtime's Monitor": whatever handles, crashes and failed calls to the   *)
(* store leave behind, an open conversation is in the end stored as ended, *)
(* or shutdown stopped the Monitor, or it hangs in a hook it awaits.       *)
OpenIsReconciled ==
  <>[](store.exists => store.ended) \/ <>[](teardown # "none") \/ <>[]InHook("sweep")

(* Teardown comes to an end on both accounts: the call and the store.      *)
EveryEndCompletes == EndReturns /\ OpenIsReconciled

(* conversation.rs "Every turn enters the history": a turn that was saved  *)
(* stays in the store.                                                     *)
TurnsSurvive == [][store.exists => store.turns \subseteq store'.turns]_store

(* conversation.rs "the first call wins, later calls return": one ended    *)
(* conversation is notified as ended once.                                 *)
EndNotifiedOnce ==
  \A h, g \in Objects : ends[h] = 1 /\ ends[g] = 1 => h = g
=============================================================================
