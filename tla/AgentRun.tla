------------------------------ MODULE AgentRun ------------------------------
(***************************************************************************)
(* One run of an agent: the loop task (`AgentLoopTask::execute`), the      *)
(* delivery channel of capacity one to the `Execution` handle, the handle  *)
(* itself (receive, cancel, drop), the shared cancellation signal with its *)
(* timeout task, the parallel tool tasks and the turn archive.             *)
(*                                                                         *)
(* An emission is two steps, as in `EventSink::emit_turn`: the bus is      *)
(* notified and the event is handed to `send`, which then completes        *)
(* (accepted) or reports that the receiver is gone (refused).  While `out` *)
(* holds an event the loop is parked in `send` and looks at nothing else.  *)
(***************************************************************************)
EXTENDS Naturals, Sequences, FiniteSets

CONSTANTS
  CallId,      \* the ids of tool calls
  NoCall,      \* the call field of an event or a message that has none
  CallLists,   \* the lists of calls a model answer may carry; <<>> is a final answer
  MaxRounds,   \* the agent's round budget (AgentBuilder::max_rounds)
  MaxDeltas,   \* bound on the text deltas the model streams in one run
  Panicky      \* the positions of a call list whose tool task may panic

ASSUME NoCallAssumption  == NoCall \notin CallId
ASSUME ListsAssumption   == /\ CallLists \subseteq Seq(CallId)
                            /\ <<>> \in CallLists
ASSUME RoundsAssumption  == MaxRounds \in Nat
ASSUME DeltasAssumption  == MaxDeltas \in Nat
ASSUME PanickyAssumption == Panicky \subseteq Nat

VARIABLES
  pc,         \* where the loop task is
  round,      \* the current round, 0 before the first
  deltas,     \* deltas streamed so far (only for the bound)
  calls,      \* the calls of the model's last answer
  asked,      \* how many of them have been announced
  running,    \* positions of `calls` whose tool task has not been joined
  results,    \* call id -> position of the task its result came from, 0 if none
  messages,   \* the turn's messages after the frame
  out,        \* the event parked in `consumer.send`, as a sequence of at most one
  chan,       \* the delivery channel
  consumer,   \* the Execution handle
  token,      \* the internal cancellation token
  fired,      \* CancelCore.timeout_fired
  timer,      \* the timeout task
  notified,   \* every turn event the bus was notified of
  delivered,  \* every event the consumer received
  facts,      \* the kinds of memory facts emitted for this run
  turns,      \* the turns this run pushed to its conversation
  saved       \* how many of them the store holds

loop    == <<pc, round, deltas, calls, asked, running, results, messages>>
archive == <<turns, saved, facts>>
signal  == <<token, fired, timer>>
vars    == <<loop, out, chan, consumer, signal, notified, delivered, archive>>

-----------------------------------------------------------------------------
(* Events, messages and turns *)

Outcomes == {"Completed", "ModelFailed", "MaxRounds", "UserRequested", "Timeout"}
Kinds    == {"Started", "Requested", "Delta", "Responded",
             "ToolRequested", "ToolCompleted"} \cup Outcomes
Event    == [kind : Kinds, round : Nat, call : CallId \cup {NoCall}, from : Nat]
Message  == [role : {"assistant", "tool"}, asks : CallLists,
             call : CallId \cup {NoCall}, from : Nat]
Turn     == [outcome : Outcomes, messages : Seq(Message)]
Facts    == {"FrameDegraded", "ArchiveFailed", "MemoryFailed", "TurnArchived"}

NoteIn(k, r)       == [kind |-> k, round |-> r, call |-> NoCall, from |-> 0]
Note(k)            == NoteIn(k, round)
ToolNote(k, c, i)  == [kind |-> k, round |-> round, call |-> c, from |-> i]
Assistant(list)    == [role |-> "assistant", asks |-> list, call |-> NoCall, from |-> 0]
ToolResult(c, i)   == [role |-> "tool", asks |-> <<>>, call |-> c, from |-> i]

IsTerminal(e) == e.kind \in Outcomes

(* Variant: the tool phase does not select! against the signal. *)
SuspendedNotTools == {"model", "stream"}

Suspended == {"model", "stream", "tools"}   \* select!ed against the signal
Parked    == {"starting", "requesting", "relaying", "responding",
              "announcing", "reporting", "closing", "closingPlain"}
Ended     == {"done", "panicked"}
Places    == {"spawned", "assembling", "gate", "round", "responded", "asking",
              "maintaining"} \cup Suspended \cup Parked \cup Ended

TypeOK ==
  /\ pc \in Places
  /\ round \in 0..MaxRounds
  /\ deltas \in 0..MaxDeltas
  /\ calls \in CallLists
  /\ asked \in Nat
  /\ running \subseteq DOMAIN calls
  /\ results \in [CallId -> Nat]
  /\ messages \in Seq(Message)
  /\ out \in Seq(Event) /\ Len(out) = IF pc \in Parked THEN 1 ELSE 0
  /\ chan \in Seq(Event) /\ Len(chan) \in 0..1
  /\ consumer \in {"attached", "detaching", "gone"}
  /\ token \in BOOLEAN /\ fired \in BOOLEAN
  /\ timer \in {"none", "armed", "elapsed"}
  /\ notified \in Seq(Event) /\ delivered \in Seq(Event)
  /\ facts \subseteq Facts
  /\ turns \in Seq(Turn)
  /\ saved \in 0..Len(turns)

-----------------------------------------------------------------------------
Init ==
  /\ pc = "spawned" /\ round = 0 /\ deltas = 0
  /\ calls = <<>> /\ asked = 0 /\ running = {}
  /\ results = [c \in CallId |-> 0]
  /\ messages = <<>>
  /\ out = <<>> /\ chan = <<>> /\ consumer = "attached"
  /\ token = FALSE /\ fired = FALSE
  /\ timer \in {"none", "armed"}
  /\ notified = <<>> /\ delivered = <<>>
  /\ facts = {} /\ turns = <<>> /\ saved = 0

(* Variant: the bus is spared the deltas. *)
NarrateSparingDeltas(e) ==
  /\ notified' = IF e.kind = "Delta" THEN notified ELSE Append(notified, e)
  /\ out' = <<e>>

(* `emit_turn` up to its await: the bus is notified, the event offered. *)
Narrate(e) ==
  /\ notified' = Append(notified, e)
  /\ out' = <<e>>

(* The record! macro: push the turn, save the conversation, report a failed save. *)
Record(outcome, msgs) ==
  /\ turns' = Append(turns, [outcome |-> outcome, messages |-> msgs])
  /\ \/ saved' = Len(turns) + 1 /\ UNCHANGED facts
     \/ facts' = facts \cup {"ArchiveFailed"} /\ UNCHANGED saved

(* Variant: the archive is marked cancelled whatever ended the run. *)
ConcludeAsCancelled(outcome) ==
  /\ Record("UserRequested", messages)
  /\ Narrate(Note(outcome))
  /\ pc' = "closing"

(* A recorded outcome followed by its terminal event. *)
Conclude(outcome) ==
  /\ Record(outcome, messages)
  /\ Narrate(Note(outcome))
  /\ pc' = "closing"

(* CancelCore::cancelled after the token fired, mapped by cancel_reason. *)
CancelReason == IF fired THEN "Timeout" ELSE "UserRequested"

-----------------------------------------------------------------------------
(* The loop, up to the first round *)

Start ==
  /\ pc = "spawned"
  /\ Narrate(Note("Started"))
  /\ pc' = "starting"
  /\ UNCHANGED <<round, deltas, calls, asked, running, results, messages,
                 chan, consumer, signal, delivered, archive>>

(* Context::assemble: a failing step degrades the frame and is reported. *)
Assemble ==
  /\ pc = "assembling"
  /\ facts' \in {facts, facts \cup {"FrameDegraded"}}
  /\ pc' = "gate"
  /\ UNCHANGED <<round, deltas, calls, asked, running, results, messages,
                 out, chan, consumer, signal, notified, delivered, turns, saved>>

(* The one look at the signal before the loop; its terminal event is sent  *)
(* without the emit! macro, so a refusal is not recorded again.            *)
GateCancelled ==
  /\ pc = "gate" /\ token
  /\ Record(CancelReason, <<>>)
  /\ Narrate(Note(CancelReason))
  /\ pc' = "closingPlain"
  /\ UNCHANGED <<round, deltas, calls, asked, running, results, messages,
                 chan, consumer, signal, delivered>>

GateOpen ==
  /\ pc = "gate" /\ ~token
  /\ pc' = "round"
  /\ UNCHANGED <<round, deltas, calls, asked, running, results, messages,
                 out, chan, consumer, signal, notified, delivered, archive>>

-----------------------------------------------------------------------------
(* One round: the model call *)

(* Variant: the round budget is off by one. *)
RequestModelOffByOne ==
  /\ pc = "round" /\ round <= MaxRounds
  /\ round' = round + 1
  /\ Narrate(NoteIn("Requested", round + 1))
  /\ pc' = "requesting"
  /\ UNCHANGED <<deltas, calls, asked, running, results, messages,
                 chan, consumer, signal, delivered, archive>>

(* The head of the loop: the next round begins ...                         *)
RequestModel ==
  /\ pc = "round" /\ round < MaxRounds
  /\ round' = round + 1
  /\ Narrate(NoteIn("Requested", round + 1))
  /\ pc' = "requesting"
  /\ UNCHANGED <<deltas, calls, asked, running, results, messages,
                 chan, consumer, signal, delivered, archive>>

(* ... or the budget is spent, at once if it is zero.                      *)
OutOfRounds ==
  /\ pc = "round" /\ round = MaxRounds
  /\ Conclude("MaxRounds")
  /\ UNCHANGED <<round, deltas, calls, asked, running, results, messages,
                 chan, consumer, signal, delivered>>

Answered    == {c \in CallId : results[c] # 0}
Outstanding == {i \in DOMAIN calls : calls[i] \notin Answered}
Collecting  == pc = "tools" /\ Cardinality(Answered) < Len(calls)

(* Any of the three select!s may take the cancelled branch once the token  *)
(* fired; in the tool phase, which looks at it only while a result is      *)
(* missing, abort_all ends the tasks that still run.                       *)
ObserveCancel ==
  /\ pc \in Suspended /\ token
  /\ pc = "tools" => Collecting
  /\ Conclude(CancelReason)
  /\ running' = {}
  /\ UNCHANGED <<round, deltas, calls, asked, results, messages,
                 chan, consumer, signal, delivered>>

ModelStarts ==
  /\ pc = "model"
  /\ pc' = "stream"
  /\ UNCHANGED <<round, deltas, calls, asked, running, results, messages,
                 out, chan, consumer, signal, notified, delivered, archive>>

(* The call is refused, the stream reports a failure, or it ends early. *)
ModelFails ==
  /\ pc \in {"model", "stream"}
  /\ Conclude("ModelFailed")
  /\ UNCHANGED <<round, deltas, calls, asked, running, results, messages,
                 chan, consumer, signal, delivered>>

ModelDelta ==
  /\ pc = "stream" /\ deltas < MaxDeltas
  /\ deltas' = deltas + 1
  /\ Narrate(Note("Delta"))
  /\ pc' = "relaying"
  /\ UNCHANGED <<round, calls, asked, running, results, messages,
                 chan, consumer, signal, delivered, archive>>

ModelFinishes(list) ==
  /\ pc = "stream"
  /\ calls' = list
  /\ Narrate(Note("Responded"))
  /\ pc' = "responding"
  /\ UNCHANGED <<round, deltas, asked, running, results, messages,
                 chan, consumer, signal, delivered, archive>>

(* No calls: the final answer joins the record, which is archived as       *)
(* completed before the state engine maintains its memory.                 *)
Answer ==
  /\ pc = "responded" /\ calls = <<>>
  /\ messages' = Append(messages, Assistant(<<>>))
  /\ Record("Completed", messages')
  /\ pc' = "maintaining"
  /\ UNCHANGED <<round, deltas, calls, asked, running, results,
                 out, chan, consumer, signal, notified, delivered>>

(* Variant: the maintenance is detached instead of awaited. *)
MaintainDetached ==
  /\ pc = "maintaining"
  /\ Narrate(Note("Completed"))
  /\ pc' = "closing"
  /\ UNCHANGED <<round, deltas, calls, asked, running, results, messages,
                 chan, consumer, signal, delivered, archive>>

(* Context::on_turn_completed, awaited before the terminal event. *)
Maintain ==
  /\ pc = "maintaining"
  /\ \E f \in {"TurnArchived", "MemoryFailed"} : facts' = facts \cup {f}
  /\ Narrate(Note("Completed"))
  /\ pc' = "closing"
  /\ UNCHANGED <<round, deltas, calls, asked, running, results, messages,
                 chan, consumer, signal, delivered, turns, saved>>

-----------------------------------------------------------------------------
(* One round: the tool calls *)

IssueCalls ==
  /\ pc = "responded" /\ calls # <<>>
  /\ messages' = Append(messages, Assistant(calls))
  /\ asked' = 0
  /\ pc' = "asking"
  /\ UNCHANGED <<round, deltas, calls, running, results,
                 out, chan, consumer, signal, notified, delivered, archive>>

(* emit_all_requested: the outcome of each send is ignored. *)
AnnounceCall ==
  /\ pc = "asking" /\ asked < Len(calls)
  /\ asked' = asked + 1
  /\ Narrate(ToolNote("ToolRequested", calls[asked + 1], 0))
  /\ pc' = "announcing"
  /\ UNCHANGED <<round, deltas, calls, running, results, messages,
                 chan, consumer, signal, delivered, archive>>

SpawnTools ==
  /\ pc = "asking" /\ asked >= Len(calls)
  /\ running' = DOMAIN calls
  /\ results' = [c \in CallId |-> 0]
  /\ pc' = "tools"
  /\ UNCHANGED <<round, deltas, calls, asked, messages,
                 out, chan, consumer, signal, notified, delivered, archive>>

(* Variant: a joined task stays in the set. *)
ReportUnjoined(i, c) ==
  /\ UNCHANGED running
  /\ Narrate(ToolNote("ToolCompleted", c, i))
  /\ pc' = "reporting"

Report(i, c) ==
  /\ running' = running \ {i}
  /\ Narrate(ToolNote("ToolCompleted", c, i))
  /\ pc' = "reporting"

(* A tool task returned: a result, a tool error, or an unknown tool, all   *)
(* of which are results to the loop.                                       *)
ToolReturns(i) ==
  /\ Collecting /\ i \in running
  /\ Report(i, calls[i])
  /\ UNCHANGED <<round, deltas, calls, asked, results, messages,
                 chan, consumer, signal, delivered, archive>>

(* A tool task panicked: the join error names no call, so the failure is   *)
(* reported for the first call that has no result yet.                     *)
ToolPanics(i) ==
  /\ Collecting /\ i \in running \cap Panicky
  /\ \/ \E j \in Outstanding :
          /\ \A k \in Outstanding : j <= k
          /\ running' = running \ {i}
          /\ Narrate(ToolNote("ToolCompleted", calls[j], i))
          /\ pc' = "reporting"
     \/ Outstanding = {} /\ running' = running \ {i} /\ UNCHANGED <<pc, out, notified>>
  /\ UNCHANGED <<round, deltas, calls, asked, results, messages,
                 chan, consumer, signal, delivered, archive>>

(* Every call has a result, or the set of tasks is drained. *)
Collected == pc = "tools" /\ (~Collecting \/ running = {})

ResultMessages == [i \in 1..Len(calls) |-> ToolResult(calls[i], results[calls[i]])]

(* The results join the conversation in call order. *)
CollectResults ==
  /\ Collected /\ Outstanding = {}
  /\ messages' = messages \o ResultMessages
  /\ running' = {}
  /\ pc' = "round"
  /\ UNCHANGED <<round, deltas, calls, asked, results,
                 out, chan, consumer, signal, notified, delivered, archive>>

(* `expect("every issued call has a result")` *)
ResultMissing ==
  /\ Collected /\ Outstanding # {}
  /\ running' = {}
  /\ pc' = "panicked"
  /\ UNCHANGED <<round, deltas, calls, asked, results, messages,
                 out, chan, consumer, signal, notified, delivered, archive>>

-----------------------------------------------------------------------------
(* The delivery channel *)

Resume == [p \in Parked |->
  CASE p = "starting"   -> "assembling"
    [] p = "requesting" -> "model"
    [] p = "relaying"   -> "stream"
    [] p = "responding" -> "responded"
    [] p = "announcing" -> "asking"
    [] p = "reporting"  -> "tools"
    [] OTHER            -> "done"]

(* `send` completes; only then does a reported result count. *)
SendAccepted ==
  /\ pc \in Parked /\ consumer = "attached" /\ chan = <<>>
  /\ chan' = out /\ out' = <<>>
  /\ pc' = Resume[pc]
  /\ results' = IF pc = "reporting"
                THEN [results EXCEPT ![out[1].call] = out[1].from] ELSE results
  /\ UNCHANGED <<round, deltas, calls, asked, running, messages,
                 consumer, signal, notified, delivered, archive>>

(* Started, the call announcements and the gate's terminal event ignore    *)
(* that the consumer is gone.                                              *)
RefusalIgnored ==
  /\ pc \in {"starting", "announcing", "closingPlain"} /\ consumer # "attached"
  /\ out' = <<>>
  /\ pc' = Resume[pc]
  /\ UNCHANGED <<round, deltas, calls, asked, running, results, messages,
                 chan, consumer, signal, notified, delivered, archive>>

(* Variant: the consumer is gone, so nothing is archived either. *)
RefusalEndsRunUnrecorded ==
  /\ pc \in {"requesting", "relaying", "responding", "closing"}
  /\ consumer # "attached"
  /\ out' = <<>>
  /\ pc' = "done"
  /\ UNCHANGED <<round, deltas, calls, asked, running, results, messages,
                 chan, consumer, signal, notified, delivered, archive>>

(* The emit! macro: the consumer is gone, so the turn is recorded as       *)
(* cancelled and the loop returns, whatever it was emitting.               *)
RefusalEndsRun ==
  /\ pc \in {"requesting", "relaying", "responding", "closing"}
  /\ consumer # "attached"
  /\ out' = <<>>
  /\ Record("UserRequested", messages)
  /\ pc' = "done"
  /\ UNCHANGED <<round, deltas, calls, asked, running, results, messages,
                 chan, consumer, signal, notified, delivered>>

(* A refused tool result resolves as CancelOutcome::Signal. *)
RefusalCancelsTools ==
  /\ pc = "reporting" /\ consumer # "attached"
  /\ Conclude("UserRequested")
  /\ running' = {}
  /\ UNCHANGED <<round, deltas, calls, asked, results, messages,
                 chan, consumer, signal, delivered>>

-----------------------------------------------------------------------------
(* The Execution handle and the signal *)

Receive ==
  /\ consumer = "attached" /\ chan # <<>>
  /\ delivered' = delivered \o chan
  /\ chan' = <<>>
  /\ UNCHANGED <<loop, out, consumer, signal, notified, archive>>

(* execution_event: the product face leaves out what goes into the model   *)
(* and its whole answers.                                                  *)
OnFace(e) == e.kind \notin {"Started", "Requested", "Responded"}

FaceOf[s \in Seq(Event)] ==
  IF s = <<>> THEN <<>>
  ELSE LET kept == FaceOf[SubSeq(s, 1, Len(s) - 1)]
       IN  IF OnFace(s[Len(s)]) THEN Append(kept, s[Len(s)]) ELSE kept

(* Execution::next and poll_next: the narrative of the events received.    *)
Narrative == FaceOf[delivered]

(* AgentRunner::note: the rounds a handle reports are counted from them.   *)
RoundsSeen == Cardinality({i \in DOMAIN delivered : delivered[i].kind = "Requested"})

(* Execution::cancel, or the external token of run_with.  A loop that      *)
(* ended reads the signal no more, so a later cancel or timeout is left    *)
(* out.                                                                    *)
Cancel ==
  /\ ~token /\ pc \notin Ended
  /\ token' = TRUE
  /\ UNCHANGED <<loop, out, chan, consumer, fired, timer, notified, delivered, archive>>

(* Dropping the handle drops the receiver first, with what it buffers ... *)
DropReceiver ==
  /\ consumer = "attached"
  /\ consumer' = "detaching"
  /\ chan' = <<>>
  /\ UNCHANGED <<loop, out, signal, notified, delivered, archive>>

(* ... and then the drop guard, which fires the signal. *)
DropGuard ==
  /\ consumer = "detaching"
  /\ consumer' = "gone"
  /\ token' = TRUE
  /\ UNCHANGED <<loop, out, chan, fired, timer, notified, delivered, archive>>

(* The timeout task: the budget elapses, then the token is cancelled. *)
Elapse ==
  /\ timer = "armed" /\ pc \notin Ended
  /\ fired' = TRUE /\ timer' = "elapsed"
  /\ UNCHANGED <<loop, out, chan, consumer, token, notified, delivered, archive>>

TimerCancels ==
  /\ timer = "elapsed"
  /\ token' = TRUE /\ timer' = "none"
  /\ UNCHANGED <<loop, out, chan, consumer, fired, notified, delivered, archive>>

TimerStops ==
  /\ timer = "armed" /\ (token \/ pc \in Ended)
  /\ timer' = "none"
  /\ UNCHANGED <<loop, out, chan, consumer, token, fired, notified, delivered, archive>>

-----------------------------------------------------------------------------
ModelStep == ModelStarts \/ ModelFails \/ ModelDelta
             \/ \E list \in CallLists : ModelFinishes(list)
ToolStep  == \E i \in running : ToolReturns(i) \/ ToolPanics(i)
Send      == SendAccepted \/ RefusalIgnored \/ RefusalEndsRun \/ RefusalCancelsTools
LoopStep  == \/ Start \/ GateCancelled \/ GateOpen
             \/ RequestModel \/ OutOfRounds \/ ObserveCancel \/ Answer
             \/ IssueCalls \/ AnnounceCall \/ SpawnTools
             \/ CollectResults \/ ResultMissing \/ Send
TimerStep == Elapse \/ TimerCancels \/ TimerStops

(* The awaits on the context engine, which answers when its rewriter,      *)
(* detector, embedder and stores do.                                       *)
EngineStep == Assemble \/ Maintain

Next == LoopStep \/ EngineStep \/ ModelStep \/ ToolStep \/ TimerStep
        \/ Receive \/ Cancel \/ DropReceiver \/ DropGuard

Spec == Init /\ [][Next]_vars

(* The runtime schedules the loop task, a handle that started to drop      *)
(* finishes dropping, and an elapsed budget cancels.  Nothing is assumed   *)
(* of the model, of the tools, of the context engine or of the consumer.   *)
LoopSpec == Spec /\ WF_vars(LoopStep) /\ WF_vars(DropGuard) /\ WF_vars(TimerCancels)

-----------------------------------------------------------------------------
(* Safety *)

(* event.rs "Invariants": a terminal event is the last event of a run, so  *)
(* there is at most one, whichever of the loop's many exits is taken.      *)
TerminalIsLast ==
  \A i \in 1..Len(notified) : IsTerminal(notified[i]) => i = Len(notified)

(* The outcome a run announces is the outcome it archived, it was archived *)
(* first, and nothing is announced after it: the reason read from the      *)
(* signal cannot change between, whichever exit is taken.                  *)
AnnouncedAsArchived ==
  /\ TerminalIsLast
  /\ \A i \in 1..Len(notified) : IsTerminal(notified[i]) =>
        turns # <<>> /\ turns[1].outcome = notified[i].kind

(* The product narrative is what the bus saw, in the same order: nothing   *)
(* is lost, repeated or reordered while the handle lives, and a dropped    *)
(* handle saw a prefix.  On a living handle the narrative that a returned  *)
(* loop leaves behind ends with a terminal event, so its future resolves,  *)
(* and the handle has counted every round the loop began.                  *)
FaceAgreesWithBus ==
  /\ pc = "done" /\ consumer = "attached" /\ chan = <<>> =>
        /\ Narrative # <<>> /\ IsTerminal(Narrative[Len(Narrative)])
        /\ RoundsSeen = round /\ (round = 0 => Len(Narrative) = 1)
  /\ consumer = "attached" => delivered \o chan \o out = notified
  /\ Len(delivered) <= Len(notified)
  /\ \A i \in 1..Len(delivered) : delivered[i] = notified[i]

(* Completion order, panics and repeated ids notwithstanding, a task is    *)
(* reported at most once, in its own round, and for a call announced in    *)
(* that round.                                                             *)
ReportedOnce ==
  \A i \in 1..Len(notified) : notified[i].kind = "ToolCompleted" =>
     /\ \E j \in 1..(i - 1) : /\ notified[j].kind = "ToolRequested"
                              /\ notified[j].call = notified[i].call
                              /\ notified[j].round = notified[i].round
     /\ \A j \in 1..(i - 1) : ~ /\ notified[j].kind = "ToolCompleted"
                                /\ notified[j].from = notified[i].from
                                /\ notified[j].round = notified[i].round

(* An archived turn replays: an assistant message with calls is followed   *)
(* by one result per call, in call order; only the end of an unfinished    *)
(* turn may lack them, and a completed turn ends with its answer.  A join  *)
(* error names no call, so the failure of a panicked task may stand for    *)
(* another call, but only for one whose own tasks all may panic: what a    *)
(* tool returned is never replaced by the failure of another.              *)
AnswersCall(m, asks, k) ==
  /\ m.role = "tool" /\ m.call = asks[k] /\ m.from \in DOMAIN asks
  /\ \/ asks[m.from] = asks[k]
     \/ {m.from} \cup {p \in DOMAIN asks : asks[p] = asks[k]} \subseteq Panicky
Replays(msgs) ==
  /\ \A i \in DOMAIN msgs : msgs[i].role = "assistant" =>
        \/ i = Len(msgs)
        \/ \A k \in DOMAIN msgs[i].asks :
              i + k <= Len(msgs) /\ AnswersCall(msgs[i + k], msgs[i].asks, k)
  /\ \A i \in DOMAIN msgs : msgs[i].role = "tool" =>
        \E j \in 1..(i - 1) : /\ msgs[j].role = "assistant"
                              /\ (i - j) \in DOMAIN msgs[j].asks
CanonicalTurns ==
  \A t \in DOMAIN turns :
     /\ Replays(turns[t].messages)
     /\ turns[t].outcome = "Completed" =>
          LET n == Len(turns[t].messages)
          IN  n > 0 /\ turns[t].messages[n] = Assistant(<<>>)

(* The tool protocol as the two narratives tell it: what the bus was told  *)
(* of the tasks and what the archive keeps of their results.               *)
ToolProtocol == ReportedOnce /\ CanonicalTurns

(* Every run that returned left a turn in the conversation, and if the store  *)
(* lacks one, an observer was told.                                        *)
NoRunUnrecorded ==
  /\ pc = "done" => turns # <<>>
  /\ saved < Len(turns) => "ArchiveFailed" \in facts

(* Only a completed run feeds the memory, it has done so before anyone can *)
(* see the terminal event, and whatever its outcome the run is recorded.   *)
OnlySuccessFeedsMemory ==
  /\ NoRunUnrecorded
  /\ "TurnArchived" \in facts => turns # <<>> /\ turns[1].outcome = "Completed"
  /\ \A i \in 1..Len(notified) :
        notified[i].kind = "Completed" => facts \cap {"TurnArchived", "MemoryFailed"} # {}

(* The detailed run implements the contract. *)
Contract == INSTANCE RunContract WITH
  Unsettled <- "Unsettled",
  MayAbort  <- Panicky # {},
  settled   <- IF turns = <<>> THEN "Unsettled" ELSE turns[1].outcome,
  announced <- IF notified # <<>> /\ IsTerminal(notified[Len(notified)])
               THEN notified[Len(notified)].kind ELSE "Unsettled",
  stream    <- CASE pc = "done"     -> "closed"
                 [] pc = "panicked" -> "aborted"
                 [] OTHER           -> "open"

(* Refinement of RunContract: settle once, announce the same, then close;  *)
(* or, if a tool may panic, abort with nothing settled and nothing told.   *)
ImplementsContract == Contract!CSpec

-----------------------------------------------------------------------------
(* Liveness *)

(* What a run may wait for that does not look at the signal: the engine's  *)
(* assembly and maintenance, and the consumer that holds its handle and    *)
(* does not poll a full channel.                                           *)
Waiting == \/ pc \in {"assembling", "maintaining"}
           \/ pc \in Parked /\ consumer = "attached" /\ chan # <<>>

(* A signal that fired ends the run even if the model and the tools hang:  *)
(* a cancelled run that never ends is one that from some time on waits in  *)
(* one of those three awaits for good.                                     *)
CancelledRunEnds == token ~> (pc \in Ended \/ []Waiting)

-----------------------------------------------------------------------------
(* What the documents say and the code does not do *)

(* ADR-0017: one execution is one Turn record. *)
OneTurnPerRun == Len(turns) <= 1

(* agent.rs, poll_result: the loop always emits a terminal event before    *)
(* closing the stream, also when a tool task panicked.                     *)
LoopAlwaysTerminal ==
  pc \in Ended /\ consumer = "attached" /\ chan = <<>> =>
     delivered # <<>> /\ IsTerminal(delivered[Len(delivered)])

(* ADR-0004: the loop selects every await point against the signal.  For   *)
(* the awaits in `consumer.send` that would be: a fired signal gets the    *)
(* loop to settle the run, even though the consumer does not poll.         *)
CancelReachesEverySend ==
  token /\ pc \in Parked \ {"closing", "closingPlain"} ~> turns # <<>> \/ pc \in Ended

(* event.rs "Invariants": the last event of a run is a terminal event; for *)
(* the observers of the bus, of every run that ended.                      *)
BusSeesTerminal ==
  pc = "done" => IsTerminal(notified[Len(notified)])

=============================================================================
