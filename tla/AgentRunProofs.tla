--------------------------- MODULE AgentRunProofs ---------------------------
(***************************************************************************)
(* Proofs about one run, for every set of calls, call lists and bounds.    *)
(***************************************************************************)
EXTENDS AgentRun, FiniteSetTheorems, SequenceTheorems, TLAPS

LEMMA ElementType ==
  ASSUME NEW S, NEW s \in Seq(S), NEW i \in DOMAIN s
  PROVE  i \in Nat /\ s[i] \in S
  OBVIOUS

LEMMA FirstElement ==
  ASSUME NEW S, NEW s \in Seq(S), s # <<>>
  PROVE  s[1] \in S
  OBVIOUS

LEMMA LastIndex ==
  ASSUME NEW S, NEW s \in Seq(S), s # <<>>
  PROVE  Len(s) \in 1..Len(s)
  OBVIOUS

(* The helper of every emission: the bus log grows by exactly the event    *)
(* that `send` then holds.                                                 *)
LEMMA NarrateFacts ==
  ASSUME notified \in Seq(Event), NEW e \in Event, Narrate(e)
  PROVE  /\ notified' \in Seq(Event) /\ Len(notified') = Len(notified) + 1
         /\ notified'[Len(notified')] = e
         /\ \A i \in 1..Len(notified) : notified'[i] = notified[i]
         /\ out' \in Seq(Event) /\ Len(out') = 1 /\ out'[1] = e
  BY DEF Narrate

(* The record! macro adds one turn at the end and keeps the first one. *)
LEMMA RecordFacts ==
  ASSUME turns \in Seq(Turn), saved \in 0..Len(turns), facts \subseteq Facts,
         NEW o \in Outcomes, NEW m \in Seq(Message), Record(o, m)
  PROVE  /\ turns' \in Seq(Turn) /\ Len(turns') = Len(turns) + 1
         /\ saved' \in 0..Len(turns')
         /\ facts' \subseteq Facts
         /\ turns # <<>> => turns'[1] = turns[1]
         /\ turns = <<>> => turns'[1].outcome = o
<1>1. [outcome |-> o, messages |-> m] \in Turn
  BY DEF Turn
<1>2. turns' = Append(turns, [outcome |-> o, messages |-> m])
  BY DEF Record
<1>3. Len(turns) \in Nat
  OBVIOUS
<1>4. saved' \in 0..(Len(turns) + 1)
  BY <1>3 DEF Record
<1>5. facts' \subseteq Facts
  BY DEF Record, Facts
<1>. QED
  BY <1>1, <1>2, <1>4, <1>5

LEMMA NoteType ==
  ASSUME round \in 0..MaxRounds, NEW k \in Kinds
  PROVE  /\ Note(k) \in Event /\ Note(k).kind = k
         /\ NoteIn(k, round + 1) \in Event /\ NoteIn(k, round + 1).kind = k
         /\ \A c \in CallId, i \in Nat : ToolNote(k, c, i) \in Event
                                         /\ ToolNote(k, c, i).kind = k
  BY RoundsAssumption DEF Note, NoteIn, ToolNote, Event

(* Where a send resumes the loop. *)
LEMMA ResumeType ==
  ASSUME NEW p \in Parked
  PROVE  /\ Resume[p] \in {"assembling", "model", "stream", "responded",
                           "asking", "tools", "done"}
         /\ Resume[p] = "done" <=> p \in {"closing", "closingPlain"}
         /\ Resume[p] = "tools" <=> p = "reporting"
  BY DEF Resume, Parked

LEMMA ResultMessagesType ==
  ASSUME calls \in Seq(CallId), results \in [CallId -> Nat]
  PROVE  ResultMessages \in Seq(Message)
<1>1. \A i \in 1..Len(calls) : ToolResult(calls[i], results[calls[i]]) \in Message
  BY ListsAssumption DEF ToolResult, Message
<1>. QED
  BY <1>1 DEF ResultMessages

-----------------------------------------------------------------------------
(* Type correctness *)

(* No tool task outlives the tool phase of its round. *)
TasksInPhase == pc \notin {"tools", "reporting"} => running = {}

TypeInv == TypeOK /\ TasksInPhase

LEMMA InitType == Init => TypeInv
<1>. SUFFICES ASSUME Init PROVE TypeInv
  OBVIOUS
<1>. USE DEF Init
<1>1. pc \in Places /\ pc \notin Parked
  BY DEF Places, Parked
<1>2. round \in 0..MaxRounds /\ deltas \in 0..MaxDeltas
  BY RoundsAssumption, DeltasAssumption
<1>3. calls \in CallLists /\ running \subseteq DOMAIN calls
  BY ListsAssumption
<1>4. results \in [CallId -> Nat]
  OBVIOUS
<1>5. /\ messages \in Seq(Message) /\ out \in Seq(Event) /\ chan \in Seq(Event)
      /\ notified \in Seq(Event) /\ delivered \in Seq(Event) /\ turns \in Seq(Turn)
      /\ Len(out) = 0 /\ Len(chan) \in 0..1 /\ saved \in 0..Len(turns)
  OBVIOUS
<1>6. /\ consumer \in {"attached", "detaching", "gone"}
      /\ token \in BOOLEAN /\ fired \in BOOLEAN
      /\ timer \in {"none", "armed", "elapsed"}
      /\ asked \in Nat /\ facts \subseteq Facts /\ running = {}
  OBVIOUS
<1>7. Len(out) = IF pc \in Parked THEN 1 ELSE 0
  BY <1>1, <1>5
<1>. QED
  BY <1>1, <1>2, <1>3, <1>4, <1>5, <1>6, <1>7, Zenon DEF TypeInv, TypeOK, TasksInPhase

LEMMA NextType == TypeInv /\ [Next]_vars => TypeInv'
<1>. SUFFICES ASSUME TypeInv, [Next]_vars PROVE TypeInv'
  OBVIOUS
<1>. USE DEF TypeInv, TypeOK, TasksInPhase, loop, archive, signal
<1>0. /\ \A k \in Kinds : Note(k) \in Event /\ NoteIn(k, round + 1) \in Event
      /\ \A k \in Kinds, c \in CallId, i \in Nat : ToolNote(k, c, i) \in Event
      /\ calls \in Seq(CallId)
      /\ CancelReason \in Outcomes
  BY NoteType, ListsAssumption DEF CancelReason, Outcomes
<1>1. CASE Start
  <2>1. Note("Started") \in Event
    BY <1>0 DEF Kinds, Outcomes
  <2>2. pc' \in Places /\ pc' \in Parked /\ pc \notin {"tools", "reporting"}
    BY <1>1 DEF Start, Places, Parked
  <2>. QED
    BY <1>1, <2>1, <2>2, NarrateFacts DEF Start
<1>2. CASE RequestModel
  <2>1. NoteIn("Requested", round + 1) \in Event
    BY <1>0 DEF Kinds, Outcomes
  <2>2. pc' \in Places /\ pc' \in Parked /\ pc \notin {"tools", "reporting"}
    BY <1>2 DEF RequestModel, Places, Parked
  <2>3. round' \in 0..MaxRounds
    BY <1>2, RoundsAssumption DEF RequestModel
  <2>. QED
    BY <1>2, <2>1, <2>2, <2>3, NarrateFacts DEF RequestModel
<1>3. CASE ModelDelta
  <2>1. Note("Delta") \in Event
    BY <1>0 DEF Kinds, Outcomes
  <2>2. pc' \in Places /\ pc' \in Parked /\ pc \notin {"tools", "reporting"}
    BY <1>3 DEF ModelDelta, Places, Parked
  <2>3. deltas' \in 0..MaxDeltas
    BY <1>3, DeltasAssumption DEF ModelDelta
  <2>. QED
    BY <1>3, <2>1, <2>2, <2>3, NarrateFacts DEF ModelDelta
<1>4. ASSUME NEW list \in CallLists, ModelFinishes(list) PROVE TypeInv'
  <2>1. Note("Responded") \in Event
    BY <1>0 DEF Kinds, Outcomes
  <2>2. pc' \in Places /\ pc' \in Parked /\ pc \notin {"tools", "reporting"}
    BY <1>4 DEF ModelFinishes, Places, Parked
  <2>3. running = {} /\ calls' \in CallLists
    BY <1>4 DEF ModelFinishes
  <2>. QED
    BY <1>4, <2>1, <2>2, <2>3, NarrateFacts DEF ModelFinishes
<1>5. CASE Maintain
  <2>1. Note("Completed") \in Event
    BY <1>0 DEF Kinds, Outcomes
  <2>2. pc' \in Places /\ pc' \in Parked /\ pc \notin {"tools", "reporting"}
    BY <1>5 DEF Maintain, Places, Parked
  <2>3. facts' \subseteq Facts
    BY <1>5 DEF Maintain, Facts
  <2>. QED
    BY <1>5, <2>1, <2>2, <2>3, NarrateFacts DEF Maintain
<1>6. CASE ObserveCancel
  <2>1. CancelReason \in Outcomes /\ Note(CancelReason) \in Event
    BY <1>0 DEF Kinds, Outcomes
  <2>2. Record(CancelReason, messages) /\ Narrate(Note(CancelReason)) /\ pc' = "closing"
    BY <1>6 DEF ObserveCancel, Conclude
  <2>3. pc' \in Places /\ pc' \in Parked
    BY <2>2 DEF Places, Parked
  <2>4. running' = {}
    BY <1>6 DEF ObserveCancel, Suspended
  <2>. QED
    BY <1>6, <2>1, <2>2, <2>3, <2>4, NarrateFacts, RecordFacts DEF ObserveCancel
<1>7. CASE ModelFails
  <2>1. "ModelFailed" \in Outcomes /\ Note("ModelFailed") \in Event
    BY <1>0 DEF Kinds, Outcomes
  <2>2. Record("ModelFailed", messages) /\ Narrate(Note("ModelFailed")) /\ pc' = "closing"
    BY <1>7 DEF ModelFails, Conclude
  <2>3. pc' \in Places /\ pc' \in Parked
    BY <2>2 DEF Places, Parked
  <2>4. running' = {}
    BY <1>7 DEF ModelFails, Suspended
  <2>. QED
    BY <1>7, <2>1, <2>2, <2>3, <2>4, NarrateFacts, RecordFacts DEF ModelFails
<1>8. CASE RefusalCancelsTools
  <2>1. "UserRequested" \in Outcomes /\ Note("UserRequested") \in Event
    BY <1>0 DEF Kinds, Outcomes
  <2>2. Record("UserRequested", messages) /\ Narrate(Note("UserRequested")) /\ pc' = "closing"
    BY <1>8 DEF RefusalCancelsTools, Conclude
  <2>3. pc' \in Places /\ pc' \in Parked
    BY <2>2 DEF Places, Parked
  <2>4. running' = {}
    BY <1>8 DEF RefusalCancelsTools, Suspended
  <2>. QED
    BY <1>8, <2>1, <2>2, <2>3, <2>4, NarrateFacts, RecordFacts DEF RefusalCancelsTools
<1>9. CASE GateCancelled
  <2>1. CancelReason \in Outcomes /\ Note(CancelReason) \in Event
    BY <1>0 DEF Kinds, Outcomes
  <2>2. pc' \in Places /\ pc' \in Parked /\ pc \notin {"tools", "reporting"}
    BY <1>9 DEF GateCancelled, Places, Parked
  <2>3. Record(CancelReason, <<>>) /\ <<>> \in Seq(Message)
    BY <1>9 DEF GateCancelled
  <2>. QED
    BY <1>9, <2>1, <2>2, <2>3, NarrateFacts, RecordFacts DEF GateCancelled
<1>10. CASE OutOfRounds
  <2>1. "MaxRounds" \in Outcomes /\ Note("MaxRounds") \in Event
    BY <1>0 DEF Kinds, Outcomes
  <2>2. /\ Record("MaxRounds", messages) /\ Narrate(Note("MaxRounds"))
        /\ pc = "round" /\ pc' = "closing"
    BY <1>10 DEF OutOfRounds, Conclude
  <2>3. pc' \in Places /\ pc' \in Parked
    BY <2>2 DEF Places, Parked
  <2>. QED
    BY <1>10, <2>1, <2>2, <2>3, NarrateFacts, RecordFacts DEF OutOfRounds
<1>11. CASE Answer
  <2>1. messages' \in Seq(Message)
    BY <1>11, ListsAssumption DEF Answer, Assistant, Message
  <2>2. pc' \in Places /\ pc' \notin Parked /\ pc \notin Parked /\ pc \notin {"tools", "reporting"}
    BY <1>11 DEF Answer, Places, Parked
  <2>3. "Completed" \in Outcomes
    BY DEF Outcomes
  <2>. QED
    BY <1>11, <2>1, <2>2, <2>3, RecordFacts DEF Answer
<1>12. CASE RefusalEndsRun
  <2>1. pc' \in Places /\ pc' \notin Parked /\ pc \notin {"tools", "reporting"}
    BY <1>12 DEF RefusalEndsRun, Places, Parked, Ended
  <2>2. "UserRequested" \in Outcomes
    BY DEF Outcomes
  <2>. QED
    BY <1>12, <2>1, <2>2, RecordFacts, SMTT(30) DEF RefusalEndsRun
<1>13. CASE Assemble
  <2>1. /\ pc' \in Places /\ pc' \notin Parked /\ pc \notin Parked
        /\ pc' \notin {"tools", "reporting"} => running' = {}
    BY <1>13 DEF Assemble, Places, Parked, Suspended, Ended, Collected
  <2>2. facts' \subseteq Facts
    BY <1>13 DEF Assemble, Facts
  <2>. QED
    BY <1>13, <2>1, <2>2 DEF Assemble
<1>14. CASE GateOpen
  <2>1. /\ pc' \in Places /\ pc' \notin Parked /\ pc \notin Parked
        /\ pc' \notin {"tools", "reporting"} => running' = {}
    BY <1>14 DEF GateOpen, Places, Parked, Suspended, Ended, Collected
  <2>. QED
    BY <1>14, <2>1 DEF GateOpen
<1>15. CASE ModelStarts
  <2>1. /\ pc' \in Places /\ pc' \notin Parked /\ pc \notin Parked
        /\ pc' \notin {"tools", "reporting"} => running' = {}
    BY <1>15 DEF ModelStarts, Places, Parked, Suspended, Ended, Collected
  <2>. QED
    BY <1>15, <2>1 DEF ModelStarts
<1>16. CASE IssueCalls
  <2>1. /\ pc' \in Places /\ pc' \notin Parked /\ pc \notin Parked
        /\ pc' \notin {"tools", "reporting"} => running' = {}
    BY <1>16 DEF IssueCalls, Places, Parked, Suspended, Ended, Collected
  <2>2. messages' \in Seq(Message)
    BY <1>16, ListsAssumption DEF IssueCalls, Assistant, Message
  <2>. QED
    BY <1>16, <2>1, <2>2 DEF IssueCalls
<1>17. CASE SpawnTools
  <2>1. /\ pc' \in Places /\ pc' \notin Parked /\ pc \notin Parked
        /\ pc' \notin {"tools", "reporting"} => running' = {}
    BY <1>17 DEF SpawnTools, Places, Parked, Suspended, Ended, Collected
  <2>. QED
    BY <1>17, <2>1 DEF SpawnTools
<1>18. CASE CollectResults
  <2>1. /\ pc' \in Places /\ pc' \notin Parked /\ pc \notin Parked
        /\ pc' \notin {"tools", "reporting"} => running' = {}
    BY <1>18 DEF CollectResults, Places, Parked, Suspended, Ended, Collected
  <2>2. messages' \in Seq(Message)
    BY <1>18, <1>0, ResultMessagesType DEF CollectResults
  <2>. QED
    BY <1>18, <2>1, <2>2 DEF CollectResults
<1>19. CASE ResultMissing
  <2>1. /\ pc' \in Places /\ pc' \notin Parked /\ pc \notin Parked
        /\ pc' \notin {"tools", "reporting"} => running' = {}
    BY <1>19 DEF ResultMissing, Places, Parked, Suspended, Ended, Collected
  <2>. QED
    BY <1>19, <2>1 DEF ResultMissing
<1>20. CASE AnnounceCall
  <2>1. calls[asked + 1] \in CallId
    BY <1>20, <1>0 DEF AnnounceCall
  <2>2. ToolNote("ToolRequested", calls[asked + 1], 0) \in Event
    BY <1>0, <2>1 DEF Kinds
  <2>3. pc' \in Places /\ pc' \in Parked /\ running' = {}
    BY <1>20 DEF AnnounceCall, Places, Parked
  <2>. QED
    BY <1>20, <2>2, <2>3, NarrateFacts, SMTT(30) DEF AnnounceCall
<1>21. ASSUME NEW i \in running, ToolReturns(i) PROVE TypeInv'
  <2>1. i \in Nat /\ calls[i] \in CallId
    BY <1>0, SMTT(30)
  <2>2. ToolNote("ToolCompleted", calls[i], i) \in Event
    BY <1>0, <2>1 DEF Kinds
  <2>3. pc' \in Places /\ pc' \in Parked /\ pc' = "reporting"
    BY <1>21 DEF ToolReturns, Report, Places, Parked
  <2>. QED
    BY <1>21, <2>2, <2>3, NarrateFacts DEF ToolReturns, Report
<1>22. ASSUME NEW i \in running, ToolPanics(i) PROVE TypeInv'
  <2>1. CASE Outstanding = {} /\ running' = running \ {i} /\ UNCHANGED <<pc, out, notified>>
    BY <1>22, <2>1 DEF ToolPanics, Collecting
  <2>2. ASSUME NEW j \in Outstanding, running' = running \ {i},
               Narrate(ToolNote("ToolCompleted", calls[j], i)), pc' = "reporting"
        PROVE  TypeInv'
    <3>1. i \in Nat /\ calls[j] \in CallId
      <4>1. i \in DOMAIN calls /\ j \in DOMAIN calls
        BY DEF Outstanding
      <4>. QED
        BY <4>1, <1>0, ElementType, Zenon
    <3>2. ToolNote("ToolCompleted", calls[j], i) \in Event
      BY <1>0, <3>1 DEF Kinds
    <3>3. pc' \in Places /\ pc' \in Parked
      BY <2>2 DEF Places, Parked
    <3>. QED
      BY <1>22, <2>2, <3>2, <3>3, NarrateFacts DEF ToolPanics
  <2>. QED
    BY <1>22, <2>1, <2>2 DEF ToolPanics
<1>23. CASE SendAccepted
  <2>1. /\ pc \in Parked /\ pc' = Resume[pc]
        /\ pc' \in Places /\ pc' \notin Parked
        /\ pc' \notin {"tools", "reporting"} => running' = {}
    BY <1>23, ResumeType DEF SendAccepted, Places, Parked, Suspended, Ended
  <2>2. Len(out) = 1 /\ out[1] \in Event
    <3>1. Len(out) = 1 /\ out \in Seq(Event)
      BY <2>1
    <3>2. 1 \in DOMAIN out
      BY <3>1
    <3>. QED
      BY <3>1, <3>2, ElementType, Zenon
  <2>3. results' \in [CallId -> Nat]
    BY <1>23, <2>2 DEF SendAccepted, Event
  <2>. QED
    BY <1>23, <2>1, <2>2, <2>3 DEF SendAccepted
<1>24. CASE RefusalIgnored
  <2>1. /\ pc' \in Places /\ pc' \notin Parked
        /\ running' = {}
    BY <1>24, ResumeType DEF RefusalIgnored, Places, Parked, Suspended, Ended
  <2>. QED
    BY <1>24, <2>1 DEF RefusalIgnored
<1>25. CASE Receive
  <2>. QED
    BY <1>25 DEF Receive
<1>26. CASE Cancel
  BY <1>26 DEF Cancel
<1>27. CASE DropReceiver
  BY <1>27 DEF DropReceiver
<1>28. CASE DropGuard
  BY <1>28 DEF DropGuard
<1>29. CASE Elapse
  BY <1>29 DEF Elapse
<1>30. CASE TimerCancels
  BY <1>30 DEF TimerCancels
<1>31. CASE TimerStops
  BY <1>31 DEF TimerStops
<1>32. CASE UNCHANGED vars
  BY <1>32 DEF vars
<1>. QED
  BY <1>1, <1>2, <1>3, <1>4, <1>5, <1>6, <1>7, <1>8, <1>9, <1>10, <1>11, <1>12, <1>13, <1>14, <1>15, <1>16, <1>17, <1>18, <1>19, <1>20, <1>21, <1>22, <1>23, <1>24, <1>25, <1>26, <1>27, <1>28, <1>29, <1>30, <1>31, <1>32 DEF Next, LoopStep, EngineStep, ModelStep, ToolStep, TimerStep, Send

(* The type invariant of a run, for every list of calls and every budget. *)
THEOREM TypeCorrect == Spec => []TypeOK
<1>1. TypeInv => TypeOK
  BY DEF TypeInv
<1>. QED
  BY <1>1, InitType, NextType, PTL DEF Spec

-----------------------------------------------------------------------------
(* Archive and terminal event.                                             *)
(* The inductive invariant follows the loop through three phases: nothing  *)
(* archived and nothing terminal on the bus; archived as completed while   *)
(* the memory is maintained; archived and announced.                       *)

NoTerminal == \A i \in 1..Len(notified) : ~IsTerminal(notified[i])
Concluding == {"closing", "closingPlain", "done"}

Phases ==
  /\ pc \in Concluding \cup {"maintaining"} => turns # <<>>
  /\ pc \notin Concluding \cup {"maintaining"} => turns = <<>>
  /\ pc = "maintaining" => turns[1].outcome = "Completed"
  /\ pc \notin Concluding => NoTerminal

RunInv == Phases /\ TerminalIsLast /\ AnnouncedAsArchived

LEMMA NoTerminalIsSafe == NoTerminal => TerminalIsLast /\ AnnouncedAsArchived
  BY DEF NoTerminal, TerminalIsLast, AnnouncedAsArchived

LEMMA WorkEvent ==
  ASSUME notified \in Seq(Event), NoTerminal, NEW e \in Event,
         e.kind \notin Outcomes, Narrate(e)
  PROVE  NoTerminal'
  BY NarrateFacts DEF NoTerminal, IsTerminal

LEMMA TerminalEvent ==
  ASSUME notified \in Seq(Event), NoTerminal, round \in 0..MaxRounds,
         NEW o \in Outcomes, Narrate(Note(o)), turns' # <<>>, turns'[1].outcome = o
  PROVE  TerminalIsLast' /\ AnnouncedAsArchived'
<1>1. Note(o) \in Event /\ Note(o).kind = o
  BY NoteType DEF Kinds
<1>2. /\ Len(notified') = Len(notified) + 1 /\ notified'[Len(notified')] = Note(o)
      /\ \A i \in 1..Len(notified) : notified'[i] = notified[i]
  BY <1>1, NarrateFacts
<1>3. \A i \in 1..Len(notified') : IsTerminal(notified'[i]) => i = Len(notified')
  BY <1>2 DEF NoTerminal, IsTerminal
<1>. QED
  BY <1>1, <1>2, <1>3 DEF TerminalIsLast, AnnouncedAsArchived, IsTerminal

LEMMA InitRun == Init => RunInv
  BY DEF Init, RunInv, Phases, NoTerminal, Concluding, TerminalIsLast, AnnouncedAsArchived

(* Six kinds of steps.  Quiet: neither archives nor narrates. *)
QuietMove ==
  /\ UNCHANGED <<notified, turns, saved>>
  /\ facts' \in {facts, facts \cup {"FrameDegraded"}}
  /\ \/ pc' = pc
     \/ /\ pc \notin Concluding \cup {"maintaining", "panicked"}
        /\ pc' \notin Concluding \cup {"maintaining", "panicked"}
     \/ pc \in {"closing", "closingPlain"} /\ pc' = "done"
     \/ ResultMissing /\ pc \notin Concluding \cup {"maintaining", "panicked"}

(* Narrates work in progress. *)
WorkMove ==
  /\ UNCHANGED <<turns, saved, facts>>
  /\ \E e \in Event : e.kind \notin Outcomes /\ Narrate(e)
  /\ pc \notin Concluding \cup {"maintaining", "panicked"}
  /\ pc' \notin Concluding \cup {"maintaining", "panicked"}

(* Archives the outcome of a run that gives no answer, and narrates it. *)
ConcludingMove ==
  /\ \E o \in Outcomes \ {"Completed"}, m \in Seq(Message) : Record(o, m) /\ Narrate(Note(o))
  /\ pc \notin Concluding \cup {"maintaining", "panicked"}
  /\ pc' \in {"closing", "closingPlain"}

(* Archives the completed turn, and later narrates it. *)
AnswerMove ==
  /\ \E m \in Seq(Message) : Record("Completed", m)
  /\ UNCHANGED notified
  /\ pc \notin Concluding \cup {"maintaining", "panicked"} /\ pc' = "maintaining"

MaintainMove ==
  /\ Narrate(Note("Completed")) /\ UNCHANGED <<turns, saved>>
  /\ \E f \in {"TurnArchived", "MemoryFailed"} : facts' = facts \cup {f}
  /\ pc = "maintaining" /\ pc' = "closing"

(* Archives a cancelled turn because the consumer is gone. *)
RefusalMove ==
  /\ \E m \in Seq(Message) : Record("UserRequested", m)
  /\ UNCHANGED notified
  /\ pc \in {"requesting", "relaying", "responding", "closing"} /\ pc' = "done"

LEMMA StepKinds ==
  ASSUME TypeInv, [Next]_vars
  PROVE  \/ QuietMove \/ WorkMove \/ ConcludingMove
         \/ AnswerMove \/ MaintainMove \/ RefusalMove
<1>. USE DEF loop, archive, signal
<1>0. /\ round \in 0..MaxRounds /\ messages \in Seq(Message)
      /\ CancelReason \in Outcomes \ {"Completed"}
      /\ \A k \in Kinds : Note(k) \in Event /\ Note(k).kind = k
      /\ \A k \in Kinds : NoteIn(k, round + 1) \in Event /\ NoteIn(k, round + 1).kind = k
      /\ \A k \in Kinds, c \in CallId, i \in Nat :
            ToolNote(k, c, i) \in Event /\ ToolNote(k, c, i).kind = k
      /\ calls \in Seq(CallId)
  BY NoteType, ListsAssumption DEF TypeInv, TypeOK, CancelReason, Outcomes
<1>1. CASE \/ Assemble \/ GateOpen \/ ModelStarts \/ IssueCalls \/ SpawnTools
           \/ CollectResults
  BY <1>1 DEF Assemble, GateOpen, ModelStarts, IssueCalls, SpawnTools, CollectResults,
              Collected, Concluding, QuietMove
<1>2. CASE SendAccepted \/ RefusalIgnored
  <2>1. /\ UNCHANGED <<notified, archive>>
        /\ pc \in Parked /\ pc' = Resume[pc]
    BY <1>2 DEF SendAccepted, RefusalIgnored, Parked
  <2>2. CASE pc \in {"closing", "closingPlain"}
    BY <2>1, <2>2, ResumeType DEF Concluding, QuietMove
  <2>3. CASE pc \notin {"closing", "closingPlain"}
    <3>1. /\ pc \notin Concluding \cup {"maintaining", "panicked"}
          /\ pc' \notin Concluding \cup {"maintaining", "panicked"}
      BY <2>1, <2>3, ResumeType DEF Concluding, Parked
    <3>. QED
      BY <2>1, <3>1 DEF QuietMove
  <2>. QED
    BY <2>2, <2>3
<1>3. CASE Start \/ RequestModel \/ ModelDelta \/ \E list \in CallLists : ModelFinishes(list)
  <2>1. PICK k \in {"Started", "Requested", "Delta", "Responded"} :
          Narrate(Note(k)) \/ Narrate(NoteIn(k, round + 1))
    BY <1>3 DEF Start, RequestModel, ModelDelta, ModelFinishes
  <2>2. k \in Kinds /\ k \notin Outcomes
    BY <2>1 DEF Kinds, Outcomes
  <2>3. /\ UNCHANGED archive
        /\ pc \notin Concluding \cup {"maintaining", "panicked"}
        /\ pc' \notin Concluding \cup {"maintaining", "panicked"}
    BY <1>3 DEF Start, RequestModel, ModelDelta, ModelFinishes, Concluding
  <2>. QED
    BY <1>0, <2>1, <2>2, <2>3 DEF WorkMove
<1>4. CASE AnnounceCall
  <2>1. calls[asked + 1] \in CallId
    BY <1>4, <1>0 DEF AnnounceCall, TypeInv, TypeOK
  <2>2. "ToolRequested" \in Kinds /\ "ToolRequested" \notin Outcomes
    BY DEF Kinds, Outcomes
  <2>3. /\ UNCHANGED archive /\ Narrate(ToolNote("ToolRequested", calls[asked + 1], 0))
        /\ pc \notin Concluding \cup {"maintaining", "panicked"}
        /\ pc' \notin Concluding \cup {"maintaining", "panicked"}
    BY <1>4 DEF AnnounceCall, Concluding
  <2>. QED
    BY <1>0, <2>1, <2>2, <2>3 DEF WorkMove
<1>5. ASSUME NEW i \in running, ToolReturns(i) \/ ToolPanics(i)
      PROVE  QuietMove \/ WorkMove
  <2>1. /\ UNCHANGED archive
        /\ pc \notin Concluding \cup {"maintaining", "panicked"}
        /\ pc' \notin Concluding \cup {"maintaining", "panicked"}
    BY <1>5 DEF ToolReturns, ToolPanics, Report, Collecting, Concluding
  <2>2. "ToolCompleted" \in Kinds /\ "ToolCompleted" \notin Outcomes
    BY DEF Kinds, Outcomes
  <2>3. i \in DOMAIN calls /\ i \in Nat
    BY <1>0, ElementType DEF TypeInv, TypeOK
  <2>4. ASSUME NEW j \in DOMAIN calls, Narrate(ToolNote("ToolCompleted", calls[j], i))
        PROVE  WorkMove
    <3>1. calls[j] \in CallId
      BY <1>0, ElementType, Zenon
    <3>. QED
      BY <1>0, <2>1, <2>2, <2>3, <2>4, <3>1 DEF WorkMove
  <2>5. CASE UNCHANGED <<pc, out, notified>>
    BY <2>1, <2>5 DEF QuietMove
  <2>6. \/ \E j \in DOMAIN calls : Narrate(ToolNote("ToolCompleted", calls[j], i))
        \/ UNCHANGED <<pc, out, notified>>
    BY <1>5, <2>3 DEF ToolReturns, ToolPanics, Report, Outstanding
  <2>. QED
    BY <2>4, <2>5, <2>6
<1>6. CASE ObserveCancel \/ ModelFails \/ RefusalCancelsTools \/ OutOfRounds
  <2>1. PICK o \in {CancelReason, "ModelFailed", "UserRequested", "MaxRounds"} : Conclude(o)
    BY <1>6 DEF ObserveCancel, ModelFails, RefusalCancelsTools, OutOfRounds
  <2>2. o \in Outcomes \ {"Completed"}
    BY <1>0, <2>1 DEF Outcomes
  <2>3. pc \notin Concluding \cup {"maintaining", "panicked"}
    BY <1>6 DEF ObserveCancel, ModelFails, RefusalCancelsTools, OutOfRounds, Suspended, Concluding
  <2>. QED
    BY <1>0, <2>1, <2>2, <2>3 DEF Conclude, ConcludingMove
<1>7. CASE GateCancelled
  <2>1. pc \notin Concluding \cup {"maintaining", "panicked"} /\ pc' = "closingPlain"
    BY <1>7 DEF GateCancelled, Concluding
  <2>2. <<>> \in Seq(Message)
    OBVIOUS
  <2>. QED
    BY <1>0, <1>7, <2>1, <2>2 DEF GateCancelled, ConcludingMove
<1>8. CASE ResultMissing
  BY <1>8 DEF ResultMissing, Collected, Concluding, QuietMove
<1>9. CASE Answer
  <2>1. messages' \in Seq(Message)
    BY <1>9, <1>0, ListsAssumption DEF Answer, Assistant, Message
  <2>. QED
    BY <1>9, <2>1 DEF Answer, AnswerMove, Concluding
<1>10. CASE Maintain
  BY <1>10 DEF Maintain, MaintainMove
<1>11. CASE RefusalEndsRun
  BY <1>0, <1>11 DEF RefusalEndsRun, RefusalMove
<1>12. CASE \/ Receive \/ Cancel \/ DropReceiver \/ DropGuard \/ TimerStep
            \/ UNCHANGED vars
  BY <1>12 DEF Receive, Cancel, DropReceiver, DropGuard, TimerStep, Elapse,
               TimerCancels, TimerStops, vars, QuietMove
<1>. QED
  BY <1>1, <1>2, <1>3, <1>4, <1>5, <1>6, <1>7, <1>8, <1>9, <1>10, <1>11, <1>12
  DEF Next, LoopStep, EngineStep, ModelStep, ToolStep, Send

(* What each kind of step does to the archive and to the bus log. *)
LEMMA QuietStep ==
  ASSUME RunInv, QuietMove
  PROVE  RunInv'
<1>1. NoTerminal => NoTerminal'
  BY DEF NoTerminal, IsTerminal, QuietMove
<1>2. Phases'
  BY <1>1 DEF RunInv, Phases, Concluding, QuietMove, ResultMissing
<1>3. TerminalIsLast'
  BY DEF RunInv, TerminalIsLast, IsTerminal, QuietMove
<1>4. AnnouncedAsArchived'
  BY <1>3 DEF RunInv, AnnouncedAsArchived, IsTerminal, QuietMove
<1>. QED
  BY <1>2, <1>3, <1>4 DEF RunInv

LEMMA WorkStep ==
  ASSUME TypeInv, RunInv, WorkMove
  PROVE  RunInv' /\ NoTerminal'
<1>1. NoTerminal'
  BY WorkEvent DEF WorkMove, RunInv, Phases, TypeInv, TypeOK
<1>2. NoTerminal' => TerminalIsLast' /\ AnnouncedAsArchived'
  BY NoTerminalIsSafe DEF NoTerminal, TerminalIsLast, AnnouncedAsArchived
<1>. QED
  BY <1>1, <1>2 DEF WorkMove, RunInv, Phases

LEMMA ConcludingStep ==
  ASSUME TypeInv, RunInv, ConcludingMove
  PROVE  /\ RunInv'
         /\ \E o \in Outcomes : /\ turns' # <<>> /\ turns'[1].outcome = o
                                /\ notified' # <<>> /\ notified'[Len(notified')].kind = o
<1>1. PICK o \in Outcomes, m \in Seq(Message) : Record(o, m) /\ Narrate(Note(o))
  BY DEF ConcludingMove
<1>2. turns' # <<>> /\ turns'[1].outcome = o
  BY <1>1, RecordFacts DEF ConcludingMove, RunInv, Phases, TypeInv, TypeOK
<1>3. TerminalIsLast' /\ AnnouncedAsArchived'
  BY <1>1, <1>2, TerminalEvent DEF ConcludingMove, RunInv, Phases, TypeInv, TypeOK, Concluding
<1>4. Note(o) \in Event /\ Note(o).kind = o
  BY NoteType DEF Kinds, TypeInv, TypeOK
<1>5. notified' # <<>> /\ notified'[Len(notified')].kind = o
  BY <1>1, <1>4, NarrateFacts, SMTT(30) DEF TypeInv, TypeOK
<1>. QED
  BY <1>2, <1>3, <1>5 DEF ConcludingMove, RunInv, Phases, Concluding

LEMMA AnswerStep ==
  ASSUME TypeInv, RunInv, AnswerMove
  PROVE  RunInv' /\ NoTerminal' /\ turns' # <<>> /\ turns'[1].outcome = "Completed"
<1>1. turns = <<>> /\ NoTerminal
  BY DEF AnswerMove, RunInv, Phases, Concluding
<1>2. turns' # <<>> /\ turns'[1].outcome = "Completed"
  BY <1>1, RecordFacts DEF AnswerMove, TypeInv, TypeOK, Outcomes
<1>3. NoTerminal'
  BY <1>1 DEF AnswerMove, NoTerminal, IsTerminal
<1>4. NoTerminal' => TerminalIsLast' /\ AnnouncedAsArchived'
  BY NoTerminalIsSafe DEF NoTerminal, TerminalIsLast, AnnouncedAsArchived
<1>. QED
  BY <1>2, <1>3, <1>4 DEF AnswerMove, RunInv, Phases, Concluding

LEMMA MaintainStep ==
  ASSUME TypeInv, RunInv, MaintainMove
  PROVE  RunInv' /\ notified' # <<>> /\ notified'[Len(notified')].kind = "Completed"
<1>1. NoTerminal /\ turns' # <<>> /\ turns'[1].outcome = "Completed"
  BY DEF MaintainMove, RunInv, Phases, Concluding
<1>2. TerminalIsLast' /\ AnnouncedAsArchived'
  BY <1>1, TerminalEvent DEF MaintainMove, TypeInv, TypeOK, Outcomes
<1>3. Note("Completed") \in Event /\ Note("Completed").kind = "Completed"
  BY NoteType DEF Kinds, Outcomes, TypeInv, TypeOK
<1>4. notified' # <<>> /\ notified'[Len(notified')].kind = "Completed"
  BY <1>3, NarrateFacts, SMTT(30) DEF MaintainMove, TypeInv, TypeOK
<1>. QED
  BY <1>1, <1>2, <1>4 DEF MaintainMove, RunInv, Phases, Concluding

LEMMA RefusalStep ==
  ASSUME TypeInv, RunInv, RefusalMove
  PROVE  /\ RunInv' /\ turns' # <<>>
         /\ turns # <<>> => turns'[1] = turns[1]
         /\ turns = <<>> => turns'[1].outcome = "UserRequested"
<1>1. /\ turns' # <<>>
      /\ turns # <<>> => turns'[1] = turns[1]
      /\ turns = <<>> => turns'[1].outcome = "UserRequested"
  BY RecordFacts DEF RefusalMove, TypeInv, TypeOK, Outcomes
<1>2. TerminalIsLast'
  BY DEF RefusalMove, RunInv, TerminalIsLast, IsTerminal
<1>3. AnnouncedAsArchived'
  BY <1>1, <1>2 DEF RefusalMove, RunInv, AnnouncedAsArchived, IsTerminal
<1>. QED
  BY <1>1, <1>2, <1>3 DEF RefusalMove, RunInv, Phases, Concluding

LEMMA NextRun == TypeInv /\ RunInv /\ [Next]_vars => RunInv'
  BY StepKinds, QuietStep, WorkStep, ConcludingStep, AnswerStep, MaintainStep, RefusalStep

(* Whichever of its exits a run takes, a terminal event is the last thing  *)
(* the bus hears from the loop.                                            *)
THEOREM TerminalEventIsLast == Spec => []TerminalIsLast
<1>1. RunInv => TerminalIsLast
  BY DEF RunInv
<1>. QED
  BY <1>1, InitType, NextType, InitRun, NextRun, PTL DEF Spec

(* The announced outcome is the archived one, and was archived first. *)
THEOREM ArchiveBeforeAnnouncement == Spec => []AnnouncedAsArchived
<1>1. RunInv => AnnouncedAsArchived
  BY DEF RunInv
<1>. QED
  BY <1>1, InitType, NextType, InitRun, NextRun, PTL DEF Spec

-----------------------------------------------------------------------------
(* What feeds the memory.  The inductive invariant adds to the phases what *)
(* the facts say of the archive: they only grow, the maintenance adds its  *)
(* own while the run is settled as completed, and only then is completion  *)
(* narrated.                                                               *)

Maintained == {"TurnArchived", "MemoryFailed"}

FactsInv ==
  /\ saved < Len(turns) => "ArchiveFailed" \in facts
  /\ facts \cap Maintained # {} => turns # <<>> /\ turns[1].outcome = "Completed"
  /\ \A i \in 1..Len(notified) :
        notified[i].kind = "Completed" => facts \cap Maintained # {}

LEMMA InitFacts == Init => FactsInv
  BY DEF Init, FactsInv, Maintained

(* The record! macro either saves every turn or reports that it did not. *)
LEMMA RecordReports ==
  ASSUME TypeInv, FactsInv, NEW o \in Outcomes, NEW m \in Seq(Message), Record(o, m)
  PROVE  /\ saved' < Len(turns') => "ArchiveFailed" \in facts'
         /\ facts' \cap Maintained = facts \cap Maintained
         /\ turns' # <<>>
         /\ turns # <<>> => turns'[1] = turns[1]
<1>1. /\ Len(turns') = Len(turns) + 1 /\ saved' \in 0..Len(turns')
      /\ turns # <<>> => turns'[1] = turns[1]
      /\ turns' # <<>>
  BY RecordFacts DEF TypeInv, TypeOK
<1>. QED
  BY <1>1, SMTT(30) DEF Record, Maintained, TypeInv, TypeOK

LEMMA NextFacts == TypeInv /\ RunInv /\ FactsInv /\ [Next]_vars => FactsInv'
<1>. SUFFICES ASSUME TypeInv, RunInv, FactsInv, [Next]_vars
              PROVE  FactsInv'
  OBVIOUS
<1>0. /\ notified \in Seq(Event) /\ round \in 0..MaxRounds
      /\ turns \in Seq(Turn) /\ saved \in 0..Len(turns)
  BY DEF TypeInv, TypeOK
<1>1. CASE QuietMove
  BY <1>1 DEF QuietMove, FactsInv, Maintained
<1>2. CASE WorkMove
  <2>1. PICK e \in Event : e.kind \notin Outcomes /\ Narrate(e)
    BY <1>2 DEF WorkMove
  <2>2. \A i \in 1..Len(notified') :
           notified'[i].kind = "Completed" => i \in 1..Len(notified) /\ notified'[i] = notified[i]
    BY <1>0, <2>1, NarrateFacts DEF Outcomes
  <2>. QED
    BY <1>2, <2>2 DEF WorkMove, FactsInv
<1>3. CASE ConcludingMove
  <2>1. PICK o \in Outcomes \ {"Completed"}, m \in Seq(Message) : Record(o, m) /\ Narrate(Note(o))
    BY <1>3 DEF ConcludingMove
  <2>2. Note(o) \in Event /\ Note(o).kind = o
    BY <1>0, NoteType DEF Kinds
  <2>3. \A i \in 1..Len(notified') :
           notified'[i].kind = "Completed" => i \in 1..Len(notified) /\ notified'[i] = notified[i]
    BY <1>0, <2>1, <2>2, NarrateFacts, SMTT(30)
  <2>4. turns = <<>>
    BY <1>3 DEF ConcludingMove, RunInv, Phases
  <2>5. facts \cap Maintained = {}
    BY <2>4 DEF FactsInv
  <2>. QED
    BY <2>1, <2>3, <2>5, RecordReports DEF FactsInv
<1>4. CASE AnswerMove
  <2>1. PICK m \in Seq(Message) : Record("Completed", m)
    BY <1>4 DEF AnswerMove
  <2>2. turns = <<>> /\ UNCHANGED notified
    BY <1>4 DEF AnswerMove, RunInv, Phases, Concluding
  <2>3. facts \cap Maintained = {}
    BY <2>2 DEF FactsInv
  <2>. QED
    BY <2>1, <2>2, <2>3, RecordReports DEF FactsInv, Outcomes
<1>5. CASE MaintainMove
  <2>1. turns # <<>> /\ turns[1].outcome = "Completed"
    BY <1>5 DEF MaintainMove, RunInv, Phases, Concluding
  <2>2. facts' \cap Maintained # {} /\ facts \subseteq facts'
    BY <1>5 DEF MaintainMove, Maintained
  <2>. QED
    BY <1>5, <2>1, <2>2 DEF MaintainMove, FactsInv
<1>6. CASE RefusalMove
  <2>1. PICK m \in Seq(Message) : Record("UserRequested", m)
    BY <1>6 DEF RefusalMove
  <2>. QED
    BY <1>6, <2>1, RecordReports DEF RefusalMove, FactsInv, Outcomes
<1>. QED
  BY <1>1, <1>2, <1>3, <1>4, <1>5, <1>6, StepKinds

(* Only a completed run feeds the memory, it has done so before its        *)
(* terminal event is out, and every run that returned left a turn that is  *)
(* saved or reported as not saved.                                         *)
THEOREM MemoryFedBySuccessOnly == Spec => []OnlySuccessFeedsMemory
<1>1. RunInv /\ FactsInv => OnlySuccessFeedsMemory
  BY DEF RunInv, Phases, Concluding, FactsInv, Maintained, OnlySuccessFeedsMemory,
         NoRunUnrecorded
<1>. QED
  BY <1>1, InitType, NextType, InitRun, NextRun, InitFacts, NextFacts, PTL DEF Spec

(* Every non-empty set of natural numbers has a least element. *)
LEMMA LeastElement ==
  ASSUME NEW T \in SUBSET Nat, T # {}
  PROVE  \E x \in T : \A y \in T : x <= y
<1>. DEFINE Upto(n) == 0..n
            I == {Upto(n) : n \in T}
            F == FiniteSubsetsOf(Nat)
            R == StrictSubsetOrdering(Nat)
<1>1. I \subseteq F
  <2>1. \A n \in T : Upto(n) \in SUBSET Nat /\ IsFiniteSet(Upto(n))
    BY FS_Interval
  <2>. QED
    BY <2>1 DEF FiniteSubsetsOf
<1>2. I # {}
  OBVIOUS
<1>3. IsWellFoundedOn(R, F)
  BY FS_StrictSubsetOrderingWellFounded
<1>4. PICK b \in I : \A c \in I : <<c, b>> \notin R
  <2>. HIDE DEF I, F, R
  <2>. QED
    BY <1>1, <1>2, <1>3, WFMin
<1>5. PICK x \in T : b = Upto(x)
  OBVIOUS
<1>6. ASSUME NEW y \in T, y < x PROVE FALSE
  <2>0. x \in Nat /\ y \in Nat
    OBVIOUS
  <2>1. Upto(y) \in I /\ Upto(y) \in SUBSET Nat /\ b \in SUBSET Nat
    <3>1. Upto(y) \in I
      OBVIOUS
    <3>2. 0..x \subseteq Nat /\ 0..y \subseteq Nat
      BY <2>0
    <3>. QED
      BY <1>5, <3>1, <3>2
  <2>2. Upto(y) \subseteq b /\ x \in b /\ x \notin Upto(y)
    <3>1. 0..y \subseteq 0..x /\ x \in 0..x /\ x \notin 0..y
      BY <1>6, <2>0
    <3>. QED
      BY <1>5, <3>1
  <2>3. <<Upto(y), b>> \in R
    BY <2>1, <2>2, Zenon DEF StrictSubsetOrdering
  <2>. QED
    BY <2>1, <2>3, <1>4
<1>. QED
  BY <1>6

(* Induction, stated over sets of numbers. *)
LEMMA SetInduction ==
  ASSUME NEW T \in SUBSET Nat, 0 \in T, \A n \in T : n + 1 \in T
  PROVE  T = Nat
<1>1. SUFFICES ASSUME Nat \ T # {} PROVE FALSE
  OBVIOUS
<1>2. PICK x \in Nat \ T : \A y \in Nat \ T : x <= y
  BY <1>1, LeastElement, Zenon
<1>. QED
  BY <1>2, x - 1 \in Nat, x - 1 \in T, (x - 1) + 1 = x

-----------------------------------------------------------------------------
(* The narrative of a sequence of events is well defined *)

Streams   == Seq(Event)
UpTo(n)   == {s \in Streams : Len(s) <= n}
Front(s)  == SubSeq(s, 1, Len(s) - 1)
Last(s)   == s[Len(s)]

(* One step of the recursion, over any function f. *)
Kept(f, s) == IF s = <<>> THEN <<>>
              ELSE IF OnFace(Last(s)) THEN Append(f[Front(s)], Last(s))
              ELSE f[Front(s)]

Solves(f, n) == f \in [UpTo(n) -> Streams] /\ \A s \in UpTo(n) : f[s] = Kept(f, s)

LEMMA FrontType ==
  ASSUME NEW s \in Streams, s # <<>>
  PROVE  Front(s) \in Streams /\ Len(Front(s)) = Len(s) - 1 /\ Last(s) \in Event
         /\ Len(s) \in Nat \ {0} /\ s = Append(Front(s), Last(s))
<1>1. Len(s) \in Nat \ {0} /\ Last(s) \in Event
  BY DEF Streams, Last
<1>2. Front(s) \in Streams /\ Len(Front(s)) = Len(s) - 1
      /\ \A i \in 1..(Len(s) - 1) : Front(s)[i] = s[i]
  BY <1>1, SubSeqProperties, SMTT(30) DEF Streams, Front
<1>3. Append(Front(s), Last(s)) \in Streams /\ Len(Append(Front(s), Last(s))) = Len(s)
      /\ \A i \in 1..Len(s) : Append(Front(s), Last(s))[i] = s[i]
  BY <1>1, <1>2, AppendProperties DEF Streams, Last
<1>. QED
  BY <1>1, <1>2, <1>3, SeqEqual DEF Streams

LEMMA FrontAppend ==
  ASSUME NEW s \in Streams, NEW e \in Event
  PROVE  /\ Append(s, e) \in Streams /\ Append(s, e) # <<>>
         /\ Front(Append(s, e)) = s /\ Last(Append(s, e)) = e
<1>. DEFINE t == Append(s, e)
<1>1. /\ t \in Streams /\ Len(t) = Len(s) + 1 /\ t[Len(s) + 1] = e
      /\ \A i \in 1..Len(s) : t[i] = s[i]
  BY AppendProperties DEF Streams
<1>. HIDE DEF t
<1>2. t # <<>> /\ Last(t) = e
  BY <1>1 DEF Last, Streams
<1>3. Front(t) \in Streams /\ Len(Front(t)) = Len(s) /\ \A i \in 1..Len(s) : Front(t)[i] = s[i]
  BY <1>1 DEF Front, Streams
<1>4. Front(t) = s
  BY <1>3, SeqEqual DEF Streams
<1>. QED
  BY <1>1, <1>2, <1>4 DEF t

LEMMA ShorterFront ==
  ASSUME NEW n \in Nat, NEW s \in UpTo(n), s # <<>>
  PROVE  /\ s \in Streams /\ Front(s) \in Streams /\ Len(s) \in 1..n
         /\ Len(Front(s)) = Len(s) - 1 /\ Front(s) \in UpTo(n)
         /\ \A m \in Nat : n = m + 1 => Front(s) \in UpTo(m)
<1>1. s \in Streams /\ Len(s) <= n
  BY DEF UpTo
<1>2. Front(s) \in Streams /\ Len(Front(s)) = Len(s) - 1 /\ Len(s) \in Nat \ {0}
  BY <1>1, FrontType
<1>. QED
  BY <1>1, <1>2 DEF UpTo

LEMMA KeptType ==
  ASSUME NEW s \in Streams, NEW f, s # <<>> => f[Front(s)] \in Streams
  PROVE  Kept(f, s) \in Streams
<1>1. CASE s = <<>>
  BY <1>1 DEF Kept, Streams
<1>2. CASE s # <<>> /\ OnFace(Last(s))
  <2>1. Last(s) \in Event
    BY <1>2, FrontType
  <2>. QED
    BY <1>2, <2>1, AppendProperties DEF Kept, Streams
<1>3. CASE s # <<>> /\ ~OnFace(Last(s))
  BY <1>3 DEF Kept
<1>. QED
  BY <1>1, <1>2, <1>3

LEMMA SolutionsExist == \A n \in Nat : \E f : Solves(f, n)
<1>. DEFINE T == {n \in Nat : \E f : Solves(f, n)}
<1>1. 0 \in T
  <2>1. \A s \in UpTo(0) : s = <<>>
    BY DEF UpTo, Streams
  <2>2. Solves([s \in UpTo(0) |-> <<>>], 0)
    BY <2>1 DEF Solves, Kept, Streams
  <2>. QED
    BY <2>2
<1>2. ASSUME NEW n \in T PROVE n + 1 \in T
  <2>1. PICK f : Solves(f, n)
    OBVIOUS
  <2>. DEFINE g == [s \in UpTo(n + 1) |-> Kept(f, s)]
  <2>2. ASSUME NEW s \in UpTo(n + 1), s # <<>> PROVE Front(s) \in UpTo(n)
    BY <2>2, ShorterFront
  <2>3. g \in [UpTo(n + 1) -> Streams]
    <3>1. ASSUME NEW s \in UpTo(n + 1) PROVE Kept(f, s) \in Streams
      <4>1. s \in Streams
        BY DEF UpTo
      <4>2. s # <<>> => f[Front(s)] \in Streams
        BY <2>1, <2>2 DEF Solves
      <4>. QED
        BY <4>1, <4>2, KeptType
    <3>. QED
      BY <3>1
  <2>4. \A s \in UpTo(n) : s \in UpTo(n + 1) /\ g[s] = f[s]
    BY <2>1 DEF Solves, UpTo, Streams
  <2>5. ASSUME NEW s \in UpTo(n + 1) PROVE g[s] = Kept(g, s)
    <3>1. s # <<>> => g[Front(s)] = f[Front(s)]
      BY <2>2, <2>4
    <3>2. g[s] = Kept(f, s)
      OBVIOUS
    <3>. HIDE DEF g
    <3>. QED
      BY <3>1, <3>2 DEF Kept
  <2>. HIDE DEF g
  <2>6. Solves(g, n + 1)
    BY <2>3, <2>5 DEF Solves
  <2>. QED
    BY <2>6
<1>. HIDE DEF T
<1>3. T \in SUBSET Nat
  BY DEF T
<1>4. T = Nat
  BY <1>1, <1>2, <1>3, SetInduction
<1>. QED
  BY <1>4 DEF T

LEMMA SolutionsAgree ==
  ASSUME NEW m \in Nat, NEW n \in Nat, NEW f, NEW g, Solves(f, m), Solves(g, n),
         NEW s \in UpTo(m), s \in UpTo(n)
  PROVE  f[s] = g[s]
<1>. DEFINE T == {k \in Nat : \A p \in Streams : Len(p) = k /\ p \in UpTo(m) /\ p \in UpTo(n) => f[p] = g[p]}
<1>1. 0 \in T
  <2>1. ASSUME NEW p \in Streams, Len(p) = 0, p \in UpTo(m), p \in UpTo(n) PROVE f[p] = g[p]
    <3>1. p = <<>>
      BY <2>1 DEF Streams
    <3>. QED
      BY <2>1, <3>1 DEF Solves, Kept
  <2>. QED
    BY <2>1
<1>2. ASSUME NEW k \in T PROVE k + 1 \in T
  <2>1. ASSUME NEW p \in Streams, Len(p) = k + 1, p \in UpTo(m), p \in UpTo(n)
        PROVE  f[p] = g[p]
    <3>1. p # <<>>
      BY <2>1
    <3>2. Front(p) \in Streams /\ Len(Front(p)) = k /\ Front(p) \in UpTo(m) /\ Front(p) \in UpTo(n)
      BY <2>1, <3>1, ShorterFront
    <3>3. f[Front(p)] = g[Front(p)]
      BY <3>2
    <3>. QED
      BY <2>1, <3>3 DEF Solves, Kept
  <2>. QED
    BY <2>1
<1>. HIDE DEF T
<1>3. T \in SUBSET Nat
  BY DEF T
<1>4. T = Nat
  BY <1>1, <1>2, <1>3, SetInduction
<1>. QED
  BY <1>4, Len(s) \in Nat DEF T, UpTo, Streams

LEMMA FaceOfDef == \A s \in Streams : FaceOf[s] = Kept(FaceOf, s)
<1>. DEFINE Sol(n) == CHOOSE f : Solves(f, n)
            F == [s \in Streams |-> Sol(Len(s))[s]]
<1>1. ASSUME NEW n \in Nat PROVE Solves(Sol(n), n)
  BY SolutionsExist
<1>. HIDE DEF Sol
<1>2. ASSUME NEW s \in Streams PROVE F[s] = Kept(F, s)
  <2>1. Len(s) \in Nat /\ s \in UpTo(Len(s))
    BY DEF UpTo, Streams
  <2>2. Solves(Sol(Len(s)), Len(s))
    BY <1>1, <2>1
  <2>3. F[s] = Kept(Sol(Len(s)), s)
    BY <2>1, <2>2 DEF Solves
  <2>4. CASE s = <<>>
    BY <2>3, <2>4 DEF Kept
  <2>5. CASE s # <<>>
    <3>1. Front(s) \in Streams /\ Len(Front(s)) \in Nat /\ Front(s) \in UpTo(Len(Front(s)))
          /\ Front(s) \in UpTo(Len(s))
      BY <2>5, FrontType DEF UpTo, Streams
    <3>2. Sol(Len(Front(s)))[Front(s)] = Sol(Len(s))[Front(s)]
      BY <2>1, <2>2, <1>1, <3>1, SolutionsAgree
    <3>3. F[Front(s)] = Sol(Len(s))[Front(s)]
      BY <3>1, <3>2
    <3>. QED
      BY <2>3, <3>3 DEF Kept
  <2>. QED
    BY <2>4, <2>5
<1>3. F = [s \in Streams |-> IF s = <<>> THEN <<>>
             ELSE LET kept == F[SubSeq(s, 1, Len(s) - 1)]
                  IN  IF OnFace(s[Len(s)]) THEN Append(kept, s[Len(s)]) ELSE kept]
  <2>. DEFINE G == [s \in Streams |-> Kept(F, s)]
  <2>1. F = G
    BY <1>2
  <2>. QED
    BY <2>1, Zenon DEF Kept, Front, Last
<1>. HIDE DEF F
<1>4. FaceOf = [s \in Streams |-> IF s = <<>> THEN <<>>
             ELSE LET kept == FaceOf[SubSeq(s, 1, Len(s) - 1)]
                  IN  IF OnFace(s[Len(s)]) THEN Append(kept, s[Len(s)]) ELSE kept]
  BY <1>3, Zenon DEF FaceOf, Streams
<1>. QED
  BY <1>4, Zenon DEF Kept, Front, Last

(* An event joins the narrative it is appended to, or leaves it as it was. *)
LEMMA FaceOfAppend ==
  ASSUME NEW s \in Streams, NEW e \in Event
  PROVE  FaceOf[Append(s, e)] = IF OnFace(e) THEN Append(FaceOf[s], e) ELSE FaceOf[s]
  BY FaceOfDef, FrontAppend DEF Kept

(* The narrative of events is a sequence of them; empty of none. *)
LEMMA FaceOfType ==
  /\ FaceOf[<<>>] = <<>>
  /\ \A s \in Streams : FaceOf[s] \in Streams
<1>1. FaceOf[<<>>] = <<>>
  BY FaceOfDef, <<>> \in Streams DEF Kept, Streams
<1>. DEFINE T == {n \in Nat : \A s \in UpTo(n) : FaceOf[s] \in Streams}
<1>2. 0 \in T
  <2>1. \A s \in UpTo(0) : s = <<>>
    BY DEF UpTo, Streams
  <2>2. \A s \in UpTo(0) : FaceOf[s] = <<>>
    BY <1>1, <2>1, Zenon
  <2>. QED
    BY <2>2, <<>> \in Seq(Event) DEF Streams
<1>3. ASSUME NEW n \in T PROVE n + 1 \in T
  <2>1. ASSUME NEW s \in UpTo(n + 1) PROVE FaceOf[s] \in Streams
    <3>1. s \in Streams /\ (s # <<>> => Front(s) \in UpTo(n))
      BY ShorterFront DEF UpTo
    <3>2. Kept(FaceOf, s) \in Streams
      BY <3>1, KeptType
    <3>. QED
      BY <3>1, <3>2, FaceOfDef
  <2>. QED
    BY <2>1
<1>. HIDE DEF T
<1>4. T = Nat
  BY <1>2, <1>3, SetInduction, T \in SUBSET Nat DEF T
<1>5. \A s \in Streams : Len(s) \in T /\ s \in UpTo(Len(s))
  BY <1>4 DEF UpTo, Streams
<1>. QED
  BY <1>1, <1>5 DEF T

-----------------------------------------------------------------------------
(* The delivery channel.  While the handle lives, what it received, what   *)
(* the channel holds and what `send` holds make up what the bus was told;  *)
(* a loop that concludes does so with a terminal event in hand.            *)

Closing == {"closing", "closingPlain"}

ChannelInv ==
  /\ consumer = "attached" => delivered \o chan \o out = notified
  /\ Len(delivered) <= Len(notified)
  /\ \A i \in 1..Len(delivered) : delivered[i] = notified[i]
  /\ pc \in Closing \/ (pc = "done" /\ consumer = "attached")
       => notified # <<>> /\ IsTerminal(notified[Len(notified)])

LEMMA InitChannel == Init => ChannelInv
  BY DEF Init, ChannelInv, Closing, Event

(* What a step may do to the channel. *)
Offers(e)  == Narrate(e) /\ UNCHANGED <<delivered, chan, consumer>>
Handed     == /\ chan = <<>> /\ chan' = out /\ out' = <<>>
              /\ UNCHANGED <<delivered, consumer, notified>>
Refused    == /\ consumer # "attached" /\ out' = <<>>
              /\ UNCHANGED <<delivered, chan, consumer, notified>>
Received   == /\ consumer = "attached" /\ delivered' = delivered \o chan /\ chan' = <<>>
              /\ UNCHANGED <<out, consumer, notified>>
Detached   == consumer' # "attached" /\ UNCHANGED <<delivered, out, notified>>
Untouched  == UNCHANGED <<delivered, chan, consumer, out, notified>>

LEMMA ChannelSteps ==
  ASSUME TypeInv, [Next]_vars
  PROVE  \/ \E e \in Event : /\ Offers(e) /\ (out = <<>> \/ consumer # "attached")
                             /\ pc' \in Closing => IsTerminal(e)
                             /\ pc' # "done"
         \/ Handed /\ (pc' = "done" => pc \in Closing) /\ pc' \notin Closing
         \/ Refused /\ pc' \notin Closing
         \/ Received /\ pc' = pc
         \/ Detached /\ pc' = pc
         \/ Untouched /\ pc' \notin Closing \cup {"done"}
         \/ Untouched /\ pc' = pc
<1>. USE DEF loop, archive, signal
<1>0. /\ round \in 0..MaxRounds
      /\ CancelReason \in Outcomes
      /\ \A k \in Kinds : Note(k) \in Event /\ Note(k).kind = k
      /\ \A k \in Kinds : NoteIn(k, round + 1) \in Event
      /\ \A k \in Kinds, c \in CallId, i \in Nat : ToolNote(k, c, i) \in Event
      /\ calls \in Seq(CallId)
      /\ pc \notin Parked => out = <<>>
  BY NoteType, ListsAssumption DEF TypeInv, TypeOK, CancelReason, Outcomes
<1>1. CASE Start \/ RequestModel \/ ModelDelta \/ \E list \in CallLists : ModelFinishes(list)
  <2>1. PICK k \in {"Started", "Requested", "Delta", "Responded"} :
          Narrate(Note(k)) \/ Narrate(NoteIn(k, round + 1))
    BY <1>1 DEF Start, RequestModel, ModelDelta, ModelFinishes
  <2>2. /\ UNCHANGED <<delivered, chan, consumer>> /\ out = <<>>
        /\ pc' \notin Closing \cup {"done"}
    BY <1>0, <1>1 DEF Start, RequestModel, ModelDelta, ModelFinishes, Parked, Closing
  <2>3. Note(k) \in Event /\ NoteIn(k, round + 1) \in Event
    BY <1>0, <2>1 DEF Kinds
  <2>. QED
    BY <2>1, <2>2, <2>3 DEF Offers
<1>2. CASE AnnounceCall
  <2>1. calls[asked + 1] \in CallId
    BY <1>2, <1>0 DEF AnnounceCall, TypeInv, TypeOK
  <2>2. ToolNote("ToolRequested", calls[asked + 1], 0) \in Event
    BY <1>0, <2>1 DEF Kinds
  <2>3. /\ UNCHANGED <<delivered, chan, consumer>> /\ out = <<>>
        /\ pc' \notin Closing \cup {"done"}
    BY <1>0, <1>2 DEF AnnounceCall, Parked, Closing
  <2>. QED
    BY <1>2, <2>2, <2>3 DEF AnnounceCall, Offers
<1>3. ASSUME NEW i \in running, ToolReturns(i) \/ ToolPanics(i)
      PROVE  \/ \E e \in Event : Offers(e) /\ out = <<>> /\ pc' \notin Closing \cup {"done"}
             \/ Untouched /\ pc' = pc
  <2>1. /\ UNCHANGED <<delivered, chan, consumer>> /\ out = <<>>
    BY <1>0, <1>3 DEF ToolReturns, ToolPanics, Report, Collecting, Parked
  <2>2. i \in DOMAIN calls /\ i \in Nat
    BY <1>0, ElementType DEF TypeInv, TypeOK
  <2>3. \/ UNCHANGED <<pc, out, notified>>
        \/ \E j \in DOMAIN calls :
             Narrate(ToolNote("ToolCompleted", calls[j], i)) /\ pc' = "reporting"
    BY <1>3, <2>2 DEF ToolReturns, ToolPanics, Report, Outstanding
  <2>4. ASSUME NEW j \in DOMAIN calls PROVE ToolNote("ToolCompleted", calls[j], i) \in Event
    <3>1. calls[j] \in CallId
      BY <1>0, ElementType, Zenon
    <3>. QED
      BY <1>0, <2>2, <3>1 DEF Kinds
  <2>. QED
    BY <2>1, <2>3, <2>4 DEF Offers, Untouched, Closing
<1>4. CASE ObserveCancel \/ ModelFails \/ RefusalCancelsTools \/ GateCancelled
           \/ OutOfRounds \/ Maintain
  <2>1. PICK o \in {CancelReason, "ModelFailed", "UserRequested", "MaxRounds", "Completed"} :
          Narrate(Note(o))
    BY <1>4 DEF ObserveCancel, ModelFails, RefusalCancelsTools, GateCancelled, OutOfRounds,
                Maintain, Conclude
  <2>2. Note(o) \in Event /\ IsTerminal(Note(o))
    BY <1>0, <2>1 DEF Kinds, Outcomes, IsTerminal
  <2>3. /\ UNCHANGED <<delivered, chan, consumer>> /\ pc' # "done"
        /\ out = <<>> \/ consumer # "attached"
    BY <1>0, <1>4 DEF ObserveCancel, ModelFails, RefusalCancelsTools, GateCancelled, OutOfRounds,
                Maintain, Conclude, Suspended, Collected, Parked
  <2>. QED
    BY <2>1, <2>2, <2>3 DEF Offers
<1>5. CASE SendAccepted
  <2>1. Handed /\ pc \in Parked /\ pc' = Resume[pc]
    BY <1>5 DEF SendAccepted, Handed
  <2>. QED
    BY <2>1, ResumeType DEF Closing
<1>6. CASE RefusalIgnored \/ RefusalEndsRun
  <2>1. Refused
    BY <1>6 DEF RefusalIgnored, RefusalEndsRun, Refused
  <2>2. pc' \notin Closing
    BY <1>6, ResumeType DEF RefusalIgnored, RefusalEndsRun, Parked, Closing
  <2>. QED
    BY <2>1, <2>2
<1>7. CASE \/ Assemble \/ GateOpen \/ ModelStarts \/ IssueCalls \/ SpawnTools
           \/ CollectResults \/ ResultMissing \/ Answer
  BY <1>7 DEF Assemble, GateOpen, ModelStarts, IssueCalls, SpawnTools, CollectResults,
              ResultMissing, Answer, Untouched, Closing
<1>8. CASE Receive
  BY <1>8 DEF Receive, Received
<1>9. CASE DropReceiver \/ DropGuard
  BY <1>9 DEF DropReceiver, DropGuard, Detached
<1>10. CASE Cancel \/ TimerStep \/ UNCHANGED vars
  BY <1>10 DEF Cancel, TimerStep, Elapse, TimerCancels, TimerStops, vars, Untouched
<1>. QED
  BY <1>1, <1>2, <1>3, <1>4, <1>5, <1>6, <1>7, <1>8, <1>9, <1>10
  DEF Next, LoopStep, EngineStep, ModelStep, ToolStep, Send, Closing

LEMMA NextChannel == TypeInv /\ ChannelInv /\ [Next]_vars => ChannelInv'
<1>. SUFFICES ASSUME TypeInv, ChannelInv, [Next]_vars PROVE ChannelInv'
  OBVIOUS
<1>0. /\ delivered \in Streams /\ chan \in Streams /\ out \in Streams /\ notified \in Streams
  BY DEF TypeInv, TypeOK, Streams
<1>. HIDE DEF Streams
<1>1. ASSUME NEW e \in Event, Offers(e), out = <<>> \/ consumer # "attached",
             pc' \in Closing => IsTerminal(e), pc' # "done"
      PROVE  ChannelInv'
  <2>1. /\ Len(notified') = Len(notified) + 1 /\ notified'[Len(notified')] = e
        /\ \A i \in 1..Len(notified) : notified'[i] = notified[i]
        /\ notified' = Append(notified, e) /\ out' = <<e>>
    BY <1>0, <1>1, NarrateFacts DEF Offers, Narrate, Streams
  <2>2. Len(delivered) \in Nat /\ Len(notified) \in Nat
    BY <1>0 DEF Streams
  <2>3. CASE consumer = "attached"
    <3>1. delivered \o chan = notified
      <4>1. out = <<>> /\ delivered \o chan \o out = notified
        BY <1>1, <2>3 DEF ChannelInv
      <4>2. delivered \o chan \in Streams
        BY <1>0, ConcatProperties DEF Streams
      <4>3. (delivered \o chan) \o <<>> = delivered \o chan
        BY <4>2, ConcatEmptySeq DEF Streams
      <4>. QED
        BY <4>1, <4>3
    <3>2. (delivered \o chan) \o out' = notified'
      BY <1>0, <2>1, <3>1, AppendIsConcat DEF Streams
    <3>. QED
      BY <1>1, <2>1, <2>2, <2>3, <3>2 DEF ChannelInv, Offers, Closing
  <2>4. CASE consumer # "attached"
    BY <1>1, <2>1, <2>2, <2>4 DEF ChannelInv, Offers, Closing
  <2>. QED
    BY <2>3, <2>4
<1>2. CASE Handed /\ (pc' = "done" => pc \in Closing) /\ pc' \notin Closing
  <2>1. (delivered \o chan) \o out = (delivered \o chan') \o out'
    BY <1>0, <1>2, ConcatEmptySeq, ConcatProperties DEF Handed, Streams
  <2>. QED
    BY <1>2, <2>1 DEF ChannelInv, Handed, Closing, IsTerminal
<1>3. CASE Refused /\ pc' \notin Closing
  BY <1>3 DEF ChannelInv, Refused, Closing, IsTerminal
<1>4. CASE Received /\ pc' = pc
  <2>. DEFINE d == delivered \o chan
  <2>1. /\ d \in Streams /\ d \o out = notified /\ Len(d) \in Nat /\ Len(out) \in Nat
    <3>1. d \in Streams
      BY <1>0, ConcatProperties DEF Streams
    <3>2. d \o out = notified
      BY <1>4 DEF ChannelInv, Received
    <3>. HIDE DEF d
    <3>. QED
      BY <1>0, <3>1, <3>2 DEF Streams
  <2>2. delivered' = d /\ chan' = <<>> /\ UNCHANGED <<out, consumer, notified>>
    BY <1>4 DEF Received
  <2>. HIDE DEF d
  <2>3. (d \o <<>>) \o out = notified
    BY <2>1, ConcatEmptySeq DEF Streams
  <2>4. Len(d) <= Len(notified) /\ \A i \in 1..Len(d) : d[i] = notified[i]
    BY <1>0, <2>1, ConcatProperties DEF Streams
  <2>. QED
    BY <1>4, <2>2, <2>3, <2>4 DEF ChannelInv, Closing, IsTerminal
<1>5. CASE Detached /\ pc' = pc
  BY <1>5 DEF ChannelInv, Detached, Closing, IsTerminal
<1>6. CASE Untouched /\ (pc' \notin Closing \cup {"done"} \/ pc' = pc)
  BY <1>6 DEF ChannelInv, Untouched, Closing, IsTerminal
<1>. QED
  BY ChannelSteps, <1>1, <1>2, <1>3, <1>4, <1>5, <1>6

-----------------------------------------------------------------------------
(* The rounds.  The bus was told of as many as began; before the first one *)
(* nothing of the run is on the product face, and a run that ends before   *)
(* it shows its terminal event only.                                       *)

RequestsIn(s) == Cardinality({i \in DOMAIN s : s[i].kind = "Requested"})

Early == {"spawned", "starting", "assembling", "gate"}
Later == {"requesting", "model", "stream", "relaying", "responding", "responded", "asking",
          "announcing", "tools", "reporting", "maintaining", "panicked"}

RoundsInv ==
  /\ RequestsIn(notified) = round
  /\ pc \in Early => round = 0
  /\ pc \in Later => round # 0
  /\ round = 0 /\ pc \in Early \cup {"round"} => FaceOf[notified] = <<>>
  /\ round = 0 /\ pc \in Closing \cup {"done"} => Len(FaceOf[notified]) = 1

LEMMA RequestsAppend ==
  ASSUME NEW s \in Streams, NEW e \in Event
  PROVE  /\ RequestsIn(s) \in Nat
         /\ RequestsIn(Append(s, e)) = RequestsIn(s) + (IF e.kind = "Requested" THEN 1 ELSE 0)
<1>. DEFINE t == Append(s, e)
            A == {i \in DOMAIN s : s[i].kind = "Requested"}
            B == {i \in DOMAIN t : t[i].kind = "Requested"}
            n == Len(s)
<1>1. /\ t \in Streams /\ Len(t) = n + 1 /\ t[n + 1] = e /\ n \in Nat
      /\ \A i \in 1..n : t[i] = s[i]
      /\ DOMAIN s = 1..n /\ DOMAIN t = 1..(n + 1)
  BY AppendProperties DEF Streams
<1>2. IsFiniteSet(A) /\ Cardinality(A) \in Nat
  <2>1. IsFiniteSet(1..n)
    BY <1>1, FS_Interval
  <2>2. A \subseteq 1..n
    BY <1>1
  <2>. QED
    BY <2>1, <2>2, FS_Subset, FS_CardinalityType
<1>3. n + 1 \notin A
  BY <1>1
<1>4. B = IF e.kind = "Requested" THEN A \cup {n + 1} ELSE A
  BY <1>1
<1>. HIDE DEF A, B, t, n
<1>5. Cardinality(A \cup {n + 1}) = Cardinality(A) + 1
  BY <1>2, <1>3, FS_AddElement
<1>6. Cardinality(B) = Cardinality(A) + (IF e.kind = "Requested" THEN 1 ELSE 0)
  BY <1>2, <1>4, <1>5
<1>. QED
  BY <1>2, <1>6 DEF A, B, t, RequestsIn

LEMMA InitRounds == Init => RoundsInv
<1>. SUFFICES ASSUME Init PROVE RoundsInv
  OBVIOUS
<1>1. {i \in DOMAIN notified : notified[i].kind = "Requested"} = {}
  BY DEF Init
<1>2. RequestsIn(notified) = 0
  BY <1>1, FS_EmptySet DEF RequestsIn
<1>. QED
  BY <1>2, FaceOfType DEF Init, RoundsInv, Early, Later, Closing

(* What a step may do to the rounds. *)
Tells(e) == Narrate(e) /\ UNCHANGED round

LEMMA RoundSteps ==
  ASSUME TypeInv, [Next]_vars
  PROVE  \/ /\ UNCHANGED <<notified, round>>
            /\ \/ pc' = pc \/ {pc, pc'} \subseteq Later
               \/ pc \in Early /\ pc' \in Early \cup {"round"}
               \/ pc \in Later /\ pc' = "round"
               \/ pc \in Later \cup Closing /\ pc' = "done"
         \/ \E e \in Event : Tells(e) /\ e.kind = "Started" /\ {pc, pc'} \subseteq Early
         \/ \E e \in Event : /\ Tells(e) /\ IsTerminal(e)
                             /\ pc \in {"gate", "round"} /\ pc' \in Closing
         \/ \E e \in Event : /\ Tells(e) /\ e.kind # "Requested"
                             /\ pc \in Later /\ pc' \in Later \cup {"closing"}
         \/ \E e \in Event : /\ Narrate(e) /\ e.kind = "Requested" /\ round' = round + 1
                             /\ pc = "round" /\ pc' = "requesting"
<1>. USE DEF loop, archive, signal
<1>0. /\ round \in 0..MaxRounds
      /\ CancelReason \in Outcomes
      /\ \A k \in Kinds : Note(k) \in Event /\ Note(k).kind = k
      /\ \A k \in Kinds : NoteIn(k, round + 1) \in Event /\ NoteIn(k, round + 1).kind = k
      /\ \A k \in Kinds, c \in CallId, i \in Nat :
            ToolNote(k, c, i) \in Event /\ ToolNote(k, c, i).kind = k
      /\ calls \in Seq(CallId)
  BY NoteType, ListsAssumption DEF TypeInv, TypeOK, CancelReason, Outcomes
<1>1. CASE Start
  <2>1. Note("Started") \in Event /\ Note("Started").kind = "Started"
    BY <1>0 DEF Kinds
  <2>. QED
    BY <1>1, <2>1 DEF Start, Tells, Early
<1>2. CASE RequestModel
  <2>. DEFINE e == NoteIn("Requested", round + 1)
  <2>1. e \in Event /\ e.kind = "Requested"
    BY <1>0 DEF Kinds
  <2>. HIDE DEF e
  <2>2. Narrate(e) /\ round' = round + 1 /\ pc = "round" /\ pc' = "requesting"
    BY <1>2 DEF RequestModel, e
  <2>. QED
    BY <2>1, <2>2
<1>3. CASE GateCancelled
  <2>1. Note(CancelReason) \in Event /\ IsTerminal(Note(CancelReason))
    BY <1>0 DEF Kinds, IsTerminal
  <2>. QED
    BY <1>3, <2>1 DEF GateCancelled, Tells, Closing
<1>4. CASE ModelDelta \/ \E list \in CallLists : ModelFinishes(list)
  <2>1. PICK k \in {"Delta", "Responded"} : Narrate(Note(k))
    BY <1>4 DEF ModelDelta, ModelFinishes
  <2>2. Note(k) \in Event /\ Note(k).kind # "Requested"
    BY <1>0, <2>1 DEF Kinds
  <2>. QED
    BY <1>4, <2>1, <2>2 DEF ModelDelta, ModelFinishes, Tells, Later
<1>5. CASE AnnounceCall
  <2>1. calls[asked + 1] \in CallId
    BY <1>5, <1>0 DEF AnnounceCall, TypeInv, TypeOK
  <2>. DEFINE e == ToolNote("ToolRequested", calls[asked + 1], 0)
  <2>2. e \in Event /\ e.kind # "Requested"
    BY <1>0, <2>1 DEF Kinds
  <2>. HIDE DEF e
  <2>3. Tells(e) /\ {pc, pc'} \subseteq Later
    BY <1>5 DEF AnnounceCall, Tells, Later, e
  <2>. QED
    BY <2>2, <2>3
<1>6. ASSUME NEW i \in running, ToolReturns(i) \/ ToolPanics(i)
      PROVE  \/ UNCHANGED <<pc, notified, round>>
             \/ \E e \in Event : Tells(e) /\ e.kind # "Requested" /\ {pc, pc'} \subseteq Later
  <2>1. i \in DOMAIN calls /\ i \in Nat
    BY <1>0, ElementType DEF TypeInv, TypeOK
  <2>2. /\ UNCHANGED round /\ pc = "tools"
        /\ \/ UNCHANGED <<pc, notified>>
           \/ \E j \in DOMAIN calls :
                Narrate(ToolNote("ToolCompleted", calls[j], i)) /\ pc' = "reporting"
    BY <1>6, <2>1 DEF ToolReturns, ToolPanics, Report, Outstanding, Collecting
  <2>3. ASSUME NEW j \in DOMAIN calls
        PROVE  /\ ToolNote("ToolCompleted", calls[j], i) \in Event
               /\ ToolNote("ToolCompleted", calls[j], i).kind # "Requested"
    <3>1. calls[j] \in CallId
      BY <1>0, ElementType, Zenon
    <3>. QED
      BY <1>0, <2>1, <3>1 DEF Kinds
  <2>. QED
    BY <2>2, <2>3 DEF Tells, Later
<1>7. CASE ObserveCancel \/ ModelFails \/ RefusalCancelsTools \/ Maintain
  <2>1. PICK o \in {CancelReason, "ModelFailed", "UserRequested", "Completed"} : Narrate(Note(o))
    BY <1>7 DEF ObserveCancel, ModelFails, RefusalCancelsTools, Maintain, Conclude
  <2>2. Note(o) \in Event /\ Note(o).kind # "Requested"
    BY <1>0, <2>1 DEF Kinds, Outcomes
  <2>3. UNCHANGED round /\ pc \in Later /\ pc' = "closing"
    BY <1>7 DEF ObserveCancel, ModelFails, RefusalCancelsTools, Maintain,
                Conclude, Suspended, Later
  <2>. QED
    BY <2>1, <2>2, <2>3 DEF Tells
<1>8. CASE SendAccepted \/ RefusalIgnored
  <2>1. UNCHANGED <<notified, round>> /\ pc \in Parked /\ pc' = Resume[pc]
    BY <1>8 DEF SendAccepted, RefusalIgnored, Parked
  <2>. QED
    BY <2>1 DEF Resume, Parked, Early, Later, Closing
<1>9. CASE RefusalEndsRun
  BY <1>9 DEF RefusalEndsRun, Later, Closing
<1>10. CASE \/ Assemble \/ ModelStarts \/ IssueCalls \/ SpawnTools \/ ResultMissing \/ Answer
  BY <1>10 DEF Assemble, ModelStarts, IssueCalls, SpawnTools, ResultMissing, Answer, Collected,
               Early, Later
<1>11. CASE GateOpen
  BY <1>11 DEF GateOpen, Early
<1>12. CASE CollectResults
  BY <1>12 DEF CollectResults, Collected, Later
<1>13. CASE OutOfRounds
  <2>1. Note("MaxRounds") \in Event /\ IsTerminal(Note("MaxRounds"))
    BY <1>0 DEF Kinds, Outcomes, IsTerminal
  <2>. QED
    BY <1>13, <2>1 DEF OutOfRounds, Conclude, Tells, Closing
<1>14. CASE \/ Receive \/ Cancel \/ DropReceiver \/ DropGuard \/ TimerStep
            \/ UNCHANGED vars
  BY <1>14 DEF Receive, Cancel, DropReceiver, DropGuard, TimerStep, Elapse,
               TimerCancels, TimerStops, vars
<1>. QED
  BY <1>1, <1>2, <1>3, <1>4, <1>5, <1>6, <1>7, <1>8, <1>9, <1>10, <1>11, <1>12, <1>13, <1>14
  DEF Next, LoopStep, EngineStep, ModelStep, ToolStep, Send

LEMMA NextRounds == TypeInv /\ RoundsInv /\ [Next]_vars => RoundsInv'
<1>. SUFFICES ASSUME TypeInv, RoundsInv, [Next]_vars PROVE RoundsInv'
  OBVIOUS
<1>0. notified \in Streams /\ round \in Nat
  BY RoundsAssumption DEF TypeInv, TypeOK, Streams
<1>1. ASSUME NEW e \in Event, Narrate(e)
      PROVE  /\ RequestsIn(notified') = RequestsIn(notified) + (IF e.kind = "Requested" THEN 1 ELSE 0)
             /\ FaceOf[notified'] = IF OnFace(e) THEN Append(FaceOf[notified], e) ELSE FaceOf[notified]
  BY <1>0, <1>1, RequestsAppend, FaceOfAppend DEF Narrate
<1>2. (RequestsIn(notified))' = RequestsIn(notified') /\ RequestsIn(notified) = round
  BY DEF RequestsIn, RoundsInv
<1>3. CASE /\ UNCHANGED <<notified, round>>
           /\ \/ pc' = pc \/ {pc, pc'} \subseteq Later
              \/ pc \in Early /\ pc' \in Early \cup {"round"}
              \/ pc \in Later /\ pc' = "round"
              \/ pc \in Later \cup Closing /\ pc' = "done"
  <2>1. RequestsIn(notified') = RequestsIn(notified) /\ round' = round
    BY <1>3
  <2>2. FaceOf[notified'] = FaceOf[notified]
    BY <1>3
  <2>. QED
    BY <1>0, <1>2, <1>3, <2>1, <2>2 DEF RoundsInv, Early, Later, Closing
<1>4. ASSUME NEW e \in Event, Tells(e), e.kind = "Started", {pc, pc'} \subseteq Early
      PROVE  RoundsInv'
  <2>1. RequestsIn(notified') = RequestsIn(notified) /\ FaceOf[notified'] = FaceOf[notified]
        /\ round' = round
    BY <1>0, <1>1, <1>2, <1>4 DEF OnFace, Tells
  <2>. QED
    BY <1>2, <1>4, <2>1 DEF RoundsInv, Early, Later, Closing
<1>5. ASSUME NEW e \in Event, Tells(e), IsTerminal(e), pc \in {"gate", "round"}, pc' \in Closing
      PROVE  RoundsInv'
  <2>1. RequestsIn(notified') = round /\ round' = round
    BY <1>0, <1>1, <1>2, <1>5 DEF IsTerminal, Outcomes, Tells
  <2>2. round = 0 => FaceOf[notified'] = Append(<<>>, e)
    BY <1>1, <1>5 DEF IsTerminal, Outcomes, OnFace, RoundsInv, Early, Tells
  <2>3. round = 0 => Len(FaceOf[notified']) = 1
    BY <2>2
  <2>. QED
    BY <1>2, <1>5, <2>1, <2>3 DEF RoundsInv, Early, Later, Closing
<1>6. ASSUME NEW e \in Event, Tells(e), e.kind # "Requested",
             pc \in Later, pc' \in Later \cup {"closing"}
      PROVE  RoundsInv'
  <2>1. RequestsIn(notified') = round /\ round' = round /\ round # 0
    BY <1>0, <1>1, <1>2, <1>6 DEF RoundsInv, Tells
  <2>. QED
    BY <1>2, <1>6, <2>1 DEF RoundsInv, Early, Later
<1>7. ASSUME NEW e \in Event, Narrate(e), e.kind = "Requested", round' = round + 1,
             pc = "round", pc' = "requesting"
      PROVE  RoundsInv'
  <2>1. RequestsIn(notified') = round' /\ round' # 0
    BY <1>0, <1>1, <1>2, <1>7
  <2>. QED
    BY <1>2, <1>7, <2>1 DEF RoundsInv, Early, Later
<1>. QED
  BY RoundSteps, <1>3, <1>4, <1>5, <1>6, <1>7

(* Whatever is dropped, refused or cancelled: what the handle received is  *)
(* what the bus was told, a living handle misses nothing, the narrative of *)
(* a run that returned ends with a terminal event, and the rounds a handle *)
(* counts are the rounds that began.                                       *)
THEOREM FaceFollowsBus == Spec => []FaceAgreesWithBus
<1>1. ASSUME TypeInv, ChannelInv, RoundsInv PROVE FaceAgreesWithBus
  <2>1. ASSUME pc = "done", consumer = "attached", chan = <<>>
        PROVE  /\ Narrative # <<>> /\ IsTerminal(Narrative[Len(Narrative)])
               /\ RoundsSeen = round /\ (round = 0 => Len(Narrative) = 1)
    <3>1. out = <<>> /\ delivered \in Seq(Event)
      BY <1>1, <2>1 DEF TypeInv, TypeOK, Parked
    <3>2. delivered = notified
      BY <1>1, <2>1, <3>1, ConcatEmptySeq DEF ChannelInv
    <3>3. notified \in Streams /\ notified # <<>> /\ IsTerminal(notified[Len(notified)])
      BY <1>1, <2>1, <3>1, <3>2 DEF ChannelInv, Streams
    <3>4. OnFace(Last(notified)) /\ Last(notified) \in Event /\ Front(notified) \in Streams
      BY <3>3, FrontType DEF Last, OnFace, IsTerminal, Outcomes
    <3>. DEFINE h == FaceOf[Front(notified)]
    <3>5. h \in Streams
      BY <3>4, FaceOfType
    <3>6. Narrative = Append(h, Last(notified))
      BY <3>2, <3>3, <3>4, FaceOfDef DEF Narrative, Kept
    <3>. HIDE DEF h
    <3>7. Narrative # <<>> /\ IsTerminal(Narrative[Len(Narrative)])
      BY <3>3, <3>4, <3>5, <3>6, AppendProperties DEF Streams, Last
    <3>8. RoundsSeen = RequestsIn(notified)
      BY <3>2 DEF RoundsSeen, RequestsIn
    <3>. QED
      BY <1>1, <2>1, <3>2, <3>7, <3>8 DEF RoundsInv, Narrative
  <2>. QED
    BY <1>1, <2>1 DEF FaceAgreesWithBus, ChannelInv
<1>. QED
  BY <1>1, InitType, NextType, InitChannel, NextChannel, InitRounds, NextRounds, PTL DEF Spec

-----------------------------------------------------------------------------
(* The tool protocol.  A run is before its tool calls, announces them,     *)
(* collects their results, or has come to an end; the moves between and    *)
(* within these phases are what the three parts of the invariant below     *)
(* are disturbed by.                                                       *)

Before  == {"spawned", "starting", "assembling", "gate", "round", "requesting", "model",
            "stream", "relaying", "responding", "responded"}
Asking  == {"asking", "announcing"}
Tooling == {"tools", "reporting"}
Over    == {"maintaining", "closing", "closingPlain", "done", "panicked"}

ToolKinds == {"ToolRequested", "ToolCompleted"}

(* The bus hears nothing, or nothing about tools. *)
NoToolNews == \/ UNCHANGED notified
              \/ \E e \in Event : e.kind \notin ToolKinds /\ notified' = Append(notified, e)

IdleMove ==
  UNCHANGED <<pc, round, calls, asked, running, results, messages, out, notified, turns>>

BeforeMove ==
  /\ pc \in Before \ {"round"} /\ pc' \in Before
  /\ NoToolNews
  /\ UNCHANGED <<round, messages, turns>>

BeginMove ==
  /\ pc = "round" /\ pc' \in Before \ {"round"}
  /\ round' = round + 1
  /\ NoToolNews
  /\ UNCHANGED <<messages, turns>>

OverMove ==
  /\ pc' \in Over /\ NoToolNews /\ UNCHANGED round
  /\ \/ UNCHANGED <<messages, turns>>
     \/ /\ \E o \in Outcomes \ {"Completed"}, m \in {<<>>, messages} : Record(o, m)
        /\ UNCHANGED messages
     \/ /\ pc = "responded"
        /\ messages' = Append(messages, Assistant(<<>>))
        /\ Record("Completed", messages')

IssueMove ==
  /\ pc = "responded" /\ pc' = "asking"
  /\ asked' = 0 /\ messages' = Append(messages, Assistant(calls))
  /\ UNCHANGED <<calls, round, notified, turns>>

AnnounceMove ==
  /\ pc = "asking" /\ asked < Len(calls) /\ pc' = "announcing"
  /\ asked' = asked + 1
  /\ notified' = Append(notified, ToolNote("ToolRequested", calls[asked + 1], 0))
  /\ UNCHANGED <<calls, round, messages, turns>>

AskedMove ==
  /\ pc = "announcing" /\ pc' = "asking"
  /\ UNCHANGED <<asked, calls, round, messages, notified, turns>>

SpawnMove ==
  /\ pc = "asking" /\ asked >= Len(calls) /\ pc' = "tools"
  /\ running' = DOMAIN calls /\ results' = [c \in CallId |-> 0]
  /\ UNCHANGED <<calls, round, messages, notified, turns>>

(* The task i is joined and a result for the call j is narrated. *)
ReportMove(i, j) ==
  /\ pc = "tools" /\ pc' = "reporting"
  /\ running' = running \ {i}
  /\ notified' = Append(notified, ToolNote("ToolCompleted", calls[j], i))
  /\ out' = <<ToolNote("ToolCompleted", calls[j], i)>>
  /\ UNCHANGED <<calls, round, results, messages, turns>>

SilentMove(i) ==
  /\ pc = "tools" /\ i \in Panicky /\ running' = running \ {i}
  /\ UNCHANGED <<pc, calls, round, results, messages, notified, turns>>

CountMove ==
  /\ pc = "reporting" /\ pc' = "tools"
  /\ results' = [results EXCEPT ![out[1].call] = out[1].from]
  /\ UNCHANGED <<calls, round, running, messages, notified, turns>>

RoundMove ==
  /\ pc = "tools" /\ pc' = "round" /\ UNCHANGED round
  /\ Collected /\ Outstanding = {} /\ UNCHANGED <<calls, results>>
  /\ messages' = messages \o ResultMessages
  /\ UNCHANGED <<notified, turns>>

LEMMA ToolSteps ==
  ASSUME TypeInv, [Next]_vars
  PROVE  \/ IdleMove \/ BeforeMove \/ BeginMove \/ OverMove \/ IssueMove \/ AnnounceMove \/ AskedMove
         \/ SpawnMove \/ CountMove \/ RoundMove
         \/ \E i \in running : \/ ReportMove(i, i) \/ SilentMove(i)
                               \/ i \in Panicky /\ \E j \in Outstanding : ReportMove(i, j)
<1>. USE DEF loop, archive, signal
<1>0. /\ round \in 0..MaxRounds
      /\ CancelReason \in Outcomes \ {"Completed"}
      /\ \A k \in Kinds : Note(k) \in Event /\ Note(k).kind = k
      /\ \A k \in Kinds : NoteIn(k, round + 1) \in Event /\ NoteIn(k, round + 1).kind = k
  BY NoteType DEF TypeInv, TypeOK, CancelReason, Outcomes
<1>1. CASE Start \/ ModelDelta \/ \E list \in CallLists : ModelFinishes(list)
  <2>1. PICK k \in {"Started", "Delta", "Responded"} : Narrate(Note(k))
    BY <1>1 DEF Start, ModelDelta, ModelFinishes
  <2>2. Note(k) \in Event /\ Note(k).kind \notin ToolKinds
    BY <1>0, <2>1 DEF Kinds, ToolKinds
  <2>3. NoToolNews
    BY <2>1, <2>2 DEF NoToolNews, Narrate
  <2>. QED
    BY <1>1, <2>3 DEF BeforeMove, Before, Start, ModelDelta, ModelFinishes
<1>2. CASE Assemble \/ GateOpen \/ ModelStarts
  BY <1>2 DEF Assemble, GateOpen, ModelStarts, BeforeMove, Before, NoToolNews
<1>3. CASE ObserveCancel \/ ModelFails \/ RefusalCancelsTools \/ OutOfRounds
  <2>1. PICK o \in {CancelReason, "ModelFailed", "UserRequested", "MaxRounds"} : Conclude(o)
    BY <1>3 DEF ObserveCancel, ModelFails, RefusalCancelsTools, OutOfRounds
  <2>2. /\ o \in Outcomes \ {"Completed"}
        /\ Note(o) \in Event /\ Note(o).kind \notin ToolKinds
    BY <1>0, <2>1 DEF Kinds, Outcomes, ToolKinds
  <2>3. Record(o, messages) /\ NoToolNews /\ pc' = "closing"
    BY <2>1, <2>2 DEF Conclude, NoToolNews, Narrate
  <2>4. UNCHANGED <<messages, round>>
    BY <1>3 DEF ObserveCancel, ModelFails, RefusalCancelsTools, OutOfRounds
  <2>. QED
    BY <2>2, <2>3, <2>4 DEF OverMove, Over
<1>4. CASE GateCancelled
  <2>1. Note(CancelReason) \in Event /\ Note(CancelReason).kind \notin ToolKinds
    BY <1>0 DEF Kinds, Outcomes, ToolKinds
  <2>2. NoToolNews
    BY <1>4, <2>1 DEF GateCancelled, NoToolNews, Narrate
  <2>. QED
    BY <1>0, <1>4, <2>2 DEF GateCancelled, OverMove, Over
<1>5. CASE RequestModel
  <2>. DEFINE e == NoteIn("Requested", round + 1)
  <2>1. e \in Event /\ e.kind \notin ToolKinds
    BY <1>0 DEF Kinds, ToolKinds
  <2>. HIDE DEF e
  <2>2. notified' = Append(notified, e)
    BY <1>5 DEF RequestModel, Narrate, e
  <2>3. NoToolNews
    BY <2>1, <2>2 DEF NoToolNews
  <2>. QED
    BY <1>5, <2>3 DEF RequestModel, BeginMove, Before
<1>6. CASE Maintain
  <2>1. Note("Completed") \in Event /\ Note("Completed").kind \notin ToolKinds
    BY <1>0 DEF Kinds, Outcomes, ToolKinds
  <2>2. NoToolNews
    BY <1>6, <2>1 DEF Maintain, NoToolNews, Narrate
  <2>. QED
    BY <1>6, <2>2 DEF Maintain, OverMove, Over
<1>7. CASE Answer
  BY <1>7 DEF Answer, OverMove, Over, NoToolNews
<1>8. CASE RefusalEndsRun
  <2>1. Record("UserRequested", messages) /\ "UserRequested" \in Outcomes \ {"Completed"}
    BY <1>8 DEF RefusalEndsRun, Outcomes
  <2>. QED
    BY <1>8, <2>1 DEF RefusalEndsRun, OverMove, Over, NoToolNews
<1>9. CASE ResultMissing
  BY <1>9 DEF ResultMissing, OverMove, Over, NoToolNews
<1>10. CASE IssueCalls
  BY <1>10 DEF IssueCalls, IssueMove
<1>11. CASE AnnounceCall
  BY <1>11 DEF AnnounceCall, AnnounceMove, Narrate
<1>12. CASE SpawnTools
  BY <1>12 DEF SpawnTools, SpawnMove
<1>13. CASE CollectResults
  BY <1>13 DEF CollectResults, RoundMove, Collected
<1>14. ASSUME NEW i \in running, ToolReturns(i) \/ ToolPanics(i)
       PROVE  \/ ReportMove(i, i) \/ SilentMove(i)
              \/ i \in Panicky /\ \E j \in Outstanding : ReportMove(i, j)
  BY <1>14 DEF ToolReturns, ToolPanics, Report, Collecting, Narrate, ReportMove, SilentMove
<1>15. CASE SendAccepted \/ RefusalIgnored
  <2>1. /\ UNCHANGED <<notified, round, calls, asked, running, messages, turns>>
        /\ pc \in Parked /\ pc' = Resume[pc]
    BY <1>15 DEF SendAccepted, RefusalIgnored, Parked
  <2>2. CASE pc \in {"starting", "requesting", "relaying", "responding"}
    BY <2>1, <2>2 DEF Resume, Parked, BeforeMove, Before, NoToolNews
  <2>3. CASE pc \in {"closing", "closingPlain"}
    BY <2>1, <2>3 DEF Resume, Parked, OverMove, Over, NoToolNews
  <2>4. CASE pc = "announcing"
    BY <2>1, <2>4 DEF Resume, Parked, AskedMove
  <2>5. CASE pc = "reporting"
    BY <1>15, <2>1, <2>5 DEF SendAccepted, RefusalIgnored, Resume, Parked, CountMove
  <2>. QED
    BY <2>1, <2>2, <2>3, <2>4, <2>5 DEF Parked
<1>16. CASE \/ Receive \/ Cancel \/ DropReceiver \/ DropGuard \/ TimerStep
            \/ UNCHANGED vars
  BY <1>16 DEF Receive, Cancel, DropReceiver, DropGuard, TimerStep, Elapse,
               TimerCancels, TimerStops, vars, IdleMove
<1>. QED
  BY <1>1, <1>2, <1>3, <1>4, <1>5, <1>6, <1>7, <1>8, <1>9, <1>10, <1>11, <1>12, <1>13,
     <1>14, <1>15, <1>16
  DEF Next, LoopStep, EngineStep, ModelStep, ToolStep, Send

-----------------------------------------------------------------------------
(* What the bus hears of the tools: a call is announced in its round       *)
(* before a task is spawned for it, no result of this round was reported   *)
(* before its tasks run, nor for a task that still runs.                   *)

Announces(q, c, r) ==
  \E j \in 1..Len(q) : q[j].kind = "ToolRequested" /\ q[j].call = c /\ q[j].round = r

NewsInv ==
  /\ pc \in Asking => \A k \in DOMAIN calls : k <= asked => Announces(notified, calls[k], round)
  /\ pc \in Tooling => \A k \in DOMAIN calls : Announces(notified, calls[k], round)
  /\ \A i \in 1..Len(notified) : notified[i].kind = "ToolCompleted" =>
        /\ notified[i].round <= round
        /\ notified[i].round = round => /\ pc \in Tooling \cup Over \cup {"round"}
                                        /\ pc \in Tooling => notified[i].from \notin running
  /\ ReportedOnce

LEMMA InitNews == Init => NewsInv
  BY DEF Init, NewsInv, Asking, Tooling, ReportedOnce

LEMMA AppendedEvent ==
  ASSUME notified \in Seq(Event), NEW e \in Event, notified' = Append(notified, e)
  PROVE  /\ Len(notified') = Len(notified) + 1 /\ Len(notified) \in Nat
         /\ notified'[Len(notified) + 1] = e
         /\ \A i \in 1..Len(notified) : i \in 1..Len(notified') /\ notified'[i] = notified[i]
         /\ \A i \in 1..Len(notified') : i \in 1..Len(notified) \/ i = Len(notified) + 1
  OBVIOUS

(* News of another kind changes nothing of this. *)
LEMMA OtherNews ==
  ASSUME notified \in Seq(Event), NoToolNews
  PROVE  /\ \A i \in 1..Len(notified') : notified'[i].kind \in ToolKinds =>
               i \in 1..Len(notified) /\ notified'[i] = notified[i]
         /\ \A i \in 1..Len(notified) : i \in 1..Len(notified') /\ notified'[i] = notified[i]
         /\ ReportedOnce => ReportedOnce'
<1>1. CASE UNCHANGED notified
  BY <1>1 DEF ReportedOnce
<1>2. ASSUME NEW e \in Event, e.kind \notin ToolKinds, notified' = Append(notified, e)
      PROVE  /\ \A i \in 1..Len(notified') : notified'[i].kind \in ToolKinds =>
                   i \in 1..Len(notified) /\ notified'[i] = notified[i]
             /\ \A i \in 1..Len(notified) : i \in 1..Len(notified') /\ notified'[i] = notified[i]
             /\ ReportedOnce => ReportedOnce'
  <2>1. /\ \A i \in 1..Len(notified') : notified'[i].kind \in ToolKinds =>
              i \in 1..Len(notified) /\ notified'[i] = notified[i]
        /\ \A i \in 1..Len(notified) : i \in 1..Len(notified') /\ notified'[i] = notified[i]
    BY <1>2, AppendedEvent
  <2>2. Len(notified) \in Nat
    OBVIOUS
  <2>3. ASSUME ReportedOnce, NEW i \in 1..Len(notified'), notified'[i].kind = "ToolCompleted"
        PROVE  /\ \E j \in 1..(i - 1) : /\ notified'[j].kind = "ToolRequested"
                                        /\ notified'[j].call = notified'[i].call
                                        /\ notified'[j].round = notified'[i].round
               /\ \A j \in 1..(i - 1) : ~ /\ notified'[j].kind = "ToolCompleted"
                                          /\ notified'[j].from = notified'[i].from
                                          /\ notified'[j].round = notified'[i].round
    <3>1. i \in 1..Len(notified) /\ notified'[i] = notified[i]
      BY <2>1, <2>3 DEF ToolKinds
    <3>2. \A j \in 1..(i - 1) : notified'[j] = notified[j]
      BY <2>1, <2>2, <3>1
    <3>3. /\ \E j \in 1..(i - 1) : /\ notified[j].kind = "ToolRequested"
                                   /\ notified[j].call = notified[i].call
                                   /\ notified[j].round = notified[i].round
          /\ \A j \in 1..(i - 1) : ~ /\ notified[j].kind = "ToolCompleted"
                                     /\ notified[j].from = notified[i].from
                                     /\ notified[j].round = notified[i].round
      BY <2>3, <3>1, Zenon DEF ReportedOnce
    <3>. QED
      BY <3>1, <3>2, <3>3
  <2>. QED
    BY <2>1, <2>3 DEF ReportedOnce
<1>. QED
  BY <1>1, <1>2 DEF NoToolNews

(* Steps that tell nothing of tools. *)
LEMMA NewsKept ==
  ASSUME TypeInv, NewsInv, NoToolNews,
         \/ UNCHANGED round /\ pc' \in Over
         \/ UNCHANGED round /\ pc' \in Before /\ pc \in Before \ {"round"}
         \/ pc' \in Before /\ pc = "round" /\ round' = round + 1
         \/ UNCHANGED round /\ UNCHANGED <<pc, calls, asked>> /\ running' \subseteq running
         \/ UNCHANGED <<round, calls>> /\ pc = "responded" /\ pc' = "asking" /\ asked' = 0
         \/ UNCHANGED <<round, calls, asked>> /\ pc = "announcing" /\ pc' = "asking"
         \/ UNCHANGED <<round, calls>> /\ pc = "asking" /\ pc' = "tools" /\ asked >= Len(calls)
         \/ UNCHANGED <<round, calls, running>> /\ pc = "reporting" /\ pc' = "tools"
         \/ UNCHANGED round /\ pc = "tools" /\ pc' = "round"
  PROVE  NewsInv'
<1>0. notified \in Seq(Event) /\ round \in Nat /\ calls \in Seq(CallId) /\ asked \in Nat
      /\ pc \in Places
  BY RoundsAssumption, ListsAssumption DEF TypeInv, TypeOK
<1>1. /\ \A i \in 1..Len(notified') : notified'[i].kind \in ToolKinds =>
            i \in 1..Len(notified) /\ notified'[i] = notified[i]
      /\ \A i \in 1..Len(notified) : i \in 1..Len(notified') /\ notified'[i] = notified[i]
      /\ ReportedOnce'
  BY <1>0, OtherNews DEF NewsInv
<1>2. ASSUME NEW c, NEW r, Announces(notified, c, r) PROVE Announces(notified', c, r)
  BY <1>1, <1>2 DEF Announces
<1>3. pc' \in Asking => \A k \in DOMAIN calls' : k <= asked' => Announces(notified', calls'[k], round')
  <2>. SUFFICES ASSUME pc' \in Asking, NEW k \in DOMAIN calls', k <= asked'
                PROVE  Announces(notified', calls'[k], round')
    OBVIOUS
  <2>1. UNCHANGED <<round, calls, asked>> /\ pc \in Asking
    BY <1>0 DEF Asking, Over, Before
  <2>2. Announces(notified, calls[k], round)
    BY <2>1 DEF NewsInv
  <2>. QED
    BY <1>2, <2>1, <2>2
<1>4. pc' \in Tooling => \A k \in DOMAIN calls' : Announces(notified', calls'[k], round')
  <2>. SUFFICES ASSUME pc' \in Tooling, NEW k \in DOMAIN calls'
                PROVE  Announces(notified', calls'[k], round')
    OBVIOUS
  <2>1. UNCHANGED <<round, calls>>
    BY DEF Tooling, Over, Before
  <2>2. Announces(notified, calls[k], round)
    BY <1>0, <2>1 DEF NewsInv, Tooling, Asking, Over, Before
  <2>. QED
    BY <1>2, <2>1, <2>2
<1>5. ASSUME NEW i \in 1..Len(notified'), notified'[i].kind = "ToolCompleted"
      PROVE  /\ notified'[i].round <= round'
             /\ notified'[i].round = round' =>
                   /\ pc' \in Tooling \cup Over \cup {"round"}
                   /\ pc' \in Tooling => notified'[i].from \notin running'
  <2>1. i \in 1..Len(notified) /\ notified'[i] = notified[i]
    BY <1>1, <1>5 DEF ToolKinds
  <2>2. notified[i] \in Event
    BY <1>0, <2>1
  <2>3. notified[i].round \in Nat
    BY <2>2 DEF Event
  <2>4. /\ notified[i].round <= round
        /\ notified[i].round = round => /\ pc \in Tooling \cup Over \cup {"round"}
                                        /\ pc \in Tooling => notified[i].from \notin running
    BY <1>5, <2>1 DEF NewsInv
  <2>. QED
    BY <1>0, <2>1, <2>3, <2>4 DEF Tooling, Over, Before, Places
<1>. QED
  BY <1>1, <1>3, <1>4, <1>5 DEF NewsInv

LEMMA AnnounceStep ==
  ASSUME TypeInv, NewsInv, AnnounceMove
  PROVE  NewsInv'
<1>. DEFINE e == ToolNote("ToolRequested", calls[asked + 1], 0)
<1>0. notified \in Seq(Event) /\ round \in Nat /\ calls \in Seq(CallId) /\ asked \in Nat
  BY RoundsAssumption, ListsAssumption DEF TypeInv, TypeOK
<1>1. asked + 1 \in DOMAIN calls /\ calls[asked + 1] \in CallId
  BY <1>0 DEF AnnounceMove
<1>2. /\ e \in Event /\ e.kind = "ToolRequested" /\ e.call = calls[asked + 1] /\ e.round = round
  BY <1>1, NoteType DEF ToolNote, Kinds, TypeInv, TypeOK
<1>3. notified' = Append(notified, e)
  BY DEF AnnounceMove
<1>. HIDE DEF e
<1>4. /\ Len(notified') = Len(notified) + 1 /\ Len(notified) \in Nat
      /\ notified'[Len(notified) + 1] = e
      /\ \A i \in 1..Len(notified) : i \in 1..Len(notified') /\ notified'[i] = notified[i]
      /\ \A i \in 1..Len(notified') : i \in 1..Len(notified) \/ i = Len(notified) + 1
  BY <1>0, <1>2, <1>3, AppendedEvent
<1>5. ASSUME NEW i \in 1..Len(notified'), notified'[i].kind = "ToolCompleted"
      PROVE  i \in 1..Len(notified) /\ notified'[i] = notified[i]
  BY <1>2, <1>4, <1>5
<1>6. \A k \in DOMAIN calls : k <= asked + 1 => Announces(notified', calls[k], round)
  <2>. SUFFICES ASSUME NEW k \in DOMAIN calls, k <= asked + 1
                PROVE  Announces(notified', calls[k], round)
    OBVIOUS
  <2>1. CASE k <= asked
    <3>1. Announces(notified, calls[k], round)
      BY <2>1 DEF NewsInv, AnnounceMove, Asking
    <3>. QED
      BY <1>4, <3>1 DEF Announces
  <2>2. CASE k = asked + 1
    <3>1. Len(notified) + 1 \in 1..Len(notified')
      BY <1>4
    <3>. QED
      BY <1>2, <1>4, <2>2, <3>1 DEF Announces
  <2>. QED
    BY <1>0, <2>1, <2>2
<1>7. ReportedOnce'
  <2>1. ASSUME NEW i \in 1..Len(notified'), notified'[i].kind = "ToolCompleted"
        PROVE  /\ \E j \in 1..(i - 1) : /\ notified'[j].kind = "ToolRequested"
                                        /\ notified'[j].call = notified'[i].call
                                        /\ notified'[j].round = notified'[i].round
               /\ \A j \in 1..(i - 1) : ~ /\ notified'[j].kind = "ToolCompleted"
                                          /\ notified'[j].from = notified'[i].from
                                          /\ notified'[j].round = notified'[i].round
    <3>1. i \in 1..Len(notified) /\ notified'[i] = notified[i]
      BY <1>5, <2>1
    <3>2. \A j \in 1..(i - 1) : notified'[j] = notified[j]
      BY <1>4, <3>1
    <3>3. /\ \E j \in 1..(i - 1) : /\ notified[j].kind = "ToolRequested"
                                   /\ notified[j].call = notified[i].call
                                   /\ notified[j].round = notified[i].round
          /\ \A j \in 1..(i - 1) : ~ /\ notified[j].kind = "ToolCompleted"
                                     /\ notified[j].from = notified[i].from
                                     /\ notified[j].round = notified[i].round
      BY <2>1, <3>1, Zenon DEF ReportedOnce, NewsInv
    <3>. QED
      BY <3>1, <3>2, <3>3
  <2>. QED
    BY <2>1 DEF ReportedOnce
<1>8. \A i \in 1..Len(notified') : notified'[i].kind = "ToolCompleted" =>
        notified'[i].round <= round /\ notified'[i].round # round
  BY <1>5 DEF NewsInv, AnnounceMove, Tooling, Over
<1>. QED
  BY <1>0, <1>6, <1>7, <1>8 DEF NewsInv, AnnounceMove, Asking, Tooling, Over

LEMMA ReportStep ==
  ASSUME TypeInv, NewsInv, NEW i \in running, NEW j \in DOMAIN calls, ReportMove(i, j)
  PROVE  NewsInv'
<1>. DEFINE e == ToolNote("ToolCompleted", calls[j], i)
            n == Len(notified) + 1
<1>0. notified \in Seq(Event) /\ round \in Nat /\ calls \in Seq(CallId)
  BY RoundsAssumption, ListsAssumption DEF TypeInv, TypeOK
<1>1. i \in DOMAIN calls /\ i \in Nat /\ calls[j] \in CallId
  <2>1. i \in DOMAIN calls
    BY DEF TypeInv, TypeOK
  <2>. QED
    BY <1>0, <2>1, ElementType, Zenon
<1>2. /\ e \in Event /\ e.kind = "ToolCompleted" /\ e.call = calls[j] /\ e.round = round
      /\ e.from = i
  BY <1>1, NoteType DEF ToolNote, Kinds, TypeInv, TypeOK
<1>3. notified' = Append(notified, e)
  BY DEF ReportMove
<1>. HIDE DEF e
<1>4. /\ Len(notified') = n /\ n \in Nat \ {0}
      /\ notified'[n] = e
      /\ \A k \in 1..(n - 1) : k \in 1..Len(notified') /\ notified'[k] = notified[k]
      /\ \A k \in 1..Len(notified') : k \in 1..(n - 1) \/ k = n
      /\ Len(notified) = n - 1
  BY <1>0, <1>2, <1>3, AppendedEvent
<1>. HIDE DEF n
<1>5. Announces(notified, calls[j], round) /\ \A k \in DOMAIN calls : Announces(notified, calls[k], round)
  BY DEF NewsInv, ReportMove, Tooling
<1>6. \A k \in DOMAIN calls : Announces(notified', calls[k], round)
  BY <1>4, <1>5 DEF Announces
<1>7. \A k \in 1..(n - 1) : notified[k].kind = "ToolCompleted" =>
         notified[k].round <= round /\ (notified[k].round = round => notified[k].from \notin running)
  BY <1>4 DEF NewsInv, ReportMove, Tooling
<1>8. \A k \in 1..n : notified'[k].kind = "ToolCompleted" =>
         notified'[k].round <= round
         /\ (notified'[k].round = round => notified'[k].from \notin running \ {i})
  <2>. SUFFICES ASSUME NEW k \in 1..n, notified'[k].kind = "ToolCompleted"
                PROVE  /\ notified'[k].round <= round
                       /\ notified'[k].round = round => notified'[k].from \notin running \ {i}
    OBVIOUS
  <2>1. CASE k = n
    BY <1>0, <1>2, <1>4, <2>1
  <2>2. CASE k \in 1..(n - 1)
    BY <1>4, <1>7, <2>2
  <2>. QED
    BY <1>4, <2>1, <2>2
<1>9. ReportedOnce'
  <2>1. ASSUME NEW m \in 1..n, notified'[m].kind = "ToolCompleted"
        PROVE  /\ \E k \in 1..(m - 1) : /\ notified'[k].kind = "ToolRequested"
                                        /\ notified'[k].call = notified'[m].call
                                        /\ notified'[k].round = notified'[m].round
               /\ \A k \in 1..(m - 1) : ~ /\ notified'[k].kind = "ToolCompleted"
                                          /\ notified'[k].from = notified'[m].from
                                          /\ notified'[k].round = notified'[m].round
    <3>1. CASE m = n
      <4>1. PICK k \in 1..(n - 1) : /\ notified[k].kind = "ToolRequested"
                                    /\ notified[k].call = calls[j] /\ notified[k].round = round
        BY <1>4, <1>5 DEF Announces
      <4>2. \A l \in 1..(n - 1) : ~ /\ notified[l].kind = "ToolCompleted"
                                    /\ notified[l].from = i /\ notified[l].round = round
        BY <1>7
      <4>. QED
        BY <1>2, <1>4, <3>1, <4>1, <4>2
    <3>2. CASE m \in 1..(n - 1)
      <4>1. \A k \in 1..m : notified'[k] = notified[k]
        BY <1>4, <3>2
      <4>2. /\ \E k \in 1..(m - 1) : /\ notified[k].kind = "ToolRequested"
                                     /\ notified[k].call = notified[m].call
                                     /\ notified[k].round = notified[m].round
            /\ \A k \in 1..(m - 1) : ~ /\ notified[k].kind = "ToolCompleted"
                                       /\ notified[k].from = notified[m].from
                                       /\ notified[k].round = notified[m].round
        <5>1. notified[m].kind = "ToolCompleted" /\ m \in 1..Len(notified)
          BY <1>4, <2>1, <3>2
        <5>. QED
          BY <5>1, Zenon DEF ReportedOnce, NewsInv
      <4>3. m \in 1..m /\ \A k \in 1..(m - 1) : k \in 1..m
        BY <3>2
      <4>. QED
        BY <4>1, <4>2, <4>3
    <3>. QED
      BY <1>4, <3>1, <3>2
  <2>. QED
    BY <1>4, <2>1 DEF ReportedOnce
<1>. QED
  BY <1>4, <1>6, <1>8, <1>9 DEF NewsInv, ReportMove, Asking, Tooling, Over

LEMMA NextNews == TypeInv /\ NewsInv /\ [Next]_vars => NewsInv'
<1>. SUFFICES ASSUME TypeInv, NewsInv, [Next]_vars PROVE NewsInv'
  OBVIOUS
<1>0. asked \in Nat
  BY DEF TypeInv, TypeOK
<1>1. CASE IdleMove \/ BeforeMove \/ BeginMove \/ OverMove \/ IssueMove \/ AskedMove
           \/ SpawnMove \/ CountMove \/ RoundMove
  BY <1>1, NewsKept DEF IdleMove, BeforeMove, BeginMove, OverMove, IssueMove, AskedMove,
                        SpawnMove, CountMove, RoundMove, NoToolNews
<1>2. CASE AnnounceMove
  BY <1>2, AnnounceStep
<1>3. ASSUME NEW i \in running, NEW j \in DOMAIN calls, ReportMove(i, j) PROVE NewsInv'
  BY <1>3, ReportStep
<1>4. ASSUME NEW i \in running, SilentMove(i) PROVE NewsInv'
  <2>1. UNCHANGED <<round, pc, calls>> /\ running' \subseteq running /\ pc = "tools"
    BY <1>4 DEF SilentMove
  <2>2. /\ \A k \in DOMAIN calls : Announces(notified, calls[k], round)
        /\ notified' = notified
    BY <1>4 DEF NewsInv, Tooling, SilentMove
  <2>. QED
    BY <2>1, <2>2 DEF NewsInv, Asking, Tooling, Over, ReportedOnce
<1>5. running \subseteq DOMAIN calls /\ Outstanding \subseteq DOMAIN calls
  BY DEF TypeInv, TypeOK, Outstanding
<1>. QED
  BY ToolSteps, <1>1, <1>2, <1>3, <1>4, <1>5

-----------------------------------------------------------------------------
(* What the loop collects.  A result comes from a joined task of its call, *)
(* or from a task that may panic, as long as every task of the call may    *)
(* panic too or still runs and will replace it; each joined task accounts  *)
(* for at most one result.                                                 *)

Covers(c, i) ==
  \/ calls[i] = c
  \/ /\ i \in Panicky
     /\ \A p \in DOMAIN calls : calls[p] = c => p \in Panicky \cup running

Pending(c) == pc = "reporting" /\ out[1].call = c

ResultsInv ==
  pc \in Tooling =>
    /\ pc = "reporting" => /\ out[1].from \in DOMAIN calls
                           /\ Covers(out[1].call, out[1].from)
    /\ \A c \in CallId : results[c] # 0 => /\ results[c] \in DOMAIN calls
                                           /\ ~Pending(c) => Covers(c, results[c])
    /\ \A p \in DOMAIN calls \ (running \cup Panicky) :
          results[calls[p]] # 0 \/ Pending(calls[p])

CountInv ==
  /\ pc \in Tooling => IsFiniteSet(Answered) /\ IsFiniteSet(running)
  /\ pc = "tools" => Cardinality(Answered) + Cardinality(running) <= Len(calls)
  /\ pc = "reporting" => Cardinality(Answered) + Cardinality(running) + 1 <= Len(calls)

LEMMA InitResults == Init => ResultsInv /\ CountInv
  BY DEF Init, ResultsInv, CountInv, Tooling

LEMMA CallsType ==
  ASSUME TypeInv
  PROVE  /\ calls \in Seq(CallId) /\ results \in [CallId -> Nat]
         /\ DOMAIN calls = 1..Len(calls) /\ Len(calls) \in Nat
         /\ \A i \in DOMAIN calls : i \in Nat \ {0} /\ calls[i] \in CallId
         /\ running \subseteq DOMAIN calls
<1>1. calls \in Seq(CallId) /\ results \in [CallId -> Nat] /\ running \subseteq DOMAIN calls
  BY ListsAssumption DEF TypeInv, TypeOK
<1>2. DOMAIN calls = 1..Len(calls) /\ Len(calls) \in Nat
  BY <1>1
<1>3. \A i \in DOMAIN calls : i \in Nat \ {0} /\ calls[i] \in CallId
  <2>. SUFFICES ASSUME NEW i \in DOMAIN calls PROVE i \in Nat \ {0} /\ calls[i] \in CallId
    OBVIOUS
  <2>1. calls[i] \in CallId
    BY <1>1, ElementType, Zenon
  <2>. QED
    BY <1>2, <2>1
<1>. QED
  BY <1>1, <1>2, <1>3

LEMMA SpawnResults ==
  ASSUME TypeInv, SpawnMove
  PROVE  ResultsInv' /\ CountInv'
<1>1. Answered' = {}
  BY DEF SpawnMove, Answered
<1>2. running' = 1..Len(calls') /\ Len(calls') \in Nat /\ running' = DOMAIN calls'
  BY CallsType DEF SpawnMove
<1>3. /\ IsFiniteSet(Answered') /\ Cardinality(Answered') = 0
      /\ IsFiniteSet(running') /\ Cardinality(running') = Len(calls')
  <2>1. IsFiniteSet(Answered') /\ Cardinality(Answered') = 0
    BY <1>1, FS_EmptySet
  <2>2. ASSUME NEW n \in Nat PROVE IsFiniteSet(1..n) /\ Cardinality(1..n) = n
    BY FS_Interval
  <2>. QED
    BY <1>2, <2>1, <2>2
<1>4. \A c \in CallId : results'[c] = 0
  BY DEF SpawnMove
<1>. QED
  BY <1>2, <1>3, <1>4 DEF SpawnMove, ResultsInv, CountInv

(* Joining a task. *)
LEMMA JoinedTask ==
  ASSUME TypeInv, CountInv, pc = "tools", NEW i \in running, running' = running \ {i},
         UNCHANGED results
  PROVE  /\ UNCHANGED Answered /\ IsFiniteSet(Answered') /\ IsFiniteSet(running')
         /\ Cardinality(Answered) \in Nat /\ Cardinality(running') \in Nat
         /\ Cardinality(Answered) + Cardinality(running') + 1 <= Len(calls)
<1>1. Answered' = Answered
  BY DEF Answered
<1>2. /\ IsFiniteSet(Answered) /\ IsFiniteSet(running)
      /\ Cardinality(Answered) + Cardinality(running) <= Len(calls)
  BY DEF CountInv, Tooling
<1>3. /\ Cardinality(Answered) \in Nat /\ Cardinality(running) \in Nat /\ IsFiniteSet(running')
      /\ Cardinality(running') = Cardinality(running) - 1 /\ Cardinality(running') \in Nat
  BY <1>2, FS_RemoveElement, FS_CardinalityType
<1>. QED
  BY <1>1, <1>2, <1>3, CallsType

LEMMA ReportResults ==
  ASSUME TypeInv, ResultsInv, CountInv, NEW i \in running, NEW j \in DOMAIN calls, ReportMove(i, j),
         j = i \/ (i \in Panicky /\ j \in Outstanding)
  PROVE  ResultsInv' /\ CountInv'
<1>0. /\ i \in DOMAIN calls /\ calls[j] \in CallId /\ calls[i] \in CallId
      /\ pc = "tools" /\ pc' = "reporting"
      /\ running' = running \ {i} /\ results' = results /\ calls' = calls
      /\ out'[1].call = calls[j] /\ out'[1].from = i
  BY CallsType DEF ReportMove, ToolNote
<1>1. /\ \A c \in CallId : results[c] # 0 => results[c] \in DOMAIN calls /\ Covers(c, results[c])
      /\ \A p \in DOMAIN calls \ (running \cup Panicky) : results[calls[p]] # 0
  BY <1>0 DEF ResultsInv, Tooling, Pending
<1>2. Covers(calls[j], i)'
  <2>1. CASE j = i
    BY <1>0, <2>1 DEF Covers
  <2>2. CASE i \in Panicky /\ j \in Outstanding
    <3>1. results[calls[j]] = 0
      BY <1>0, <2>2 DEF Outstanding, Answered
    <3>2. \A p \in DOMAIN calls : calls[p] = calls[j] => p \in Panicky \cup running
      BY <1>1, <3>1
    <3>. QED
      BY <1>0, <2>2, <3>2 DEF Covers
  <2>. QED
    BY <2>1, <2>2
<1>3. ASSUME NEW c \in CallId, results[c] # 0, c # calls[j]
      PROVE  results[c] \in DOMAIN calls /\ Covers(c, results[c])'
  <2>1. Covers(c, results[c]) /\ results[c] \in DOMAIN calls
    BY <1>1, <1>3
  <2>2. i \in Panicky \/ calls[i] # c
    BY <1>3
  <2>. QED
    BY <1>0, <2>1, <2>2 DEF Covers
<1>4. \A p \in DOMAIN calls \ ((running \ {i}) \cup Panicky) : results[calls[p]] # 0 \/ calls[p] = calls[j]
  BY <1>1
<1>5. /\ IsFiniteSet(Answered') /\ IsFiniteSet(running')
      /\ Cardinality(Answered') + Cardinality(running') + 1 <= Len(calls')
  BY <1>0, JoinedTask DEF ReportMove
<1>6. \A c \in CallId : results[c] # 0 => results[c] \in DOMAIN calls
  BY <1>1
<1>. QED
  BY <1>0, <1>2, <1>3, <1>4, <1>5, <1>6 DEF ResultsInv, CountInv, Pending, Covers

LEMMA SilentResults ==
  ASSUME TypeInv, ResultsInv, CountInv, NEW i \in running, SilentMove(i)
  PROVE  ResultsInv' /\ CountInv'
<1>0. /\ pc = "tools" /\ pc' = "tools" /\ i \in Panicky
      /\ running' = running \ {i} /\ results' = results /\ calls' = calls
  BY DEF SilentMove
<1>1. /\ \A c \in CallId : results[c] # 0 => results[c] \in DOMAIN calls /\ Covers(c, results[c])
      /\ \A p \in DOMAIN calls \ (running \cup Panicky) : results[calls[p]] # 0
  BY <1>0 DEF ResultsInv, Tooling, Pending
<1>2. /\ IsFiniteSet(Answered') /\ IsFiniteSet(running')
      /\ Cardinality(Answered') + Cardinality(running') <= Len(calls')
  <2>1. /\ IsFiniteSet(Answered') /\ IsFiniteSet(running') /\ Answered' = Answered
        /\ Cardinality(Answered) \in Nat /\ Cardinality(running') \in Nat
        /\ Cardinality(Answered) + Cardinality(running') + 1 <= Len(calls)
    BY <1>0, JoinedTask
  <2>. QED
    BY <1>0, <2>1, CallsType
<1>3. \A c \in CallId : results[c] # 0 => results[c] \in DOMAIN calls /\ Covers(c, results[c])'
  BY <1>0, <1>1 DEF Covers
<1>. QED
  BY <1>0, <1>1, <1>2, <1>3 DEF ResultsInv, CountInv, Pending, Covers

LEMMA CountResults ==
  ASSUME TypeInv, ResultsInv, CountInv, CountMove
  PROVE  ResultsInv' /\ CountInv'
<1>. DEFINE e == out[1]
<1>0. /\ pc = "reporting" /\ pc' = "tools" /\ running' = running /\ calls' = calls
      /\ results' = [results EXCEPT ![e.call] = e.from]
  BY DEF CountMove
<1>1. e \in Event
  <2>1. out \in Seq(Event) /\ Len(out) = 1
    BY <1>0 DEF TypeInv, TypeOK, Parked
  <2>. QED
    BY <2>1
<1>2. /\ e.from \in DOMAIN calls /\ Covers(e.call, e.from)
      /\ \A c \in CallId : results[c] # 0 =>
            results[c] \in DOMAIN calls /\ (c # e.call => Covers(c, results[c]))
      /\ \A p \in DOMAIN calls \ (running \cup Panicky) : results[calls[p]] # 0 \/ calls[p] = e.call
      /\ IsFiniteSet(Answered) /\ IsFiniteSet(running)
      /\ Cardinality(Answered) + Cardinality(running) + 1 <= Len(calls)
  BY <1>0 DEF ResultsInv, CountInv, Tooling, Pending
<1>3. e.from \in Nat \ {0} /\ results \in [CallId -> Nat] /\ Len(calls) \in Nat
  BY <1>2, CallsType
<1>. HIDE DEF e
<1>4. /\ \A c \in CallId : c # e.call => results'[c] = results[c]
      /\ e.call \in CallId => results'[e.call] = e.from
  BY <1>0, <1>3
<1>5. Answered' \subseteq Answered \cup {e.call}
  BY <1>4 DEF Answered
<1>6. /\ IsFiniteSet(Answered') /\ Cardinality(Answered') <= Cardinality(Answered) + 1
      /\ Cardinality(Answered') \in Nat /\ Cardinality(Answered) \in Nat /\ Cardinality(running) \in Nat
  <2>1. /\ IsFiniteSet(Answered \cup {e.call})
        /\ Cardinality(Answered \cup {e.call}) <= Cardinality(Answered) + 1
        /\ Cardinality(Answered) \in Nat /\ Cardinality(running) \in Nat
    <3>1. Cardinality(Answered) \in Nat /\ Cardinality(running) \in Nat
      BY <1>2, FS_CardinalityType
    <3>2. /\ IsFiniteSet(Answered \cup {e.call})
          /\ Cardinality(Answered \cup {e.call}) \in {Cardinality(Answered), Cardinality(Answered) + 1}
      BY <1>2, FS_AddElement
    <3>. QED
      BY <3>1, <3>2
  <2>2. /\ IsFiniteSet(Answered') /\ Cardinality(Answered') <= Cardinality(Answered \cup {e.call})
    BY <1>5, <2>1, FS_Subset
  <2>3. Cardinality(Answered') \in Nat /\ Cardinality(Answered \cup {e.call}) \in Nat
    BY <2>1, <2>2, FS_CardinalityType
  <2>. QED
    BY <2>1, <2>2, <2>3
<1>7. Cardinality(Answered') + Cardinality(running') <= Len(calls')
  BY <1>0, <1>2, <1>3, <1>6
<1>8. \A c \in CallId : results'[c] # 0 => results'[c] \in DOMAIN calls /\ Covers(c, results'[c])
  BY <1>2, <1>4
<1>9. \A p \in DOMAIN calls \ (running \cup Panicky) : results'[calls[p]] # 0
  <2>. SUFFICES ASSUME NEW p \in DOMAIN calls \ (running \cup Panicky) PROVE results'[calls[p]] # 0
    OBVIOUS
  <2>1. calls[p] \in CallId
    BY CallsType
  <2>. QED
    BY <1>2, <1>3, <1>4, <2>1
<1>. QED
  BY <1>0, <1>2, <1>6, <1>7, <1>8, <1>9 DEF ResultsInv, CountInv, Pending, Covers

LEMMA NextResults == 
  TypeInv /\ ResultsInv /\ CountInv /\ [Next]_vars => ResultsInv' /\ CountInv'
<1>. SUFFICES ASSUME TypeInv, ResultsInv, CountInv, [Next]_vars
              PROVE  ResultsInv' /\ CountInv'
  OBVIOUS
<1>1. CASE BeforeMove \/ BeginMove \/ OverMove \/ IssueMove \/ AnnounceMove \/ AskedMove
           \/ RoundMove
  BY <1>1 DEF BeforeMove, BeginMove, OverMove, IssueMove, AnnounceMove, AskedMove, RoundMove,
              ResultsInv, CountInv, Asking, Tooling, Before, Over
<1>2. CASE IdleMove
  BY <1>2 DEF IdleMove, ResultsInv, CountInv, Tooling, Answered, Covers, Pending
<1>3. ASSUME NEW i \in running, ReportMove(i, i) PROVE ResultsInv' /\ CountInv'
  BY <1>3, ReportResults, CallsType
<1>4. ASSUME NEW i \in running, i \in Panicky, NEW j \in Outstanding, ReportMove(i, j)
      PROVE  ResultsInv' /\ CountInv'
  <2>1. j \in DOMAIN calls
    BY DEF Outstanding
  <2>. QED
    BY <1>4, <2>1, ReportResults
<1>. QED
  BY ToolSteps, <1>1, <1>2, <1>3, <1>4, SpawnResults, SilentResults, CountResults

(* Whichever way the collection ends, no task runs any more. *)
LEMMA CollectedDrains ==
  ASSUME TypeInv, CountInv, Collected
  PROVE  running = {}
<1>0. /\ pc = "tools" /\ Len(calls) \in Nat
      /\ IsFiniteSet(Answered) /\ IsFiniteSet(running)
      /\ Cardinality(Answered) + Cardinality(running) <= Len(calls)
  BY CallsType DEF Collected, CountInv, Tooling
<1>1. Cardinality(Answered) \in Nat /\ Cardinality(running) \in Nat
  BY <1>0, FS_CardinalityType
<1>2. running = {} \/ ~(Cardinality(Answered) < Len(calls))
  BY <1>0 DEF Collected, Collecting
<1>3. running = {} \/ Cardinality(running) = 0
  BY <1>0, <1>1, <1>2
<1>. QED
  BY <1>0, <1>3, FS_EmptySet

(* A result is missing only if a tool task panicked. *)
LEMMA MissingNeedsPanic ==
  ASSUME TypeInv, ResultsInv, CountInv, ResultMissing
  PROVE  Panicky # {}
<1>1. PICK i \in Outstanding : i \in DOMAIN calls /\ results[calls[i]] = 0
  BY CallsType DEF ResultMissing, Outstanding, Answered
<1>2. running = {} /\ pc = "tools"
  BY CollectedDrains DEF ResultMissing, Collected
<1>3. i \in running \cup Panicky
  BY <1>1, <1>2 DEF ResultsInv, Tooling, Pending
<1>. QED
  BY <1>2, <1>3

(* When every call has a result, each is one the call may be given. *)
LEMMA CollectedResults ==
  ASSUME TypeInv, ResultsInv, CountInv, Collected, Outstanding = {}
  PROVE  \A k \in DOMAIN calls : AnswersCall(ToolResult(calls[k], results[calls[k]]), calls, k)
<1>0. pc = "tools"
  BY DEF Collected
<1>1. running = {}
  BY CollectedDrains
<1>2. ASSUME NEW k \in DOMAIN calls
      PROVE  results[calls[k]] \in DOMAIN calls /\ Covers(calls[k], results[calls[k]])
  <2>1. calls[k] \in CallId
    BY CallsType
  <2>2. results[calls[k]] # 0
    BY DEF Outstanding, Answered
  <2>. QED
    BY <1>0, <2>1, <2>2 DEF ResultsInv, Tooling, Pending
<1>. QED
  BY <1>1, <1>2 DEF Covers, AnswersCall, ToolResult

-----------------------------------------------------------------------------
(* What the archive keeps of the tools: between the rounds every call on   *)
(* record has its result; while calls are out, only the last message lacks *)
(* them.                                                                   *)

ToolsInPlace(msgs) ==
  \A i \in DOMAIN msgs : msgs[i].role = "tool" =>
     \E j \in 1..(i - 1) : /\ msgs[j].role = "assistant"
                           /\ (i - j) \in DOMAIN msgs[j].asks

AllAnswered(msgs) ==
  /\ \A i \in DOMAIN msgs : msgs[i].role = "assistant" =>
        \A k \in DOMAIN msgs[i].asks :
           i + k <= Len(msgs) /\ AnswersCall(msgs[i + k], msgs[i].asks, k)
  /\ ToolsInPlace(msgs)

DialogueInv ==
  /\ pc \in Before => AllAnswered(messages)
  /\ pc \in Asking \cup Tooling =>
        \E m \in Seq(Message) : AllAnswered(m) /\ messages = Append(m, Assistant(calls))
  /\ Replays(messages)
  /\ CanonicalTurns

LEMMA ConcatIndices ==
  ASSUME NEW S, NEW s \in Seq(S), NEW t \in Seq(S)
  PROVE  /\ s \o t \in Seq(S) /\ Len(s \o t) = Len(s) + Len(t)
         /\ DOMAIN (s \o t) = 1..(Len(s) + Len(t))
         /\ \A i \in 1..Len(s) : (s \o t)[i] = s[i]
         /\ \A k \in 1..Len(t) : (s \o t)[Len(s) + k] = t[k]
<1>. DEFINE n == Len(s)
            m == Len(t)
<1>0. n \in Nat /\ m \in Nat
  OBVIOUS
<1>1. /\ s \o t \in Seq(S) /\ Len(s \o t) = n + m
      /\ \A i \in 1..(n + m) : (s \o t)[i] = IF i <= n THEN s[i] ELSE t[i - n]
  BY ConcatProperties
<1>2. DOMAIN (s \o t) = 1..(n + m)
  BY <1>1
<1>. HIDE DEF n, m
<1>3. ASSUME NEW k \in 1..m PROVE (s \o t)[n + k] = t[k]
  <2>1. n + k \in 1..(n + m) /\ ~(n + k <= n) /\ (n + k) - n = k
    BY <1>0
  <2>. QED
    BY <1>1, <2>1
<1>4. \A i \in 1..n : (s \o t)[i] = s[i]
  BY <1>0, <1>1
<1>. QED
  BY <1>1, <1>2, <1>3, <1>4 DEF n, m

LEMMA NothingSaid == AllAnswered(<<>>) /\ Replays(<<>>)
  BY DEF AllAnswered, ToolsInPlace, Replays

LEMMA InitDialogue == Init => DialogueInv
  BY NothingSaid DEF Init, DialogueInv, Before, Asking, Tooling, CanonicalTurns

LEMMA MessageFacts ==
  ASSUME NEW s \in Seq(Message)
  PROVE  /\ Len(s) \in Nat /\ DOMAIN s = 1..Len(s)
         /\ \A i \in DOMAIN s : /\ i \in Nat \ {0} /\ s[i].role \in {"assistant", "tool"}
                                /\ \A k \in DOMAIN s[i].asks : k \in Nat \ {0}
<1>1. Len(s) \in Nat /\ DOMAIN s = 1..Len(s)
  OBVIOUS
<1>2. ASSUME NEW i \in DOMAIN s
      PROVE  /\ i \in Nat \ {0} /\ s[i].role \in {"assistant", "tool"}
             /\ \A k \in DOMAIN s[i].asks : k \in Nat \ {0}
  <2>1. s[i] \in Message /\ i \in Nat \ {0}
    <3>1. s[i] \in Message
      BY ElementType, Zenon
    <3>. QED
      BY <1>1, <3>1
  <2>2. s[i].role \in {"assistant", "tool"} /\ s[i].asks \in CallLists
    BY <2>1 DEF Message
  <2>3. s[i].asks \in Seq(CallId)
    BY <2>2, ListsAssumption
  <2>. QED
    BY <2>1, <2>2, <2>3
<1>. QED
  BY <1>1, <1>2

LEMMA AnsweredReplays ==
  ASSUME NEW s \in Seq(Message), AllAnswered(s)
  PROVE  Replays(s)
  BY DEF AllAnswered, ToolsInPlace, Replays

LEMMA AssistantType ==
  ASSUME NEW list \in CallLists
  PROVE  Assistant(list) \in Message /\ Assistant(list).role = "assistant"
         /\ Assistant(list).asks = list
  BY DEF Assistant, Message

(* The next answer joins a record in which nothing is open. *)
LEMMA AnswerReplays ==
  ASSUME NEW s \in Seq(Message), AllAnswered(s), NEW list \in CallLists
  PROVE  /\ Append(s, Assistant(list)) \in Seq(Message)
         /\ Replays(Append(s, Assistant(list)))
<1>. DEFINE a == Assistant(list)
            t == Append(s, a)
            n == Len(s)
<1>1. a \in Message /\ a.role = "assistant"
  BY AssistantType
<1>. HIDE DEF a
<1>2. /\ t \in Seq(Message) /\ Len(t) = n + 1 /\ n \in Nat /\ t[n + 1] = a
      /\ DOMAIN t = 1..(n + 1) /\ DOMAIN s = 1..n
      /\ \A i \in 1..n : t[i] = s[i]
  BY <1>1, AppendProperties
<1>. HIDE DEF t, n
<1>3. ASSUME NEW i \in DOMAIN t, t[i].role = "assistant", i # Len(t), NEW k \in DOMAIN t[i].asks
      PROVE  i + k <= Len(t) /\ AnswersCall(t[i + k], t[i].asks, k)
  <2>1. i \in DOMAIN s /\ t[i] = s[i]
    BY <1>2, <1>3
  <2>2. k \in Nat \ {0} /\ i \in Nat \ {0}
    BY <1>3, <2>1, MessageFacts
  <2>3. i + k <= n /\ AnswersCall(s[i + k], s[i].asks, k)
    BY <1>3, <2>1 DEF AllAnswered, n
  <2>4. i + k \in 1..n
    BY <1>2, <2>2, <2>3
  <2>. QED
    BY <1>2, <2>1, <2>3, <2>4
<1>4. ASSUME NEW i \in DOMAIN t, t[i].role = "tool"
      PROVE  \E j \in 1..(i - 1) : t[j].role = "assistant" /\ (i - j) \in DOMAIN t[j].asks
  <2>1. i \in DOMAIN s /\ t[i] = s[i]
    BY <1>1, <1>2, <1>4
  <2>2. PICK j \in 1..(i - 1) : s[j].role = "assistant" /\ (i - j) \in DOMAIN s[j].asks
    BY <1>4, <2>1 DEF AllAnswered, ToolsInPlace
  <2>3. t[j] = s[j]
    BY <1>2, <2>1, <2>2
  <2>. QED
    BY <2>2, <2>3
<1>5. Replays(t)
  BY <1>3, <1>4 DEF Replays
<1>. QED
  BY <1>2, <1>5 DEF t, a

(* The results of a round close the record again. *)
LEMMA ResultsClose ==
  ASSUME TypeInv, NEW s \in Seq(Message), AllAnswered(s),
         messages = Append(s, Assistant(calls)),
         \A k \in DOMAIN calls : AnswersCall(ToolResult(calls[k], results[calls[k]]), calls, k)
  PROVE  AllAnswered(messages \o ResultMessages)
<1>. DEFINE a == Assistant(calls)
            r == ResultMessages
            t == messages \o r
            n == Len(s)
            m == Len(calls)
<1>0. /\ calls \in CallLists /\ calls \in Seq(CallId) /\ results \in [CallId -> Nat]
      /\ m \in Nat /\ DOMAIN calls = 1..m
  BY CallsType DEF TypeInv, TypeOK
<1>1. a \in Message /\ a.role = "assistant" /\ a.asks = calls
  BY <1>0, AssistantType
<1>2. /\ r \in Seq(Message) /\ Len(r) = m
      /\ \A k \in 1..m : r[k] = ToolResult(calls[k], results[calls[k]])
  BY <1>0, ResultMessagesType DEF ResultMessages
<1>. HIDE DEF a, r
<1>3. /\ messages \in Seq(Message) /\ Len(messages) = n + 1 /\ n \in Nat /\ messages[n + 1] = a
      /\ \A i \in 1..n : messages[i] = s[i]
      /\ DOMAIN s = 1..n
  BY <1>1, AppendProperties DEF a
<1>4. /\ t \in Seq(Message) /\ Len(t) = n + 1 + m /\ DOMAIN t = 1..(n + 1 + m)
      /\ \A i \in 1..(n + 1) : t[i] = messages[i]
      /\ \A k \in 1..m : t[n + 1 + k] = r[k]
  <2>1. n + 1 \in Nat /\ Len(messages) = n + 1 /\ m \in Nat /\ Len(r) = m
    BY <1>0, <1>2, <1>3
  <2>. HIDE DEF n, m
  <2>2. messages \in Seq(Message) /\ r \in Seq(Message)
    BY <1>2, <1>3
  <2>3. /\ t \in Seq(Message) /\ Len(t) = Len(messages) + Len(r)
        /\ DOMAIN t = 1..(Len(messages) + Len(r))
        /\ \A i \in 1..Len(messages) : t[i] = messages[i]
        /\ \A k \in 1..Len(r) : t[Len(messages) + k] = r[k]
    BY <2>2, ConcatIndices, SMTT(30)
  <2>. HIDE DEF t
  <2>. QED
    BY <2>1, <2>3
<1>. HIDE DEF t, n, m
<1>5. ASSUME NEW i \in 1..n PROVE t[i] = s[i]
  BY <1>3, <1>4
<1>6. t[n + 1] = a
  BY <1>3, <1>4
<1>7. \A k \in 1..m : t[n + 1 + k].role = "tool" /\ t[n + 1 + k] = ToolResult(calls[k], results[calls[k]])
  BY <1>2, <1>4 DEF ToolResult
<1>8. ASSUME NEW i \in DOMAIN t PROVE i \in 1..n \/ i = n + 1 \/ \E k \in 1..m : i = n + 1 + k
  <2>1. i \in Nat /\ i >= 1 /\ i <= n + 1 + m
    BY <1>0, <1>3, <1>4
  <2>2. CASE i > n + 1
    <3>1. i - (n + 1) \in 1..m /\ i = n + 1 + (i - (n + 1))
      BY <1>0, <1>3, <2>1, <2>2
    <3>. QED
      BY <3>1
  <2>. QED
    BY <1>3, <2>1, <2>2
<1>9. ASSUME NEW i \in DOMAIN t, t[i].role = "assistant", NEW k \in DOMAIN t[i].asks
      PROVE  i + k <= Len(t) /\ AnswersCall(t[i + k], t[i].asks, k)
  <2>1. CASE i \in 1..n
    <3>1. k \in DOMAIN s[i].asks /\ k \in Nat \ {0} /\ s[i].role = "assistant" /\ i \in Nat \ {0}
      BY <1>3, <1>5, <1>9, <2>1, MessageFacts
    <3>2. i + k <= n /\ AnswersCall(s[i + k], s[i].asks, k)
      BY <1>3, <2>1, <3>1 DEF AllAnswered, n
    <3>3. i + k \in 1..n
      BY <1>3, <3>1, <3>2
    <3>4. t[i + k] = s[i + k] /\ t[i] = s[i] /\ i + k <= n + 1 + m
      BY <1>0, <1>3, <1>5, <2>1, <3>3
    <3>. QED
      BY <1>4, <3>2, <3>4
  <2>2. CASE i = n + 1
    <3>1. k \in 1..m /\ t[i].asks = calls
      BY <1>0, <1>1, <1>6, <1>9, <2>2
    <3>2. i + k = n + 1 + k /\ n + 1 + k <= n + 1 + m
      BY <1>0, <1>3, <2>2, <3>1
    <3>3. AnswersCall(t[n + 1 + k], calls, k)
      BY <1>0, <1>7, <3>1
    <3>. QED
      BY <1>4, <3>1, <3>2, <3>3
  <2>3. CASE \E l \in 1..m : i = n + 1 + l
    BY <1>7, <1>9, <2>3
  <2>. QED
    BY <1>8, <2>1, <2>2, <2>3
<1>10. ASSUME NEW i \in DOMAIN t, t[i].role = "tool"
       PROVE  \E j \in 1..(i - 1) : t[j].role = "assistant" /\ (i - j) \in DOMAIN t[j].asks
  <2>1. CASE i \in 1..n
    <3>1. PICK j \in 1..(i - 1) : s[j].role = "assistant" /\ (i - j) \in DOMAIN s[j].asks
      BY <1>3, <1>5, <1>10, <2>1 DEF AllAnswered, ToolsInPlace
    <3>2. t[j] = s[j]
      BY <1>3, <1>5, <2>1, <3>1
    <3>. QED
      BY <3>1, <3>2
  <2>2. i # n + 1
    BY <1>1, <1>6, <1>10
  <2>3. CASE \E k \in 1..m : i = n + 1 + k
    <3>1. PICK k \in 1..m : i = n + 1 + k
      BY <2>3
    <3>2. n + 1 \in 1..(i - 1) /\ i - (n + 1) = k
      BY <1>0, <1>3, <3>1
    <3>3. t[n + 1].role = "assistant" /\ k \in DOMAIN t[n + 1].asks
      BY <1>0, <1>1, <1>6, <3>1
    <3>. QED
      BY <3>2, <3>3
  <2>. QED
    BY <1>8, <2>1, <2>2, <2>3
<1>11. AllAnswered(t)
  BY <1>9, <1>10 DEF AllAnswered, ToolsInPlace
<1>. QED
  BY <1>11 DEF t, r

(* A turn that replays joins an archive of such turns. *)
LEMMA RecordCanonical ==
  ASSUME TypeInv, CanonicalTurns, NEW o \in Outcomes, NEW m \in Seq(Message), Record(o, m),
         Replays(m), o = "Completed" => Len(m) > 0 /\ m[Len(m)] = Assistant(<<>>)
  PROVE  CanonicalTurns'
<1>. DEFINE t == [outcome |-> o, messages |-> m]
            n == Len(turns)
<1>1. turns \in Seq(Turn) /\ t \in Turn
  BY DEF TypeInv, TypeOK, Turn
<1>2. turns' = Append(turns, t)
  BY DEF Record
<1>3. t.outcome = o /\ t.messages = m
  OBVIOUS
<1>. HIDE DEF t
<1>4. /\ n \in Nat /\ DOMAIN turns = 1..n /\ DOMAIN turns' = 1..(n + 1)
      /\ turns'[n + 1] = t /\ \A i \in 1..n : turns'[i] = turns[i]
  BY <1>1, <1>2, AppendProperties
<1>. HIDE DEF n
<1>5. ASSUME NEW i \in DOMAIN turns' 
      PROVE  (i \in DOMAIN turns /\ turns'[i] = turns[i]) \/ turns'[i] = t
  BY <1>4
<1>. QED
  BY <1>3, <1>5 DEF CanonicalTurns

LEMMA NextDialogue ==
  TypeInv /\ ResultsInv /\ CountInv /\ DialogueInv /\ [Next]_vars => DialogueInv'
<1>. SUFFICES ASSUME TypeInv, ResultsInv, CountInv, DialogueInv, [Next]_vars
              PROVE  DialogueInv'
  OBVIOUS
<1>0. /\ messages \in Seq(Message) /\ calls \in CallLists /\ pc \in Places
      /\ <<>> \in Seq(Message) /\ <<>> \in CallLists
  BY ListsAssumption DEF TypeInv, TypeOK
<1>1. /\ Replays(messages) /\ CanonicalTurns
      /\ UNCHANGED messages => Replays(messages')
      /\ UNCHANGED turns => CanonicalTurns'
  BY DEF DialogueInv, CanonicalTurns
<1>2. CASE \/ IdleMove \/ BeforeMove \/ BeginMove \/ AnnounceMove \/ AskedMove \/ SpawnMove \/ CountMove
           \/ \E i \in running, j \in DOMAIN calls : ReportMove(i, j) \/ SilentMove(i)
  <2>1. UNCHANGED <<messages, turns>>
    BY <1>2 DEF IdleMove, BeforeMove, BeginMove, AnnounceMove, AskedMove, SpawnMove, CountMove,
                ReportMove, SilentMove
  <2>2. \/ pc' \in Before /\ pc \in Before
        \/ pc' \in Asking \cup Tooling /\ pc \in Asking \cup Tooling /\ UNCHANGED calls
        \/ pc' = pc /\ UNCHANGED calls
    BY <1>2 DEF IdleMove, BeforeMove, BeginMove, AnnounceMove, AskedMove, SpawnMove, CountMove,
                ReportMove, SilentMove, Before, Asking, Tooling
  <2>3. pc' \in Before => AllAnswered(messages')
    BY <2>1, <2>2 DEF DialogueInv, Before, Asking, Tooling
  <2>4. pc' \in Asking \cup Tooling =>
          \E m \in Seq(Message) : AllAnswered(m) /\ messages' = Append(m, Assistant(calls'))
    <3>. SUFFICES ASSUME pc' \in Asking \cup Tooling
                  PROVE  \E m \in Seq(Message) :
                            AllAnswered(m) /\ messages' = Append(m, Assistant(calls'))
      OBVIOUS
    <3>1. pc \in Asking \cup Tooling /\ UNCHANGED calls
      BY <2>2 DEF Before, Asking, Tooling
    <3>. QED
      BY <2>1, <3>1 DEF DialogueInv
  <2>. QED
    BY <1>1, <2>1, <2>3, <2>4 DEF DialogueInv
<1>3. CASE IssueMove
  <2>1. AllAnswered(messages)
    BY <1>3 DEF IssueMove, DialogueInv, Before
  <2>2. Replays(messages') /\ UNCHANGED turns /\ pc' = "asking"
    BY <1>0, <1>3, <2>1, AnswerReplays DEF IssueMove
  <2>3. \E m \in Seq(Message) : AllAnswered(m) /\ messages' = Append(m, Assistant(calls'))
    BY <1>0, <1>3, <2>1 DEF IssueMove
  <2>. QED
    BY <1>1, <2>2, <2>3 DEF DialogueInv, Before
<1>4. ASSUME Collected, Outstanding = {} PROVE AllAnswered(messages \o ResultMessages)
  <2>1. PICK m \in Seq(Message) : AllAnswered(m) /\ messages = Append(m, Assistant(calls))
    BY <1>4 DEF Collected, DialogueInv, Tooling
  <2>. QED
    BY <1>4, <2>1, CollectedResults, ResultsClose
<1>5. messages \o ResultMessages \in Seq(Message)
  BY <1>0, CallsType, ResultMessagesType, ConcatProperties
<1>6. CASE RoundMove
  <2>1. AllAnswered(messages') /\ messages' \in Seq(Message)
    BY <1>4, <1>5, <1>6 DEF RoundMove
  <2>2. Replays(messages')
    BY <2>1, AnsweredReplays
  <2>. QED
    BY <1>1, <1>6, <2>1, <2>2 DEF DialogueInv, RoundMove, Asking, Tooling
<1>7. CASE OverMove
  <2>1. pc' \notin Before \cup Asking \cup Tooling
    BY <1>7 DEF OverMove, Over, Before, Asking, Tooling
  <2>2. CASE UNCHANGED <<messages, turns>>
    BY <1>1, <2>1, <2>2 DEF DialogueInv
  <2>3. ASSUME NEW o \in Outcomes \ {"Completed"}, NEW m \in {<<>>, messages}, Record(o, m),
               UNCHANGED messages
        PROVE  DialogueInv'
    <3>1. Replays(m) /\ m \in Seq(Message)
      BY <1>0, <1>1, NothingSaid
    <3>2. CanonicalTurns'
      BY <1>1, <2>3, <3>1, RecordCanonical
    <3>. QED
      BY <1>1, <2>1, <2>3, <3>2 DEF DialogueInv
  <2>5. CASE /\ pc = "responded"
             /\ messages' = Append(messages, Assistant(<<>>))
             /\ Record("Completed", messages')
    <3>1. AllAnswered(messages)
      BY <2>5 DEF DialogueInv, Before
    <3>2. messages' \in Seq(Message) /\ Replays(messages')
      BY <1>0, <2>5, <3>1, AnswerReplays
    <3>3. Len(messages') > 0 /\ messages'[Len(messages')] = Assistant(<<>>)
      <4>1. Assistant(<<>>) \in Message
        BY <1>0, AssistantType
      <4>. QED
        BY <1>0, <2>5, <4>1, AppendProperties
    <3>4. CanonicalTurns'
      BY <1>1, <2>5, <3>2, <3>3, RecordCanonical DEF Outcomes
    <3>. QED
      BY <2>1, <3>2, <3>4 DEF DialogueInv
  <2>. QED
    BY <1>7, <2>2, <2>3, <2>5 DEF OverMove
<1>8. running \subseteq DOMAIN calls /\ Outstanding \subseteq DOMAIN calls
  BY CallsType DEF Outstanding
<1>. QED
  BY ToolSteps, <1>2, <1>3, <1>6, <1>7, <1>8

(* Panics, repeated ids and completion order notwithstanding: a task is    *)
(* reported once, in its round, for a call announced there; an archived    *)
(* turn has one result for each call, in call order, and what a tool       *)
(* returned is never replaced by the failure of another.                   *)
THEOREM ToolsFollowProtocol == Spec => []ToolProtocol
<1>1. NewsInv /\ DialogueInv => ToolProtocol
  BY DEF NewsInv, DialogueInv, ToolProtocol
<1>. QED
  BY <1>1, InitType, NextType, InitNews, NextNews, InitResults, NextResults, InitDialogue,
     NextDialogue, PTL DEF Spec
-----------------------------------------------------------------------------
(* The run implements its contract *)

SettledView   == IF turns = <<>> THEN "Unsettled" ELSE turns[1].outcome
AnnouncedView == IF notified # <<>> /\ IsTerminal(notified[Len(notified)])
                 THEN notified[Len(notified)].kind ELSE "Unsettled"
StreamView    == CASE pc = "done"     -> "closed"
                   [] pc = "panicked" -> "aborted"
                   [] OTHER           -> "open"

ContractStep ==
  \/ \E o \in Outcomes :
        /\ StreamView = "open" /\ SettledView = "Unsettled"
        /\ SettledView' = o /\ AnnouncedView' \in {"Unsettled", o}
        /\ StreamView' \in {"open", "closed"}
  \/ /\ StreamView = "open" /\ SettledView \in Outcomes /\ AnnouncedView = "Unsettled"
     /\ AnnouncedView' = SettledView /\ SettledView' = SettledView /\ StreamView' = StreamView
  \/ /\ StreamView = "open" /\ SettledView \in Outcomes /\ StreamView' = "closed"
     /\ SettledView' = SettledView /\ AnnouncedView' = AnnouncedView
  \/ /\ Panicky # {} /\ StreamView = "open" /\ StreamView' = "aborted"
     /\ SettledView = "Unsettled" /\ AnnouncedView = "Unsettled"
     /\ SettledView' = SettledView /\ AnnouncedView' = AnnouncedView
  \/ /\ SettledView' = SettledView /\ AnnouncedView' = AnnouncedView
     /\ StreamView' = StreamView

LEMMA ViewFacts ==
  ASSUME TypeInv, RunInv
  PROVE  /\ turns # <<>> => SettledView = turns[1].outcome /\ SettledView \in Outcomes
         /\ turns = <<>> => SettledView = "Unsettled"
         /\ NoTerminal => AnnouncedView = "Unsettled"
<1>1. turns # <<>> => turns[1] \in Turn
  <2>1. turns \in Seq(Turn)
    BY DEF TypeInv, TypeOK
  <2>. QED
    BY <2>1, FirstElement
<1>2. NoTerminal /\ notified # <<>> => ~IsTerminal(notified[Len(notified)])
  <2>1. notified \in Seq(Event)
    BY DEF TypeInv, TypeOK
  <2>2. notified # <<>> => Len(notified) \in 1..Len(notified)
    BY <2>1, LastIndex
  <2>. QED
    BY <2>2 DEF NoTerminal
<1>. QED
  BY <1>1, <1>2 DEF SettledView, AnnouncedView, Turn

LEMMA RunImplements ==
  ASSUME TypeInv, RunInv, ResultsInv, CountInv, TypeInv', RunInv', [Next]_vars
  PROVE  ContractStep
<1>0. /\ turns' # <<>> => SettledView' = turns'[1].outcome /\ SettledView' \in Outcomes
      /\ turns' = <<>> => SettledView' = "Unsettled"
      /\ NoTerminal' => AnnouncedView' = "Unsettled"
  <2>1. turns' # <<>> => turns'[1] \in Turn
    <3>1. turns' \in Seq(Turn)
      BY DEF TypeInv, TypeOK
    <3>. QED
      BY <3>1, FirstElement
  <2>2. NoTerminal' /\ notified' # <<>> => ~IsTerminal(notified'[Len(notified')])
    <3>1. notified' \in Seq(Event)
      BY DEF TypeInv, TypeOK
    <3>2. notified' # <<>> => Len(notified') \in 1..Len(notified')
      BY <3>1, LastIndex
    <3>. QED
      BY <3>2 DEF NoTerminal, IsTerminal
  <2>. QED
    BY <2>1, <2>2 DEF SettledView, AnnouncedView, Turn, IsTerminal
<1>1. CASE QuietMove
  <2>1. SettledView' = SettledView /\ AnnouncedView' = AnnouncedView
    BY <1>1 DEF QuietMove, SettledView, AnnouncedView, IsTerminal
  <2>2. CASE StreamView' = StreamView
    BY <2>1, <2>2 DEF ContractStep
  <2>3. CASE pc \in {"closing", "closingPlain"} /\ pc' = "done"
    <3>1. SettledView \in Outcomes
      BY <2>3, ViewFacts DEF RunInv, Phases, Concluding
    <3>2. StreamView = "open" /\ StreamView' = "closed"
      BY <2>3 DEF StreamView
    <3>. QED
      BY <2>1, <3>1, <3>2 DEF ContractStep
  <2>4. CASE ResultMissing
    <3>1. SettledView = "Unsettled" /\ AnnouncedView = "Unsettled"
      BY <2>4, ViewFacts DEF ResultMissing, Collected, RunInv, Phases, Concluding
    <3>2. StreamView = "open" /\ StreamView' = "aborted"
      BY <2>4 DEF ResultMissing, Collected, StreamView
    <3>. QED
      BY <2>1, <2>4, <3>1, <3>2, MissingNeedsPanic DEF ContractStep
  <2>. QED
    BY <1>1, <2>2, <2>3, <2>4 DEF QuietMove, StreamView, Concluding
<1>2. CASE WorkMove
  <2>1. NoTerminal /\ NoTerminal' /\ turns = <<>> /\ turns' = <<>>
    BY <1>2, WorkStep DEF WorkMove, RunInv, Phases
  <2>2. StreamView' = StreamView
    BY <1>2 DEF WorkMove, StreamView, Concluding
  <2>. QED
    BY <1>0, <2>1, <2>2, ViewFacts DEF ContractStep
<1>3. CASE ConcludingMove
  <2>1. PICK o \in Outcomes : /\ turns' # <<>> /\ turns'[1].outcome = o
                             /\ notified' # <<>> /\ notified'[Len(notified')].kind = o
    BY <1>3, ConcludingStep
  <2>2. SettledView' = o /\ AnnouncedView' = o
    BY <2>1 DEF SettledView, AnnouncedView, IsTerminal
  <2>3. SettledView = "Unsettled"
    BY <1>3, ViewFacts DEF ConcludingMove, RunInv, Phases
  <2>4. StreamView = "open" /\ StreamView' = "open"
    BY <1>3 DEF ConcludingMove, StreamView, Concluding
  <2>. QED
    BY <2>2, <2>3, <2>4 DEF ContractStep
<1>4. CASE AnswerMove
  <2>1. SettledView' = "Completed" /\ AnnouncedView' = "Unsettled"
    BY <1>0, <1>4, AnswerStep
  <2>2. SettledView = "Unsettled"
    BY <1>4, ViewFacts DEF AnswerMove, RunInv, Phases
  <2>3. StreamView = "open" /\ StreamView' = "open" /\ "Completed" \in Outcomes
    BY <1>4 DEF AnswerMove, StreamView, Concluding, Outcomes
  <2>. QED
    BY <2>1, <2>2, <2>3 DEF ContractStep
<1>5. CASE MaintainMove
  <2>1. turns # <<>> /\ NoTerminal /\ turns[1].outcome = "Completed" /\ turns' = turns
    BY <1>5 DEF MaintainMove, RunInv, Phases, Concluding
  <2>2. AnnouncedView' = "Completed"
    BY <1>5, MaintainStep DEF AnnouncedView, IsTerminal, Outcomes
  <2>3. /\ SettledView = "Completed" /\ SettledView' = "Completed"
        /\ AnnouncedView = "Unsettled"
    BY <1>0, <2>1, ViewFacts
  <2>4. StreamView' = StreamView /\ StreamView = "open" /\ "Completed" \in Outcomes
    BY <1>5 DEF MaintainMove, StreamView, Outcomes
  <2>. QED
    BY <2>2, <2>3, <2>4 DEF ContractStep
<1>6. CASE RefusalMove
  <2>1. StreamView = "open" /\ StreamView' = "closed"
    BY <1>6 DEF RefusalMove, StreamView
  <2>2. AnnouncedView' = AnnouncedView
    BY <1>6 DEF RefusalMove, AnnouncedView, IsTerminal
  <2>3. CASE turns = <<>>
    <3>1. SettledView = "Unsettled" /\ SettledView' = "UserRequested"
      BY <1>0, <1>6, <2>3, ViewFacts, RefusalStep
    <3>2. AnnouncedView = "Unsettled"
      BY <1>6, <2>3, ViewFacts DEF RefusalMove, RunInv, Phases, Concluding
    <3>3. "UserRequested" \in Outcomes
      BY DEF Outcomes
    <3>. QED
      BY <2>1, <2>2, <3>1, <3>2, <3>3 DEF ContractStep
  <2>4. CASE turns # <<>>
    <3>1. SettledView \in Outcomes /\ SettledView' = SettledView
      BY <1>0, <1>6, <2>4, ViewFacts, RefusalStep
    <3>. QED
      BY <2>1, <2>2, <3>1 DEF ContractStep
  <2>. QED
    BY <2>3, <2>4
<1>. QED
  BY StepKinds, <1>1, <1>2, <1>3, <1>4, <1>5, <1>6

(* The run implements RunContract: one outcome is settled, only that one   *)
(* is announced, and the stream closes only after it; only a run whose     *)
(* tools may panic ends otherwise, with nothing settled and nothing told.  *)
THEOREM RunRefinesContract == Spec => ImplementsContract
<1>1. Init => Contract!CInit
  BY DEF Init, Contract!CInit
<1>2. ContractStep => [Contract!CNext]_(Contract!cvars)
  BY DEF ContractStep, SettledView, AnnouncedView, StreamView, Contract!CNext,
         Contract!Settle, Contract!Announce, Contract!Close, Contract!Abort, Contract!cvars
<1>3. TypeInv /\ RunInv /\ ResultsInv /\ CountInv /\ TypeInv' /\ RunInv' /\ [Next]_vars
        => [Contract!CNext]_(Contract!cvars)
  BY <1>2, RunImplements
<1>. QED
  BY <1>1, <1>3, InitType, NextType, InitRun, NextRun, InitResults, NextResults, PTL
  DEF Spec, ImplementsContract, Contract!CSpec
=============================================================================
