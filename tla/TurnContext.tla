----------------------------- MODULE TurnContext -----------------------------
(***************************************************************************)
(* The context engine around the reasoning loop of the runs of ONE         *)
(* conversation, with the memory provider behind it: the read phase (input *)
(* rewrite, assembly of the model-visible frame) and the write phase       *)
(* (topic detection, archive hook, background hook).                       *)
(*                                                                         *)
(* The provider is the framework's bundled window, the layered component   *)
(* (three layers recalled, deduplicated and rewritten into one message),   *)
(* or a foreign one, whose frame may hold the input or not.  Runs of one   *)
(* conversation overlap: every await and every lock section is a step of   *)
(* its own.                                                                *)
(***************************************************************************)
EXTENDS Naturals, Sequences, SequencesExt, FiniteSets

CONSTANTS
  Setups,        \* the registrations considered: provider, rewriter, detector
  Runs,          \* the runs of the conversation; each completes at most once
  Topics,        \* the topics a detector can return
  NoTopic,       \* no topic yet (unwrap_or_default: the empty string)
  Window,        \* DEFAULT_WINDOW_MESSAGES
  L1Turns,       \* turns the layered working memory holds and recalls
  TopN,          \* config.recall_top_n
  Likenesses,    \* the relations "near enough to be one memory" considered
  MaxForeign,    \* bound on the messages of a foreign frame
  MaxActive,     \* bound on the runs inside the engine at once
  MaxFailures    \* bound on the failures of extensions, stores and model calls

(* What the factories may have registered. *)
Registrations == [provider : {"bundled", "layered", "foreign"}, rewriter : BOOLEAN, detector : BOOLEAN]

ASSUME ContextAssumption ==
  /\ Setups \subseteq Registrations
  /\ NoTopic \notin Topics /\ Window \in Nat /\ L1Turns \in Nat /\ TopN \in Nat \ {0}
  /\ MaxForeign \in Nat /\ MaxActive \in Nat /\ MaxFailures \in Nat

VARIABLES
  setup,     \* what is registered: the provider, the rewriter, the detector
  topic,     \* Conversation.topic
  truth,     \* the completed turns of the truth archive
  window,    \* InProcessTurnStore: recent messages, oldest first
  l1,        \* layered: the turns of the working memory, oldest first
  l2,        \* layered: the turns with an event summary
  run,       \* what each run's engine calls are doing
  jobs,      \* background tasks spawned and not yet finished
  told,      \* the facts each run put on the bus
  failed,    \* history: how many failures each run met
  log,       \* history: every message the bundled window received
  kept       \* history: the turns the layers never lost sight of since the run's recall began

vars == <<setup, topic, truth, window, l1, l2, run, jobs, told, failed, log, kept>>

stores == <<window, l1, l2, log>>

Kinds    == {"input", "rewritten", "enhanced", "answer", "note"}
Message(r, kind) == [turn |-> r, kind |-> kind]
Messages == [turn : Runs, kind : Kinds]
Past     == "past"     \* what long-term memory holds of earlier conversations
Verdict  == Topics \cup {NoTopic}   \* what a detector may answer
Items    == [layer : {"l1", "l2", "l3"}, turn : Runs \cup {Past}]

Calling == {"rewriting", "enhancing"}
Points  == {"idle", "rewrite", "assemble", "recall first", "recall second", "recall l3", "rank",
            "enhance", "report", "loop", "detect", "detected", "shift", "archive",
            "spawn", "done"} \cup Calling

Resting == [pc |-> "idle", query |-> "input", embedded |-> TRUE, warm |-> FALSE,
            items |-> {}, alike |-> {}, recalled |-> <<>>, frame |-> <<>>, pending |-> 0,
            previous |-> NoTopic, verdict |-> NoTopic]
NoFacts == [asked |-> 0, answered |-> 0, failed |-> 0, shift |-> <<>>, archived |-> <<>>]

(* The messages of the longest frame: the window's and the turn's own, or a *)
(* foreign one's.                                                           *)
Longest == IF MaxForeign > Window THEN MaxForeign ELSE Window + 1

TypeOK ==
  /\ setup \in Setups
  /\ topic \in Verdict /\ truth \subseteq Runs
  /\ Len(window) <= Window /\ Range(window) \subseteq Messages
  /\ Len(l1) <= L1Turns /\ Range(l1) \subseteq Runs /\ l2 \subseteq Runs
  /\ jobs \subseteq Runs
  /\ \A r \in Runs :
       /\ run[r].pc \in Points /\ run[r].query \in {"input", "rewritten"}
       /\ run[r].items \subseteq Items /\ Len(run[r].recalled) <= TopN
       /\ run[r].alike \in Likenesses \cup {{}}
       /\ Range(run[r].frame) \subseteq Messages /\ Len(run[r].frame) <= Longest
       /\ {run[r].previous, run[r].verdict} \subseteq Verdict
       /\ told[r].failed <= failed[r] /\ told[r].answered <= told[r].asked
       /\ Range(told[r].shift) \cup Range(told[r].archived) \subseteq Verdict

Init ==
  /\ setup \in Setups
  /\ topic = NoTopic /\ truth = {} /\ window = <<>> /\ l1 = <<>> /\ l2 = {}
  /\ run = [r \in Runs |-> Resting] /\ jobs = {}
  /\ told = [r \in Runs |-> NoFacts] /\ failed = [r \in Runs |-> 0]
  /\ log = <<>> /\ kept = [r \in Runs |-> {}]
-----------------------------------------------------------------------------
At(r, pc)  == run[r].pc = pc
Go(r, pc)  == run' = [run EXCEPT ![r].pc = pc]
Quit(r)    == run' = [run EXCEPT ![r] = [Resting EXCEPT !.pc = "done"]]
Active     == {r \in Runs : run[r].pc \notin {"idle", "done"}}
Failures   == FoldFunction(LAMBDA n, m : n + m, 0, failed)
MayFail    == Failures < MaxFailures

(* FactOutlet: one fact of the run, on the bus. *)
Emit(r, fact, value) == told' = [told EXCEPT ![r][fact] = value]
More(r, fact)        == Emit(r, fact, told[r][fact] + 1)

(* A failure a run meets, told at once as a Failed fact, or kept for later. *)
Meets(r) == MayFail /\ failed' = [failed EXCEPT ![r] = @ + 1]
Fails(r, told_now) == Meets(r) /\ IF told_now THEN More(r, "failed") ELSE told' = told

NoFailure == UNCHANGED <<failed, told>>

(* n failures a run meets in one call, kept for later. *)
FailsTimes(r, n) ==
  Failures + n <= MaxFailures /\ failed' = [failed EXCEPT ![r] = @ + n] /\ told' = told

(* NarratedModel: Requested before the call, Responded on its finish item.  *)
Ask(r, from, pc) ==
  /\ At(r, from) /\ Go(r, pc)
  /\ More(r, "asked")
  /\ UNCHANGED <<setup, topic, truth, stores, jobs, failed, kept>>

Answered(r) == More(r, "answered")

(* complete, and the reading of its reply: the call may fail or end without *)
(* a finish, and a finished reply may carry no text.                        *)
Reply(r, good, bad) ==
  \/ Answered(r) /\ UNCHANGED failed /\ good
  \/ Fails(r, FALSE) /\ bad
  \/ Answered(r) /\ Meets(r) /\ bad
-----------------------------------------------------------------------------
(* The read phase *)

(* Only completed turns count as history. *)
HasHistory == truth # {}

(* The history is captured first; without one the coreference rewriter      *)
(* keeps the input and makes no call.                                       *)
Start(r) ==
  /\ At(r, "idle") /\ Cardinality(Active) < MaxActive
  /\ Go(r, IF setup.rewriter /\ HasHistory THEN "rewrite" ELSE "assemble")
  /\ kept' = [kept EXCEPT ![r] = Range(l1) \cup l2]
  /\ UNCHANGED <<setup, topic, truth, stores, jobs, told, failed>>

(* The coreference rewriter's reply may be the input itself.                *)
Coreference(r) ==
  \E query \in {"input", "rewritten"} :
    run' = [run EXCEPT ![r].pc = "assemble", ![r].query = query]

(* A failed rewrite leaves the input as it is, and the failure pending.     *)
RewriteFailed(r) == run' = [run EXCEPT ![r].pc = "assemble", ![r].pending = @ + 1]

Rewrite(r) ==
  /\ At(r, "rewriting") /\ Reply(r, Coreference(r), RewriteFailed(r))
  /\ UNCHANGED <<setup, topic, truth, stores, jobs, kept>>

Query(r) == Message(r, run[r].query)

(* The bundled assembler: the recent messages, then this turn's message.    *)
AssembleBundled(r) ==
  /\ setup.provider = "bundled" /\ At(r, "assemble")
  /\ run' = [run EXCEPT ![r].pc = "report", ![r].frame = Append(window, Query(r))]
  /\ NoFailure /\ UNCHANGED <<setup, topic, truth, stores, jobs, kept>>

(* A foreign assembler owes the engine nothing but a sequence of messages:  *)
(* the query, and others of its own making.                                 *)
ForeignFrames(r) == BoundedSeq({Query(r), Message(r, "note")}, MaxForeign)

AssembleForeign(r) ==
  /\ setup.provider = "foreign" /\ At(r, "assemble")
  /\ \E frame \in ForeignFrames(r) :
       \/ run' = [run EXCEPT ![r].pc = "report", ![r].frame = frame] /\ NoFailure
       \/ /\ Fails(r, FALSE)
          /\ run' = [run EXCEPT ![r].pc = "report", ![r].frame = frame, ![r].pending = @ + 1]
  /\ UNCHANGED <<setup, topic, truth, stores, jobs, kept>>

(* The layered assembler embeds the query, then reads layer after layer.    *)
EmbedQuery(r) ==
  /\ setup.provider = "layered" /\ At(r, "assemble")
  /\ \/ Go(r, "recall first") /\ NoFailure
     \/ /\ Fails(r, FALSE)
        /\ run' = [run EXCEPT ![r].pc = "recall first", ![r].embedded = FALSE, ![r].pending = @ + 1]
  /\ UNCHANGED <<setup, topic, truth, stores, jobs, kept>>

(* Variant: the layers are read in the opposite order. *)
FirstLayerBackwards == "l2"

(* The order the layers are read in. *)
FirstLayer  == "l1"
SecondLayer == IF FirstLayer = "l1" THEN "l2" ELSE "l1"
HeldBy(layer) == IF layer = "l1" THEN Range(l1) ELSE l2

(* What one layer's read hands on: candidates, and failures for the report. *)
Gather(r, items, warm, n, next) ==
  /\ run' = [run EXCEPT ![r].pc = next, ![r].items = @ \cup items, ![r].warm = @ \/ warm,
                        ![r].pending = @ + n]
  /\ FailsTimes(r, n)

Entries(layer, turns) == {[layer |-> layer, turn |-> t] : t \in turns}

(* One layer is read: its entries become candidates, unless the store       *)
(* refuses.  The turns of L1 are embedded only now, one call each, and each *)
(* turn whose call fails is dropped.                                        *)
Recall(r, layer, turns, next) ==
  \E lost \in SUBSET turns :
    /\ \/ /\ layer = "l1" \/ lost = {}
          /\ Gather(r, Entries(layer, turns \ lost), turns # {}, Cardinality(lost), next)
       \/ lost = turns /\ Gather(r, {}, FALSE, 1, next)
    /\ kept' = [kept EXCEPT ![r] = @ \ lost]

RecallFirst(r) ==
  /\ At(r, "recall first") /\ Recall(r, FirstLayer, HeldBy(FirstLayer), "recall second")
  /\ UNCHANGED <<setup, topic, truth, stores, jobs>>

RecallSecond(r) ==
  /\ At(r, "recall second") /\ Recall(r, SecondLayer, HeldBy(SecondLayer), "recall l3")
  /\ UNCHANGED <<setup, topic, truth, stores, jobs>>

(* The long-term graph is asked only with a query vector, and once the      *)
(* working memory holds something: scope after scope, so that a refusal or  *)
(* a failed embedding is one failure and whatever else is found is kept.  A *)
(* store error on one entity or on its relations reads as nothing found.    *)
RecallL3(r) ==
  /\ At(r, "recall l3")
  /\ IF run[r].warm /\ run[r].embedded
       THEN \E found \in SUBSET {Past}, n \in 0..MaxFailures :
              Gather(r, Entries("l3", found), FALSE, n, "rank")
       ELSE Go(r, "rank") /\ NoFailure
  /\ UNCHANGED <<setup, topic, truth, stores, jobs, kept>>

(* dedupe over the ranked candidates: one that is near enough to a better   *)
(* one, by its text or its vector, is dropped.  TopN are kept at most.      *)
Alike(alike, a, b) == a = b \/ {a, b} \in alike
Deduped(alike, ranked) ==
  LET deduped[s \in Seq(Items)] ==
        IF s = <<>> THEN <<>>
        ELSE LET sofar == deduped[Front(s)]
             IN  IF \E k \in Range(sofar) : Alike(alike, k, Last(s))
                   THEN sofar ELSE Append(sofar, Last(s))
  IN  deduped[ranked]
Truncated(s) == SubSeq(s, 1, IF Len(s) < TopN THEN Len(s) ELSE TopN)

Best(alike, ranked) == Truncated(Deduped(alike, ranked))

(* Similarity, age, importance and topic order the candidates in any way,   *)
(* and which of two vectors a turn is compared by follows from the query.   *)
Scored(items) == SetToSeqs(items)

Rank(r) ==
  /\ At(r, "rank")
  /\ \E ranked \in Scored(run[r].items), alike \in Likenesses :
       run' = [run EXCEPT ![r].alike = alike, ![r].recalled = Best(alike, ranked),
                          ![r].frame = IF ranked = <<>> THEN <<Query(r)>> ELSE @,
                          ![r].pc = IF ranked = <<>> THEN "report" ELSE "enhance"]
  /\ NoFailure /\ UNCHANGED <<setup, topic, truth, stores, jobs, kept>>

(* The recalled memories are folded into one message by a model call; when  *)
(* it fails, the query stands alone.                                        *)
Folded(r)   == run' = [run EXCEPT ![r].pc = "report", ![r].frame = <<Message(r, "enhanced")>>]
Unfolded(r) == run' = [run EXCEPT ![r].pc = "report", ![r].frame = <<Query(r)>>, ![r].pending = @ + 1]

Enhance(r) ==
  /\ At(r, "enhancing") /\ Reply(r, Folded(r), Unfolded(r))
  /\ UNCHANGED <<setup, topic, truth, stores, jobs, kept>>

(* Variant: an empty frame is passed on as it is. *)
FramePassedOn(r) == run[r].frame

(* The frame the model sees: never without the input. *)
Frame(r) == IF run[r].frame = <<>> THEN <<Message(r, "input")>> ELSE run[r].frame

(* The engine's tail of assemble: the empty frame is one more failure, and  *)
(* every failure of the read phase is told.                                 *)
Report(r) ==
  LET empty == IF run[r].frame = <<>> THEN 1 ELSE 0 IN
  /\ At(r, "report")
  /\ failed' = [failed EXCEPT ![r] = @ + empty]
  /\ Emit(r, "failed", told[r].failed + run[r].pending + empty)
  /\ run' = [run EXCEPT ![r].pc = "loop", ![r].pending = 0, ![r].frame = Frame(r),
                        ![r].items = {}, ![r].alike = {}, ![r].recalled = <<>>]
  /\ kept' = [kept EXCEPT ![r] = {}]
  /\ UNCHANGED <<setup, topic, truth, stores, jobs>>
-----------------------------------------------------------------------------
(* The reasoning loop, of which the engine sees the outcome only: a failed  *)
(* or cancelled turn never reaches the write phase.                         *)
Loop(r) ==
  /\ At(r, "loop")
  /\ \/ /\ truth' = truth \cup {r}
        /\ run' = [run EXCEPT ![r].previous = topic,
                              ![r].pc = IF setup.detector THEN "detect" ELSE "archive"]
     \/ truth' = truth /\ Quit(r)
  /\ NoFailure /\ UNCHANGED <<setup, topic, stores, jobs, kept>>
-----------------------------------------------------------------------------
(* The write phase *)

(* SimilarityTopicDetector: no verdict, or a topic the input is taken for   *)
(* and that is unlike the conversation's.                                   *)
Verdicts == {NoTopic} \cup (Topics \ {topic})

(* The detector reads the topic again and embeds: the input establishes the *)
(* first topic, keeps the current one, or names another.                    *)
Detect(r) ==
  /\ At(r, "detect")
  /\ \/ /\ \E verdict \in Verdicts :
             run' = [run EXCEPT ![r].pc = "detected", ![r].verdict = verdict]
        /\ NoFailure
     \/ topic # NoTopic /\ Fails(r, TRUE) /\ Go(r, "archive")
  /\ UNCHANGED <<setup, topic, truth, stores, jobs, kept>>

(* The verdict is compared with the topic read before the detection.        *)
Changes(r) == run[r].verdict \notin {NoTopic, run[r].previous}

SetTopic(r) ==
  /\ At(r, "detected")
  /\ IF Changes(r)
       THEN /\ topic' = run[r].verdict
            /\ Go(r, IF run[r].previous = NoTopic THEN "archive" ELSE "shift")
       ELSE topic' = topic /\ Go(r, "archive")
  /\ NoFailure /\ UNCHANGED <<setup, truth, stores, jobs, kept>>

EmitShift(r) ==
  /\ At(r, "shift") /\ Go(r, "archive")
  /\ Emit(r, "shift", <<run[r].previous, run[r].verdict>>)
  /\ UNCHANGED <<setup, topic, truth, stores, jobs, failed, kept>>

(* Variant: the conversation is asked for its topic again. *)
CurrentTopic(r) == topic

(* The topic the hooks and the archive fact are given: the turn's own.      *)
TurnTopic(r) == IF Changes(r) THEN run[r].verdict ELSE run[r].previous

Newest(s, n) == SubSeq(s, IF Len(s) > n THEN Len(s) - n + 1 ELSE 1, Len(s))

(* Variant: the excess is drained before the turn is appended. *)
WindowedEarly(messages) == Newest(window, Window) \o messages
Windowed(messages) == Newest(window \o messages, Window)

NewMessages(r) == <<Message(r, "input"), Message(r, "answer")>>

(* archive_turn, as each provider implements it. *)
ArchiveHook(r) ==
  \/ /\ setup.provider = "bundled"
     /\ window' = Windowed(NewMessages(r)) /\ log' = log \o NewMessages(r)
     /\ UNCHANGED <<l1, l2>>
  \/ /\ setup.provider = "layered" /\ l1' = Newest(Append(l1, r), L1Turns)
     /\ UNCHANGED <<window, l2, log>>
  \/ setup.provider = "foreign" /\ UNCHANGED stores

(* The bundled hook cannot fail.                                            *)
Archive(r) ==
  /\ At(r, "archive") /\ Go(r, "spawn")
  /\ \/ Emit(r, "archived", <<TurnTopic(r)>>) /\ UNCHANGED failed /\ ArchiveHook(r)
     \/ setup.provider # "bundled" /\ Fails(r, TRUE) /\ UNCHANGED stores
  /\ kept' = [q \in Runs |-> kept[q] \cap (Range(l1') \cup l2')]
  /\ UNCHANGED <<setup, topic, truth, jobs>>

(* spawn_task runs whether or not the archive succeeded.                    *)
Spawn(r) ==
  /\ At(r, "spawn") /\ Quit(r)
  /\ \/ jobs' = (IF setup.provider = "bundled" THEN jobs ELSE jobs \cup {r}) /\ NoFailure
     \/ setup.provider # "bundled" /\ Fails(r, TRUE) /\ UNCHANGED jobs
  /\ UNCHANGED <<setup, topic, truth, stores, kept>>

(* spawn_failing: a background task that fails tells so.  The layered task  *)
(* may summarise a turn of the working memory.                              *)
Background(r) ==
  /\ r \in jobs /\ jobs' = jobs \ {r}
  /\ \/ NoFailure /\ UNCHANGED l2
     \/ \E t \in Range(l1) : l2' = l2 \cup {t} /\ NoFailure
     \/ Fails(r, TRUE) /\ UNCHANGED l2
  /\ UNCHANGED <<setup, topic, truth, window, l1, log, run, kept>>

Next ==
  \E r \in Runs :
    \/ Start(r) \/ Ask(r, "rewrite", "rewriting") \/ Rewrite(r)
    \/ AssembleBundled(r) \/ AssembleForeign(r)
    \/ EmbedQuery(r) \/ RecallFirst(r) \/ RecallSecond(r) \/ RecallL3(r) \/ Rank(r)
    \/ Ask(r, "enhance", "enhancing") \/ Enhance(r) \/ Report(r)
    \/ Loop(r) \/ Detect(r) \/ SetTopic(r) \/ EmitShift(r)
    \/ Archive(r) \/ Spawn(r) \/ Background(r)

Spec == Init /\ [][Next]_vars
-----------------------------------------------------------------------------
(* Properties *)

(* No failure an extension or a store hands to the engine is silent and no *)
(* call is told twice: every MemoryFailure a run met is a Failed fact, but *)
(* for those the read phase is still gathering, and a call is answered on  *)
(* the bus at most once (assemble, on_turn_completed, spawn_failing,       *)
(* NarratedModel).                                                         *)
NothingSilent ==
  \A r \in Runs :
    /\ failed[r] = told[r].failed + run[r].pending
    /\ told[r].answered + (IF run[r].pc \in Calling THEN 1 ELSE 0) <= told[r].asked

(* The bundled window is the tail of everything archived, however the turns *)
(* of two handles interleave, and a frame taken from it is a contiguous run *)
(* of those messages (InProcessTurnStore::append and recent).               *)
WindowIsTail ==
  /\ window = Newest(log, Window)
  /\ setup.provider = "bundled" =>
       \A r \in Runs : Len(run[r].frame) > 1 =>
         \E i \in 1..Len(log) : i + Len(run[r].frame) - 2 <= Len(log)
           /\ SubSeq(log, i, i + Len(run[r].frame) - 2) = Front(run[r].frame)

(* Whatever the extensions did, the model is never called with an empty     *)
(* frame, and with the framework's own assemblers it sees this run's        *)
(* message last and no message of a turn that has not completed: failed     *)
(* rewrites, refused layers and turns archived meanwhile by other runs      *)
(* change none of it.  A foreign frame is passed on unless it is empty (the *)
(* empty-frame substitution, the bundled and the layered assembler).        *)
FrameKeepsInput ==
  /\ WindowIsTail
  /\ \A r \in Runs : run[r].pc \in {"loop", "detect", "detected", "shift", "archive", "spawn"} =>
       LET frame == run[r].frame IN
         /\ frame # <<>>
         /\ setup.provider # "foreign" =>
              /\ Last(frame).turn = r /\ Last(frame).kind # "answer"
              /\ \A m \in Range(Front(frame)) : m.turn \in truth \ {r}

(* Recall has no blind spot: a turn that L1 or L2 held all along, and whose *)
(* reading did not fail, is a candidate, although background tasks move it  *)
(* from one layer to the other between the two reads.  Whatever is taken to *)
(* be alike, no two of the memories shown are, and while the top N has room *)
(* a candidate is shown, or one that it is like (assemble, dedupe).         *)
RecallIsComplete ==
  \A r \in Runs :
    /\ run[r].pc \in {"recall l3", "rank"} =>
         kept[r] \subseteq {item.turn : item \in run[r].items}
    /\ run[r].pc \in {"enhance", "enhancing"} =>
         LET shown == run[r].recalled
             alike == run[r].alike IN
           /\ \A i, j \in 1..Len(shown) :
                i < j => ~Alike(alike, shown[i], shown[j])
           /\ Len(shown) < TopN =>
                \A item \in run[r].items : \E k \in Range(shown) : Alike(alike, k, item)

(* A turn that told a shift is archived under the topic that shift ends at, *)
(* whatever another run made of the conversation's topic meanwhile, and it  *)
(* is a shift to another topic (on_turn_completed, PipelineTurnContext).    *)
TopicsAgree ==
  \A r \in Runs :
    told[r].shift # <<>> =>
      /\ told[r].shift[1] # told[r].shift[2]
      /\ told[r].archived # <<>> => told[r].archived[1] = told[r].shift[2]

(* What the facts of a turn told is what happened to it. *)
FactsAreTrue == NothingSilent /\ TopicsAgree
=============================================================================
