----------------------------- MODULE ModelStream -----------------------------
(***************************************************************************)
(* One call of a model adapter: the request is put on the wire, the HTTP   *)
(* response is read as server-sent events, the events are accumulated, and *)
(* the stream yields items.  The adapter is synonz-openai or               *)
(* synonz-anthropic.                                                       *)
(*                                                                         *)
(* The backend is the environment: it sends any legal sequence of events,  *)
(* cut into network chunks at any place, and may close or break the        *)
(* connection at any point.                                                *)
(***************************************************************************)
EXTENDS Naturals, Sequences, SequencesExt, FiniteSets

CONSTANTS
  Providers,  \* the adapters considered: "openai", "anthropic"
  Requests,   \* the canonical conversations sent: sequences of messages
  Calls,      \* the tool call indices a response may use, in order: 1..n
  MaxEvents   \* bound on the events of one response

Roles == {"system", "user", "assistant", "tool"}
Kinds == {"text", "call", "result"}
Block == [kind : Kinds, id : Nat]
Message == [role : Roles, blocks : Seq(Block)]

ASSUME StreamAssumption ==
  /\ Providers \subseteq {"openai", "anthropic"}
  /\ Requests \subseteq Seq(Message)
  /\ IsFiniteSet(Calls) /\ Calls = 1..Cardinality(Calls) /\ MaxEvents \in Nat

VARIABLES
  provider,   \* the adapter of the call
  request,    \* the canonical messages
  wire,       \* the request body: its system parameter and its messages
  call,       \* where the call stands
  sent,       \* the backend: what it has sent of the response
  half,       \* the parser's buffer: an event whose line is incomplete
  queue,      \* complete payloads, not yet parsed
  acc,        \* ResponseAccumulator
  items,      \* items of the last payload not yet yielded (openai)
  out         \* what the stream has yielded

vars == <<provider, request, wire, call, sent, half, queue, acc, items, out>>

Nothing == [kind |-> "nothing"]
NoBody  == [system |-> <<>>, messages |-> <<>>]
Fresh   == [text |-> 0, args |-> [c \in Calls |-> "absent"], usage |-> 0]
Silent  == [text |-> 0, terminals |-> <<>>]
Unsent  == [events |-> 0, text |-> 0, args |-> [c \in Calls |-> "absent"],
            stopped |-> FALSE, usage |-> FALSE, over |-> FALSE]

(* A call, as far as it is told.  Its name may come late or never, before   *)
(* its arguments; these arrive in two fragments.                            *)
Args   == {"absent", "unnamed", "empty", "part", "whole"}
Longer(args) == CASE args = "empty" -> "part" [] args = "part" -> "whole"

Errors == {"Api", "InvalidRequest", "RateLimited", "Transport"}
Refusal == [Api |-> "refused: Api", InvalidRequest |-> "refused: InvalidRequest",
            RateLimited |-> "refused: RateLimited", Transport |-> "refused: Transport"]
Failed(error) == [kind |-> "failed", error |-> error]
Terminals == {Failed(e) : e \in Errors}
             \cup [kind : {"finish"}, text : 0..MaxEvents, usage : 0..1, calls : SUBSET Calls]

TypeOK ==
  /\ provider \in Providers
  /\ call \in {"building", "sending", "streaming", "ended"} \cup {Refusal[e] : e \in Errors}
  /\ acc.text \in 0..MaxEvents /\ acc.usage \in 0..1 /\ acc.args \in [Calls -> Args]
  /\ out.text <= sent.text /\ Range(out.terminals) \subseteq Terminals
  /\ sent.events <= MaxEvents /\ Len(items) <= 2

Init ==
  /\ provider \in Providers /\ request \in Requests /\ wire = NoBody /\ call = "building"
  /\ sent = Unsent /\ half = Nothing /\ queue = <<>> /\ acc = Fresh /\ items = <<>> /\ out = Silent
-----------------------------------------------------------------------------
(* The request body *)

(* What each role may carry. *)
Allowed(role, block) ==
  CASE role \in {"system", "user"} -> block.kind = "text"
    [] role = "assistant"          -> block.kind \in {"text", "call"}
    [] role = "tool"               -> block.kind = "result"

Translatable(message) == \A b \in Range(message.blocks) : Allowed(message.role, b)

(* The blocks of some kinds, in their order. *)
Of(kinds, blocks) ==
  FlattenSeq([i \in DOMAIN blocks |-> IF blocks[i].kind \in kinds THEN <<blocks[i]>> ELSE <<>>])

(* The texts become one content string, apart from the calls. *)
Joined(blocks) == Of({"text"}, blocks) \o Of({"call", "result"}, blocks)

WireOpenAI(message) ==
  IF message.role = "tool"
    THEN [i \in DOMAIN message.blocks |-> [role |-> "tool", blocks |-> <<message.blocks[i]>>]]
    ELSE <<[message EXCEPT !.blocks = Joined(@)]>>

(* System text goes to a parameter of its own; tool results are one user message. *)
WireAnthropic(message) ==
  CASE message.role = "system" -> <<>>
    [] message.role = "tool"   -> <<[message EXCEPT !.role = "user"]>>
    [] OTHER                   -> <<message>>

SystemOf(message) ==
  IF provider = "anthropic" /\ message.role = "system" THEN message.blocks ELSE <<>>

(* Variant: only the first block of a tool message is spliced. *)
WireFirstResult(message) ==
  IF provider = "openai" THEN SubSeq(WireOpenAI(message), 1, IF Len(message.blocks) = 0 THEN 0 ELSE 1)
                         ELSE WireAnthropic(message)
ToWire(message) == IF provider = "openai" THEN WireOpenAI(message) ELSE WireAnthropic(message)

(* The call returns an error, and no stream. *)
Refused(error) == call' = Refusal[error]

Build ==
  /\ call = "building"
  /\ IF \A m \in Range(request) : Translatable(m)
       THEN /\ call' = "sending"
            /\ wire' = [system   |-> FlattenSeq([i \in DOMAIN request |-> SystemOf(request[i])]),
                        messages |-> FlattenSeq([i \in DOMAIN request |-> ToWire(request[i])])]
       ELSE wire' = wire /\ Refused("InvalidRequest")
  /\ UNCHANGED <<provider, request, sent, half, queue, acc, items, out>>

(* The status decides the error; the body of the request is gone.           *)
StatusError(status) ==
  CASE status = 429 -> "RateLimited" [] status \in {400, 404, 422} -> "InvalidRequest" [] OTHER -> "Api"

Send ==
  /\ call = "sending" /\ wire' = NoBody /\ request' = <<>>
  /\ \/ call' = "streaming"
     \/ Refused("Transport")
     \/ \E status \in {400, 429, 500} : Refused(StatusError(status))
  /\ UNCHANGED <<provider, sent, half, queue, acc, items, out>>
-----------------------------------------------------------------------------
(* The backend *)

Content == sent.text > 0 \/ \E c \in Calls : sent.args[c] # "absent"

(* The calls that a fragment may continue. *)
Unfinished == {c \in Calls : sent.args[c] \in {"empty", "part"}}

(* OpenAI names the end of the response in a chunk of choices, which may    *)
(* still carry text and a fragment of a call (none: index 0), and the usage *)
(* it was asked for, unless that comes in a chunk of its own.  Anthropic    *)
(* opens with the input usage, and reports the rest with the stop reason.   *)
Stops ==
  IF provider = "openai"
    THEN [kind : {"stop"}, usage : 0..1, text : 0..1, index : {0} \cup Unfinished]
    ELSE {[kind |-> "stop", usage |-> 1, text |-> 0, index |-> 0]}

(* The events the backend may send next; [DONE] and message_stop close, and *)
(* a call of OpenAI's may begin without its name.                           *)
Legal ==
  IF sent.over THEN {}
  ELSE IF sent.stopped
    THEN {[kind |-> "done"]} \cup {e \in {[kind |-> "usage"]} : provider = "openai" /\ ~sent.usage}
  ELSE {[kind |-> k] : k \in {"text", "reasoning", "junk"}}
       \cup {e \in [kind : {"open"}, index : Calls, named : BOOLEAN] :
               /\ sent.args[e.index] = "absent" /\ \A d \in 1..(e.index - 1) : sent.args[d] # "absent"
               /\ e.named \/ provider = "openai"}
       \cup [kind : {"name"}, index : {c \in Calls : sent.args[c] = "unnamed"}]
       \cup [kind : {"args"}, index : Unfinished]
       \cup Stops
       \cup {e \in {[kind |-> "error"]} : provider = "anthropic"}

(* What an event tells: text, something of a call, the usage. *)
Text(e)     == IF e.kind = "text" THEN 1 ELSE IF e.kind = "stop" THEN e.text ELSE 0
About(e, c) == e.kind \in {"open", "name", "args", "stop"} /\ e.index = c
Told(e, args) ==
  CASE e.kind = "open" -> IF e.named THEN "empty" ELSE "unnamed"
    [] e.kind = "name" -> "empty"
    [] OTHER -> Longer(args)
Extended(args, e) == [c \in Calls |-> IF About(e, c) THEN Told(e, args[c]) ELSE args[c]]
Counts(e) == e.kind = "usage" \/ (e.kind = "stop" /\ e.usage = 1)

(* What the backend has sent once it sends e. *)
Sending(e) ==
  [sent EXCEPT !.events = @ + 1, !.text = @ + Text(e), !.args = Extended(@, e),
               !.stopped = @ \/ e.kind = "stop", !.usage = @ \/ Counts(e),
               !.over = @ \/ e.kind \in {"done", "error"}]

Reading == call = "streaming" /\ queue = <<>> /\ items = <<>>

(* feed: the lines complete once e is whole. *)
Fed(e) == IF half = Nothing THEN <<e>> ELSE <<half, e>>

(* A network chunk ends in the middle of a line: the parser buffers it.     *)
ReadHalf ==
  /\ Reading /\ half = Nothing /\ sent.events < MaxEvents
  /\ \E e \in Legal : half' = e /\ sent' = Sending(e)
  /\ UNCHANGED <<provider, request, wire, call, queue, acc, items, out>>

(* A network chunk brings the rest of a line, or a whole one, or both.      *)
ReadLine ==
  /\ Reading
  /\ \/ half # Nothing /\ queue' = <<half>> /\ half' = Nothing /\ sent' = sent
     \/ /\ sent.events < MaxEvents
        /\ \E e \in Legal :
             /\ sent' = Sending(e) /\ half' = Nothing
             /\ queue' = Fed(e)
  /\ UNCHANGED <<provider, request, wire, call, acc, items, out>>
-----------------------------------------------------------------------------
(* The accumulator *)

(* The accumulator after one event; one without the usage leaves what is    *)
(* known of it.                                                             *)
Accumulated(e) ==
  [acc EXCEPT !.text = @ + Text(e), !.args = Extended(@, e), !.usage = IF Counts(e) THEN 1 ELSE @]

Begun(a) == {c \in Calls : a.args[c] # "absent"}

(* Empty arguments are an empty object for OpenAI, malformed for Anthropic. *)
Parses(args) == args = "whole" \/ (provider = "openai" /\ args = "empty")
Unfit(a)     == {c \in Begun(a) : ~Parses(a.args[c])}

HasContent(a) == a.text > 0 \/ Begun(a) # {}

Finish(a) == [kind |-> "finish", text |-> a.text, usage |-> a.usage, calls |-> Begun(a)]

(* Variant: arguments that do not parse are taken for none. *)
FinishItemLeniently(a) == IF ~HasContent(a) THEN Nothing ELSE Finish(a)

(* finish_item: nothing, the message, or an error: that of the first call   *)
(* that cannot be part of the message.                                      *)
FinishItem(a) ==
  IF ~HasContent(a) THEN Nothing
  ELSE IF Unfit(a) = {} THEN Finish(a)
  ELSE LET first == CHOOSE c \in Unfit(a) : \A d \in Unfit(a) : c <= d IN
       Failed(IF a.args[first] = "unnamed" THEN "Api" ELSE "InvalidRequest")

(* Variant: the message is built from a copy, and the accumulator keeps everything. *)
NotDrained(a) == a

(* It takes the content with it; OpenAI takes the usage too.  Anthropic     *)
(* stops at the first block it cannot parse and keeps the later ones.       *)
Drained(a) ==
  LET kept == {c \in Calls : \E b \in Unfit(a) : b < c /\ \A d \in Unfit(a) : b <= d} IN
  IF provider = "openai" THEN IF HasContent(a) THEN Fresh ELSE a
  ELSE [a EXCEPT !.text = 0, !.args = [c \in Calls |-> IF c \in kept THEN @[c] ELSE "absent"]]

Yielded(item) == [out EXCEPT !.terminals = Append(@, item)]

(* OpenAI ends the stream at a terminal item; Anthropic, at an error of its *)
(* own making only.                                                         *)
AfterYield(item) == IF provider = "openai" THEN "ended" ELSE "streaming"

Payload == Head(queue)

(* Variant: reasoning is narrated as text. *)
AnyDelta(e)  == e.kind \in {"text", "reasoning"}

(* Reasoning is narrated as a delta of its own kind, and never as text.     *)
TextDelta(e) == e.kind = "text"

(* A payload that yields nothing, or a delta.                               *)
ParseDelta ==
  /\ call = "streaming" /\ items = <<>> /\ queue # <<>>
  /\ Payload.kind \in {"text", "reasoning", "junk", "open", "name", "args", "usage"}
  /\ acc' = Accumulated(Payload) /\ queue' = Tail(queue)
  /\ out' = IF TextDelta(Payload) THEN [out EXCEPT !.text = @ + 1] ELSE out
  /\ UNCHANGED <<provider, request, wire, call, sent, half, items>>

(* The finish signal: the terminal item is built here and now, from what    *)
(* the payloads up to this one told.  The text of this one is yielded ahead *)
(* of the item, unless building it fails.                                   *)
ParseStop ==
  /\ call = "streaming" /\ items = <<>> /\ queue # <<>> /\ Payload.kind = "stop"
  /\ LET told == Accumulated(Payload)
         item == FinishItem(told) IN
       /\ acc' = Drained(told) /\ queue' = Tail(queue)
       /\ CASE item = Nothing -> UNCHANGED <<call, items, out>>
            [] item.kind = "failed" -> out' = Yielded(item) /\ call' = "ended" /\ UNCHANGED items
            [] OTHER -> IF provider = "openai"
                          THEN /\ items' = <<item>> /\ out' = [out EXCEPT !.text = @ + Text(Payload)]
                               /\ UNCHANGED call
                          ELSE out' = Yielded(item) /\ call' = AfterYield(item) /\ UNCHANGED items
  /\ UNCHANGED <<provider, request, wire, sent, half>>

(* OpenAI's queued items are yielded before anything else is read.          *)
YieldQueued ==
  /\ call = "streaming" /\ items # <<>>
  /\ items' = Tail(items) /\ out' = Yielded(Head(items)) /\ call' = AfterYield(Head(items))
  /\ UNCHANGED <<provider, request, wire, sent, half, queue, acc>>

(* [DONE] ends the stream; message_stop only asks for what is left.         *)
ParseDone ==
  /\ call = "streaming" /\ items = <<>> /\ queue # <<>> /\ Payload.kind = "done"
  /\ LET item == FinishItem(acc) IN
       /\ acc' = Drained(acc) /\ queue' = Tail(queue)
       /\ IF item = Nothing THEN out' = out ELSE out' = Yielded(item)
       /\ call' = IF provider = "openai" \/ item.kind = "failed" THEN "ended" ELSE "streaming"
  /\ UNCHANGED <<provider, request, wire, sent, half, items>>

(* Anthropic's error event: a Failed item after which the stream goes on.   *)
ParseError ==
  /\ call = "streaming" /\ queue # <<>> /\ Payload.kind = "error"
  /\ queue' = Tail(queue) /\ out' = Yielded(Failed("Api")) /\ call' = AfterYield(Failed("Api"))
  /\ UNCHANGED <<provider, request, wire, sent, half, acc, items>>

(* The connection closes: a line still buffered is lost, and what has       *)
(* accumulated is finished, whether or not the backend had stopped.         *)
(* Anthropic ends without an item when that fails.                          *)
Closed ==
  /\ Reading /\ call' = "ended" /\ acc' = Drained(acc)
  /\ LET item == FinishItem(acc) IN
       out' = IF item = Nothing \/ (provider = "anthropic" /\ item.kind = "failed")
                THEN out ELSE Yielded(item)
  /\ UNCHANGED <<provider, request, wire, sent, half, queue, items>>

Broken ==
  /\ Reading /\ call' = "ended" /\ out' = Yielded(Failed("Transport"))
  /\ UNCHANGED <<provider, request, wire, sent, half, queue, acc, items>>

Next == \/ Build \/ Send \/ ReadHalf \/ ReadLine \/ ParseDelta \/ ParseStop \/ YieldQueued
        \/ ParseDone \/ ParseError \/ Closed \/ Broken

Spec == Init /\ [][Next]_vars
-----------------------------------------------------------------------------
(* Properties *)

(* The finishes among the terminal items yielded, by their places. *)
Finishes == {i \in DOMAIN out.terminals : out.terminals[i].kind = "finish"}

(* What the adapter has received of a call: a line still in the parser's   *)
(* buffer is not part of it.                                               *)
Received(c) ==
  IF ~About(half, c) THEN sent.args[c]
  ELSE CASE half.kind = "open" -> "absent"
         [] half.kind = "name" -> "unnamed"
         [] OTHER -> IF sent.args[c] = "whole" THEN "part" ELSE "empty"

(* The final message is exactly what was streamed: its text is the text of *)
(* the deltas, its calls are calls received, none of them with part of its *)
(* arguments, however the response was chunked and wherever it ended       *)
(* (apply_chunk, apply_event, finish_item).                                *)
FinishIsWhole ==
  \A i \in Finishes :
    LET f == out.terminals[i] IN
      /\ f.text = out.text
      /\ \A c \in f.calls : Parses(Received(c))
      /\ {c \in Calls : Received(c) # "absent"} \subseteq f.calls
      /\ f.text > 0 \/ f.calls # {}

(* What the adapters keep of one terminal item to a call.  OpenAI's stream *)
(* has exactly that, and ends with it (the done flag of transform_sse).    *)
(* Anthropic's finishes once at most (the drained accumulator); there the  *)
(* backend's own error does not end the stream, and the connection may     *)
(* break after the finish, so a call may have two terminal items, the      *)
(* first of them that error or the second the broken connection.           *)
FinishIsLast ==
  /\ \A i, j \in Finishes : i = j
  /\ provider = "openai" => Len(out.terminals) <= 1 /\ (out.terminals # <<>> => call = "ended")
  /\ Len(out.terminals) > 1 =>
       /\ Len(out.terminals) = 2 /\ call = "ended"
       /\ out.terminals[1] = Failed("Api") \/ out.terminals[2] = Failed("Transport")

(* The blocks of some kinds that some roles say in a conversation. *)
Blocks(messages, roles, kinds) ==
  FlattenSeq([i \in DOMAIN messages |->
                IF messages[i].role \in roles THEN Of(kinds, messages[i].blocks) ELSE <<>>])

(* Who says on the wire what a role says: Anthropic's system speaks in the *)
(* parameter alone.                                                        *)
Speaks(role) == IF provider = "openai" THEN role
                ELSE CASE role = "tool" -> "user" [] role = "system" -> "nobody" [] OTHER -> role

(* The kinds whose order the wire keeps: a message of OpenAI's has a field *)
(* for the text and one for the calls.                                     *)
Strands == IF provider = "openai" THEN {{"text", "result"}, {"call", "result"}} ELSE {Kinds}

(* A request reaches the wire whole, or not at all: every text, call and   *)
(* result once, in its order, said by the role that said it; the system    *)
(* text of Anthropic in its parameter; and every wire message is one its   *)
(* role may send (to_wire_messages, request_body).                         *)
RequestIsFaithful ==
  call = "sending" =>
    /\ \A kinds \in Strands : \A roles \in {Roles} \cup {{r} : r \in Roles} :
         Blocks(wire.messages, roles, kinds) = Blocks(request, {r \in Roles : Speaks(r) \in roles}, kinds)
    /\ wire.system = IF provider = "openai" THEN <<>> ELSE Blocks(request, {"system"}, Kinds)
    /\ \A i \in DOMAIN wire.messages : LET m == wire.messages[i] IN m.role = "user" \/ Translatable(m)

(* model.rs, ModelStreamItem: a stream yields one Finish, the terminal     *)
(* item, or one Failed, terminal for the call.                             *)
OneTerminalItem == Len(out.terminals) <= 1

(* The adapter asks for the usage and the backend reports it: the finish   *)
(* carries it.                                                             *)
UsageIsReported ==
  call = "ended" /\ sent.usage /\ half = Nothing => \A i \in Finishes : out.terminals[i].usage = 1
=============================================================================
