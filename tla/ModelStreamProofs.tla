-------------------------- MODULE ModelStreamProofs --------------------------
(***************************************************************************)
(* Proofs about the model adapters, for every conversation, any number of  *)
(* calls in a response and responses of any length, however they are cut   *)
(* into chunks and wherever the connection ends.                           *)
(***************************************************************************)
EXTENDS ModelStream, FiniteSetTheorems, SequenceTheorems, TLAPS

Event == [kind : {"text", "reasoning", "junk", "usage", "done", "error"}]
         \cup [kind : {"open"}, index : Calls, named : BOOLEAN]
         \cup [kind : {"name", "args"}, index : Calls]
         \cup [kind : {"stop"}, usage : 0..1, text : 0..1, index : {0} \cup Calls]

(* What the backend has sent and the adapter has not parsed. *)
Pending == IF half = Nothing THEN queue ELSE <<half>>

(* What a reader of the response knows of it. *)
Views == [text : Nat, args : [Calls -> Args], stopped : BOOLEAN, over : BOOLEAN]
Seen(s) == [text |-> s.text, args |-> s.args, stopped |-> s.stopped, over |-> s.over]
All == Seen(sent)

After(v, e) == [text    |-> v.text + Text(e),
                args    |-> Extended(v.args, e),
                stopped |-> v.stopped \/ e.kind = "stop",
                over    |-> v.over \/ e.kind \in {"done", "error"}]

(* The events that may come when the reader knows v. *)
May(v, e) ==
  /\ ~v.over
  /\ e.kind \in {"usage", "done"} <=> v.stopped
  /\ e.kind = "open" => v.args[e.index] = "absent"
  /\ e.kind = "name" => v.args[e.index] = "unnamed"
  /\ e.kind \in {"args", "stop"} /\ e.index \in Calls => v.args[e.index] \in {"empty", "part"}
  /\ e.kind = "stop" /\ provider = "anthropic" => e.text = 0
  /\ e.kind = "error" => provider = "anthropic"

(* Who knows v and reads what is pending knows everything. *)
Coming(v) ==
  \/ Pending = <<>> /\ v = All
  \/ \E e \in Event : Pending = <<e>> /\ May(v, e) /\ After(v, e) = All
  \/ \E e, f \in Event : /\ Pending = <<e, f>> /\ May(v, e) /\ May(After(v, e), f)
                         /\ After(After(v, e), f) = All

(* The finish item for what v tells. *)
IsFinish(f, v) ==
  /\ f \in Terminals /\ f.kind = "finish" /\ f.text = v.text
  /\ f.calls = {c \in Calls : v.args[c] # "absent"}
  /\ \A c \in f.calls : Parses(v.args[c])
  /\ f.text > 0 \/ f.calls # {}

(* The adapter that has parsed what v tells: until the stop it has          *)
(* accumulated just that, after it nothing is left to finish.               *)
Parsed(v) ==
  /\ out.text = v.text
  /\ ~v.stopped => acc.text = v.text /\ acc.args = v.args
  /\ v.stopped => ~HasContent(acc)
  /\ \/ items = <<>>
     \/ provider = "openai" /\ v.stopped /\ \E f \in Terminals : items = <<f>> /\ IsFinish(f, v)
  /\ \/ out.terminals = <<>>
     \/ /\ provider = "anthropic"
        /\ \/ v.stopped /\ \E f \in Terminals : out.terminals = <<f>> /\ IsFinish(f, v)
           \/ v.over /\ ~v.stopped /\ out.terminals = <<Failed("Api")>>

Accounts == [text : Nat, args : [Calls -> Args], usage : 0..1]
Sendings == [events : 0..MaxEvents, text : Nat, args : [Calls -> Args],
             stopped : BOOLEAN, usage : BOOLEAN, over : BOOLEAN]

Points == {"building", "sending", "streaming", "ended"} \cup {Refusal[e] : e \in Errors}

Typed ==
  /\ provider \in Providers /\ call \in Points
  /\ sent \in Sendings /\ sent.text <= sent.events
  /\ acc \in Accounts /\ acc.text <= sent.text
  /\ half # Nothing => queue = <<>>
  /\ Len(items) <= 1
  /\ out \in [text : Nat, terminals : Seq(Terminals)] /\ out.text <= sent.text

(* The stream goes on, or it has ended well. *)
InStep ==
  \/ \E v \in Views : Coming(v) /\ Parsed(v)
  \/ call = "ended" /\ FinishIsWhole /\ FinishIsLast

StreamInv == Typed /\ InStep

-----------------------------------------------------------------------------
(* What is sent, pending and parsed *)

LEMMA EventKinds ==
  /\ \A e \in Event : e # Nothing /\ e.kind # "nothing"
  /\ \A e \in Event : e.kind \in {"open", "name", "args"} => e.index \in Calls
  /\ \A e \in Event : e.kind = "open" => e.named \in BOOLEAN
  /\ \A e \in Event : e.kind = "stop" => e.usage \in 0..1 /\ e.text \in 0..1 /\ e.index \in {0} \cup Calls
  /\ \A e \in Event : e.kind \in {"text", "reasoning", "junk", "usage", "done", "error",
                                  "open", "name", "args", "stop"}
BY DEF Event, Nothing

LEMMA LongerType == \A a \in {"empty", "part"} : Longer(a) \in {"part", "whole"}
BY DEF Longer

(* What an event tells of the text and of a call. *)
LEMMA TextType == \A e \in Event : Text(e) \in 0..1
BY EventKinds DEF Text

LEMMA ExtendedSame ==
  ASSUME NEW args \in [Calls -> Args], NEW e, \A c \in Calls : ~About(e, c)
  PROVE  Extended(args, e) = args
BY DEF Extended

LEMMA AboutCalls ==
  ASSUME NEW e \in Event
  PROVE  /\ e.kind \notin {"open", "name", "args", "stop"} => \A c \in Calls : ~About(e, c)
         /\ \A c \in Calls : About(e, c) => c = e.index /\ e.index \in Calls
                                      /\ e.kind \in {"open", "name", "args", "stop"}
BY DEF About

LEMMA ToldType ==
  ASSUME NEW v \in Views, NEW e \in Event, May(v, e), NEW c \in Calls, About(e, c)
  PROVE  /\ Told(e, v.args[c]) \in Args
         /\ e.kind = "open" => v.args[c] = "absent"
         /\ e.kind = "name" => v.args[c] = "unnamed" /\ Told(e, v.args[c]) = "empty"
         /\ e.kind \in {"args", "stop"} => v.args[c] \in {"empty", "part"} /\ Told(e, v.args[c]) = Longer(v.args[c])
<1>1. c = e.index /\ e.kind \in {"open", "name", "args", "stop"}
  BY DEF About
<1>2. CASE e.kind = "open"
  BY <1>1, <1>2 DEF May, Told, Args
<1>3. CASE e.kind = "name"
  BY <1>1, <1>3 DEF May, Told, Args
<1>4. CASE e.kind \in {"args", "stop"}
  <2>1. v.args[c] \in {"empty", "part"}
    BY <1>1, <1>4 DEF May
  <2>2. Told(e, v.args[c]) = Longer(v.args[c])
    BY <1>4 DEF Told
  <2>. QED
    BY <1>4, <2>1, <2>2, LongerType DEF Args
<1>. QED
  BY <1>1, <1>2, <1>3, <1>4

LEMMA AfterSame ==
  ASSUME NEW v \in Views, NEW e \in Event, e.kind \notin {"text", "open", "name", "args", "stop"}
  PROVE  After(v, e).text = v.text /\ After(v, e).args = v.args
<1>1. v.text \in Nat /\ v.args \in [Calls -> Args]
  BY DEF Views
<1>2. Text(e) = 0
  BY DEF Text
<1>3. Extended(v.args, e) = v.args
  BY <1>1, AboutCalls, ExtendedSame
<1>4. v.text + 0 = v.text
  BY <1>1
<1>. QED
  BY <1>2, <1>3, <1>4 DEF After

LEMMA AfterType ==
  ASSUME NEW v \in Views, NEW e \in Event, May(v, e)
  PROVE  After(v, e) \in Views /\ v.text <= After(v, e).text
<1>1. v.text \in Nat /\ v.args \in [Calls -> Args] /\ v.stopped \in BOOLEAN /\ v.over \in BOOLEAN
  BY DEF Views
<1>2. \A c \in Calls : (IF About(e, c) THEN Told(e, v.args[c]) ELSE v.args[c]) \in Args
  BY <1>1, ToldType
<1>3. Extended(v.args, e) \in [Calls -> Args]
  BY <1>2 DEF Extended
<1>4. Text(e) \in 0..1
  BY TextType
<1>5. v.text + Text(e) \in Nat /\ v.text <= v.text + Text(e)
  BY <1>1, <1>4
<1>6. (v.stopped \/ e.kind = "stop") \in BOOLEAN /\ (v.over \/ e.kind \in {"done", "error"}) \in BOOLEAN
  OBVIOUS
<1>. DEFINE w == After(v, e)
<1>7. /\ w.text = v.text + Text(e)
      /\ w \in [text : Nat, args : [Calls -> Args], stopped : BOOLEAN, over : BOOLEAN]
  BY <1>3, <1>5, <1>6 DEF After
<1>. HIDE DEF w
<1>8. w \in Views /\ v.text <= w.text
  BY <1>5, <1>7 DEF Views
<1>. QED
  BY <1>8 DEF w

LEMMA SentType ==
  ASSUME Typed
  PROVE  /\ sent \in Sendings /\ sent.text <= sent.events /\ MaxEvents \in Nat
         /\ sent.text \in Nat /\ sent.events \in 0..MaxEvents /\ sent.args \in [Calls -> Args]
         /\ sent.stopped \in BOOLEAN /\ sent.usage \in BOOLEAN /\ sent.over \in BOOLEAN
         /\ All \in Views
<1>1. sent \in Sendings /\ sent.text <= sent.events
  BY DEF Typed
<1>. QED
  BY <1>1, StreamAssumption DEF Sendings, All, Seen, Views

(* What the backend may send, by kind. *)
LEMMA LegalEvents ==
  ASSUME Typed, NEW e \in Legal
  PROVE  e \in Event /\ May(All, e)
<1>1. ~sent.over
  BY DEF Legal
<1>2. /\ sent.stopped \in BOOLEAN /\ provider \in {"openai", "anthropic"}
      /\ All.stopped = sent.stopped /\ All.over = sent.over /\ All.args = sent.args
  BY SentType, StreamAssumption DEF Typed, All, Seen
<1>3. 0 \notin Calls /\ Unfinished \subseteq Calls
  <2>1. PICK n \in Nat : Calls = 1..n
    BY StreamAssumption, FS_CardinalityType
  <2>. QED
    BY <2>1 DEF Unfinished
<1>4. \/ sent.stopped /\ e \in {[kind |-> "done"], [kind |-> "usage"]}
      \/ ~sent.stopped /\ e \in {[kind |-> k] : k \in {"text", "reasoning", "junk"}}
      \/ /\ ~sent.stopped /\ e \in [kind : {"open"}, index : Calls, named : BOOLEAN]
         /\ sent.args[e.index] = "absent"
      \/ /\ ~sent.stopped /\ e \in [kind : {"name"}, index : {c \in Calls : sent.args[c] = "unnamed"}]
      \/ ~sent.stopped /\ e \in [kind : {"args"}, index : Unfinished]
      \/ ~sent.stopped /\ e \in Stops
      \/ ~sent.stopped /\ e = [kind |-> "error"] /\ provider = "anthropic"
  BY <1>1, Zenon DEF Legal
<1>5. CASE sent.stopped /\ e \in {[kind |-> "done"], [kind |-> "usage"]}
  BY <1>1, <1>2, <1>5 DEF Event, May
<1>6. CASE ~sent.stopped /\ e \in {[kind |-> k] : k \in {"text", "reasoning", "junk"}}
  BY <1>1, <1>2, <1>6 DEF Event, May
<1>7. CASE /\ ~sent.stopped /\ e \in [kind : {"open"}, index : Calls, named : BOOLEAN]
           /\ sent.args[e.index] = "absent"
  BY <1>1, <1>2, <1>7 DEF Event, May
<1>8. CASE ~sent.stopped /\ e \in [kind : {"name"}, index : {c \in Calls : sent.args[c] = "unnamed"}]
  BY <1>1, <1>2, <1>8 DEF Event, May
<1>9. CASE ~sent.stopped /\ e \in [kind : {"args"}, index : Unfinished]
  BY <1>1, <1>2, <1>9 DEF Event, May, Unfinished
<1>10. CASE ~sent.stopped /\ e \in Stops
  <2>1. /\ e \in [kind : {"stop"}, usage : 0..1, text : 0..1, index : {0} \cup Unfinished]
        /\ provider = "anthropic" => e.text = 0
    BY <1>2, <1>10 DEF Stops
  <2>2. e \in Event
    BY <1>3, <2>1 DEF Event
  <2>3. e.kind = "stop" /\ (e.index \in Calls => sent.args[e.index] \in {"empty", "part"})
    BY <1>3, <2>1 DEF Unfinished
  <2>. QED
    BY <1>1, <1>2, <1>10, <2>1, <2>2, <2>3 DEF May
<1>11. CASE ~sent.stopped /\ e = [kind |-> "error"] /\ provider = "anthropic"
  BY <1>1, <1>2, <1>11 DEF Event, May
<1>. QED
  BY <1>4, <1>5, <1>6, <1>7, <1>8, <1>9, <1>10, <1>11

(* Whatever the backend may send, a reader who knows all so far knows all   *)
(* after it.                                                                *)
LEMMA SendsLegally ==
  ASSUME Typed, NEW e \in Legal, sent.events < MaxEvents
  PROVE  /\ e \in Event /\ May(All, e) /\ After(All, e) = Seen(Sending(e))
         /\ Sending(e) \in Sendings /\ Sending(e).text <= Sending(e).events
         /\ sent.text <= Sending(e).text
<1>1. /\ sent \in Sendings /\ sent.text <= sent.events /\ MaxEvents \in Nat
      /\ sent.text \in Nat /\ sent.events \in 0..MaxEvents /\ sent.args \in [Calls -> Args]
      /\ sent.stopped \in BOOLEAN /\ sent.usage \in BOOLEAN /\ sent.over \in BOOLEAN /\ All \in Views
  BY SentType
<1>2. e \in Event /\ May(All, e)
  BY LegalEvents
<1>3. After(All, e) \in Views /\ Text(e) \in 0..1
  BY <1>1, <1>2, AfterType, TextType
<1>. DEFINE args    == Extended(sent.args, e)
            stopped == sent.stopped \/ e.kind = "stop"
            usage   == sent.usage \/ Counts(e)
            over    == sent.over \/ e.kind \in {"done", "error"}
            s       == Sending(e)
<1>4. /\ After(All, e) = [text |-> sent.text + Text(e), args |-> args, stopped |-> stopped, over |-> over]
      /\ args \in [Calls -> Args]
  <2>1. After(All, e) = [text |-> sent.text + Text(e), args |-> args, stopped |-> stopped, over |-> over]
    BY DEF After, All, Seen
  <2>. HIDE DEF args, stopped, over
  <2>. QED
    BY <1>3, <2>1 DEF Views
<1>5. usage \in BOOLEAN /\ stopped \in BOOLEAN /\ over \in BOOLEAN
  OBVIOUS
<1>6. s = [sent EXCEPT !.events = @ + 1, !.text = @ + Text(e), !.args = args,
                       !.stopped = stopped, !.usage = usage, !.over = over]
  BY <1>1 DEF Sending, Sendings
<1>. HIDE DEF args, stopped, usage, over, s
<1>7. /\ s.events = sent.events + 1 /\ s.text = sent.text + Text(e) /\ s.args = args
      /\ s.stopped = stopped /\ s.usage = usage /\ s.over = over
      /\ s = [events |-> sent.events + 1, text |-> sent.text + Text(e), args |-> args,
              stopped |-> stopped, usage |-> usage, over |-> over]
  BY <1>1, <1>6 DEF Sendings
<1>8. sent.events + 1 \in 0..MaxEvents /\ sent.text + Text(e) \in Nat
      /\ sent.text + Text(e) <= sent.events + 1 /\ sent.text <= sent.text + Text(e)
  BY <1>1, <1>3
<1>9. s \in Sendings
  BY <1>4, <1>5, <1>7, <1>8 DEF Sendings
<1>10. s.text <= s.events /\ sent.text <= s.text
  BY <1>7, <1>8
<1>11. After(All, e) = Seen(s)
  BY <1>4, <1>7 DEF Seen
<1>. QED
  BY <1>2, <1>9, <1>10, <1>11 DEF s

(* A reader who knows v has missed nothing it cannot still read. *)
LEMMA ComingText ==
  ASSUME NEW v \in Views, Coming(v)
  PROVE  v.text <= sent.text
<1>1. CASE Pending = <<>> /\ v = All
  BY <1>1 DEF All, Seen, Views
<1>2. CASE \E e \in Event : Pending = <<e>> /\ May(v, e) /\ After(v, e) = All
  <2>1. PICK e \in Event : Pending = <<e>> /\ May(v, e) /\ After(v, e) = All
    BY <1>2
  <2>. QED
    BY <2>1, AfterType DEF All, Seen
<1>3. CASE \E e, f \in Event : /\ Pending = <<e, f>> /\ May(v, e) /\ May(After(v, e), f)
                               /\ After(After(v, e), f) = All
  <2>1. PICK e, f \in Event : /\ Pending = <<e, f>> /\ May(v, e) /\ May(After(v, e), f)
                              /\ After(After(v, e), f) = All
    BY <1>3
  <2>. DEFINE w == After(v, e)
  <2>2. w \in Views /\ v.text <= w.text
    BY <2>1, AfterType
  <2>. HIDE DEF w
  <2>3. May(w, f) /\ After(w, f) = All
    BY <2>1 DEF w
  <2>4. After(w, f) \in Views /\ w.text <= After(w, f).text
    BY <2>2, <2>3, AfterType
  <2>. QED
    BY <2>2, <2>3, <2>4 DEF All, Seen, Views
<1>. QED
  BY <1>1, <1>2, <1>3 DEF Coming

(* What the backend sends more is pending for whoever read up to v. *)
LEMMA ComingMore ==
  ASSUME Typed, NEW v \in Views, Coming(v), queue = <<>>, NEW e \in Legal, sent.events < MaxEvents,
         sent' = Sending(e), UNCHANGED provider,
         \/ Pending = <<>> /\ Pending' = <<e>>
         \/ half # Nothing /\ Pending' = <<half, e>>
  PROVE  Coming(v)'
<1>1. /\ e \in Event /\ May(All, e) /\ After(All, e) = Seen(Sending(e))
  BY SendsLegally
<1>2. All' = Seen(Sending(e))
  BY DEF All, Seen
<1>3. \A w, f : May(w, f)' <=> May(w, f)
  BY DEF May
<1>4. CASE Pending = <<>> /\ Pending' = <<e>>
  <2>1. v = All
    BY <1>4 DEF Coming
  <2>2. May(v, e)' /\ After(v, e) = All' /\ Pending' = <<e>>
    BY <1>1, <1>2, <1>3, <1>4, <2>1
  <2>. QED
    BY <1>1, <2>2 DEF Coming
<1>5. CASE half # Nothing /\ Pending' = <<half, e>>
  <2>1. Pending = <<half>>
    BY <1>5 DEF Pending
  <2>2. PICK h \in Event : h = half /\ May(v, h) /\ After(v, h) = All
    BY <2>1 DEF Coming
  <2>3. /\ Pending' = <<h, e>> /\ May(v, h)' /\ May(After(v, h), e)'
        /\ After(After(v, h), e) = All'
    BY <1>1, <1>2, <1>3, <1>5, <2>2
  <2>. QED
    BY <1>1, <2>2, <2>3 DEF Coming
<1>. QED
  BY <1>4, <1>5

LEMMA ComingSame ==
  ASSUME NEW v \in Views, Coming(v), Pending' = Pending, UNCHANGED <<sent, provider>>
  PROVE  Coming(v)'
<1>1. \A w, f : May(w, f)' <=> May(w, f)
  BY DEF May
<1>2. All' = All
  BY DEF All, Seen
<1>. QED
  BY <1>1, <1>2 DEF Coming

(* The next payload is one that may come, and the rest is still to come.    *)
LEMMA ParsesNext ==
  ASSUME Typed, NEW v \in Views, Coming(v), queue # <<>>, queue' = Tail(queue),
         UNCHANGED <<half, sent, provider>>
  PROVE  \E e \in Event :
           /\ Payload = e /\ May(v, e) /\ After(v, e) \in Views
           /\ v.text <= After(v, e).text /\ After(v, e).text <= sent.text
           /\ Coming(After(v, e))'
<1>1. half = Nothing /\ Pending = queue /\ Pending' = queue'
  BY DEF Typed, Pending
<1>2. \A w, f : May(w, f)' <=> May(w, f)
  BY DEF May
<1>3. All' = All
  BY DEF All, Seen
<1>4. CASE \E e \in Event : Pending = <<e>> /\ May(v, e) /\ After(v, e) = All
  <2>1. PICK e \in Event : Pending = <<e>> /\ May(v, e) /\ After(v, e) = All
    BY <1>4
  <2>2. queue = <<e>>
    BY <1>1, <2>1
  <2>3. Payload = e /\ Pending' = <<>>
    BY <1>1, <2>2 DEF Payload
  <2>4. After(v, e) = All'
    BY <1>3, <2>1
  <2>5. Coming(After(v, e))'
    BY <2>3, <2>4 DEF Coming
  <2>6. After(v, e) \in Views /\ v.text <= After(v, e).text
    BY <2>1, AfterType
  <2>7. After(v, e).text = sent.text
    BY <2>1 DEF All, Seen
  <2>. QED
    BY <2>1, <2>3, <2>5, <2>6, <2>7 DEF Views
<1>5. CASE \E e, f \in Event : /\ Pending = <<e, f>> /\ May(v, e) /\ May(After(v, e), f)
                               /\ After(After(v, e), f) = All
  <2>1. PICK e, f \in Event : /\ Pending = <<e, f>> /\ May(v, e) /\ May(After(v, e), f)
                              /\ After(After(v, e), f) = All
    BY <1>5
  <2>2. queue = <<e, f>>
    BY <1>1, <2>1
  <2>3. Payload = e /\ Pending' = <<f>>
    BY <1>1, <2>2 DEF Payload
  <2>4. After(v, e) \in Views /\ v.text <= After(v, e).text
    BY <2>1, AfterType
  <2>. DEFINE w == After(v, e)
  <2>5. w \in Views /\ May(w, f) /\ May(w, f)' /\ After(w, f) = All /\ After(w, f) = All'
    BY <1>2, <1>3, <2>1, <2>4
  <2>. HIDE DEF w
  <2>6. Coming(w)'
    BY <2>3, <2>5 DEF Coming
  <2>7. w.text <= After(w, f).text
    BY <2>5, AfterType
  <2>8. w.text <= sent.text
    BY <2>5, <2>7 DEF All, Seen
  <2>. QED
    BY <2>1, <2>3, <2>4, <2>6, <2>8 DEF w
<1>. QED
  BY <1>1, <1>4, <1>5 DEF Coming

(* What is received is what the reader knows, once it parsed every complete *)
(* line, or the stop.                                                       *)
LEMMA ReceivedIsKnown ==
  ASSUME Typed, NEW v \in Views, Coming(v), queue = <<>> \/ v.stopped
  PROVE  \A c \in Calls : Received(c) = v.args[c]
<1>. SUFFICES ASSUME NEW c \in Calls PROVE Received(c) = v.args[c]
  OBVIOUS
<1>1. sent.args \in [Calls -> Args] /\ v.args \in [Calls -> Args] /\ v.stopped \in BOOLEAN
  BY SentType DEF Views
<1>0. ~About(Nothing, c)
  BY DEF About, Nothing
<1>2. CASE Pending = <<>> /\ v = All
  <2>1. half = Nothing
    BY <1>2 DEF Pending
  <2>2. Received(c) = sent.args[c]
    BY <1>0, <2>1 DEF Received
  <2>. QED
    BY <1>2, <2>2 DEF All, Seen
<1>3. CASE \E e \in Event : Pending = <<e>> /\ May(v, e) /\ After(v, e) = All
  <2>1. PICK e \in Event : Pending = <<e>> /\ May(v, e) /\ After(v, e) = All
    BY <1>3
  <2>2. sent.args = Extended(v.args, e)
    BY <2>1 DEF After, All, Seen
  <2>3. sent.args[c] = IF About(e, c) THEN Told(e, v.args[c]) ELSE v.args[c]
    BY <2>2 DEF Extended
  <2>4. CASE v.stopped
    <3>1. e.kind \in {"usage", "done"}
      BY <2>1, <2>4 DEF May
    <3>2. ~About(e, c)
      BY <3>1, AboutCalls
    <3>3. ~About(half, c)
      BY <1>0, <2>1, <3>2 DEF Pending
    <3>. QED
      BY <2>3, <3>2, <3>3 DEF Received
  <2>5. CASE queue = <<>>
    <3>1. half = e
      BY <2>1, <2>5 DEF Pending
    <3>2. CASE ~About(e, c)
      BY <2>3, <3>1, <3>2 DEF Received
    <3>3. CASE About(e, c)
      <4>1. e.kind \in {"open", "name", "args", "stop"}
        BY <3>3, AboutCalls
      <4>2. CASE e.kind = "open"
        BY <2>1, <3>1, <3>3, <4>2, ToldType DEF Received
      <4>3. CASE e.kind = "name"
        BY <2>1, <3>1, <3>3, <4>3, ToldType DEF Received
      <4>4. CASE e.kind \in {"args", "stop"}
        <5>1. v.args[c] \in {"empty", "part"} /\ sent.args[c] = Longer(v.args[c])
          BY <2>1, <2>3, <3>3, <4>4, ToldType
        <5>2. Received(c) = IF sent.args[c] = "whole" THEN "part" ELSE "empty"
          BY <3>1, <3>3, <4>4 DEF Received
        <5>. QED
          BY <5>1, <5>2 DEF Longer
      <4>. QED
        BY <4>1, <4>2, <4>3, <4>4
    <3>. QED
      BY <3>2, <3>3
  <2>. QED
    BY <2>4, <2>5
<1>4. CASE \E e, f \in Event : /\ Pending = <<e, f>> /\ May(v, e) /\ May(After(v, e), f)
                               /\ After(After(v, e), f) = All
  <2>1. PICK e, f \in Event : /\ Pending = <<e, f>> /\ May(v, e) /\ May(After(v, e), f)
                              /\ After(After(v, e), f) = All
    BY <1>4
  <2>2. half = Nothing /\ queue = <<e, f>>
    BY <2>1 DEF Pending
  <2>3. v.stopped
    BY <2>2
  <2>4. e.kind \in {"usage", "done"} /\ After(v, e).stopped
    BY <2>1, <2>3 DEF May, After
  <2>5. f.kind \in {"usage", "done"}
    BY <2>1, <2>4 DEF May
  <2>6. After(v, e).args = v.args /\ After(After(v, e), f).args = After(v, e).args
    <3>1. (\A d \in Calls : ~About(e, d)) /\ \A d \in Calls : ~About(f, d)
      BY <2>4, <2>5, AboutCalls
    <3>2. Extended(v.args, e) = v.args /\ Extended(v.args, f) = v.args
      BY <1>1, <3>1, ExtendedSame
    <3>. QED
      BY <3>2 DEF After
  <2>7. sent.args = v.args
    BY <2>1, <2>6 DEF All, Seen
  <2>. QED
    BY <1>0, <2>2, <2>7 DEF Received
<1>. QED
  BY <1>2, <1>3, <1>4 DEF Coming

-----------------------------------------------------------------------------
(* The accumulator and the finish *)

(* Until the stop, the accumulator keeps up with what is parsed.            *)
LEMMA Accumulates ==
  ASSUME Typed, NEW v \in Views, NEW e \in Event, May(v, e),
         ~v.stopped, acc.text = v.text, acc.args = v.args
  PROVE  /\ Accumulated(e) \in Accounts
         /\ Accumulated(e).text = After(v, e).text /\ Accumulated(e).args = After(v, e).args
<1>1. /\ acc \in Accounts /\ acc.text \in Nat /\ acc.args \in [Calls -> Args] /\ acc.usage \in 0..1
  BY DEF Typed, Accounts
<1>. DEFINE w     == After(v, e)
            usage == IF Counts(e) THEN 1 ELSE acc.usage
<1>2. w \in Views
  BY AfterType
<1>3. w.text = acc.text + Text(e) /\ w.args = Extended(acc.args, e)
  BY DEF After
<1>4. usage \in 0..1
  BY <1>1
<1>5. Accumulated(e) = [acc EXCEPT !.text = acc.text + Text(e), !.args = Extended(acc.args, e), !.usage = usage]
  BY <1>1 DEF Accumulated, Accounts
<1>. HIDE DEF w, usage
<1>6. Accumulated(e) = [text |-> w.text, args |-> w.args, usage |-> usage]
  BY <1>1, <1>3, <1>5 DEF Accounts
<1>7. w.text \in Nat /\ w.args \in [Calls -> Args]
  BY <1>2 DEF Views
<1>8. Accumulated(e) \in Accounts /\ Accumulated(e).text = w.text /\ Accumulated(e).args = w.args
  BY <1>4, <1>6, <1>7 DEF Accounts
<1>. QED
  BY <1>8 DEF w

(* After the stop it may still learn the usage. *)
LEMMA AccumulatesUsage ==
  ASSUME Typed, NEW e \in Event, e.kind \in {"usage", "done"}
  PROVE  /\ Accumulated(e) \in Accounts
         /\ Accumulated(e).text = acc.text /\ Accumulated(e).args = acc.args
<1>1. /\ acc \in Accounts /\ acc.text \in Nat /\ acc.args \in [Calls -> Args] /\ acc.usage \in 0..1
  BY DEF Typed, Accounts
<1>. DEFINE usage == IF Counts(e) THEN 1 ELSE acc.usage
<1>2. Text(e) = 0 /\ Extended(acc.args, e) = acc.args
  BY <1>1, AboutCalls, ExtendedSame DEF Text
<1>3. Accumulated(e) = [acc EXCEPT !.text = acc.text + 0, !.args = acc.args, !.usage = usage]
  BY <1>1, <1>2 DEF Accumulated, Accounts
<1>4. usage \in 0..1 /\ acc.text + 0 = acc.text
  BY <1>1
<1>. HIDE DEF usage
<1>. QED
  BY <1>1, <1>3, <1>4 DEF Accounts

(* The finish item of an account, and what is left of it. *)
LEMMA FinishTypes ==
  ASSUME NEW a \in Accounts, a.text <= MaxEvents
  PROVE  /\ FinishItem(a) \in {Nothing, Failed("Api"), Failed("InvalidRequest"), Finish(a)}
         /\ FinishItem(a) = Nothing <=> ~HasContent(a)
         /\ Finish(a) \in Terminals /\ Finish(a).kind = "finish"
         /\ FinishItem(a) = Finish(a) => HasContent(a) /\ Unfit(a) = {}
         /\ \A e \in Errors : Failed(e).kind = "failed" /\ Failed(e) \in Terminals /\ Failed(e) # Nothing
         /\ {"Api", "InvalidRequest"} \subseteq Errors /\ Finish(a) # Nothing /\ Nothing.kind # "failed"
<1>1. a.text \in 0..MaxEvents /\ a.usage \in 0..1 /\ Begun(a) \in SUBSET Calls
  BY StreamAssumption DEF Accounts, Begun
<1>2. Finish(a) \in Terminals /\ Finish(a).kind = "finish"
  BY <1>1 DEF Finish, Terminals
<1>3. \A e \in Errors : Failed(e) \in Terminals /\ Failed(e).kind = "failed" /\ Failed(e) # Nothing
  BY DEF Terminals, Failed, Nothing
<1>4. Nothing # Finish(a) /\ Nothing.kind = "nothing" /\ \A e : Failed(e) # Finish(a) /\ Failed(e) # Nothing
  BY DEF Nothing, Failed, Finish
<1>5. {"Api", "InvalidRequest"} \subseteq Errors
  BY DEF Errors
<1>6. /\ ~HasContent(a) => FinishItem(a) = Nothing
      /\ HasContent(a) /\ Unfit(a) = {} => FinishItem(a) = Finish(a)
      /\ HasContent(a) /\ Unfit(a) # {} => FinishItem(a) \in {Failed("Api"), Failed("InvalidRequest")}
  BY DEF FinishItem
<1>. QED
  BY <1>2, <1>3, <1>4, <1>5, <1>6

LEMMA DrainedTypes ==
  ASSUME NEW a \in Accounts, provider \in {"openai", "anthropic"}
  PROVE  /\ Drained(a) \in Accounts /\ Drained(a).text <= a.text
         /\ Unfit(a) = {} => ~HasContent(Drained(a))
<1>1. a.text \in Nat /\ a.usage \in 0..1 /\ a.args \in [Calls -> Args]
  BY DEF Accounts
<1>2. CASE provider = "openai" /\ HasContent(a)
  <2>1. Drained(a) = Fresh
    BY <1>2 DEF Drained
  <2>2. Fresh \in Accounts /\ Fresh.text = 0 /\ \A c \in Calls : Fresh.args[c] = "absent"
    BY DEF Fresh, Accounts, Args
  <2>3. ~HasContent(Fresh)
    BY <2>2 DEF HasContent, Begun
  <2>. QED
    BY <1>1, <2>1, <2>2, <2>3
<1>3. CASE provider = "openai" /\ ~HasContent(a)
  BY <1>1, <1>3 DEF Drained
<1>4. CASE provider = "anthropic"
  <2>. DEFINE kept == {c \in Calls : \E b \in Unfit(a) : b < c /\ \A d \in Unfit(a) : b <= d}
              args == [c \in Calls |-> IF c \in kept THEN a.args[c] ELSE "absent"]
  <2>1. Drained(a) = [a EXCEPT !.text = 0, !.args = args]
    BY <1>4 DEF Drained
  <2>2. args \in [Calls -> Args]
    <3>. HIDE DEF kept
    <3>. QED
      BY <1>1 DEF Args
  <2>3. ASSUME Unfit(a) = {} PROVE \A c \in Calls : args[c] = "absent"
    <3>1. kept = {}
      BY <2>3
    <3>. QED
      BY <3>1
  <2>. HIDE DEF kept, args
  <2>4. Drained(a) \in Accounts /\ Drained(a).text = 0 /\ Drained(a).args = args
    <3>. DEFINE d == [a EXCEPT !.text = 0, !.args = args]
    <3>1. d \in Accounts /\ d.text = 0 /\ d.args = args
      BY <2>2 DEF Accounts
    <3>2. Drained(a) = d
      BY <2>1
    <3>. HIDE DEF d
    <3>. QED
      BY <3>1, <3>2
  <2>. QED
    BY <1>1, <2>3, <2>4 DEF HasContent, Begun
<1>. QED
  BY <1>2, <1>3, <1>4

(* An account of what v tells finishes with the finish for v. *)
LEMMA FinishForView ==
  ASSUME NEW a \in Accounts, NEW v \in Views, a.text = v.text, a.args = v.args, a.text <= MaxEvents,
         FinishItem(a) = Finish(a)
  PROVE  IsFinish(Finish(a), v)
<1>1. HasContent(a) /\ (\A c \in Begun(a) : Parses(a.args[c])) /\ Finish(a) \in Terminals
  BY FinishTypes DEF Unfit
<1>2. /\ Finish(a).kind = "finish" /\ Finish(a).text = a.text /\ Finish(a).calls = Begun(a)
  BY DEF Finish
<1>3. Begun(a) = {c \in Calls : v.args[c] # "absent"}
  BY DEF Begun
<1>. QED
  BY <1>1, <1>2, <1>3 DEF IsFinish, HasContent

(* Such a finish is whole: nothing of v comes after the stop, and at the    *)
(* end of the connection all complete lines are parsed.                     *)
LEMMA FinishTellsAll ==
  ASSUME Typed, NEW v \in Views, Coming(v), queue = <<>> \/ v.stopped, NEW f, IsFinish(f, v),
         out.text = v.text
  PROVE  /\ f.kind = "finish" /\ f.text = out.text
         /\ \A c \in f.calls : Parses(Received(c))
         /\ {c \in Calls : Received(c) # "absent"} \subseteq f.calls
         /\ f.text > 0 \/ f.calls # {}
<1>1. \A c \in Calls : Received(c) = v.args[c]
  BY ReceivedIsKnown
<1>. QED
  BY <1>1 DEF IsFinish

(* As long as the stream goes on, its terminal items are in order. *)
LEMMA OpenStreamIsFine ==
  ASSUME Typed, NEW v \in Views, Coming(v), Parsed(v)
  PROVE  FinishIsWhole /\ FinishIsLast
<1>1. CASE out.terminals = <<>>
  BY <1>1 DEF FinishIsWhole, FinishIsLast, Finishes
<1>2. CASE /\ provider = "anthropic" /\ v.stopped
           /\ \E f \in Terminals : out.terminals = <<f>> /\ IsFinish(f, v)
  <2>1. PICK f \in Terminals : out.terminals = <<f>> /\ IsFinish(f, v)
    BY <1>2
  <2>2. /\ f.text = out.text
        /\ \A c \in f.calls : Parses(Received(c))
        /\ {c \in Calls : Received(c) # "absent"} \subseteq f.calls
        /\ f.text > 0 \/ f.calls # {}
    BY <1>2, <2>1, FinishTellsAll DEF Parsed
  <2>3. Finishes \subseteq {1} /\ out.terminals[1] = f /\ Len(out.terminals) = 1
    BY <2>1 DEF Finishes
  <2>4. FinishIsWhole
    BY <2>2, <2>3 DEF FinishIsWhole
  <2>5. FinishIsLast
    BY <1>2, <2>3 DEF FinishIsLast
  <2>. QED
    BY <2>4, <2>5
<1>3. CASE provider = "anthropic" /\ out.terminals = <<Failed("Api")>>
  <2>1. Finishes = {} /\ Len(out.terminals) = 1
    BY <1>3 DEF Finishes, Failed
  <2>. QED
    BY <1>3, <2>1 DEF FinishIsWhole, FinishIsLast
<1>. QED
  BY <1>1, <1>2, <1>3 DEF Parsed

-----------------------------------------------------------------------------
(* The steps: a stream that goes on has parsed one view of the response     *)
(* after another.                                                           *)

Onward == Typed' /\ \E w \in Views : Coming(w)' /\ Parsed(w)'

LEMMA RefusedPoints == \A e \in Errors : Refusal[e] \in Points
BY DEF Points

LEMMA FinishSame ==
  ASSUME NEW v \in Views, NEW w \in Views, NEW f, IsFinish(f, v), w.text = v.text, w.args = v.args,
         UNCHANGED provider
  PROVE  IsFinish(f, w)'
BY DEF IsFinish, Parses

LEMMA ParsedSame ==
  ASSUME NEW v \in Views, Parsed(v), UNCHANGED <<provider, acc, items, out>>
  PROVE  Parsed(v)'
<1>1. \A f : IsFinish(f, v) => IsFinish(f, v)'
  BY FinishSame
<1>2. HasContent(acc)' <=> HasContent(acc)
  BY DEF HasContent, Begun
<1>. QED
  BY <1>1, <1>2 DEF Parsed

LEMMA YieldTypes ==
  ASSUME Typed, NEW item \in Terminals
  PROVE  /\ Yielded(item) \in [text : Nat, terminals : Seq(Terminals)]
         /\ Yielded(item).text = out.text /\ Yielded(item).terminals = Append(out.terminals, item)
<1>1. out \in [text : Nat, terminals : Seq(Terminals)]
  BY DEF Typed
<1>2. Append(out.terminals, item) \in Seq(Terminals)
  BY <1>1
<1>. QED
  BY <1>1, <1>2 DEF Yielded

(* Before the response. *)
LEMMA CallKeeps ==
  ASSUME Typed, NEW v \in Views, Coming(v), Parsed(v), Build \/ Send
  PROVE  Onward
<1>1. UNCHANGED <<provider, sent, half, queue, acc, items, out>> /\ call' \in Points
  <2>1. CASE Build
    <3>1. "InvalidRequest" \in Errors
      BY DEF Errors
    <3>2. call' = "sending" \/ call' = Refusal["InvalidRequest"]
      BY <2>1 DEF Build, Refused
    <3>3. call' \in Points
      BY <3>1, <3>2, RefusedPoints DEF Points
    <3>. QED
      BY <2>1, <3>3 DEF Build
  <2>2. CASE Send
    <3>1. \A status : StatusError(status) \in Errors
      BY DEF StatusError, Errors
    <3>2. "Transport" \in Errors
      BY DEF Errors
    <3>3. call' = "streaming" \/ \E e \in Errors : call' = Refusal[e]
      BY <2>2, <3>1, <3>2 DEF Send, Refused
    <3>4. call' \in Points
      BY <3>3, RefusedPoints DEF Points
    <3>. QED
      BY <2>2, <3>4 DEF Send
  <2>. QED
    BY <2>1, <2>2
<1>2. Typed'
  BY <1>1 DEF Typed
<1>3. Coming(v)'
  BY <1>1, ComingSame DEF Pending
<1>4. Parsed(v)'
  BY <1>1, ParsedSame
<1>. QED
  BY <1>2, <1>3, <1>4 DEF Onward

(* What the backend sends. *)
LEMMA ReadKeeps ==
  ASSUME Typed, NEW v \in Views, Coming(v), Parsed(v), ReadHalf \/ ReadLine
  PROVE  Onward
<1>1. queue = <<>> /\ UNCHANGED <<provider, call, acc, items, out>>
  BY DEF ReadHalf, ReadLine, Reading
<1>2. Parsed(v)'
  BY <1>1, ParsedSame
<1>3. CASE ReadHalf
  <2>1. PICK e \in Legal : half' = e /\ sent' = Sending(e)
    BY <1>3 DEF ReadHalf
  <2>2. half = Nothing /\ sent.events < MaxEvents /\ queue' = queue
    BY <1>3 DEF ReadHalf
  <2>3. /\ e \in Event /\ Sending(e) \in Sendings /\ Sending(e).text <= Sending(e).events
        /\ sent.text <= Sending(e).text
    BY <2>2, SendsLegally
  <2>4. Pending = <<>> /\ Pending' = <<e>>
    BY <1>1, <2>1, <2>2, <2>3, EventKinds DEF Pending
  <2>5. Coming(v)'
    BY <1>1, <2>1, <2>2, <2>4, ComingMore
  <2>6. Typed'
    <3>1. /\ acc \in Accounts /\ acc.text <= sent.text /\ out.text <= sent.text
          /\ out \in [text : Nat, terminals : Seq(Terminals)]
      BY DEF Typed
    <3>2. acc.text <= sent'.text /\ out.text <= sent'.text
      BY <2>1, <2>3, <3>1, SentType DEF Accounts, Sendings
    <3>. QED
      BY <1>1, <2>1, <2>2, <2>3, <3>1, <3>2 DEF Typed
  <2>. QED
    BY <1>2, <2>5, <2>6 DEF Onward
<1>4. CASE ReadLine /\ half # Nothing /\ queue' = <<half>> /\ half' = Nothing /\ sent' = sent
  <2>1. Pending' = Pending
    BY <1>4 DEF Pending
  <2>2. Coming(v)'
    BY <1>1, <1>4, <2>1, ComingSame
  <2>3. Typed'
    BY <1>1, <1>4 DEF Typed
  <2>. QED
    BY <1>2, <2>2, <2>3 DEF Onward
<1>5. CASE ReadLine /\ sent.events < MaxEvents
           /\ \E e \in Legal : sent' = Sending(e) /\ half' = Nothing /\ queue' = Fed(e)
  <2>1. PICK e \in Legal : sent' = Sending(e) /\ half' = Nothing /\ queue' = Fed(e)
    BY <1>5
  <2>2. sent.events < MaxEvents
    BY <1>5
  <2>3. /\ e \in Event /\ Sending(e) \in Sendings /\ Sending(e).text <= Sending(e).events
        /\ sent.text <= Sending(e).text
    BY <2>2, SendsLegally
  <2>4. \/ Pending = <<>> /\ Pending' = <<e>>
        \/ half # Nothing /\ Pending' = <<half, e>>
    BY <1>1, <2>1 DEF Pending, Fed
  <2>5. Coming(v)'
    BY <1>1, <2>1, <2>2, <2>4, ComingMore
  <2>6. Typed'
    <3>1. /\ acc \in Accounts /\ acc.text <= sent.text /\ out.text <= sent.text
          /\ out \in [text : Nat, terminals : Seq(Terminals)]
      BY DEF Typed
    <3>2. acc.text <= sent'.text /\ out.text <= sent'.text
      BY <2>1, <2>3, <3>1, SentType DEF Accounts, Sendings
    <3>. QED
      BY <1>1, <2>1, <2>2, <2>3, <3>1, <3>2 DEF Typed
  <2>. QED
    BY <1>2, <2>5, <2>6 DEF Onward
<1>. QED
  BY <1>3, <1>4, <1>5 DEF ReadLine

(* A payload that yields nothing or a delta. *)
LEMMA DeltaKeeps ==
  ASSUME Typed, NEW v \in Views, Coming(v), Parsed(v), ParseDelta
  PROVE  Onward
<1>1. /\ items = <<>> /\ queue # <<>> /\ queue' = Tail(queue)
      /\ Payload.kind \in {"text", "reasoning", "junk", "open", "name", "args", "usage"}
      /\ acc' = Accumulated(Payload)
      /\ out' = IF TextDelta(Payload) THEN [out EXCEPT !.text = @ + 1] ELSE out
      /\ UNCHANGED <<provider, call, sent, half, items>>
  BY DEF ParseDelta
<1>2. PICK e \in Event : /\ Payload = e /\ May(v, e) /\ After(v, e) \in Views
                         /\ v.text <= After(v, e).text /\ After(v, e).text <= sent.text
                         /\ Coming(After(v, e))'
  BY <1>1, ParsesNext
<1>. DEFINE w == After(v, e)
<1>3. /\ out \in [text : Nat, terminals : Seq(Terminals)] /\ out.text = v.text /\ v.text \in Nat
      /\ acc.text \in Nat /\ acc.text <= sent.text
  BY DEF Typed, Parsed, Views, Accounts
<1>4. /\ w.text = IF e.kind = "text" THEN v.text + 1 ELSE v.text
      /\ w.stopped = v.stopped /\ (v.stopped => e.kind = "usage") /\ ~v.over
  BY <1>1, <1>2, <1>3 DEF After, May, Views, Text
<1>5. /\ out' \in [text : Nat, terminals : Seq(Terminals)] /\ out'.text = w.text
      /\ out'.terminals = out.terminals
  BY <1>1, <1>2, <1>3, <1>4 DEF TextDelta
<1>6. CASE v.stopped
  <2>1. /\ acc' \in Accounts /\ acc'.text = acc.text /\ acc'.args = acc.args
    BY <1>1, <1>2, <1>4, <1>6, AccumulatesUsage
  <2>2. w.text = v.text /\ w.args = v.args
    BY <1>4, <1>6, AfterSame
  <2>. HIDE DEF w
  <2>3. ~HasContent(acc')
    BY <1>6, <2>1 DEF Parsed, HasContent, Begun
  <2>4. \A f : IsFinish(f, v) => IsFinish(f, w)'
    BY <1>1, <1>2, <2>2, FinishSame DEF w
  <2>5. Parsed(w)'
    BY <1>1, <1>4, <1>5, <1>6, <2>3, <2>4 DEF Parsed, HasContent, Begun
  <2>6. Typed'
    BY <1>1, <1>2, <1>3, <1>5, <2>1 DEF Typed, w
  <2>. QED
    BY <1>2, <2>5, <2>6 DEF Onward, w
<1>7. CASE ~v.stopped
  <2>1. acc.text = v.text /\ acc.args = v.args /\ out.terminals = <<>>
    BY <1>4, <1>7 DEF Parsed
  <2>2. /\ acc' \in Accounts /\ acc'.text = w.text /\ acc'.args = w.args
    BY <1>1, <1>2, <1>7, <2>1, Accumulates
  <2>. HIDE DEF w
  <2>3. Parsed(w)'
    BY <1>1, <1>4, <1>5, <1>7, <2>1, <2>2 DEF Parsed
  <2>4. Typed'
    BY <1>1, <1>2, <1>5, <2>2 DEF Typed, w
  <2>. QED
    BY <1>2, <2>3, <2>4 DEF Onward, w
<1>. QED
  BY <1>6, <1>7

-----------------------------------------------------------------------------
(* The ends of a stream *)

Ending == Typed' /\ call' = "ended" /\ FinishIsWhole' /\ FinishIsLast'

LEMMA TwoItems ==
  ASSUME NEW S, NEW g \in S, NEW h \in S
  PROVE  Append(<<g>>, h) = <<g, h>>
<1>1. /\ Append(<<g>>, h) \in Seq(S) /\ Len(Append(<<g>>, h)) = 2
      /\ Append(<<g>>, h)[1] = g /\ Append(<<g>>, h)[2] = h
  OBVIOUS
<1>2. <<g, h>> \in Seq(S) /\ Len(<<g, h>>) = 2 /\ <<g, h>>[1] = g /\ <<g, h>>[2] = h
  OBVIOUS
<1>. DEFINE s == Append(<<g>>, h)
            t == <<g, h>>
<1>. HIDE DEF s, t
<1>3. \A i \in 1..Len(s) : s[i] = t[i]
  BY <1>1, <1>2 DEF s, t
<1>4. s \in Seq(S) /\ t \in Seq(S) /\ Len(s) = Len(t)
  BY <1>1, <1>2 DEF s, t
<1>5. s = t
  BY <1>3, <1>4, SeqEqual
<1>. QED
  BY <1>5 DEF s, t

LEMMA EndsAsItWas ==
  ASSUME FinishIsWhole, FinishIsLast, UNCHANGED <<provider, sent, half, out>>, call' = "ended"
  PROVE  FinishIsWhole' /\ FinishIsLast'
<1>1. Finishes' = Finishes /\ (\A c : Received(c)' = Received(c)) /\ \A a : Parses(a)' <=> Parses(a)
  BY DEF Finishes, Received, Parses
<1>2. FinishIsWhole'
  BY <1>1 DEF FinishIsWhole
<1>3. FinishIsLast'
  BY <1>1 DEF FinishIsLast
<1>. QED
  BY <1>2, <1>3

(* A stream that fails. *)
LEMMA EndsWithFailure ==
  ASSUME Typed, NEW v \in Views, Coming(v), Parsed(v), NEW error \in Errors,
         error = "Transport" \/ out.terminals = <<>>,
         out' = Yielded(Failed(error)), UNCHANGED <<provider, sent, half>>, call' = "ended"
  PROVE  FinishIsWhole' /\ FinishIsLast'
<1>. DEFINE item == Failed(error)
<1>1. item \in Terminals /\ item.kind = "failed" /\ item.error = error
  BY DEF Terminals, Failed
<1>2. /\ out.terminals \in Seq(Terminals) /\ out'.text = out.text
      /\ out'.terminals = Append(out.terminals, item)
  BY <1>1, YieldTypes DEF Typed
<1>. HIDE DEF item
<1>3. (\A c : Received(c)' = Received(c)) /\ \A a : Parses(a)' <=> Parses(a)
  BY DEF Received, Parses
<1>4. FinishIsWhole /\ FinishIsLast
  BY OpenStreamIsFine
<1>5. CASE out.terminals = <<>>
  <2>1. out'.terminals = <<item>>
    BY <1>2, <1>5
  <2>2. Finishes' = {} /\ Len(out'.terminals) = 1
    BY <1>1, <2>1 DEF Finishes
  <2>. QED
    BY <2>2 DEF FinishIsWhole, FinishIsLast
<1>6. CASE out.terminals # <<>> /\ error = "Transport"
  <2>1. provider = "anthropic" /\ \E g \in Terminals : out.terminals = <<g>>
    <3>1. Failed("Api") \in Terminals
      BY DEF Failed, Terminals, Errors
    <3>. QED
      BY <1>6, <3>1 DEF Parsed
  <2>2. PICK g \in Terminals : out.terminals = <<g>>
    BY <2>1
  <2>3. out'.terminals = <<g, item>>
    BY <1>1, <1>2, <2>2, TwoItems
  <2>4. Finishes' = Finishes /\ Finishes \subseteq {1}
    BY <1>1, <2>2, <2>3 DEF Finishes
  <2>5. out'.terminals[1] = out.terminals[1] /\ out'.terminals[2] = item /\ Len(out'.terminals) = 2
    BY <1>1, <1>6, <2>2, <2>3
  <2>8. item = Failed("Transport")
    BY <1>6 DEF item
  <2>6. FinishIsWhole'
    BY <1>2, <1>3, <1>4, <2>4, <2>5 DEF FinishIsWhole
  <2>7. FinishIsLast'
    BY <2>1, <2>4, <2>5, <2>8 DEF FinishIsLast
  <2>. QED
    BY <2>6, <2>7
<1>. QED
  BY <1>5, <1>6

(* A stream that ends with a finish for all it was told. *)
LEMMA EndsWithFinish ==
  ASSUME Typed, NEW v \in Views, Coming(v), out.text = v.text, queue = <<>> \/ v.stopped,
         NEW f \in Terminals, IsFinish(f, v),
         out.terminals = <<>> \/ (provider = "anthropic" /\ out.terminals = <<Failed("Api")>>),
         out' = Yielded(f), UNCHANGED <<provider, sent, half>>, call' = "ended"
  PROVE  FinishIsWhole' /\ FinishIsLast'
<1>1. /\ f.kind = "finish" /\ f.text = out.text
      /\ \A c \in f.calls : Parses(Received(c))
      /\ {c \in Calls : Received(c) # "absent"} \subseteq f.calls
      /\ f.text > 0 \/ f.calls # {}
  BY FinishTellsAll
<1>2. /\ out'.text = out.text /\ out'.terminals = Append(out.terminals, f)
  BY YieldTypes
<1>3. (\A c : Received(c)' = Received(c)) /\ \A a : Parses(a)' <=> Parses(a)
  BY DEF Received, Parses
<1>5. CASE out.terminals = <<>>
  <2>1. out'.terminals = <<f>>
    BY <1>2, <1>5
  <2>2. Finishes' = {1} /\ Len(out'.terminals) = 1 /\ out'.terminals[1] = f
    BY <1>1, <2>1 DEF Finishes
  <2>3. FinishIsWhole'
    BY <1>1, <1>2, <1>3, <2>2 DEF FinishIsWhole
  <2>. QED
    BY <2>2, <2>3 DEF FinishIsLast
<1>6. CASE provider = "anthropic" /\ out.terminals = <<Failed("Api")>>
  <2>1. out'.terminals = <<Failed("Api"), f>>
    <3>1. Failed("Api") \in Terminals
      BY DEF Failed, Terminals, Errors
    <3>. QED
      BY <1>2, <1>6, <3>1, TwoItems
  <2>2. /\ Finishes' = {2} /\ Len(out'.terminals) = 2 /\ out'.terminals[2] = f
        /\ out'.terminals[1] = Failed("Api")
    BY <1>1, <2>1 DEF Finishes, Failed
  <2>3. FinishIsWhole'
    BY <1>1, <1>2, <1>3, <2>2 DEF FinishIsWhole
  <2>4. provider' # "openai"
    BY <1>6
  <2>. QED
    BY <2>2, <2>3, <2>4 DEF FinishIsLast
<1>. QED
  BY <1>5, <1>6

LEMMA OutType ==
  ASSUME Typed
  PROVE  /\ out \in [text : Nat, terminals : Seq(Terminals)] /\ out.text <= sent.text
         /\ acc \in Accounts /\ acc.text <= sent.text /\ sent.text \in 0..MaxEvents
         /\ provider \in {"openai", "anthropic"}
         /\ call \in Points /\ "ended" \in Points /\ "streaming" \in Points
<1>1. sent.text \in Nat /\ sent.text <= sent.events /\ sent.events \in 0..MaxEvents /\ MaxEvents \in Nat
  BY SentType
<1>2. "ended" \in Points /\ "streaming" \in Points
  BY DEF Points
<1>3. sent.text \in 0..MaxEvents
  BY <1>1
<1>. QED
  BY <1>2, <1>3, StreamAssumption DEF Typed

LEMMA StopKeeps ==
  ASSUME Typed, NEW v \in Views, Coming(v), Parsed(v), ParseStop
  PROVE  Onward \/ Ending
<1>. DEFINE told == Accumulated(Payload)
            item == FinishItem(told)
<1>1. /\ items = <<>> /\ queue # <<>> /\ queue' = Tail(queue) /\ Payload.kind = "stop"
      /\ acc' = Drained(told) /\ call = "streaming"
      /\ CASE item = Nothing -> UNCHANGED <<call, items, out>>
           [] item.kind = "failed" -> out' = Yielded(item) /\ call' = "ended" /\ UNCHANGED items
           [] OTHER -> IF provider = "openai"
                         THEN /\ items' = <<item>> /\ out' = [out EXCEPT !.text = @ + Text(Payload)]
                              /\ UNCHANGED call
                         ELSE out' = Yielded(item) /\ call' = AfterYield(item) /\ UNCHANGED items
      /\ UNCHANGED <<provider, sent, half>>
  BY DEF ParseStop
<1>2. PICK e \in Event : /\ Payload = e /\ May(v, e) /\ After(v, e) \in Views
                         /\ v.text <= After(v, e).text /\ After(v, e).text <= sent.text
                         /\ Coming(After(v, e))'
  BY <1>1, ParsesNext
<1>. DEFINE w == After(v, e)
<1>3. /\ w.stopped /\ w.text = v.text + Text(e) /\ ~v.stopped /\ ~v.over /\ w.text \in Nat /\ v.text \in Nat
      /\ Text(e) \in 0..1 /\ (provider = "anthropic" => Text(e) = 0)
  <2>1. e.kind = "stop" /\ w.stopped /\ ~v.stopped /\ ~v.over /\ w.text = v.text + Text(e)
    BY <1>1, <1>2 DEF After, May, Views
  <2>2. provider = "anthropic" => Text(e) = 0
    BY <1>2, <2>1 DEF May, Text
  <2>3. v.text \in Nat /\ w.text \in Nat /\ Text(e) \in 0..1
    BY <1>2, TextType DEF Views
  <2>. QED
    BY <2>1, <2>2, <2>3
<1>4. /\ acc.text = v.text /\ acc.args = v.args /\ out.text = v.text /\ out.terminals = <<>>
  BY <1>3 DEF Parsed
<1>5. told \in Accounts /\ told.text = w.text /\ told.args = w.args
  BY <1>1, <1>2, <1>3, <1>4, Accumulates
<1>6. /\ out \in [text : Nat, terminals : Seq(Terminals)] /\ out.text <= sent.text
      /\ sent.text \in 0..MaxEvents /\ provider \in {"openai", "anthropic"}
      /\ "ended" \in Points /\ "streaming" \in Points
  BY OutType
<1>7. w \in Views /\ Coming(w)' /\ w.text <= sent.text
  BY <1>2
<1>13. e.kind = "stop" /\ Text(Payload) = Text(e)
  BY <1>1, <1>2
<1>. HIDE DEF told, w
<1>8. told.text <= MaxEvents
  BY <1>3, <1>5, <1>6, <1>7, StreamAssumption
<1>9. acc' \in Accounts /\ acc'.text <= sent.text
  <2>1. Drained(told) \in Accounts /\ Drained(told).text <= told.text
    BY <1>5, <1>6, DrainedTypes
  <2>. QED
    BY <1>1, <1>3, <1>5, <1>6, <1>7, <2>1 DEF Accounts
<1>10. CASE item = Nothing
  <2>1. ~HasContent(told)
    BY <1>5, <1>8, <1>10, FinishTypes
  <2>2. ~HasContent(acc')
    BY <1>1, <1>5, <1>6, <2>1, DrainedTypes DEF HasContent, Unfit
  <2>3. UNCHANGED <<call, items, out>>
    <3>. HIDE DEF item
    <3>1. item.kind # "failed"
      BY <1>10 DEF Nothing
    <3>. QED
      BY <1>1, <1>10, <3>1
  <2>. HIDE DEF item
  <2>6. w.text = out.text
    BY <1>3, <1>4, <1>5, <2>1 DEF HasContent, Accounts
  <2>4. Parsed(w)'
    BY <1>1, <1>3, <1>4, <2>2, <2>3, <2>6 DEF Parsed, HasContent, Begun
  <2>5. Typed'
    BY <1>1, <1>6, <1>9, <2>3 DEF Typed
  <2>. QED
    BY <1>7, <2>4, <2>5 DEF Onward
<1>11. CASE item \in {Failed("Api"), Failed("InvalidRequest")}
  <2>0. PICK error \in Errors : item = Failed(error)
    BY <1>11 DEF Errors
  <2>1. item \in Terminals /\ item.kind = "failed" /\ item # Nothing
    BY <1>5, <1>8, <2>0, FinishTypes
  <2>2. out' = Yielded(Failed(error)) /\ call' = "ended" /\ UNCHANGED items
    BY <1>1, <2>0, <2>1
  <2>3. out' \in [text : Nat, terminals : Seq(Terminals)] /\ out'.text = out.text
    BY <2>0, <2>1, <2>2, YieldTypes
  <2>. HIDE DEF item
  <2>4. FinishIsWhole' /\ FinishIsLast'
    BY <1>1, <1>4, <2>0, <2>2, EndsWithFailure
  <2>5. Typed'
    BY <1>1, <1>6, <1>9, <2>2, <2>3 DEF Typed
  <2>. QED
    BY <2>2, <2>4, <2>5 DEF Ending
<1>12. CASE item = Finish(told)
  <2>1. /\ item \in Terminals /\ item.kind = "finish" /\ HasContent(told) /\ Unfit(told) = {}
        /\ item # Nothing
    BY <1>5, <1>8, <1>12, FinishTypes
  <2>2. ~HasContent(acc')
    BY <1>1, <1>5, <1>6, <2>1, DrainedTypes DEF HasContent, Begun
  <2>3. IsFinish(item, w)
    BY <1>5, <1>7, <1>8, <1>12, FinishForView
  <2>4. IF provider = "openai"
          THEN /\ items' = <<item>> /\ out' = [out EXCEPT !.text = @ + Text(Payload)]
               /\ UNCHANGED call
          ELSE out' = Yielded(item) /\ call' = AfterYield(item) /\ UNCHANGED items
    BY <1>1, <1>12, <2>1
  <2>. HIDE DEF item
  <2>5. PICK f \in Terminals : f = item
    BY <2>1
  <2>6. IsFinish(f, w)'
    BY <1>1, <1>7, <2>3, <2>5, FinishSame
  <2>7. CASE provider = "openai"
    <3>1. items' = <<f>> /\ UNCHANGED call /\ out' = [out EXCEPT !.text = @ + Text(e)]
      BY <1>13, <2>4, <2>5, <2>7
    <3>4. /\ out' \in [text : Nat, terminals : Seq(Terminals)] /\ out'.text = w.text
          /\ out'.terminals = out.terminals
      BY <1>3, <1>4, <1>6, <3>1
    <3>2. Parsed(w)'
      BY <1>1, <1>3, <1>4, <2>2, <2>6, <2>7, <3>1, <3>4 DEF Parsed, HasContent, Begun
    <3>3. Typed'
      BY <1>1, <1>6, <1>7, <1>9, <3>1, <3>4 DEF Typed
    <3>. QED
      BY <1>7, <3>2, <3>3 DEF Onward
  <2>8. CASE provider = "anthropic"
    <3>1. out' = Yielded(f) /\ call' = "streaming" /\ UNCHANGED items
      BY <2>4, <2>5, <2>8 DEF AfterYield
    <3>2. /\ out' \in [text : Nat, terminals : Seq(Terminals)] /\ out'.text = out.text
          /\ out'.terminals = Append(<<>>, f)
      BY <1>4, <3>1, YieldTypes
    <3>3. out'.terminals = <<f>>
      BY <3>2
    <3>6. w.text = out.text
      BY <1>3, <1>4, <2>8
    <3>4. Parsed(w)'
      BY <1>1, <1>3, <1>4, <2>2, <2>6, <2>8, <3>1, <3>2, <3>3, <3>6 DEF Parsed, HasContent, Begun
    <3>5. Typed'
      BY <1>1, <1>6, <1>9, <3>1, <3>2 DEF Typed
    <3>. QED
      BY <1>7, <3>4, <3>5 DEF Onward
  <2>. QED
    BY <1>6, <2>7, <2>8
<1>. QED
  BY <1>5, <1>8, <1>10, <1>11, <1>12, FinishTypes

(* OpenAI's finish is yielded. *)
LEMMA YieldKeeps ==
  ASSUME Typed, NEW v \in Views, Coming(v), Parsed(v), YieldQueued
  PROVE  Ending
<1>1. /\ items # <<>> /\ items' = Tail(items) /\ out' = Yielded(Head(items)) /\ call' = AfterYield(Head(items))
      /\ UNCHANGED <<provider, sent, half, queue, acc>>
  BY DEF YieldQueued
<1>2. PICK f \in Terminals : items = <<f>> /\ IsFinish(f, v)
  BY <1>1 DEF Parsed
<1>3. provider = "openai" /\ v.stopped /\ out.terminals = <<>> /\ out.text = v.text
  BY <1>1 DEF Parsed
<1>4. items' = <<>> /\ out' = Yielded(f) /\ call' = "ended"
  BY <1>1, <1>2, <1>3 DEF AfterYield
<1>5. FinishIsWhole' /\ FinishIsLast'
  BY <1>1, <1>2, <1>3, <1>4, EndsWithFinish
<1>6. Typed'
  BY <1>1, <1>4, OutType, YieldTypes DEF Typed
<1>. QED
  BY <1>4, <1>5, <1>6 DEF Ending

(* [DONE] and message_stop: after the stop nothing is left to finish. *)
LEMMA DoneKeeps ==
  ASSUME Typed, NEW v \in Views, Coming(v), Parsed(v), ParseDone
  PROVE  Onward \/ Ending
<1>. DEFINE item == FinishItem(acc)
<1>1. /\ items = <<>> /\ queue # <<>> /\ queue' = Tail(queue) /\ Payload.kind = "done"
      /\ acc' = Drained(acc)
      /\ IF item = Nothing THEN out' = out ELSE out' = Yielded(item)
      /\ call' = IF provider = "openai" \/ item.kind = "failed" THEN "ended" ELSE "streaming"
      /\ UNCHANGED <<provider, sent, half, items>>
  BY DEF ParseDone
<1>2. PICK e \in Event : /\ Payload = e /\ May(v, e) /\ After(v, e) \in Views
                         /\ v.text <= After(v, e).text /\ After(v, e).text <= sent.text
                         /\ Coming(After(v, e))'
  BY <1>1, ParsesNext
<1>. DEFINE w == After(v, e)
<1>3. v.stopped /\ ~v.over /\ w.stopped /\ w.text = v.text /\ w.args = v.args
  BY <1>1, <1>2, AfterSame DEF After, May, Views
<1>4. /\ out \in [text : Nat, terminals : Seq(Terminals)] /\ out.text <= sent.text
      /\ acc \in Accounts /\ acc.text <= sent.text /\ acc.text \in Nat
      /\ sent.text \in 0..MaxEvents /\ provider \in {"openai", "anthropic"}
      /\ "ended" \in Points /\ "streaming" \in Points
  BY OutType DEF Accounts
<1>5. ~HasContent(acc) /\ acc.text <= MaxEvents
  BY <1>3, <1>4, StreamAssumption DEF Parsed
<1>6. item = Nothing
  BY <1>5 DEF FinishItem
<1>7. acc' \in Accounts /\ acc'.text <= sent.text /\ ~HasContent(acc')
  <2>1. Drained(acc) \in Accounts /\ Drained(acc).text <= acc.text /\ ~HasContent(Drained(acc))
    BY <1>4, <1>5, DrainedTypes DEF HasContent, Unfit
  <2>. QED
    BY <1>1, <1>4, <2>1 DEF Accounts
<1>8. out' = out /\ call' = IF provider = "openai" THEN "ended" ELSE "streaming"
  BY <1>1, <1>6 DEF Nothing, Failed
<1>. HIDE DEF item, w
<1>9. Typed'
  BY <1>1, <1>4, <1>7, <1>8 DEF Typed
<1>10. CASE provider = "openai"
  <2>1. FinishIsWhole' /\ FinishIsLast'
    BY <1>1, <1>8, <1>10, EndsAsItWas, OpenStreamIsFine
  <2>. QED
    BY <1>8, <1>9, <1>10, <2>1 DEF Ending
<1>11. CASE provider = "anthropic"
  <2>1. \A f : IsFinish(f, v) => IsFinish(f, w)'
    BY <1>1, <1>2, <1>3, FinishSame DEF w
  <2>2. Parsed(w)'
    BY <1>1, <1>3, <1>7, <1>8, <1>11, <2>1 DEF Parsed, HasContent, Begun
  <2>. QED
    BY <1>2, <1>9, <2>2 DEF Onward, w
<1>. QED
  BY <1>4, <1>10, <1>11

(* Anthropic's error event. *)
LEMMA ErrorKeeps ==
  ASSUME Typed, NEW v \in Views, Coming(v), Parsed(v), ParseError
  PROVE  Onward
<1>1. /\ queue # <<>> /\ queue' = Tail(queue) /\ Payload.kind = "error"
      /\ out' = Yielded(Failed("Api")) /\ call' = AfterYield(Failed("Api"))
      /\ UNCHANGED <<provider, sent, half, acc, items>>
  BY DEF ParseError
<1>2. PICK e \in Event : /\ Payload = e /\ May(v, e) /\ After(v, e) \in Views
                         /\ v.text <= After(v, e).text /\ After(v, e).text <= sent.text
                         /\ Coming(After(v, e))'
  BY <1>1, ParsesNext
<1>. DEFINE w == After(v, e)
<1>3. /\ ~v.stopped /\ ~v.over /\ ~w.stopped /\ w.over /\ w.text = v.text /\ w.args = v.args
      /\ provider = "anthropic"
  BY <1>1, <1>2, AfterSame DEF After, May, Views
<1>4. /\ acc.text = v.text /\ acc.args = v.args /\ out.text = v.text /\ out.terminals = <<>> /\ items = <<>>
  BY <1>3 DEF Parsed
<1>5. Failed("Api") \in Terminals
  BY DEF Failed, Terminals, Errors
<1>6. /\ out' \in [text : Nat, terminals : Seq(Terminals)] /\ out'.text = out.text
      /\ out'.terminals = Append(out.terminals, Failed("Api"))
  BY <1>1, <1>5, YieldTypes
<1>7. out'.terminals = <<Failed("Api")>>
  BY <1>4, <1>6
<1>8. call' = "streaming"
  BY <1>1, <1>3 DEF AfterYield
<1>. HIDE DEF w
<1>9. Parsed(w)'
  BY <1>1, <1>3, <1>4, <1>6, <1>7 DEF Parsed
<1>10. Typed'
  BY <1>1, <1>4, <1>6, <1>8, OutType DEF Typed
<1>. QED
  BY <1>2, <1>9, <1>10 DEF Onward, w

(* The connection closes, or breaks. *)
LEMMA ClosedKeeps ==
  ASSUME Typed, NEW v \in Views, Coming(v), Parsed(v), Closed
  PROVE  Ending
<1>. DEFINE item == FinishItem(acc)
<1>1. /\ queue = <<>> /\ items = <<>> /\ call' = "ended" /\ acc' = Drained(acc)
      /\ out' = IF item = Nothing \/ (provider = "anthropic" /\ item.kind = "failed")
                  THEN out ELSE Yielded(item)
      /\ UNCHANGED <<provider, sent, half, queue, items>>
  BY DEF Closed, Reading
<1>2. /\ out \in [text : Nat, terminals : Seq(Terminals)] /\ out.text <= sent.text
      /\ acc \in Accounts /\ acc.text <= sent.text /\ acc.text \in Nat
      /\ sent.text \in 0..MaxEvents /\ provider \in {"openai", "anthropic"}
      /\ "ended" \in Points /\ acc.text <= MaxEvents
  BY OutType, StreamAssumption DEF Accounts
<1>3. acc' \in Accounts /\ acc'.text <= sent.text
  BY <1>1, <1>2, DrainedTypes DEF Accounts
<1>4. out.text = v.text
  BY DEF Parsed
<1>5. CASE out' = out
  <2>1. FinishIsWhole' /\ FinishIsLast'
    BY <1>1, <1>5, EndsAsItWas, OpenStreamIsFine
  <2>. HIDE DEF item
  <2>2. Typed'
    BY <1>1, <1>2, <1>3, <1>5 DEF Typed
  <2>. QED
    BY <1>1, <2>1, <2>2 DEF Ending
<1>6. CASE out' = Yielded(item) /\ item # Nothing /\ ~(provider = "anthropic" /\ item.kind = "failed")
  <2>1. HasContent(acc)
    BY <1>6 DEF FinishItem
  <2>2. ~v.stopped /\ acc.text = v.text /\ acc.args = v.args
    BY <2>1 DEF Parsed
  <2>3. out.terminals = <<>> \/ (provider = "anthropic" /\ out.terminals = <<Failed("Api")>>)
    BY <2>2 DEF Parsed
  <2>4. CASE item \in {Failed("Api"), Failed("InvalidRequest")}
    <3>0. PICK error \in Errors : item = Failed(error)
      BY <2>4 DEF Errors
    <3>1. item \in Terminals /\ item.kind = "failed"
      BY <1>2, <3>0, FinishTypes
    <3>2. out.terminals = <<>>
      BY <1>2, <1>6, <2>3, <3>1
    <3>3. out' = Yielded(Failed(error))
      BY <1>6, <3>0
    <3>4. out' \in [text : Nat, terminals : Seq(Terminals)] /\ out'.text = out.text
      BY <1>6, <3>1, YieldTypes
    <3>. HIDE DEF item
    <3>5. FinishIsWhole' /\ FinishIsLast'
      BY <1>1, <3>0, <3>2, <3>3, EndsWithFailure
    <3>6. Typed'
      BY <1>1, <1>2, <1>3, <3>4 DEF Typed
    <3>. QED
      BY <1>1, <3>5, <3>6 DEF Ending
  <2>5. CASE item = Finish(acc)
    <3>1. IsFinish(item, v)
      BY <1>2, <2>2, <2>5, FinishForView
    <3>2. item \in Terminals
      BY <3>1 DEF IsFinish
    <3>. HIDE DEF item
    <3>3. FinishIsWhole' /\ FinishIsLast'
      BY <1>1, <1>4, <1>6, <2>3, <3>1, <3>2, EndsWithFinish
    <3>4. out' \in [text : Nat, terminals : Seq(Terminals)] /\ out'.text = out.text
      BY <1>6, <3>2, YieldTypes
    <3>5. Typed'
      BY <1>1, <1>2, <1>3, <3>4 DEF Typed
    <3>. QED
      BY <1>1, <3>3, <3>5 DEF Ending
  <2>. QED
    BY <1>2, <1>6, <2>4, <2>5, FinishTypes
<1>. QED
  BY <1>1, <1>5, <1>6

LEMMA BrokenKeeps ==
  ASSUME Typed, NEW v \in Views, Coming(v), Parsed(v), Broken
  PROVE  Ending
<1>1. /\ call' = "ended" /\ out' = Yielded(Failed("Transport"))
      /\ UNCHANGED <<provider, sent, half, queue, acc, items>>
  BY DEF Broken
<1>2. Failed("Transport") \in Terminals /\ "Transport" \in Errors
  BY DEF Failed, Terminals, Errors
<1>3. FinishIsWhole' /\ FinishIsLast'
  BY <1>1, <1>2, EndsWithFailure
<1>4. Typed'
  BY <1>1, <1>2, OutType, YieldTypes DEF Typed
<1>. QED
  BY <1>1, <1>3, <1>4 DEF Ending
-----------------------------------------------------------------------------
(* Sequences mapped and flattened *)

(* Every non-empty set of natural numbers has a least element. *)
LEMMA LeastElement ==
  ASSUME NEW T \in SUBSET Nat, T # {}
  PROVE  \E x \in T : \A y \in T : x <= y
<1>. DEFINE Upto(n) == 0..n
            I == {Upto(n) : n \in T}
            F == FiniteSubsetsOf(Nat)
            R == StrictSubsetOrdering(Nat)
<1>1. I \subseteq F
  <2>1. \A n \in T : Upto(n) \in SUBSET Nat /\ IsFiniteSet(Upto(n))
    BY FS_Interval
  <2>. QED
    BY <2>1 DEF FiniteSubsetsOf
<1>2. I # {}
  OBVIOUS
<1>3. IsWellFoundedOn(R, F)
  BY FS_StrictSubsetOrderingWellFounded
<1>4. PICK b \in I : \A c \in I : <<c, b>> \notin R
  <2>. HIDE DEF I, F, R
  <2>. QED
    BY <1>1, <1>2, <1>3, WFMin
<1>5. PICK x \in T : b = Upto(x)
  OBVIOUS
<1>6. ASSUME NEW y \in T, y < x PROVE FALSE
  <2>1. Upto(y) \in I /\ Upto(y) \in SUBSET Nat /\ b \in SUBSET Nat
    BY <1>5
  <2>2. Upto(y) \subseteq b /\ x \in b /\ x \notin Upto(y)
    BY <1>5, <1>6
  <2>3. <<Upto(y), b>> \in R
    BY <2>1, <2>2, Zenon DEF StrictSubsetOrdering
  <2>. QED
    BY <2>1, <2>3, <1>4
<1>. QED
  BY <1>6

(* Induction, stated over sets of numbers and over sets of sequences. *)
LEMMA SetInduction ==
  ASSUME NEW T \in SUBSET Nat, 0 \in T, \A n \in T : n + 1 \in T
  PROVE  T = Nat
<1>1. SUFFICES ASSUME Nat \ T # {} PROVE FALSE
  OBVIOUS
<1>2. PICK x \in Nat \ T : \A y \in Nat \ T : x <= y
  BY <1>1, LeastElement, Zenon
<1>. QED
  BY <1>2, x - 1 \in Nat, x - 1 \in T, (x - 1) + 1 = x

LEMMA SequenceInduction ==
  ASSUME NEW X, NEW T \in SUBSET Seq(X), <<>> \in T, \A s \in T, x \in X : Append(s, x) \in T
  PROVE  T = Seq(X)
<1>. DEFINE N == {n \in Nat : \A s \in Seq(X) : Len(s) = n => s \in T}
<1>1. 0 \in N
  <2>1. \A s \in Seq(X) : Len(s) = 0 => s = <<>>
    BY EmptySeq
  <2>. QED
    BY <2>1
<1>2. ASSUME NEW n \in N PROVE n + 1 \in N
  <2>1. ASSUME NEW s \in Seq(X), Len(s) = n + 1 PROVE s \in T
    <3>. DEFINE f == [i \in 1..n |-> s[i]]
    <3>1. /\ \A i \in 1..(n + 1) : s[i] \in X
          /\ f \in Seq(X) /\ Len(f) = n /\ \A i \in 1..n : f[i] = s[i]
      BY <2>1
    <3>. HIDE DEF f
    <3>2. f \in T /\ s[n + 1] \in X
      BY <1>2, <3>1
    <3>5. Append(f, s[n + 1]) \in T
      BY <3>2
    <3>6. /\ Append(f, s[n + 1]) \in Seq(X) /\ Len(Append(f, s[n + 1])) = n + 1
          /\ \A i \in 1..n : Append(f, s[n + 1])[i] = f[i]
          /\ Append(f, s[n + 1])[n + 1] = s[n + 1]
      <4>. DEFINE x == s[n + 1]
      <4>1. x \in X
        BY <3>2
      <4>. HIDE DEF x
      <4>2. /\ Append(f, x) \in Seq(X) /\ Len(Append(f, x)) = Len(f) + 1
            /\ \A i \in 1..Len(f) : Append(f, x)[i] = f[i]
            /\ Append(f, x)[Len(f) + 1] = x
        BY <3>1, <4>1, AppendProperties
      <4>. QED
        BY <3>1, <4>2 DEF x
    <3>7. \A i \in 1..(n + 1) : i \in 1..n \/ i = n + 1
      OBVIOUS
    <3>3. /\ Append(f, s[n + 1]) \in Seq(X) /\ Len(Append(f, s[n + 1])) = Len(s)
          /\ \A i \in 1..Len(s) : Append(f, s[n + 1])[i] = s[i]
      BY <2>1, <3>1, <3>6, <3>7
    <3>4. Append(f, s[n + 1]) = s
      BY <3>3, SeqEqual
    <3>. QED
      BY <3>4, <3>5
  <2>. QED
    BY <2>1
<1>3. N = Nat
  <2>. HIDE DEF N
  <2>1. N \in SUBSET Nat
    BY DEF N
  <2>. QED
    BY <1>1, <1>2, <2>1, SetInduction
<1>4. \A s \in Seq(X) : Len(s) \in N => s \in T
  OBVIOUS
<1>. HIDE DEF N
<1>. QED
  BY <1>3, <1>4

(* FlattenSeq is the last of its partial concatenations. *)
Longest(f, ss, i) == IF i = 1 THEN ss[i] ELSE f[i - 1] \o ss[i]
Partials(f, ss, n) == f = [i \in 1..n |-> Longest(f, ss, i)]

LEMMA PrefixesStep ==
  ASSUME NEW ss, NEW f, NEW n, Partials(f, ss, n), NEW i \in 1..n
  PROVE  f[i] = Longest(f, ss, i)
<1>. DEFINE g == [j \in 1..n |-> Longest(f, ss, j)]
<1>1. f = g
  BY DEF Partials
<1>2. g[i] = Longest(f, ss, i)
  OBVIOUS
<1>. HIDE DEF g
<1>. QED
  BY <1>1, <1>2

LEMMA PrefixesExist == \A ss : \A n \in Nat : \E f : Partials(f, ss, n)
<1>. SUFFICES ASSUME NEW ss PROVE \A n \in Nat : \E f : Partials(f, ss, n)
  OBVIOUS
<1>. DEFINE T == {n \in Nat : \E f : Partials(f, ss, n)}
<1>1. 0 \in T
  <2>1. Partials([i \in 1..0 |-> ss], ss, 0)
    BY DEF Partials
  <2>. QED
    BY <2>1
<1>2. ASSUME NEW n \in T PROVE n + 1 \in T
  <2>1. PICK f : Partials(f, ss, n)
    OBVIOUS
  <2>. DEFINE g == [i \in 1..(n + 1) |-> Longest(f, ss, i)]
  <2>2. \A i \in 1..n : f[i] = Longest(f, ss, i) /\ g[i] = Longest(f, ss, i)
    BY <2>1, PrefixesStep
  <2>3. \A i \in 1..(n + 1) : i = 1 \/ i - 1 \in 1..n
    OBVIOUS
  <2>4. \A i \in 1..(n + 1) : Longest(g, ss, i) = Longest(f, ss, i)
    <3>. HIDE DEF g
    <3>. QED
      BY <2>2, <2>3 DEF Longest
  <2>5. g = [i \in 1..(n + 1) |-> Longest(g, ss, i)]
    <3>1. g = [i \in 1..(n + 1) |-> Longest(f, ss, i)]
      OBVIOUS
    <3>. HIDE DEF g
    <3>. QED
      BY <2>4, <3>1
  <2>6. Partials(g, ss, n + 1)
    BY <2>5, Zenon DEF Partials
  <2>. QED
    BY <2>6
<1>. HIDE DEF T
<1>3. T \in SUBSET Nat
  BY DEF T
<1>4. T = Nat
  BY <1>1, <1>2, <1>3, SetInduction
<1>. QED
  BY <1>4 DEF T

LEMMA PrefixesAgree ==
  ASSUME NEW ss, NEW tt, NEW f, NEW g, NEW n \in Nat, NEW m \in Nat, n <= m,
         Partials(f, ss, n), Partials(g, tt, m), \A i \in 1..n : ss[i] = tt[i]
  PROVE  \A i \in 1..n : f[i] = g[i]
<1>. DEFINE T == {k \in Nat : k \in 1..n => f[k] = g[k]}
<1>1. /\ \A i \in 1..n : f[i] = Longest(f, ss, i)
      /\ \A i \in 1..n : g[i] = Longest(g, tt, i)
  BY PrefixesStep
<1>2. 0 \in T
  OBVIOUS
<1>3. ASSUME NEW k \in T PROVE k + 1 \in T
  <2>1. ASSUME k + 1 \in 1..n PROVE f[k + 1] = g[k + 1]
    <3>1. k + 1 = 1 \/ f[k] = g[k]
      BY <2>1
    <3>. QED
      BY <1>1, <2>1, <3>1 DEF Longest
  <2>. QED
    BY <2>1
<1>. HIDE DEF T
<1>4. T \in SUBSET Nat
  BY DEF T
<1>5. T = Nat
  BY <1>2, <1>3, <1>4, SetInduction
<1>. QED
  BY <1>5 DEF T

LEMMA FlattenLast ==
  ASSUME NEW ss, Len(ss) \in Nat \ {0}
  PROVE  \E f : Partials(f, ss, Len(ss)) /\ FlattenSeq(ss) = f[Len(ss)]
<1>. DEFINE flatten == CHOOSE f : f = [i \in 1..Len(ss) |-> IF i = 1 THEN ss[i] ELSE f[i - 1] \o ss[i]]
<1>1. FlattenSeq(ss) = flatten[Len(ss)]
  BY DEF FlattenSeq
<1>2. \E f : Partials(f, ss, Len(ss))
  BY PrefixesExist
<1>3. Partials(flatten, ss, Len(ss))
  BY <1>2, Zenon DEF Partials, Longest
<1>. QED
  BY <1>1, <1>3


LEMMA FlattenEmpty == FlattenSeq(<<>>) = <<>>
BY DEF FlattenSeq

LEMMA FlattenAppend ==
  ASSUME NEW Y, NEW ss \in Seq(Seq(Y)), NEW y \in Seq(Y)
  PROVE  FlattenSeq(Append(ss, y)) = FlattenSeq(ss) \o y
<1>. DEFINE tt == Append(ss, y)
            n == Len(ss)
<1>1. /\ n \in Nat /\ Len(tt) = n + 1 /\ tt[n + 1] = y /\ tt # <<>>
      /\ \A i \in 1..n : ss[i] = tt[i]
  BY AppendProperties
<1>. HIDE DEF tt, n
<1>2. PICK g : Partials(g, tt, n + 1) /\ FlattenSeq(tt) = g[n + 1]
  BY <1>1, FlattenLast
<1>3. g[n + 1] = Longest(g, tt, n + 1)
  BY <1>1, <1>2, PrefixesStep
<1>4. CASE n = 0
  <2>1. ss = <<>>
    BY <1>4, EmptySeq DEF n
  <2>2. FlattenSeq(tt) = y
    BY <1>1, <1>2, <1>3, <1>4 DEF Longest
  <2>. QED
    BY <2>1, <2>2, FlattenEmpty, ConcatEmptySeq DEF tt
<1>5. CASE n # 0
  <2>1. PICK f : Partials(f, ss, n) /\ FlattenSeq(ss) = f[n]
    BY <1>1, <1>5, FlattenLast DEF n
  <2>2. f[n] = g[n]
    BY <1>1, <1>2, <1>5, <2>1, PrefixesAgree
  <2>3. g[n + 1] = g[n] \o y
    BY <1>1, <1>3, <1>5 DEF Longest
  <2>. QED
    BY <1>2, <2>1, <2>2, <2>3 DEF tt
<1>. QED
  BY <1>4, <1>5

(* A sequence mapped element by element, and to the sequence its elements   *)
(* spread into.                                                            *)
Maps(F, X, Y) == \A x \in X : F[x] \in Y
Via(F, s)    == [i \in DOMAIN s |-> F[s[i]]]
Spread(F, s) == FlattenSeq(Via(F, s))

LEMMA ViaAppend ==
  ASSUME NEW X, NEW Y, NEW F, Maps(F, X, Y), NEW s \in Seq(X), NEW x \in X
  PROVE  Via(F, s) \in Seq(Y) /\ Via(F, Append(s, x)) = Append(Via(F, s), F[x])
<1>1. \A t \in Seq(X) : Via(F, t) \in Seq(Y) /\ Len(Via(F, t)) = Len(t)
  BY DEF Via, Maps
<1>. DEFINE t == Append(s, x)
<1>2. /\ t \in Seq(X) /\ Len(t) = Len(s) + 1 /\ t[Len(s) + 1] = x
      /\ \A i \in 1..Len(s) : t[i] = s[i]
  BY AppendProperties
<1>. HIDE DEF t
<1>3. /\ \A i \in 1..Len(s) : Via(F, t)[i] = F[s[i]] /\ Via(F, s)[i] = F[s[i]]
      /\ Via(F, t)[Len(s) + 1] = F[x]
  BY <1>2 DEF Via
<1>4. F[x] \in Y
  BY DEF Maps
<1>. DEFINE u == Append(Via(F, s), F[x])
<1>5. /\ u \in Seq(Y) /\ Len(u) = Len(s) + 1 /\ u[Len(s) + 1] = F[x]
      /\ \A i \in 1..Len(s) : u[i] = Via(F, s)[i]
  BY <1>1, <1>4, AppendProperties
<1>. HIDE DEF u
<1>6. \A i \in 1..(Len(s) + 1) : i \in 1..Len(s) \/ i = Len(s) + 1
  OBVIOUS
<1>7. \A i \in 1..(Len(s) + 1) : Via(F, t)[i] = u[i]
  BY <1>3, <1>5, <1>6
<1>8. Via(F, t) \in Seq(Y) /\ Len(Via(F, t)) = Len(s) + 1
  BY <1>1, <1>2
<1>9. Via(F, t) = u
  BY <1>5, <1>7, <1>8, SeqEqual
<1>. QED
  BY <1>1, <1>9 DEF t, u

LEMMA SpreadAppend ==
  ASSUME NEW X, NEW Y, NEW F, Maps(F, X, Seq(Y)), NEW s \in Seq(X), NEW x \in X
  PROVE  Spread(F, <<>>) = <<>> /\ Spread(F, Append(s, x)) = Spread(F, s) \o F[x]
<1>1. Via(F, <<>>) = <<>>
  BY DEF Via
<1>2. Via(F, s) \in Seq(Seq(Y)) /\ Via(F, Append(s, x)) = Append(Via(F, s), F[x])
  BY ViaAppend
<1>3. F[x] \in Seq(Y)
  BY DEF Maps
<1>4. FlattenSeq(Append(Via(F, s), F[x])) = FlattenSeq(Via(F, s)) \o F[x]
  BY <1>2, <1>3, FlattenAppend
<1>. QED
  BY <1>1, <1>2, <1>4, FlattenEmpty DEF Spread

LEMMA SpreadType ==
  ASSUME NEW X, NEW Y, NEW F, Maps(F, X, Seq(Y)), NEW s \in Seq(X)
  PROVE  Spread(F, s) \in Seq(Y)
<1>. DEFINE T == {t \in Seq(X) : Spread(F, t) \in Seq(Y)}
<1>1. <<>> \in T
  <2>1. Via(F, <<>>) = <<>>
    BY DEF Via
  <2>. QED
    BY <2>1, FlattenEmpty, EmptySeq DEF Spread
<1>2. ASSUME NEW t \in T, NEW x \in X PROVE Append(t, x) \in T
  <2>1. Spread(F, Append(t, x)) = Spread(F, t) \o F[x]
    BY SpreadAppend
  <2>2. Spread(F, t) \in Seq(Y) /\ F[x] \in Seq(Y)
    BY DEF Maps
  <2>3. Spread(F, t) \o F[x] \in Seq(Y)
    BY <2>2, ConcatProperties
  <2>. QED
    BY <2>1, <2>3, AppendProperties
<1>. HIDE DEF T
<1>3. T \in SUBSET Seq(X)
  BY DEF T
<1>4. T = Seq(X)
  BY <1>1, <1>2, <1>3, SequenceInduction
<1>. QED
  BY <1>4 DEF T

LEMMA AppendConcat ==
  ASSUME NEW X, NEW s \in Seq(X), NEW t \in Seq(X), NEW x \in X
  PROVE  s \o Append(t, x) = Append(s \o t, x)
<1>1. <<x>> \in Seq(X)
  OBVIOUS
<1>2. Append(t, x) = t \o <<x>> /\ Append(s \o t, x) = (s \o t) \o <<x>>
  BY ConcatProperties
<1>. QED
  BY <1>1, <1>2, ConcatAssociative

LEMMA Regrouped ==
  ASSUME NEW Y, NEW p, NEW q, NEW r, p \in Seq(Y), q \in Seq(Y), r \in Seq(Y)
  PROVE  (p \o q) \o r = p \o (q \o r)
BY ConcatAssociative, SMTT(30)

LEMMA SpreadConcat ==
  ASSUME NEW X, NEW Y, NEW F, Maps(F, X, Seq(Y)), NEW s \in Seq(X), NEW u \in Seq(X)
  PROVE  Spread(F, s \o u) = Spread(F, s) \o Spread(F, u)
<1>. DEFINE T == {t \in Seq(X) : Spread(F, s \o t) = Spread(F, s) \o Spread(F, t)}
<1>1. <<>> \in T
  <2>1. Spread(F, <<>>) = <<>>
    BY FlattenEmpty DEF Spread, Via
  <2>2. s \o <<>> = s /\ Spread(F, s) \o <<>> = Spread(F, s)
    BY SpreadType, ConcatEmptySeq
  <2>. QED
    BY <2>1, <2>2, EmptySeq
<1>2. ASSUME NEW t \in T, NEW x \in X PROVE Append(t, x) \in T
  <2>1. t \in Seq(X) /\ Spread(F, s \o t) = Spread(F, s) \o Spread(F, t)
    OBVIOUS
  <2>. HIDE DEF T
  <2>2. s \o t \in Seq(X) /\ Append(t, x) \in Seq(X)
    BY <2>1, ConcatProperties, AppendProperties
  <2>7. s \o Append(t, x) = Append(s \o t, x)
    BY <2>1, AppendConcat
  <2>3. Spread(F, Append(s \o t, x)) = Spread(F, s \o t) \o F[x]
    <3>. DEFINE a == s \o t
    <3>1. a \in Seq(X)
      BY <2>2
    <3>. HIDE DEF a
    <3>2. Spread(F, Append(a, x)) = Spread(F, a) \o F[x]
      BY <3>1, SpreadAppend
    <3>. QED
      BY <3>2 DEF a
  <2>4. Spread(F, Append(t, x)) = Spread(F, t) \o F[x]
    BY <2>1, SpreadAppend
  <2>8. F[x] \in Seq(Y)
    BY DEF Maps
  <2>5. Spread(F, s) \in Seq(Y) /\ Spread(F, t) \in Seq(Y)
    BY <2>1, SpreadType
  <2>6. (Spread(F, s) \o Spread(F, t)) \o F[x] = Spread(F, s) \o (Spread(F, t) \o F[x])
    <3>. DEFINE p == Spread(F, s)
                q == Spread(F, t)
                r == F[x]
    <3>1. p \in Seq(Y) /\ q \in Seq(Y) /\ r \in Seq(Y)
      BY <2>5, <2>8
    <3>. HIDE DEF p, q, r
    <3>2. (p \o q) \o r = p \o (q \o r)
      BY <3>1, Regrouped
    <3>. QED
      BY <3>2 DEF p, q, r
  <2>. QED
    BY <2>1, <2>2, <2>3, <2>4, <2>6, <2>7 DEF T
<1>. HIDE DEF T
<1>3. T \in SUBSET Seq(X)
  BY DEF T
<1>4. T = Seq(X)
  BY <1>1, <1>2, <1>3, SequenceInduction
<1>. QED
  BY <1>4 DEF T

(* Spread twice is spread once, when the elements agree. *)
LEMMA SpreadTwice ==
  ASSUME NEW X, NEW Y, NEW Z, NEW F, NEW G, NEW H,
         Maps(F, X, Seq(Y)), Maps(G, Y, Seq(Z)), Maps(H, X, Seq(Z)),
         \A x \in X : Spread(G, F[x]) = H[x], NEW s \in Seq(X)
  PROVE  Spread(G, Spread(F, s)) = Spread(H, s)
<1>. DEFINE T == {t \in Seq(X) : Spread(G, Spread(F, t)) = Spread(H, t)}
<1>1. <<>> \in T
  <2>1. \A K : Spread(K, <<>>) = <<>>
    BY FlattenEmpty DEF Spread, Via
  <2>. QED
    BY <2>1, EmptySeq
<1>2. ASSUME NEW t \in T, NEW x \in X PROVE Append(t, x) \in T
  <2>1. t \in Seq(X) /\ Spread(G, Spread(F, t)) = Spread(H, t)
    OBVIOUS
  <2>. HIDE DEF T
  <2>2. /\ Append(t, x) \in Seq(X)
        /\ Spread(F, Append(t, x)) = Spread(F, t) \o F[x]
        /\ Spread(H, Append(t, x)) = Spread(H, t) \o H[x]
    BY <2>1, SpreadAppend, AppendProperties
  <2>. DEFINE a == Spread(F, t)
              b == F[x]
  <2>3. a \in Seq(Y) /\ b \in Seq(Y)
    BY <2>1, SpreadType DEF Maps
  <2>4. Spread(G, b) = H[x]
    OBVIOUS
  <2>. HIDE DEF a, b
  <2>5. Spread(G, a \o b) = Spread(G, a) \o Spread(G, b)
    BY <2>3, SpreadConcat
  <2>6. Spread(G, Spread(F, Append(t, x))) = Spread(H, Append(t, x))
    BY <2>1, <2>2, <2>4, <2>5 DEF a, b
  <2>. QED
    BY <2>2, <2>6 DEF T
<1>. HIDE DEF T
<1>3. T \in SUBSET Seq(X)
  BY DEF T
<1>4. T = Seq(X)
  BY <1>1, <1>2, <1>3, SequenceInduction
<1>. QED
  BY <1>4 DEF T

(* What spreads every element into itself spreads a sequence into itself.   *)
Singles(F, X) == \A x \in X : F[x] = <<x>>

LEMMA SpreadSingles ==
  ASSUME NEW X, NEW Y, NEW F, Maps(F, X, Seq(Y)), Singles(F, X), NEW s \in Seq(X)
  PROVE  Spread(F, s) = s
<1>. DEFINE T == {t \in Seq(X) : Spread(F, t) = t}
<1>1. <<>> \in T
  BY FlattenEmpty DEF Spread, Via
<1>2. ASSUME NEW t \in T, NEW x \in X PROVE Append(t, x) \in T
  <2>1. t \in Seq(X)
    OBVIOUS
  <2>4. Spread(F, t) = t
    OBVIOUS
  <2>. HIDE DEF T
  <2>2. /\ Append(t, x) \in Seq(X)
        /\ Spread(F, Append(t, x)) = Spread(F, t) \o F[x]
    <3>1. Spread(F, Append(t, x)) = Spread(F, t) \o F[x]
      BY <2>1, SpreadAppend
    <3>. QED
      BY <2>1, <3>1, AppendProperties
  <2>3. t \o F[x] = Append(t, x)
    <3>1. F[x] = <<x>> /\ <<x>> \in Seq(X)
      BY DEF Singles
    <3>2. t \o <<x>> = Append(t, x)
      BY <2>1
    <3>. QED
      BY <3>1, <3>2
  <2>. QED
    BY <2>2, <2>3, <2>4 DEF T
<1>. HIDE DEF T
<1>3. T \in SUBSET Seq(X)
  BY DEF T
<1>4. T = Seq(X)
  BY <1>1, <1>2, <1>3, SequenceInduction
<1>. QED
  BY <1>4 DEF T

LEMMA SpreadOne ==
  ASSUME NEW X, NEW Y, NEW F, Maps(F, X, Seq(Y)), NEW x \in X
  PROVE  Spread(F, <<x>>) = F[x]
<1>. DEFINE none == <<>>
<1>1. none \in Seq(X) /\ <<x>> = Append(none, x)
  BY EmptySeq
<1>2. Spread(F, none) = <<>> /\ Spread(F, Append(none, x)) = Spread(F, none) \o F[x]
  <2>. HIDE DEF none
  <2>1. Spread(F, <<>>) = <<>> /\ Spread(F, Append(none, x)) = Spread(F, none) \o F[x]
    BY <1>1, SpreadAppend
  <2>. QED
    BY <2>1 DEF none
<1>3. F[x] \in Seq(Y)
  BY DEF Maps
<1>4. <<>> \o F[x] = F[x]
  BY <1>3, ConcatEmptySeq
<1>. QED
  BY <1>1, <1>2, <1>4

-----------------------------------------------------------------------------
(* The request *)

Keep(K)  == [x \in Block |-> IF x.kind \in K THEN <<x>> ELSE <<>>]
Those(K) == {x \in Block : x.kind \in K}

LEMMA KeepMaps ==
  ASSUME NEW K, NEW S \in SUBSET Block
  PROVE  Maps(Keep(K), S, Seq(S)) /\ Maps(Keep(K), S, Seq(S \cap Those(K)))
<1>. SUFFICES ASSUME NEW x \in S PROVE Keep(K)[x] \in Seq(S) /\ Keep(K)[x] \in Seq(S \cap Those(K))
  BY DEF Maps
<1>1. CASE x.kind \in K
  <2>1. Keep(K)[x] = <<x>> /\ x \in S \cap Those(K)
    BY <1>1 DEF Keep, Those
  <2>2. \A Z : x \in Z => <<x>> \in Seq(Z)
    OBVIOUS
  <2>. QED
    BY <2>1, <2>2
<1>2. CASE x.kind \notin K
  <2>1. Keep(K)[x] = <<>>
    BY <1>2 DEF Keep
  <2>2. \A Z : <<>> \in Seq(Z)
    BY EmptySeq
  <2>. QED
    BY <2>1, <2>2
<1>. QED
  BY <1>1, <1>2

(* The blocks of some kinds are a sequence's own, of those kinds. *)
LEMMA OfType ==
  ASSUME NEW K, NEW S \in SUBSET Block, NEW b \in Seq(S)
  PROVE  /\ Of(K, b) = Spread(Keep(K), b) /\ Of(K, b) \in Seq(S) /\ Of(K, b) \in Seq(S \cap Those(K))
<1>1. \A i \in DOMAIN b : b[i] \in Block
  OBVIOUS
<1>2. [i \in DOMAIN b |-> IF b[i].kind \in K THEN <<b[i]>> ELSE <<>>] = Via(Keep(K), b)
  BY <1>1 DEF Via, Keep
<1>3. Of(K, b) = Spread(Keep(K), b)
  BY <1>2, Zenon DEF Of, Spread
<1>. DEFINE F == Keep(K)
            Y == S \cap Those(K)
<1>4. Maps(F, S, Seq(S)) /\ Maps(F, S, Seq(Y))
  BY KeepMaps
<1>. HIDE DEF F, Y
<1>5. Spread(F, b) \in Seq(S) /\ Spread(F, b) \in Seq(Y)
  BY <1>4, SpreadType
<1>. QED
  BY <1>3, <1>5 DEF F, Y

LEMMA OfSame ==
  ASSUME NEW K, NEW L, NEW b, \A i \in DOMAIN b : b[i].kind \in K <=> b[i].kind \in L
  PROVE  Of(K, b) = Of(L, b)
<1>1. [i \in DOMAIN b |-> IF b[i].kind \in K THEN <<b[i]>> ELSE <<>>]
        = [i \in DOMAIN b |-> IF b[i].kind \in L THEN <<b[i]>> ELSE <<>>]
  OBVIOUS
<1>. QED
  BY <1>1, Zenon DEF Of

LEMMA EmptyOnly == \A s \in Seq({}) : s = <<>>
<1>. SUFFICES ASSUME NEW s \in Seq({}) PROVE s = <<>>
  OBVIOUS
<1>1. Len(s) \in Nat /\ \A i \in 1..Len(s) : s[i] \in {}
  OBVIOUS
<1>2. Len(s) = 0
  BY <1>1
<1>. QED
  BY <1>2

LEMMA OfNone ==
  ASSUME NEW K, NEW b \in Seq(Block), \A i \in DOMAIN b : b[i].kind \notin K
  PROVE  Of(K, b) = <<>>
<1>1. Of(K, b) = Of({}, b)
  BY OfSame
<1>2. Block \in SUBSET Block /\ Block \cap Those({}) = {}
  BY DEF Those
<1>3. Of({}, b) \in Seq({})
  BY <1>2, OfType
<1>. QED
  BY <1>1, <1>3, EmptyOnly

LEMMA OfAll ==
  ASSUME NEW K, NEW b \in Seq(Block), \A i \in DOMAIN b : b[i].kind \in K
  PROVE  Of(K, b) = b
<1>1. \A x \in Block : x.kind \in Kinds
  BY DEF Block
<1>2. Of(K, b) = Of(Kinds, b)
  <2>1. \A i \in DOMAIN b : b[i].kind \in K <=> b[i].kind \in Kinds
    BY <1>1
  <2>. QED
    BY <2>1, OfSame
<1>. DEFINE F == Keep(Kinds)
<1>3. Maps(F, Block, Seq(Block)) /\ Singles(F, Block)
  BY <1>1, KeepMaps DEF Singles, Keep
<1>4. Of(Kinds, b) = Spread(F, b)
  BY OfType
<1>. HIDE DEF F
<1>5. Spread(F, b) = b
  BY <1>3, SpreadSingles
<1>. QED
  BY <1>2, <1>4, <1>5

LEMMA OfConcat ==
  ASSUME NEW K, NEW b \in Seq(Block), NEW c \in Seq(Block)
  PROVE  Of(K, b \o c) = Of(K, b) \o Of(K, c)
<1>1. b \o c \in Seq(Block)
  BY ConcatProperties
<1>2. Of(K, b) = Spread(Keep(K), b) /\ Of(K, c) = Spread(Keep(K), c)
  BY OfType
<1>. DEFINE d == b \o c
            F == Keep(K)
<1>3. d \in Seq(Block) /\ Maps(F, Block, Seq(Block))
  BY <1>1, KeepMaps
<1>4. Spread(F, d) = Spread(F, b) \o Spread(F, c)
  <2>. HIDE DEF F
  <2>. QED
    BY <1>3, SpreadConcat
<1>. HIDE DEF d
<1>5. Of(K, d) = Spread(Keep(K), d)
  BY <1>3, OfType
<1>. QED
  BY <1>2, <1>4, <1>5 DEF d, F

(* Text and calls set apart: each keeps its order. *)
LEMMA JoinedKeeps ==
  ASSUME NEW S \in SUBSET Block, NEW b \in Seq(S), \A x \in S : x.kind \in {"text", "call"},
         NEW K \in {{"text", "result"}, {"call", "result"}}
  PROVE  Joined(b) \in Seq(S) /\ Of(K, Joined(b)) = Of(K, b)
<1>. DEFINE t == Of({"text"}, b)
            o == Of({"call", "result"}, b)
<1>1. b \in Seq(Block) /\ \A i \in DOMAIN b : b[i].kind \in {"text", "call"}
  OBVIOUS
<1>2. /\ t \in Seq(S) /\ t \in Seq(S \cap Those({"text"}))
      /\ o \in Seq(S) /\ o \in Seq(S \cap Those({"call", "result"}))
  BY OfType
<1>3. Joined(b) = t \o o
  BY DEF Joined
<1>4. K = {"text", "result"} => Of(K, b) = t
  <2>. SUFFICES ASSUME K = {"text", "result"} PROVE Of(K, b) = Of({"text"}, b)
    OBVIOUS
  <2>1. \A i \in DOMAIN b : b[i].kind \in K <=> b[i].kind \in {"text"}
    BY <1>1
  <2>. QED
    BY <2>1, OfSame
<1>5. K = {"call", "result"} => Of(K, b) = o
  OBVIOUS
<1>. HIDE DEF t, o
<1>6. t \in Seq(Block) /\ o \in Seq(Block) /\ t \o o \in Seq(S)
  <2>1. t \o o \in Seq(S)
    BY <1>2, ConcatProperties
  <2>. QED
    BY <1>2, <2>1
<1>7. Of(K, t \o o) = Of(K, t) \o Of(K, o)
  BY <1>6, OfConcat
<1>8. /\ \A i \in DOMAIN t : t[i].kind = "text"
      /\ \A i \in DOMAIN o : o[i].kind = "call"
  <2>1. (\A x \in S \cap Those({"text"}) : x.kind = "text")
        /\ \A x \in S \cap Those({"call", "result"}) : x.kind = "call"
    BY DEF Those
  <2>. QED
    BY <1>2, <2>1
<1>9. CASE K = {"text", "result"}
  <2>1. (\A i \in DOMAIN t : t[i].kind \in K) /\ \A i \in DOMAIN o : o[i].kind \notin K
    BY <1>8, <1>9
  <2>2. Of(K, t) = t /\ Of(K, o) = <<>>
    BY <1>6, <2>1, OfAll, OfNone
  <2>. QED
    BY <1>3, <1>4, <1>6, <1>7, <1>9, <2>2, ConcatEmptySeq
<1>10. CASE K = {"call", "result"}
  <2>1. (\A i \in DOMAIN t : t[i].kind \notin K) /\ \A i \in DOMAIN o : o[i].kind \in K
    BY <1>8, <1>10
  <2>2. Of(K, t) = <<>> /\ Of(K, o) = o
    BY <1>6, <2>1, OfAll, OfNone
  <2>. QED
    BY <1>3, <1>5, <1>6, <1>7, <1>10, <2>2, ConcatEmptySeq
<1>. QED
  BY <1>9, <1>10

(* What a message becomes, and what some roles say in it. *)
Sentences  == {m \in Message : Translatable(m)}
Wired      == {w \in Message : w.role = "user" \/ Translatable(w)}
Becomes    == [m \in Sentences |-> ToWire(m)]
Says(R, K) == [w \in Message |-> IF w.role \in R THEN Of(K, w.blocks) ELSE <<>>]
Behind(R)  == {r \in Roles : Speaks(r) \in R}

LEMMA MessageType ==
  ASSUME NEW m \in Message
  PROVE  m.role \in Roles /\ m.blocks \in Seq(Block) /\ m = [role |-> m.role, blocks |-> m.blocks]
BY DEF Message

LEMMA SaysMaps ==
  ASSUME NEW R, NEW K
  PROVE  /\ Maps(Says(R, K), Message, Seq(Block)) /\ Maps(Says(R, K), Sentences, Seq(Block))
         /\ Maps(Says(R, K), Wired, Seq(Block))
<1>1. ASSUME NEW m \in Message PROVE Says(R, K)[m] \in Seq(Block)
  <2>1. Of(K, m.blocks) \in Seq(Block) /\ <<>> \in Seq(Block)
    BY MessageType, OfType, EmptySeq
  <2>. QED
    BY <2>1 DEF Says
<1>. QED
  BY <1>1 DEF Maps, Sentences, Wired

LEMMA BlocksSpread ==
  ASSUME NEW R, NEW K, NEW ms \in Seq(Message)
  PROVE  Blocks(ms, R, K) = Spread(Says(R, K), ms)
<1>1. \A i \in DOMAIN ms : ms[i] \in Message
  OBVIOUS
<1>2. [i \in DOMAIN ms |-> IF ms[i].role \in R THEN Of(K, ms[i].blocks) ELSE <<>>] = Via(Says(R, K), ms)
  BY <1>1 DEF Via, Says
<1>. QED
  BY <1>2, Zenon DEF Spread, Blocks

(* A message with its text joined may be said by the same role. *)
LEMMA JoinedMessage ==
  ASSUME NEW m \in Sentences, m.role # "tool", NEW K \in {{"text", "result"}, {"call", "result"}}
  PROVE  /\ [m EXCEPT !.blocks = Joined(@)] \in Wired
         /\ [m EXCEPT !.blocks = Joined(@)].role = m.role
         /\ Of(K, [m EXCEPT !.blocks = Joined(@)].blocks) = Of(K, m.blocks)
<1>. DEFINE S == Range(m.blocks)
            j == Joined(m.blocks)
            w == [m EXCEPT !.blocks = Joined(@)]
<1>1. m \in Message /\ Translatable(m)
  BY DEF Sentences
<1>2. m.role \in Roles /\ m.blocks \in Seq(Block) /\ m = [role |-> m.role, blocks |-> m.blocks]
  BY <1>1, MessageType
<1>3. m.blocks \in Seq(S) /\ S \in SUBSET Block
  BY <1>2 DEF Range
<1>4. \A x \in S : x.kind \in {"text", "call"}
  BY <1>1, <1>2 DEF Translatable, Allowed, Roles
<1>5. j \in Seq(S) /\ Of(K, j) = Of(K, m.blocks)
  <2>. HIDE DEF S
  <2>. QED
    BY <1>3, <1>4, JoinedKeeps
<1>6. w = [role |-> m.role, blocks |-> j]
  BY <1>2
<1>. HIDE DEF j
<1>7. j \in Seq(Block) /\ Range(j) \subseteq S
  BY <1>3, <1>5 DEF Range
<1>8. w \in Message /\ w.role = m.role /\ w.blocks = j
  BY <1>2, <1>6, <1>7 DEF Message
<1>. HIDE DEF w
<1>9. Translatable(w)
  BY <1>1, <1>7, <1>8 DEF Translatable
<1>. QED
  BY <1>5, <1>8, <1>9 DEF Wired, w

(* A message that carries one result. *)
LEMMA OneResult ==
  ASSUME NEW x \in Block, x.kind = "result", NEW R, NEW K
  PROVE  /\ [role |-> "tool", blocks |-> <<x>>] \in Wired
         /\ Says(R, K)[[role |-> "tool", blocks |-> <<x>>]]
              = IF "tool" \in R /\ "result" \in K THEN <<x>> ELSE <<>>
<1>. DEFINE one == <<x>>
            t == [role |-> "tool", blocks |-> one]
<1>1. one \in Seq(Block) /\ "tool" \in Roles /\ Range(one) = {x}
  BY DEF Roles, Range
<1>2. \A i \in DOMAIN one : one[i].kind = "result"
  OBVIOUS
<1>. HIDE DEF one
<1>3. t \in Message /\ t.role = "tool" /\ t.blocks = one
  BY <1>1 DEF Message
<1>. HIDE DEF t
<1>4. Translatable(t)
  BY <1>1, <1>3 DEF Translatable, Allowed
<1>5. Of(K, one) = IF "result" \in K THEN one ELSE <<>>
  BY <1>1, <1>2, OfAll, OfNone
<1>6. Says(R, K)[t] = IF "tool" \in R /\ "result" \in K THEN one ELSE <<>>
  BY <1>3, <1>5 DEF Says
<1>7. t \in Wired
  BY <1>3, <1>4 DEF Wired
<1>. QED
  BY <1>6, <1>7 DEF t, one

(* A tool message of the Chat Completions API: one message for each result. *)
LEMMA ToolMessages ==
  ASSUME NEW m \in Sentences, provider = "openai", m.role = "tool", NEW R, NEW K
  PROVE  ToWire(m) \in Seq(Wired) /\ Spread(Says(R, K), ToWire(m)) = Says(R, K)[m]
<1>. DEFINE b == m.blocks
            w == ToWire(m)
<1>1. m \in Message /\ Translatable(m) /\ b \in Seq(Block)
  BY MessageType DEF Sentences
<1>2. \A i \in DOMAIN b : b[i] \in Block /\ b[i].kind = "result"
  BY <1>1 DEF Range, Translatable, Allowed
<1>3. w = [i \in DOMAIN b |-> [role |-> "tool", blocks |-> <<b[i]>>]]
  BY DEF ToWire, WireOpenAI
<1>. DEFINE One(i) == [role |-> "tool", blocks |-> <<b[i]>>]
            L == IF "tool" \in R THEN K ELSE {}
<1>4. /\ \A i \in DOMAIN b : One(i) \in Wired
      /\ \A i \in DOMAIN b : Says(R, K)[One(i)] = IF b[i].kind \in L THEN <<b[i]>> ELSE <<>>
  <2>. SUFFICES ASSUME NEW i \in DOMAIN b
                PROVE  /\ One(i) \in Wired
                       /\ Says(R, K)[One(i)] = IF b[i].kind \in L THEN <<b[i]>> ELSE <<>>
    OBVIOUS
  <2>. DEFINE x == b[i]
  <2>1. x \in Block /\ x.kind = "result"
    BY <1>2
  <2>. HIDE DEF x
  <2>2. /\ [role |-> "tool", blocks |-> <<x>>] \in Wired
        /\ Says(R, K)[[role |-> "tool", blocks |-> <<x>>]]
             = IF "tool" \in R /\ "result" \in K THEN <<x>> ELSE <<>>
    BY <2>1, OneResult
  <2>3. x.kind \in L <=> "tool" \in R /\ "result" \in K
    BY <2>1
  <2>. QED
    BY <2>2, <2>3 DEF x
<1>5. w = [i \in DOMAIN b |-> One(i)]
  BY <1>3
<1>. HIDE DEF One, w
<1>6. DOMAIN b = 1..Len(b) /\ Len(b) \in Nat
  BY <1>1
<1>7. w \in Seq(Wired) /\ DOMAIN w = DOMAIN b /\ \A i \in DOMAIN b : w[i] = One(i)
  <2>. HIDE DEF b
  <2>1. w = [i \in 1..Len(b) |-> One(i)] /\ \A i \in 1..Len(b) : One(i) \in Wired
    BY <1>4, <1>5, <1>6
  <2>. QED
    BY <1>5, <1>6, <2>1
<1>8. Spread(Says(R, K), w) = Of(L, b)
  <2>. HIDE DEF L
  <2>1. Via(Says(R, K), w) = [i \in DOMAIN b |-> IF b[i].kind \in L THEN <<b[i]>> ELSE <<>>]
    BY <1>4, <1>7 DEF Via
  <2>. QED
    BY <2>1, Zenon DEF Spread, Of
<1>9. Of(L, b) = IF "tool" \in R THEN Of(K, b) ELSE <<>>
  <2>1. Of({}, b) = <<>>
    BY <1>1, OfNone
  <2>. QED
    BY <2>1
<1>10. Says(R, K)[m] = IF "tool" \in R THEN Of(K, b) ELSE <<>>
  BY <1>1 DEF Says
<1>. QED
  BY <1>7, <1>8, <1>9, <1>10 DEF w

(* The blocks of a message and those of what it becomes are the same. *)
LEMMA MessageIsFaithful ==
  ASSUME Typed, NEW m \in Sentences, NEW R \in SUBSET Roles, NEW K \in Strands
  PROVE  ToWire(m) \in Seq(Wired) /\ Spread(Says(R, K), ToWire(m)) = Says(Behind(R), K)[m]
<1>1. m \in Message /\ Translatable(m) /\ m.blocks \in Seq(Block) /\ m.role \in Roles
  BY MessageType DEF Sentences
<1>2. Maps(Says(R, K), Wired, Seq(Block))
  BY SaysMaps
<1>3. provider \in {"openai", "anthropic"}
  BY StreamAssumption DEF Typed
<1>4. ASSUME NEW w \in Wired, Says(R, K)[w] = Says(Behind(R), K)[m], ToWire(m) = <<w>>
      PROVE  ToWire(m) \in Seq(Wired) /\ Spread(Says(R, K), ToWire(m)) = Says(Behind(R), K)[m]
  <2>. DEFINE F == Says(R, K)
  <2>1. Maps(F, Wired, Seq(Block))
    BY <1>2
  <2>. HIDE DEF F
  <2>2. Spread(F, <<w>>) = F[w] /\ <<w>> \in Seq(Wired)
    BY <2>1, SpreadOne
  <2>. QED
    BY <1>4, <2>2 DEF F
<1>5. provider = "openai" => Behind(R) = R
  BY DEF Behind, Speaks
<1>6. \A w \in Message : Says(R, K)[w] = IF w.role \in R THEN Of(K, w.blocks) ELSE <<>>
  BY DEF Says
<1>7. Says(Behind(R), K)[m] = IF m.role \in Behind(R) THEN Of(K, m.blocks) ELSE <<>>
  BY <1>1 DEF Says
<1>8. m.role \in Behind(R) <=> Speaks(m.role) \in R
  BY <1>1 DEF Behind
<1>9. CASE provider = "openai" /\ m.role = "tool"
  BY <1>5, <1>9, ToolMessages
<1>10. CASE provider = "openai" /\ m.role # "tool"
  <2>. DEFINE w == [m EXCEPT !.blocks = Joined(@)]
  <2>1. ToWire(m) = <<w>>
    BY <1>10 DEF ToWire, WireOpenAI
  <2>2. K \in {{"text", "result"}, {"call", "result"}}
    BY <1>10 DEF Strands
  <2>3. w \in Wired /\ w.role = m.role /\ Of(K, w.blocks) = Of(K, m.blocks)
    BY <1>10, <2>2, JoinedMessage
  <2>. HIDE DEF w
  <2>4. Says(R, K)[w] = Says(Behind(R), K)[m]
    BY <1>5, <1>6, <1>7, <1>10, <2>3 DEF Wired
  <2>. QED
    BY <1>4, <2>1, <2>3, <2>4
<1>11. CASE provider = "anthropic" /\ m.role = "system"
  <2>1. ToWire(m) = <<>>
    BY <1>11 DEF ToWire, WireAnthropic
  <2>2. "nobody" \notin Roles
    BY DEF Roles
  <2>3. m.role \notin Behind(R)
    BY <1>8, <1>11, <2>2 DEF Speaks
  <2>4. Spread(Says(R, K), <<>>) = <<>>
    BY FlattenEmpty DEF Spread, Via
  <2>. QED
    BY <1>7, <2>1, <2>3, <2>4, EmptySeq
<1>12. CASE provider = "anthropic" /\ m.role = "tool"
  <2>. DEFINE w == [m EXCEPT !.role = "user"]
  <2>1. ToWire(m) = <<w>>
    BY <1>12 DEF ToWire, WireAnthropic
  <2>2. w \in Message /\ w.role = "user" /\ w.blocks = m.blocks
    BY <1>1, MessageType DEF Message, Roles
  <2>. HIDE DEF w
  <2>3. Speaks(m.role) = "user"
    BY <1>12 DEF Speaks
  <2>4. w \in Wired /\ Says(R, K)[w] = Says(Behind(R), K)[m]
    BY <1>6, <1>7, <1>8, <2>2, <2>3 DEF Wired
  <2>. QED
    BY <1>4, <2>1, <2>4
<1>13. CASE provider = "anthropic" /\ m.role \notin {"system", "tool"}
  <2>1. ToWire(m) = <<m>> /\ Speaks(m.role) = m.role
    BY <1>13 DEF ToWire, WireAnthropic, Speaks
  <2>2. m \in Wired /\ Says(R, K)[m] = Says(Behind(R), K)[m]
    BY <1>1, <1>6, <1>7, <1>8, <2>1 DEF Wired
  <2>. QED
    BY <1>4, <2>1, <2>2
<1>. QED
  BY <1>3, <1>9, <1>10, <1>11, <1>12, <1>13

LEMMA ConversationIsFaithful ==
  ASSUME Typed, NEW r \in Seq(Message), \A m \in Range(r) : Translatable(m),
         NEW w, w = FlattenSeq([i \in DOMAIN r |-> ToWire(r[i])])
  PROVE  /\ \A K \in Strands : \A R \in SUBSET Roles : Blocks(w, R, K) = Blocks(r, Behind(R), K)
         /\ \A i \in DOMAIN w : w[i].role = "user" \/ Translatable(w[i])
<1>1. r \in Seq(Sentences)
  BY DEF Range, Sentences
<1>2. \E K : K \in Strands
  BY DEF Strands
<1>3. Maps(Becomes, Sentences, Seq(Wired))
  <2>1. \A m \in Sentences : ToWire(m) \in Seq(Wired)
    BY <1>2, MessageIsFaithful
  <2>. QED
    BY <2>1 DEF Maps, Becomes
<1>4. [i \in DOMAIN r |-> ToWire(r[i])] = Via(Becomes, r)
  BY <1>1 DEF Via, Becomes
<1>5. w = Spread(Becomes, r)
  BY <1>4, Zenon DEF Spread
<1>6. w \in Seq(Wired)
  BY <1>1, <1>3, <1>5, SpreadType
<1>7. w \in Seq(Message)
  BY <1>6 DEF Wired
<1>8. ASSUME NEW K \in Strands, NEW R \in SUBSET Roles PROVE Blocks(w, R, K) = Blocks(r, Behind(R), K)
  <2>. DEFINE G == Says(R, K)
              H == Says(Behind(R), K)
  <2>1. Maps(G, Wired, Seq(Block)) /\ Maps(H, Sentences, Seq(Block))
    BY SaysMaps
  <2>2. \A m \in Sentences : Spread(G, Becomes[m]) = H[m]
    BY MessageIsFaithful DEF Becomes
  <2>3. Blocks(w, R, K) = Spread(G, w) /\ Blocks(r, Behind(R), K) = Spread(H, r)
    BY <1>7, BlocksSpread
  <2>. HIDE DEF G, H
  <2>4. Spread(G, Spread(Becomes, r)) = Spread(H, r)
    BY <1>1, <1>3, <2>1, <2>2, SpreadTwice
  <2>. QED
    BY <1>5, <2>3, <2>4
<1>9. \A i \in DOMAIN w : w[i] \in Wired
  BY <1>6
<1>. QED
  BY <1>8, <1>9 DEF Wired

(* The system parameter. *)
LEMMA SystemIsFaithful ==
  ASSUME Typed, NEW r \in Seq(Message)
  PROVE  FlattenSeq([i \in DOMAIN r |-> SystemOf(r[i])])
           = IF provider = "openai" THEN <<>> ELSE Blocks(r, {"system"}, Kinds)
<1>1. provider \in {"openai", "anthropic"}
  BY StreamAssumption DEF Typed
<1>2. CASE provider = "openai"
  <2>. DEFINE F == [m \in Message |-> <<>>]
              none == {}
  <2>1. [i \in DOMAIN r |-> SystemOf(r[i])] = Via(F, r)
    BY <1>2 DEF Via, SystemOf
  <2>2. Maps(F, Message, Seq(none))
    BY EmptySeq DEF Maps
  <2>. HIDE DEF F, none
  <2>3. Spread(F, r) \in Seq(none)
    BY <2>2, SpreadType
  <2>4. Spread(F, r) = <<>>
    BY <2>3, EmptyOnly DEF none
  <2>5. FlattenSeq([i \in DOMAIN r |-> SystemOf(r[i])]) = Spread(F, r)
    BY <2>1, Zenon DEF Spread
  <2>. QED
    BY <1>2, <2>4, <2>5
<1>3. CASE provider = "anthropic"
  <2>1. ASSUME NEW i \in DOMAIN r
        PROVE  SystemOf(r[i]) = IF r[i].role \in {"system"} THEN Of(Kinds, r[i].blocks) ELSE <<>>
    <3>1. r[i].blocks \in Seq(Block)
      BY MessageType
    <3>. DEFINE b == r[i].blocks
    <3>2. Of(Kinds, b) = b
      <4>1. b \in Seq(Block) /\ \A x \in Block : x.kind \in Kinds
        BY <3>1 DEF Block
      <4>. HIDE DEF b
      <4>2. \A j \in DOMAIN b : b[j].kind \in Kinds
        BY <4>1
      <4>. QED
        BY <4>1, <4>2, OfAll
    <3>. QED
      BY <1>3, <3>2 DEF SystemOf
  <2>2. [i \in DOMAIN r |-> SystemOf(r[i])]
          = [i \in DOMAIN r |-> IF r[i].role \in {"system"} THEN Of(Kinds, r[i].blocks) ELSE <<>>]
    BY <2>1
  <2>3. FlattenSeq([i \in DOMAIN r |-> SystemOf(r[i])]) = Blocks(r, {"system"}, Kinds)
    BY <2>2, Zenon DEF Blocks
  <2>. QED
    BY <1>3, <2>3
<1>. QED
  BY <1>1, <1>2, <1>3

-----------------------------------------------------------------------------
(* The theorems *)

LEMMA InitStream == Init => StreamInv
<1>. SUFFICES ASSUME Init PROVE StreamInv
  OBVIOUS
<1>. DEFINE absent == [c \in Calls |-> "absent"]
            v == [text |-> 0, args |-> absent, stopped |-> FALSE, over |-> FALSE]
<1>1. absent \in [Calls -> Args]
  BY DEF Args
<1>2. /\ sent.events = 0 /\ sent.text = 0 /\ sent.args = absent /\ sent.stopped = FALSE
      /\ sent.over = FALSE /\ sent.usage = FALSE /\ sent = Unsent
  BY DEF Init, Unsent
<1>3. /\ acc.text = 0 /\ acc.args = absent /\ acc = Fresh /\ acc.usage = 0
  BY DEF Init, Fresh
<1>4. /\ out = Silent /\ out.text = 0 /\ out.terminals = <<>>
  BY DEF Init, Silent
<1>5. sent \in Sendings
  <2>. HIDE DEF absent
  <2>1. Unsent = [events |-> 0, text |-> 0, args |-> absent, stopped |-> FALSE, usage |-> FALSE, over |-> FALSE]
    BY DEF Unsent, absent
  <2>. QED
    BY <1>1, <1>2, <2>1, StreamAssumption DEF Sendings
<1>6. acc \in Accounts
  BY <1>1, <1>3 DEF Accounts, Fresh
<1>7. out \in [text : Nat, terminals : Seq(Terminals)]
  <2>. DEFINE none == <<>>
  <2>1. none \in Seq(Terminals)
    OBVIOUS
  <2>2. out = [text |-> 0, terminals |-> none]
    BY <1>4 DEF Silent
  <2>. HIDE DEF none
  <2>. QED
    BY <2>1, <2>2
<1>. HIDE DEF absent
<1>8. Typed
  <2>1. provider \in Providers /\ call = "building" /\ queue = <<>> /\ items = <<>>
    BY DEF Init
  <2>. QED
    BY <1>2, <1>3, <1>4, <1>5, <1>6, <1>7, <2>1 DEF Typed, Points
<1>9. Pending = <<>> /\ v = All /\ v \in Views
  BY <1>1, <1>2 DEF Init, Pending, All, Seen, Views
<1>10. Parsed(v)
  BY <1>3, <1>4 DEF Parsed, Init
<1>. QED
  BY <1>8, <1>9, <1>10 DEF StreamInv, InStep, Coming

LEMMA StreamStep == StreamInv /\ [Next]_vars => StreamInv'
<1>. SUFFICES ASSUME StreamInv, [Next]_vars PROVE StreamInv'
  OBVIOUS
<1>1. Onward \/ Ending => StreamInv'
  BY DEF Onward, Ending, StreamInv, InStep
<1>2. CASE UNCHANGED vars
  <2>1. Typed'
    BY <1>2 DEF vars, StreamInv, Typed
  <2>2. CASE \E v \in Views : Coming(v) /\ Parsed(v)
    <3>1. PICK v \in Views : Coming(v) /\ Parsed(v)
      BY <2>2
    <3>2. Coming(v)' /\ Parsed(v)'
      BY <1>2, <3>1, ComingSame, ParsedSame DEF vars, Pending
    <3>. QED
      BY <1>1, <2>1, <3>2 DEF Onward
  <2>3. CASE call = "ended" /\ FinishIsWhole /\ FinishIsLast
    BY <1>1, <1>2, <2>1, <2>3, EndsAsItWas DEF Ending, vars
  <2>. QED
    BY <2>2, <2>3 DEF StreamInv, InStep
<1>3. CASE Next /\ call = "ended"
  BY <1>3 DEF Next, Build, Send, ReadHalf, ReadLine, Reading, ParseDelta, ParseStop, YieldQueued,
              ParseDone, ParseError, Closed, Broken
<1>4. CASE Next /\ \E v \in Views : Coming(v) /\ Parsed(v)
  <2>1. PICK v \in Views : Coming(v) /\ Parsed(v)
    BY <1>4
  <2>2. Typed
    BY DEF StreamInv
  <2>. QED
    BY <1>1, <1>4, <2>1, <2>2, CallKeeps, ReadKeeps, DeltaKeeps, StopKeeps, YieldKeeps, DoneKeeps,
       ErrorKeeps, ClosedKeeps, BrokenKeeps DEF Next
<1>. QED
  BY <1>2, <1>3, <1>4 DEF StreamInv, InStep

LEMMA StreamHolds == Spec => []StreamInv
  BY InitStream, StreamStep, PTL DEF Spec

(* The adapter's state is well formed: what it accumulates and yields is   *)
(* never more than the backend sent.                                       *)
THEOREM StreamTypes == Spec => []TypeOK
<1>1. StreamInv => TypeOK
  <2>. SUFFICES ASSUME StreamInv PROVE TypeOK
    OBVIOUS
  <2>1. Typed
    BY DEF StreamInv
  <2>2. /\ acc.text \in 0..MaxEvents /\ acc.usage \in 0..1 /\ acc.args \in [Calls -> Args]
    BY <2>1, OutType, StreamAssumption DEF Accounts
  <2>3. out.terminals \in Seq(Terminals)
    BY <2>1, OutType
  <2>4. Range(out.terminals) \subseteq Terminals
    BY <2>3 DEF Range
  <2>5. call \in {"building", "sending", "streaming", "ended"} \cup {Refusal[e] : e \in Errors}
    BY <2>1 DEF Typed, Points
  <2>6. out.text <= sent.text /\ sent.events <= MaxEvents /\ Len(items) <= 1 /\ provider \in Providers
    BY <2>1, SentType DEF Typed
  <2>7. Len(items) <= 2
    BY <2>6
  <2>. QED
    BY <2>2, <2>4, <2>5, <2>6, <2>7 DEF TypeOK
<1>. QED
  BY <1>1, StreamHolds, PTL

(* The final message is exactly what was streamed, however the response is *)
(* cut and wherever it ends (finish_item).                                 *)
THEOREM FinishesAreWhole == Spec => []FinishIsWhole
<1>1. StreamInv => FinishIsWhole
  BY OpenStreamIsFine DEF StreamInv, InStep
<1>. QED
  BY <1>1, StreamHolds, PTL

(* A response is finished at most once; OpenAI's stream has one terminal    *)
(* item, and Anthropic's a second one only beside the backend's own error   *)
(* or a broken connection (the done flag, the drained accumulator).         *)
THEOREM FinishesAreLast == Spec => []FinishIsLast
<1>1. StreamInv => FinishIsLast
  BY OpenStreamIsFine DEF StreamInv, InStep
<1>. QED
  BY <1>1, StreamHolds, PTL

(* Until it is built the conversation is there, and once it is built what   *)
(* the wire holds is faithful to it.                                        *)
RequestInv == (call = "building" => request \in Seq(Message)) /\ RequestIsFaithful

LEMMA RefusedApart == \A e \in Errors : Refusal[e] \notin {"building", "sending"}
<1>1. /\ Refusal["Api"] = "refused: Api" /\ Refusal["InvalidRequest"] = "refused: InvalidRequest"
      /\ Refusal["RateLimited"] = "refused: RateLimited" /\ Refusal["Transport"] = "refused: Transport"
  BY DEF Refusal
<1>2. /\ "refused: Api" \notin {"building", "sending"} /\ "refused: InvalidRequest" \notin {"building", "sending"}
      /\ "refused: RateLimited" \notin {"building", "sending"} /\ "refused: Transport" \notin {"building", "sending"}
  OBVIOUS
<1>. QED
  BY <1>1, <1>2 DEF Errors

LEMMA InitRequest == Init => RequestInv
BY StreamAssumption DEF Init, RequestInv, RequestIsFaithful

LEMMA RequestStep == StreamInv /\ RequestInv /\ [Next]_vars => RequestInv'
<1>. SUFFICES ASSUME StreamInv, RequestInv, [Next]_vars PROVE RequestInv'
  OBVIOUS
<1>1. Typed
  BY DEF StreamInv
<1>2. CASE call' \notin {"building", "sending"}
  BY <1>2 DEF RequestInv, RequestIsFaithful
<1>0. provider' = provider => Strands' = Strands /\ \A role : Speaks(role)' = Speaks(role)
  BY DEF Speaks, Strands
<1>3. CASE UNCHANGED vars
  <2>1. \A m : Translatable(m)' <=> Translatable(m)
    BY DEF Translatable
  <2>2. RequestIsFaithful' <=> RequestIsFaithful
    BY <1>3 DEF vars, RequestIsFaithful, Speaks, Strands, Translatable
  <2>. QED
    BY <1>3, <2>2 DEF RequestInv, vars
<1>4. CASE Build
  <2>1. call = "building" /\ request' = request /\ provider' = provider
    BY <1>4 DEF Build
  <2>2. CASE \A m \in Range(request) : Translatable(m)
    <3>. DEFINE w == FlattenSeq([i \in DOMAIN request |-> ToWire(request[i])])
                t == FlattenSeq([i \in DOMAIN request |-> SystemOf(request[i])])
    <3>1. wire' = [system |-> t, messages |-> w] /\ call' = "sending"
      BY <1>4, <2>2 DEF Build
    <3>2. request \in Seq(Message)
      BY <2>1 DEF RequestInv
    <3>3. /\ \A K \in Strands : \A R \in SUBSET Roles : Blocks(w, R, K) = Blocks(request, Behind(R), K)
          /\ \A i \in DOMAIN w : w[i].role = "user" \/ Translatable(w[i])
      BY <1>1, <2>2, <3>2, ConversationIsFaithful
    <3>4. t = IF provider = "openai" THEN <<>> ELSE Blocks(request, {"system"}, Kinds)
      BY <1>1, <3>2, SystemIsFaithful
    <3>. HIDE DEF w, t
    <3>5. wire'.messages = w /\ wire'.system = t
      BY <3>1
    <3>6. \A K \in Strands' : \A R \in {Roles} \cup {{r} : r \in Roles} :
            Blocks(wire'.messages, R, K) = Blocks(request', {r \in Roles : Speaks(r)' \in R}, K)
      <4>. SUFFICES ASSUME NEW K \in Strands', NEW R \in {Roles} \cup {{r} : r \in Roles}
                    PROVE  Blocks(wire'.messages, R, K) = Blocks(request', {r \in Roles : Speaks(r)' \in R}, K)
        OBVIOUS
      <4>1. R \in SUBSET Roles /\ K \in Strands
        BY <1>0, <2>1
      <4>2. Behind(R) = {r \in Roles : Speaks(r)' \in R}
        BY <1>0, <2>1 DEF Behind
      <4>3. Blocks(w, R, K) = Blocks(request, Behind(R), K)
        BY <3>3, <4>1
      <4>. QED
        BY <2>1, <3>5, <4>2, <4>3
    <3>7. wire'.system = IF provider' = "openai" THEN <<>> ELSE Blocks(request', {"system"}, Kinds)
      BY <2>1, <3>4, <3>5
    <3>8. \A i \in DOMAIN wire'.messages : wire'.messages[i].role = "user" \/ Translatable(wire'.messages[i])
      BY <3>3, <3>5
    <3>9. RequestIsFaithful'
      BY <3>6, <3>7, <3>8 DEF RequestIsFaithful, Blocks, Of, Translatable
    <3>. QED
      BY <3>1, <3>9 DEF RequestInv
  <2>3. CASE ~(\A m \in Range(request) : Translatable(m))
    <3>1. call' = Refusal["InvalidRequest"] /\ "InvalidRequest" \in Errors
      BY <1>4, <2>3 DEF Build, Refused, Errors
    <3>. QED
      BY <1>2, <3>1, RefusedApart
  <2>. QED
    BY <2>2, <2>3
<1>5. CASE Send
  <2>1. "Transport" \in Errors /\ \A status : StatusError(status) \in Errors
    BY DEF StatusError, Errors
  <2>2. call' = "streaming" \/ \E e \in Errors : call' = Refusal[e]
    BY <1>5, <2>1 DEF Send, Refused
  <2>. QED
    BY <1>2, <2>2, RefusedApart
<1>6. CASE Next /\ ~Build /\ ~Send
  <2>1. call' \in {"streaming", "ended"}
    BY <1>6 DEF Next, ReadHalf, ReadLine, Reading, ParseDelta, ParseStop, YieldQueued, ParseDone,
                ParseError, Closed, Broken, AfterYield
  <2>. QED
    BY <1>2, <2>1
<1>. QED
  BY <1>3, <1>4, <1>5, <1>6

(* Every text, call and result of the conversation reaches the wire once,   *)
(* in its order and said by its role, or the call is refused: for           *)
(* conversations of any length and messages of any number of blocks         *)
(* (to_wire_messages, request_body).                                        *)
THEOREM RequestsAreFaithful == Spec => []RequestIsFaithful
<1>1. RequestInv => RequestIsFaithful
  BY DEF RequestInv
<1>. QED
  BY <1>1, StreamHolds, InitRequest, RequestStep, PTL DEF Spec
=============================================================================
