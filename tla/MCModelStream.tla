---------------------------- MODULE MCModelStream ----------------------------
EXTENDS ModelStream, TLC

(* Every block of a conversation is told from every other.                 *)
Numbered(shapes) ==
  [i \in DOMAIN shapes |->
     [role   |-> shapes[i].role,
      blocks |-> [j \in DOMAIN shapes[i].kinds |-> [kind |-> shapes[i].kinds[j], id |-> 10 * i + j]]]]

MCShapes == [role : {"system", "user", "assistant", "tool"},
             kinds : UNION {[1..n -> {"text", "call", "result"}] : n \in 0..2}]
MCRequests == {Numbered(s) : s \in UNION {[1..n -> MCShapes] : n \in 0..2}}

(* One text message is enough where the response matters.                  *)
MCSimpleRequests == {Numbered(<<[role |-> "user", kinds |-> <<"text">>]>>)}
MCOpenAI == {"openai"}
MCBoth   == {"openai", "anthropic"}
MCCalls  == {1, 2}
=============================================================================
