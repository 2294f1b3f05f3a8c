---------------------------- MODULE MCTurnContext ----------------------------
EXTENDS TurnContext, TLC

CONSTANTS r1, r2, r3, billing, travel

MCRuns   == {r1, r2, r3}
MCTopics == {billing, travel}
MCSetups == {[provider |-> "bundled", rewriter |-> TRUE,  detector |-> TRUE],
             [provider |-> "bundled", rewriter |-> FALSE, detector |-> FALSE],
             [provider |-> "layered", rewriter |-> FALSE, detector |-> FALSE],
             [provider |-> "foreign", rewriter |-> FALSE, detector |-> TRUE]}

(* Nothing is alike; or the summaries are, and long-term memory is like each *)
(* of them, so that a turn and its own summary are never alike.              *)
Entry(layer, t) == [layer |-> layer, turn |-> t]
MCLikenesses    == {{}, {{Entry("l2", t), Entry("l2", u)} : t \in MCRuns, u \in MCRuns}
                        \cup {{Entry("l2", t), Entry("l3", Past)} : t \in MCRuns}}

MCSymmetry == Permutations(MCRuns) \cup Permutations(MCTopics)
=============================================================================
