----------------------------- MODULE MCScheduler -----------------------------
EXTENDS Scheduler

CONSTANTS queued, other

MCTasks   == {queued, other}
MCOffered == [t \in MCTasks |-> IF t = queued THEN {"Queue"} ELSE {"Skip", "Concurrent"}]
MCPeriod  == [t \in MCTasks |-> IF t = queued THEN 1 ELSE 2]
MCPanicky == {queued}

(* The smallest instance: one Queue task that never panics. *)
MCQueue        == {queued}
MCQueueOffered == [t \in MCQueue |-> {"Queue"}]
MCQueuePeriod  == [t \in MCQueue |-> 1]
MCNone         == {}
=============================================================================
