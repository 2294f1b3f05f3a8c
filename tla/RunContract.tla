---------------------------- MODULE RunContract ----------------------------
(***************************************************************************)
(* What one run promises to its conversation, its observers and its        *)
(* consumer, whatever happens inside it: it settles one outcome in the     *)
(* archive, announces that same outcome at most once and only after it is  *)
(* archived, and closes its stream only once an outcome is archived.  Only *)
(* a run whose tools may panic may instead abort: its stream then closes   *)
(* too, with nothing archived and nothing announced.                       *)
(***************************************************************************)
CONSTANTS Outcomes,   \* the ways a run can end
          Unsettled,  \* no outcome yet
          MayAbort    \* a tool task may panic

VARIABLES settled,    \* the outcome of the first turn the run archived
          announced,  \* the terminal event the bus was notified of
          stream      \* the stream of events to the consumer

cvars == <<settled, announced, stream>>

CInit == settled = Unsettled /\ announced = Unsettled /\ stream = "open"

(* The outcome is archived; the terminal event may go out in the same step. *)
Settle(o) ==
  /\ stream = "open" /\ settled = Unsettled
  /\ settled' = o
  /\ announced' \in {Unsettled, o}
  /\ stream' \in {"open", "closed"}

(* Work that follows the archive (the state engine) comes before the event. *)
Announce ==
  /\ stream = "open" /\ settled \in Outcomes /\ announced = Unsettled
  /\ announced' = settled
  /\ UNCHANGED <<settled, stream>>

Close ==
  /\ stream = "open" /\ settled \in Outcomes
  /\ stream' = "closed"
  /\ UNCHANGED <<settled, announced>>

(* The loop task panics where a result is missing. *)
Abort ==
  /\ MayAbort /\ stream = "open" /\ settled = Unsettled /\ announced = Unsettled
  /\ stream' = "aborted"
  /\ UNCHANGED <<settled, announced>>

CNext == (\E o \in Outcomes : Settle(o)) \/ Announce \/ Close \/ Abort

CSpec == CInit /\ [][CNext]_cvars
=============================================================================
