-------------------------- MODULE ProductionStages --------------------------
(***************************************************************************)
(* What an order sees of the workflow of one of its items: the stages its  *)
(* departments are working in, whether a review waits for a correction,    *)
(* and how far the item has come.  The order's status is derived from      *)
(* nothing else.                                                           *)
(***************************************************************************)

CONSTANT Stage  \* the order statuses that stand for a stage of production

\* open:     a step before dispatch is not finished
\* produced: only dispatch is left, and it is queued or under way
\* parked:   only dispatch is left, and its work is paused, held or blocked
\* over:     every step is finished, or the workflow was cancelled
Phase == {"open", "produced", "parked", "over"}

View == {v \in [phase : Phase, stages : SUBSET Stage, correction : BOOLEAN] :
           v.phase # "open" => v.stages = {} /\ ~v.correction}

Over == [phase |-> "over", stages |-> {}, correction |-> FALSE]

\* isPreDispatchProductionComplete
Complete(v) == v.phase # "open"

\* hasOpenDispatchWork
OpenDispatchWork(v) == v.phase \in {"produced", "parked"}

\* The order of the phases, in which an item never goes back.
MayBecome(v, w) ==
  \/ v.phase = "open"
  \/ OpenDispatchWork(v) /\ Complete(w)
  \/ v = Over /\ w = Over
=============================================================================
