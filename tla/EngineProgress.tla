--------------------------- MODULE EngineProgress ---------------------------
(***************************************************************************)
(* The workflow engine seen from the order: the dispatch steps, which the  *)
(* dispatcher's batches complete, are told from the steps of production,   *)
(* and each step of production belongs to a stage.                         *)
(***************************************************************************)
EXTENDS WorkflowEngine

CONSTANTS
  Stage,     \* order statuses that stand for a stage of production
  StageOf,   \* the stage of each step, by its type and department
  Dispatch   \* dispatch steps, by their type or code

ASSUME DispatchSteps ==
  /\ Dispatch \subseteq Task
  /\ Task \ Dispatch # {}
  /\ StageOf \in [Task \ Dispatch -> Stage]
  /\ Dispatch \cap (Verification \cup Gate \cup Inspection) = {}

Produces == Task \ Dispatch

AllTerminal(S) == \A t \in S : task[t] \in TaskTerminal

Active == {"READY", "ASSIGNED", "IN_PROGRESS", "REWORK"}

\* Dispatch work that brings an order on the dispatcher's board.
Queued == {"READY", "ASSIGNED", "IN_PROGRESS"}

\* Mutant: only the steps in work now hold up dispatch.
PhaseOfOpenWork ==
  IF \E t \in Produces : task[t] \in Active THEN "open"
  ELSE IF \E t \in Dispatch : task[t] \in Queued THEN "produced"
  ELSE IF AllTerminal(Dispatch) THEN "over"
  ELSE "parked"

PhaseNow ==
  IF ~AllTerminal(Produces) THEN "open"
  ELSE IF \E t \in Dispatch : task[t] \in Queued THEN "produced"
  ELSE IF AllTerminal(Dispatch) THEN "over"
  ELSE "parked"

EngineView ==
  [phase |-> PhaseNow,
   stages |-> {StageOf[t] : t \in {u \in Produces : task[u] \in Active}},
   correction |-> \E t \in Verification : task[t] = "BLOCKED"]

Progress == INSTANCE ProductionProgress WITH view <- EngineView, reopened <- crossed

\* Once every step before dispatch is finished, no rework, rejection, flag or
\* floor handler of the workflow itself can bring production back, so an
\* order may be booked for dispatch on the strength of an earlier look at its
\* tasks.  Only a rework from another workflow can.
ProgressSpec == Progress!ProgressSpec
=============================================================================
