-------------------------- MODULE MCWorkflowEngine --------------------------
(***************************************************************************)
(* A small template for WorkflowEngine: a review, the vendor's approval, a *)
(* print, a quality check that may be prepared while the print runs, and a *)
(* dispatch that waits for both.                                           *)
(***************************************************************************)
EXTENDS EngineProgress, TLC

CONSTANTS review, approve, print, check, ship

FinishToStart(t, p) == [task |-> t, on |-> p, kind |-> "FINISH_TO_START"]
StartToStart(t, p) == [task |-> t, on |-> p, kind |-> "START_TO_START"]

ShopTask == {review, approve, print, check, ship}
ShopOrder == (review :> 1) @@ (approve :> 2) @@ (print :> 3) @@ (check :> 4) @@ (ship :> 5)
ShopDependency ==
  {FinishToStart(approve, review), FinishToStart(print, approve),
   StartToStart(check, print), FinishToStart(ship, print), FinishToStart(ship, check)}
ShopRework == [t \in ShopTask |-> IF t = approve THEN review ELSE NoTask]

ShopStage == (review :> "UNDER_ARTWORK_REVIEW") @@ (approve :> "UNDER_ARTWORK_REVIEW")
             @@ (print :> "IN_PRODUCTION") @@ (check :> "QUALITY_CHECK")

\* BOUND: a workflow that a rework has crossed is looked at once, in the state
\* the crossing leaves; from there on anything may follow, and no property but
\* the types says otherwise.
UpToTheCrossing == ~crossed
=============================================================================
