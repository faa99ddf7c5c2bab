------------------------- MODULE MCProductionFloor -------------------------
(***************************************************************************)
(* A small template for ProductionFloor: a review that is worked on in     *)
(* sessions, a design that is claimed, and a quality check.                *)
(***************************************************************************)
EXTENDS ProductionFloor, TLC

CONSTANTS review, design, check

FinishToStart(t, p) == [task |-> t, on |-> p, kind |-> "FINISH_TO_START"]

FloorTask == {design, review, check}
FloorOrder == (review :> 1) @@ (design :> 2) @@ (check :> 3)
FloorDependency == {FinishToStart(design, review), FinishToStart(check, design)}
FloorRework == [t \in FloorTask |-> NoTask]
=============================================================================
