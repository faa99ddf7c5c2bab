------------------------- MODULE ProductionProgress -------------------------
(***************************************************************************)
(* What the workflow engine promises the rest of the system about an item: *)
(* production that is complete stays complete, and what is over stays      *)
(* over, unless something opened it again from outside the rules of its    *)
(* own workflow.  Until it is complete anything may be sent back to any    *)
(* stage.                                                                  *)
(***************************************************************************)
EXTENDS ProductionStages

VARIABLES
  view,
  reopened   \* history: the workflow was written to past its own rules

ProgressInit == view \in View /\ reopened = FALSE

ProgressNext ==
  /\ view' \in View
  /\ reopened' \in BOOLEAN
  /\ reopened => reopened'
  /\ reopened' \/ MayBecome(view, view')

ProgressSpec == ProgressInit /\ [][ProgressNext]_<<view, reopened>>
=============================================================================
