----------------------- MODULE MCWorkflowTransactions -----------------------
(***************************************************************************)
(* A chain of a review, a print and a check, and two branches that meet in *)
(* a check, for WorkflowTransactions.                                      *)
(***************************************************************************)
EXTENDS WorkflowTransactions, TLC

CONSTANTS review, print, laminate, check, c1, c2, c3

FinishToStart(t, p) == [task |-> t, on |-> p, kind |-> "FINISH_TO_START"]

\* review -> print -> laminate -> check
ChainTask == {review, print, laminate, check}
ChainOrder == (review :> 1) @@ (print :> 2) @@ (laminate :> 3) @@ (check :> 4)
ChainDependency ==
  {FinishToStart(print, review), FinishToStart(laminate, print), FinishToStart(check, laminate)}
ChainRework == [t \in ChainTask |-> NoTask]

\* {print, laminate} -> check
JoinTask == {print, laminate, check}
JoinOrder == (print :> 1) @@ (laminate :> 2) @@ (check :> 3)
JoinDependency == {FinishToStart(check, print), FinishToStart(check, laminate)}
JoinRework == [t \in JoinTask |-> NoTask]
=============================================================================
