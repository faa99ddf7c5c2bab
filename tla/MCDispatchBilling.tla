-------------------------- MODULE MCDispatchBilling --------------------------
(* One vendor with a wallet, its finished orders, and a few windows. *)
EXTENDS DispatchBilling, TLC

CONSTANTS c1, c2, w1, o1, o2, b1, b2

References == Batch \cup {TopUp}

\* Nothing depends on which id a batch gets, which order is which, nor on who
\* serves a call.
Alike == Permutations(Batch) \cup Permutations(Order) \cup Permutations(Client)
=============================================================================
