---------------------------- MODULE MCOrderMoney ----------------------------
(* Two orders of one vendor. *)
EXTENDS OrderMoney, TLC

CONSTANTS c1, c2, w1, o1, o2

Owners == [o \in Order |-> w1]
References == Change \cup {TopUp}

\* Nothing depends on which id an order gets, nor on who serves a call.
Alike == Permutations(Order) \cup Permutations(Client)
=============================================================================
