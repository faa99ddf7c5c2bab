----------------------------- MODULE MCRecharge -----------------------------
(* One customer with one payment, who also spends from the wallet. *)
EXTENDS Recharge, TLC

CONSTANTS c1, c2, w1, p1

OnePayment == {p1}
OneOwner == p1 :> w1
OneValue == p1 :> 2
References == Payment \cup {Spending}
=============================================================================
