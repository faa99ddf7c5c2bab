----------------------------- MODULE MCDelivery -----------------------------
(***************************************************************************)
(* One consignment, two delivery people and two handlers at a time.        *)
(***************************************************************************)
EXTENDS Delivery, TLC

CONSTANTS a1, a2, h1, h2

Alike == Permutations({a1, a2}) \cup Permutations({h1, h2})
=============================================================================
