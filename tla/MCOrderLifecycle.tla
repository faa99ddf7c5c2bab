------------------------- MODULE MCOrderLifecycle -------------------------
(***************************************************************************)
(* One order whose work shows as IN_PRODUCTION, two handlers at a time,    *)
(* two requests, and a policy that lets the vendor cancel an order that is *)
(* verified and ask for it later.                                          *)
(***************************************************************************)
EXTENDS OrderLifecycle
=============================================================================
