-------------------------- MODULE MCTickRequests --------------------------
(* A request made three times, and another one made twice. *)
EXTENDS TickRequests, TLC

CONSTANTS c1, c2, c3, d1, d2

Repeated == (c1 :> "c") @@ (c2 :> "c") @@ (c3 :> "c") @@ (d1 :> "d") @@ (d2 :> "d")
=============================================================================
