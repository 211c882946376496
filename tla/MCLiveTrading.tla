--------------------------- MODULE MCLiveTrading ---------------------------
(* Instances of LiveTrading for TLC: who places which orders. *)
EXTENDS LiveTradingProperties, TLC

CONSTANTS a, b, c, pA, pB

\* one playground buys twice; the second order waits behind the first
OnePlayground == (a :> pA) @@ (b :> pA)
OneTwo        == (a :> 1) @@ (b :> 2)
\* three orders of one playground
ThreeOrders   == (a :> pA) @@ (b :> pA) @@ (c :> pA)
Ones          == (a :> 1) @@ (b :> 1) @@ (c :> 1)
\* two playgrounds on the same side, and on opposite sides
TwoPlaygrounds == (a :> pA) @@ (b :> pB)
Opposite       == (a :> -1) @@ (b :> 2)
\* the first leg of b twice would exceed b
Uneven         == (a :> -2) @@ (b :> 3)
=============================================================================
