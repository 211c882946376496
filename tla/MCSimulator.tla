----------------------------- MODULE MCSimulator -----------------------------
(* Two symbols: s1 is bought, sold and sold short, s2 sold short.  Later    *)
(* candles close where the first do, or s1 falls and s2 rises.               *)
EXTENDS Simulator, TLC

CONSTANTS s1, s2

Ask(s, side, quantities, targets) ==
    [symbol : {s}, side : {side}, quantity : quantities, target : targets, forced : {FALSE}]
MCRequests ==
    Ask(s1, "buy", {2}, {None}) \cup Ask(s1, "sell", {1}, {None}) \cup Ask(s1, "sell", {2}, {0})
    \cup Ask(s1, "sell_short", {1}, {None}) \cup Ask(s2, "sell_short", {1}, {None})
MCFeed ==
    (0 :> {(s1 :> 12) @@ (s2 :> 4)}) @@ (1 :> {(s1 :> 12) @@ (s2 :> 4), (s1 :> 4) @@ (s2 :> 12)})
=============================================================================
