--------------------------- MODULE MCTradingEngine ---------------------------
(* A stack of two orders can be built in either trend; a candle may turn the *)
(* trend with prices high or low, or stay low, at the second stop.                 *)
EXTENDS TradingEngine

CONSTANT s1

Bar(dir, line, open_, close) == [dir |-> dir, line |-> line, open |-> open_, close |-> close]
Up == Bar(1, 1, 2, 3)   Down == Bar(-1, 6, 4, 3)
Up1 == Bar(1, 1, 4, 3)  Up2 == Bar(1, 2, 3, 2)  Drop == Bar(1, 1, 3, 2)
Up3 == Bar(1, 1, 5, 4)  Turn == Bar(-1, 7, 7, 6)
Down1 == Bar(-1, 6, 2, 3)  Down2 == Bar(-1, 5, 3, 4)

MCBars == {Up, Down, Up1, Up2, Drop, Up3, Turn, Down1, Down2}
MCHistory == <<Up, Up, Down>>
MCRuns ==
    <<{Up1, Down1}, {Up2, Down2}, {Turn, Drop, Up3}, {Turn}>>
MCFeed == [t \in 0 .. EndTime - 1 |-> IF t = 0 THEN {Up} ELSE MCRuns[t]]
MCCloses == [t \in 0 .. EndTime - 1 |-> {[s \in {s1} |-> b.close] : b \in MCFeed[t]}]
==============================================================================
