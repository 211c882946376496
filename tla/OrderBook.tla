----------------------------- MODULE OrderBook -----------------------------
(***************************************************************************)
(* What a live playground promises its client, with no legs, no broker, no *)
(* database and no queues: the orders of a playground are worked one at a  *)
(* time, an order fills in parts up to its quantity and is filled when it  *)
(* has got there, and every part moves the position with it.  LiveTrading  *)
(* implements it (LiveTradingProperties!KeepsTheBook) while nothing        *)
(* crashes and the broker takes no reject or cancel back.                  *)
(***************************************************************************)
EXTENDS Integers

CONSTANTS Playgrounds, Orders, PlaygroundOf, Quantity

VARIABLES
    status,    \* [Orders -> "none", "waiting", "working" or an end]
    filled,    \* [Orders -> Int], filled so far, with the sign of the quantity
    position   \* [Playgrounds -> Int]

vars == <<status, filled, position>>

Init ==
    /\ status = [o \in Orders |-> "none"]
    /\ filled = [o \in Orders |-> 0]
    /\ position = [p \in Playgrounds |-> 0]

\* No other order of o's playground is being worked.
Alone(o) ==
    \A x \in Orders \ {o} : PlaygroundOf[x] = PlaygroundOf[o] => status[x] # "working"

Moves(o, from, to) == status[o] = from /\ status' = [status EXCEPT ![o] = to]

Queue(o) == Moves(o, "none", "waiting") /\ UNCHANGED <<filled, position>>

Work(o) ==
    /\ Alone(o)
    /\ Moves(o, "none", "working") \/ Moves(o, "waiting", "working")
    /\ UNCHANGED <<filled, position>>

\* A part is never zero, never of the other sign, never more than is left.
Left(o)  == Quantity[o] - filled[o]
Parts(o) == IF Quantity[o] > 0 THEN 1..Left(o) ELSE Left(o)..-1

Fill(o) ==
    /\ status[o] = "working"
    /\ \E n \in Parts(o) :
          /\ filled' = [filled EXCEPT ![o] = @ + n]
          /\ position' = [position EXCEPT ![PlaygroundOf[o]] = @ + n]
          /\ status' = IF n = Left(o) THEN [status EXCEPT ![o] = "filled"] ELSE status

Close(o) ==
    /\ \E from \in {"waiting", "working"}, to \in {"rejected", "canceled"} :
          Moves(o, from, to)
    /\ UNCHANGED <<filled, position>>

Next == \E o \in Orders : Queue(o) \/ Work(o) \/ Fill(o) \/ Close(o)

Spec == Init /\ [][Next]_vars
=============================================================================
