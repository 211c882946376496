----------------------------- MODULE Simulator -----------------------------
(***************************************************************************)
(* A simulator playground: the backtester's broker.  Clients place market  *)
(* orders and tick; a tick fills or rejects every pending order at the     *)
(* current prices, liquidates positions the account cannot carry, moves    *)
(* the clock and the candle repositories, and tells the client what        *)
(* happened.                                                               *)
(*                                                                         *)
(* A tick runs under the account's mutex.  A placement holds               *)
(* DatabaseService.mu, so that there is one at a time, but takes the       *)
(* mutex twice, to check the order and to queue it: a tick may come        *)
(* between.  The playground keeps three books of the same trades: the      *)
(* orders, the open orders cache and the positions cache.                  *)
(*                                                                         *)
(* An order is named by its place in the sequence of order ids, so that    *)
(* a slice of orders the code only ever appends to is a set.  Money is     *)
(* counted in 1/Unit so that averages are exact.                           *)
(***************************************************************************)
EXTENDS Integers, Sequences, FiniteSets, FiniteSetsExt

CONSTANTS
    Symbols,
    Requests,        \* orders clients may place
    Prices,          \* closes of candles
    Closes,          \* [time -> what the candles of that time may close at]
    InitialBalance,
    EndTime,         \* the clock expires at this time
    MaxOrders,       \* order ids used before clients stop placing orders
    None

Unit  == 1680        \* divisible by 2 * (1 .. 8): at most 8 shares in a position
Slots == 1 .. MaxOrders + Cardinality(Symbols)
Ids   == 0 .. MaxOrders - 1
Sides == {"buy", "sell", "sell_short", "buy_to_cover"}

\* "target" is the CloseOrderId; "forced" marks a liquidation.
Order ==
    [symbol : Symbols, side : Sides, quantity : Nat \ {0}, target : Ids \cup {None},
     forced : BOOLEAN]

ASSUME SimulatorAssumption ==
    /\ IsFiniteSet(Symbols) /\ MaxOrders \in Nat
    /\ Requests \subseteq Order /\ \A r \in Requests : ~r.forced
    /\ Prices \subseteq Nat \ {0} /\ InitialBalance \in Int
    /\ EndTime \in Nat \ {0}
    /\ Closes \in [0 .. EndTime - 1 -> SUBSET [Symbols -> Prices]]
    /\ None \notin Slots /\ None \notin Ids /\ None \notin Prices /\ None \notin Order

VARIABLES
    order,      \* [Slots -> the request], None: no such order
    status,     \* [Slots -> Statuses]
    traded,     \* [Slots -> price of the order's trade], None: no trade
    closed,     \* [Slots -> volume of the trades in ClosedBy]
    nonce,      \* OrderNonce
    placing,    \* order checked by PlaceOrder and not queued yet
    pending,    \* account.PendingOrders
    orders,     \* account.Orders
    open,       \* [Symbols -> orders in the open orders cache]
    position,   \* [Symbols -> [quantity, basis]], the positions cache
    balance,
    quote,      \* [Symbols -> current price]
    clock,
    complete,   \* isBacktestComplete
    phase,      \* where the tick is
    moving,     \* does this tick move the clock?
    equity,     \* the equity checkForLiquidations read
    news,       \* orders ended by this tick: trades, invalid orders, events
    told        \* [Slots -> how many tick deltas reported the order's end]

books == <<order, status, traded, closed, pending, orders, open, position, balance>>
feed  == <<quote, clock, complete>>
simVars == <<books, feed, nonce, placing, phase, moving, equity, news, told>>

Statuses == {"none", "pending", "filled", "rejected"}

Init ==
    /\ order = [i \in Slots |-> None] /\ status = [i \in Slots |-> "none"]
    /\ traded = [i \in Slots |-> None] /\ closed = [i \in Slots |-> 0]
    /\ nonce = 0 /\ placing = None
    /\ pending = {} /\ orders = <<>> /\ open = [s \in Symbols |-> {}]
    /\ position = [s \in Symbols |-> [quantity |-> 0, basis |-> 0]]
    /\ balance = InitialBalance * Unit
    /\ quote \in Closes[0]
    /\ clock = 0 /\ complete = FALSE
    /\ phase = "idle" /\ moving = FALSE /\ equity = 0
    /\ news = {} /\ told = [i \in Slots |-> 0]

-----------------------------------------------------------------------------
(* Orders and positions. *)

\* A user order's id is its nonce; a liquidation's is 0, its nonce is only
\* the external id.
Id(i) == IF order[i].forced THEN 0 ELSE i - 1
Opening(r) == r.side \in {"buy", "sell_short"}
Signed(r)  == IF r.side \in {"buy", "buy_to_cover"} THEN r.quantity ELSE -r.quantity
Remaining(i) == order[i].quantity - closed[i]

Volume(S) == MapThenSumSet(LAMBDA i : order[i].quantity, S)
Net(S)    == MapThenSumSet(LAMBDA i : Signed(order[i]), S)

\* calcVwap: the average price of the orders' trades, each with its whole
\* volume.
Vwap(S) == (Unit * MapThenSumSet(LAMBDA i : traded[i] * order[i].quantity, S)) \div Volume(S)

\* UpdatePositionCachePositions: a position counted again from the orders;
\* its cost basis averages all orders that opened since it was last flat.
FilledOf(s) == {k \in DOMAIN orders : order[orders[k]].symbol = s /\ status[orders[k]] = "filled"}
Upto(K, k)  == {orders[j] : j \in {j \in K : j <= k}}
SinceFlat(K) ==
    {orders[k] : k \in {k \in K : Opening(order[orders[k]])
                                  /\ \A j \in K : j >= k => Net(Upto(K, j)) # 0}}
Recounted ==
    [s \in Symbols |->
        LET K == FilledOf(s)
            quantity == Net({orders[k] : k \in K})
        IN  [quantity |-> quantity, basis |-> IF quantity = 0 THEN 0 ELSE Vwap(SinceFlat(K))]]

\* SlipX operators are programming mistakes, not used by the specification.
SlipSideAllowed(side, q) ==               \* no check against a long position
    /\ q < 0 => side \in {"sell_short", "buy_to_cover"}
    /\ q = 0 => side \in {"buy", "sell_short"}
SlipLarger(a, b)    == IF a < b THEN a ELSE b

\* isSideAllowed, for a position of q shares.
SideAllowed(side, q) ==
    /\ q > 0 => side \in {"buy", "sell"}
    /\ q < 0 => side \in {"sell_short", "buy_to_cover"}
    /\ q = 0 => side \in {"buy", "sell_short"}

\* calculateMaintenanceRequirement, calculateInitialMarginRequirement
Larger(a, b) == IF a > b THEN a ELSE b
Margin(q, price) ==
    IF q >= 0 THEN (q * price) \div 2
    ELSE (-q) * IF price >= 5 * Unit THEN Larger((3 * price) \div 2, 5 * Unit)
                ELSE Larger(price, (5 * Unit) \div 2)

Profit(p, s)   == (quote[s] * Unit - p[s].basis) * p[s].quantity
EquityOf(p)    == balance + MapThenSumSet(LAMBDA s : Profit(p, s), Symbols)
Maintenance(p) == MapThenSumSet(LAMBDA s : Margin(p[s].quantity, p[s].basis), Symbols)
FreeMargin(p)  == EquityOf(p) - Maintenance(p)

SlipFits(i, n)      == n <= order[i].quantity      \* what is closed already is forgotten
SlipStillOpen(i, n) == order[i].quantity - n >= 0  \* closed orders stay in the cache
SlipClosedBy(s, a)  == [i \in Slots |-> IF i \in open[s] THEN a[i] ELSE closed[i]]
SlipNews(i)         == IF phase = "margin" THEN news ELSE news \cup {i}
SlipOvercommitted   ==                    \* one liquidation per tick
    equity < Maintenance(position) /\ ~ \E i \in news : order[i].forced
SlipHeld(s)         == position[s].quantity >= 0

-----------------------------------------------------------------------------
(* addClosesInfoToOrder, getCloseByRequests: which open orders an order     *)
(* closes, and by how much: the one it names, else the oldest first.  There *)
(* is no answer if it closes more than is open, or names no open order.     *)
IsClose(r) == position[r.symbol].quantity * Signed(r) < 0
Fits(i, n) == n <= Remaining(i)
Sum(a)     == MapThenSumSet(LAMBDA i : a[i], DOMAIN a)
Closings(r) ==
    LET volume == IF IsClose(r) THEN r.quantity ELSE 0
    IN  {a \in [open[r.symbol] -> 0 .. volume] :
            /\ Sum(a) = volume
            /\ \A i \in DOMAIN a : a[i] > 0 =>
                  /\ Fits(i, a[i])
                  /\ IF r.target = None THEN \A j \in DOMAIN a : j < i => a[j] = Remaining(j)
                     ELSE Id(i) = r.target}

-----------------------------------------------------------------------------
(* Placing an order. *)

\* checkPendingCloses: the order to close is the last filled one with its id;
\* what pending orders will close of it is counted, the new order is not.
\* (It reads the orders in a lock section of its own; a tick after it fills
\* the pending closes and can only leave fewer of them.)
WithId(id) == {k \in DOMAIN orders : traded[orders[k]] # None /\ Id(orders[k]) = id}
PendingClosesFit(r) ==
    r.target # None =>
        \E k \in WithId(r.target) :
            /\ \A j \in WithId(r.target) : j <= k
            /\ Opening(order[orders[k]])
            /\ Volume({i \in pending : order[i].target = r.target}) <= Remaining(orders[k])

\* placeOrder, under the mutex
Placeable(r) ==
    /\ SideAllowed(r.side, position[r.symbol].quantity
                           + Net({i \in pending : order[i].symbol = r.symbol}))
    /\ Closings(r) # {}

\* An order that is refused has used an id.
CheckOrder(r) ==
    /\ phase = "idle" /\ placing = None /\ nonce < MaxOrders
    /\ PendingClosesFit(r)
    /\ nonce' = nonce + 1
    /\ \/ /\ Placeable(r)
          /\ placing' = nonce + 1
          /\ order' = [order EXCEPT ![nonce + 1] = r]
       \/ ~Placeable(r) /\ UNCHANGED <<placing, order>>
    /\ UNCHANGED <<status, traded, closed, pending, orders, open, position, balance,
                   feed, phase, moving, equity, news, told>>

\* AddToPendingOrdersQueue
QueueOrder ==
    /\ phase = "idle" /\ placing # None
    /\ pending' = pending \cup {placing}
    /\ status' = [status EXCEPT ![placing] = "pending"]
    /\ placing' = None
    /\ UNCHANGED <<order, traded, closed, orders, open, position, balance,
                   feed, nonce, phase, moving, equity, news, told>>

-----------------------------------------------------------------------------
(* The tick.  It goes through its steps without releasing the mutex. *)

BeginTick(moves) ==
    /\ phase = "idle" /\ phase' = "commit"
    /\ moving' = moves
    /\ UNCHANGED <<books, feed, nonce, placing, equity, news, told>>

\* commitTradableOrderToOrderQueue: an order that closes needs no margin, but
\* must not turn the position over.
Tradable(r) ==
    LET q == Signed(r)  p == position[r.symbol].quantity
    IN  IF p * q < 0 THEN r.quantity <= Larger(p, -p)
        ELSE FreeMargin(position) > Margin(q, quote[r.symbol] * Unit)

\* updateOpenOrdersCache and updateBalance, after an order closed a[j] of each
\* open order j.
ClosedBy(s, a)  == [i \in Slots |-> IF i \in open[s] THEN closed[i] + a[i] ELSE closed[i]]
StillOpen(i, n) == order[i].quantity - n > 0
Opened(i, r)    == IF Opening(r) THEN {i} ELSE {}
Gain(r) ==
    IF IsClose(r) THEN (position[r.symbol].basis - quote[r.symbol] * Unit) * Signed(r) ELSE 0

\* The delta's new trades, invalid orders and liquidation event.
News(i) == news \cup {i}

\* AddToOrderQueue.  The code counts the positions again before it handles the
\* next order and before it looks for liquidations, in the same lock section.
Ledger(i, r, end) ==
    /\ order' = [order EXCEPT ![i] = r]
    /\ status' = [status EXCEPT ![i] = end]
    /\ orders' = Append(orders, i)
    /\ pending' = pending \ {i}
    /\ news' = News(i)
    /\ position' = Recounted'

Trade(i, r) == traded' = [traded EXCEPT ![i] = quote[r.symbol]]

\* fillOrder.  What validateCache compares never differs: BooksAgree.
Fill(i, r, a) ==
    /\ Trade(i, r)
    /\ closed' = ClosedBy(r.symbol, a)
    /\ open' = [open EXCEPT ![r.symbol] = {j \in @ : StillOpen(j, closed'[j])} \cup Opened(i, r)]
    /\ balance' = balance + Gain(r)
    /\ Ledger(i, r, "filled")

\* An order refused before it traded leaves nothing; one whose closes are
\* refused after OrderRecord.Fill keeps its trade.
Reject(i, r) ==
    /\ UNCHANGED <<closed, open, balance>>
    /\ Ledger(i, r, "rejected")

Allowed(r) == Tradable(r) /\ SideAllowed(r.side, position[r.symbol].quantity)
Commit(i) ==
    /\ phase = "commit" /\ i \in pending /\ \A j \in pending : i <= j
    /\ \/ Allowed(order[i]) /\ \E a \in Closings(order[i]) : Fill(i, order[i], a)
       \/ Allowed(order[i]) /\ Closings(order[i]) = {} /\ Trade(i, order[i]) /\ Reject(i, order[i])
       \/ ~Allowed(order[i]) /\ UNCHANGED traded /\ Reject(i, order[i])
    /\ UNCHANGED <<feed, nonce, placing, phase, moving, equity, told>>

\* checkForLiquidations reads the equity once ...
CheckMargin ==
    /\ phase = "commit" /\ pending = {} /\ phase' = "margin"
    /\ equity' = EquityOf(position)
    /\ UNCHANGED <<books, feed, nonce, placing, moving, news, told>>

\* ... and, while it is below the margin of what is left, sells or covers the
\* largest position whole, at the current price.
Held(s)       == position[s].quantity # 0
Overcommitted == equity < Maintenance(position) /\ \E s \in Symbols : Held(s)
Size(s)       == Larger(position[s].quantity, -position[s].quantity) * position[s].basis
Liquidation(s) ==
    [symbol |-> s, side |-> IF position[s].quantity > 0 THEN "sell" ELSE "buy_to_cover",
     quantity |-> Larger(position[s].quantity, -position[s].quantity),
     target |-> None, forced |-> TRUE]
Liquidate(s) ==
    /\ phase = "margin" /\ Overcommitted
    /\ Held(s) /\ \A t \in Symbols : Size(t) <= Size(s)
    /\ nonce' = nonce + 1 /\ nonce' \in Slots
    /\ \E a \in Closings(Liquidation(s)) : Fill(nonce', Liquidation(s), a)
    /\ UNCHANGED <<feed, placing, phase, moving, equity, told>>

\* The clock and the candles.  The tick that reaches the end time says only
\* that the backtest is complete, later ones fail.
Told == told' = [i \in Slots |-> IF i \in news THEN told[i] + 1 ELSE told[i]]
Advance ==
    /\ phase = "margin" /\ ~Overcommitted /\ phase' = "idle"
    /\ clock' = IF moving /\ clock < EndTime THEN clock + 1 ELSE clock
    /\ \/ clock' = EndTime /\ complete' = TRUE /\ UNCHANGED <<quote, told>>
       \/ /\ clock' # EndTime /\ Told /\ UNCHANGED complete
          /\ quote' \in IF moving THEN Closes[clock'] ELSE {quote}
    /\ news' = {} /\ equity' = 0 /\ moving' = FALSE
    /\ UNCHANGED <<books, nonce, placing>>

TickStep == (\E i \in pending : Commit(i)) \/ CheckMargin \/ (\E s \in Symbols : Liquidate(s)) \/ Advance

Next ==
    \/ \E r \in Requests : CheckOrder(r)
    \/ QueueOrder
    \/ \E moves \in BOOLEAN : BeginTick(moves)
    \/ TickStep

Spec == Init /\ [][Next]_simVars

\* A tick that has begun runs on; clients need not tick.
FairSpec == Spec /\ WF_simVars(TickStep)

-----------------------------------------------------------------------------
(* Every variable holds a value of its kind. *)
TypeOK ==
    /\ order \in [Slots -> Order \cup {None}] /\ status \in [Slots -> Statuses]
    /\ traded \in [Slots -> Prices \cup {None}] /\ closed \in [Slots -> Nat]
    /\ nonce \in 0 .. Cardinality(Slots) /\ placing \in Slots \cup {None}
    /\ pending \subseteq Slots /\ orders \in Seq(Slots) /\ open \in [Symbols -> SUBSET Slots]
    /\ position \in [Symbols -> [quantity : Int, basis : Int]]
    /\ balance \in Int /\ equity \in Int
    /\ quote \in [Symbols -> Prices] /\ clock \in 0 .. EndTime /\ complete \in BOOLEAN
    /\ phase \in {"idle", "commit", "margin"} /\ moving \in BOOLEAN
    /\ news \subseteq Slots /\ told \in [Slots -> Nat]

(* The three books agree: a position is what is left of the orders in the     *)
(* open orders cache, which are the filled opening orders not yet closed.     *)
(* validateCache would otherwise reject every order from then on.             *)
BooksAgree ==
    \A s \in Symbols :
        /\ open[s] = {i \in Slots : /\ status[i] = "filled" /\ order[i].symbol = s
                                    /\ Opening(order[i]) /\ Remaining(i) > 0}
        /\ position[s].quantity =
              MapThenSumSet(LAMBDA i : IF order[i].side = "buy" THEN Remaining(i) ELSE -Remaining(i), open[s])

(* However placements and ticks interleave, an account is never long and      *)
(* short in one symbol.                                                       *)
OneSide ==
    \A s \in Symbols : \A i, j \in open[s] : order[i].side = order[j].side

(* No order is closed by more than it opened, and only orders that filled     *)
(* are closed, whatever closes are pending at the same time.                  *)
NoOverClose ==
    \A i \in Slots : closed[i] > 0 =>
        status[i] = "filled" /\ Opening(order[i]) /\ closed[i] <= order[i].quantity

(* The client learns the end of every order from exactly one tick delta,      *)
(* until the clock expires.                                                   *)
ToldOnce ==
    /\ \A i \in Slots : told[i] <= 1 /\ (told[i] = 1 => status[i] \in {"filled", "rejected"})
    /\ ~complete => \A i \in Slots :
          status[i] \in {"filled", "rejected"} => told[i] = 1 \/ i \in news

(* A tick ends with the margin restored, or nothing left to liquidate, though *)
(* the equity is read only once, before the liquidations.                     *)
MarginRestored ==
    [][phase = "margin" /\ phase' = "idle" =>
        \/ EquityOf(position) >= Maintenance(position)
        \/ \A s \in Symbols : ~Held(s)]_simVars

(* History stands: an order that ended keeps its end and its price, and what  *)
(* was closed of an order stays closed.                                       *)
HistoryStands ==
    [][\A i \in Slots :
        /\ status[i] \in {"filled", "rejected"} =>
              order'[i] = order[i] /\ status'[i] = status[i] /\ traded'[i] = traded[i]
        /\ closed[i] <= closed'[i]]_simVars

(* Every tick ends. *)
TickEnds == phase # "idle" ~> phase = "idle"
=============================================================================
