---------------------------- MODULE LiveTrading ----------------------------
(***************************************************************************)
(* The live-order path of the trading server: an order placed in a live    *)
(* playground is split into one or two orders ("legs") of the reconcile    *)
(* playground, the legs are sent to the broker, and their fills travel     *)
(*                                                                         *)
(*   broker -> UpdateTradierOrderQueue -> FIFO queue -> Drain -> database  *)
(*          -> UpdatePendingMarginOrders -> the live order                 *)
(*                                                                         *)
(* Four activities interleave: gRPC PlaceOrder calls (one at a time, under *)
(* DatabaseService.mu), the TradierApiWorker goroutine, the                *)
(* handleLiveOrders goroutine that drains the queue, and the broker.       *)
(* Order records live twice, in the database and in memory; each handler   *)
(* is cut where it lets go of one copy before it has written the other.    *)
(*                                                                         *)
(* One symbol.  Orders open positions (buy, sell_short).  The broker fills *)
(* a leg whole, so a leg has one trade and is named after it.              *)
(***************************************************************************)
EXTENDS Integers, Sequences, FiniteSets, FiniteSetsExt

CONSTANTS
    Playgrounds,   \* live playgrounds; they share one reconcile playground
    Recon,         \* that reconcile playground
    Orders,        \* live orders the clients may place
    PlaygroundOf,  \* [Orders -> Playgrounds]
    Quantity,      \* [Orders -> Int], GetQuantity(): > 0 buy, < 0 sell_short
    Outcomes,      \* how the broker may end a leg: subset of Ended
    Deletable,     \* playgrounds a client may delete
    None,          \* no order, no leg
    QueueCap,      \* capacity of the order update queue
    MaxCrashes, MaxDbFailures, MaxSendFailures, MaxLateFills

Accounts == Playgrounds \cup {Recon}
Legs     == Orders \X {1, 2}
Items    == Orders \cup Legs
LegsOf(o) == {o} \X {1, 2}
Callers  == {"api", "worker"}

Ended   == {"filled", "rejected", "canceled"}
\* "absent": no such row (object); "blank": the row makeOrderRecord creates
\* for its id before it knows whether the order can be placed.
Status  == {"absent", "blank", "new", "pending"} \cup Ended

ASSUME ConstantsAssumption ==
    /\ IsFiniteSet(Playgrounds) /\ IsFiniteSet(Orders)
    /\ Recon \notin Playgrounds
    /\ Orders \cap Legs = {} /\ None \notin Items
    /\ PlaygroundOf \in [Orders -> Playgrounds]
    /\ Quantity \in [Orders -> Int]
    /\ \A o \in Orders : Quantity[o] # 0
    /\ Outcomes \subseteq Ended
    /\ Deletable \subseteq Playgrounds
    /\ QueueCap \in Nat \ {0}
    /\ MaxCrashes \in Nat /\ MaxDbFailures \in Nat
    /\ MaxSendFailures \in Nat /\ MaxLateFills \in Nat

VARIABLES
    \* the database
    dStatus,    \* [Items -> Status]
    dTrade,     \* legs whose trade row is stored
    dApplied,   \* trades whose row names a live order (trade_records.order_id)
    \* memory
    mStatus,    \* [Items -> Status]
    pendingQ, newQ, doneQ,  \* account.PendingOrders, .NewOrders, .Orders
    mTrade,     \* legs with their trade in ReconcileTrades
    applied,    \* [Legs -> Nat], how often the trade is in the live order's Trades
    linked,     \* legs whose Reconciles points at the live order in memory
    cached,     \* legs in DatabaseService.ordersCache
    pos,        \* [Accounts -> Int], positionCache
    \* legs and the broker
    legQty,     \* [Legs -> Int], 0: there is no such leg
    broker,     \* [Legs -> "none" or the status FetchOrder reports]
    orphans,    \* legs the broker got and the program forgot
    \* the order update queue and the goroutine that drains it
    events,     \* Seq of [leg, kind]
    dpc, dleg,
    \* the TradierApiWorker goroutine
    wpc, todo, cur, trades, unseen, verdict, trade, save, news,
    \* a PlaceOrder under way, per caller
    ppc, pord, psend,
    \* playgrounds, and the trades put on their newTradesQueue so far
    alive, delivered,
    budget      \* faults still allowed

dbVars     == <<dStatus, dTrade, dApplied>>
queueVars  == <<pendingQ, newQ, doneQ>>
memVars    == <<mStatus, queueVars, mTrade, applied, linked, cached, pos>>
brokerVars == <<legQty, broker, orphans>>
drainVars  == <<dpc, dleg>>
lookVars   == <<unseen, verdict>>
workerVars == <<wpc, todo, cur, trades, lookVars, trade, save, news>>
placeVars  == <<ppc, pord, psend>>
pgVars     == <<alive, delivered>>
vars == <<dbVars, memVars, brokerVars, events, drainVars, workerVars,
          placeVars, pgVars, budget>>

-----------------------------------------------------------------------------
(* Reading the state *)

PgOf(o) == PlaygroundOf[o]
Tradable(s) == s \in {"pending", "new"}          \* IsTradingAllowed
FilledVolume(o) ==
    applied[<<o, 1>>] * legQty[<<o, 1>>] + applied[<<o, 2>>] * legQty[<<o, 2>>]
AbsVal(n) == IF n < 0 THEN -n ELSE n

(* Slips: definitions of this module with one programming mistake each.  The *)
(* specification uses none; README.md says which property notices which.     *)

SlipReportable(l)    == broker[l] # "none"             \* no look at the status
SlipOtherPending(o)  ==                                \* the wrong list
    \E x \in (newQ \cap Orders) \ {o} : PlaygroundOf[x] = PlaygroundOf[o]
SlipFillLeg(l)       == mTrade' = mTrade \cup {l} /\ UNCHANGED pos
SlipAlreadyFilled(l) == FALSE                          \* no check at all
SlipTradesOf(o)      == mTrade \cap LegsOf(o)          \* memory, not the database
SlipVerdict(l)       ==                                \* any end is a cancel
    IF mStatus[l] \in {"rejected", "canceled"} THEN "canceled" ELSE "none"
SlipReplaceRecord(o, s) == UNCHANGED <<mStatus, linked>>  \* the database only
SlipDeliver(p)       == delivered' = [delivered EXCEPT ![p] = @ \cup trades]
SlipFull(o)          == AbsVal(FilledVolume(o)) <= AbsVal(Quantity[o])
SlipExceeds(o, t)    == FALSE
SlipAddToOrderQueue(S) ==                              \* keeps what was pending
    /\ UNCHANGED <<pendingQ, newQ>>
    /\ doneQ' = doneQ \cup (S \cap (pendingQ \cup newQ))

AlreadyFilled(l) == mStatus[l] = "filled"        \* OrderRecord.IsFilled
Reportable(l)    == broker[l] \in Ended          \* what the poll puts on the queue
TradesOf(o)      == dTrade \cap LegsOf(o)        \* FetchTradesFromReconciliationOrders

\* OrderRecord.IsPending of a leg: its own status, or that of the live order.
IsPending(l) == mStatus[l] = "pending" \/ mStatus[l[1]] = "pending"

\* Playground.isSideAllowed for the two opening sides.
SideAllowed(q, position) ==
    /\ position > 0 => q > 0
    /\ position < 0 => q < 0

\* ReconcilePlayground.PlaceOrder: an order against the reconcile position
\* closes up to that position first, and opens the rest as a second leg.
ClosingPart(position, q) ==
    IF q > 0 THEN IF q < -position THEN q ELSE -position
             ELSE IF -q < position THEN q ELSE -position
LegQuantity(position, q, k) ==
    IF position * q < 0
    THEN IF k = 1 THEN ClosingPart(position, q) ELSE q - ClosingPart(position, q)
    ELSE IF k = 1 THEN q ELSE 0

\* DatabaseService.mu is held by a PlaceOrder call from start to end, and while
\* the worker closes an order; the others take it only to look a playground up.
MuFree == ppc["api"] = "idle" /\ wpc # "closing"
Known(o) == alive[PgOf(o)] # "deleted"           \* fetchPlayground finds it

\* Playground.AddToOrderQueue for every item of S: an item that is neither
\* pending nor new stays where it is.
AddToOrderQueue(S) ==
    /\ pendingQ' = pendingQ \ S
    /\ newQ' = newQ \ (S \ pendingQ)
    /\ doneQ' = doneQ \cup (S \cap (pendingQ \cup newQ))

Set(f, S, v) == [x \in DOMAIN f |-> IF x \in S THEN v ELSE f[x]]
Spend(kind) == /\ budget[kind] > 0
               /\ budget' = [budget EXCEPT ![kind] = @ - 1]
SpendBoth(j, k) == /\ budget[j] > 0 /\ budget[k] > 0
                   /\ budget' = [budget EXCEPT ![j] = @ - 1, ![k] = @ - 1]

-----------------------------------------------------------------------------
Init ==
    /\ dStatus = [x \in Items |-> "absent"] /\ dTrade = {} /\ dApplied = {}
    /\ mStatus = [x \in Items |-> "absent"]
    /\ pendingQ = {} /\ newQ = {} /\ doneQ = {}
    /\ mTrade = {} /\ applied = [l \in Legs |-> 0] /\ linked = {} /\ cached = {}
    /\ pos = [a \in Accounts |-> 0]
    /\ legQty = [l \in Legs |-> 0] /\ broker = [l \in Legs |-> "none"]
    /\ orphans = {}
    /\ events = <<>> /\ dpc = "idle" /\ dleg = None
    /\ wpc = "idle" /\ todo = {} /\ cur = None
    /\ trades = {} /\ unseen = {} /\ verdict = "none"
    /\ trade = None /\ save = "order" /\ news = {}
    /\ ppc = [c \in Callers |-> "idle"] /\ pord = [c \in Callers |-> None]
    /\ psend = [c \in Callers |-> {}]
    /\ alive = [p \in Playgrounds |-> "live"]
    /\ delivered = [p \in Playgrounds |-> {}]
    /\ budget = [crash |-> MaxCrashes, db |-> MaxDbFailures,
                 send |-> MaxSendFailures, late |-> MaxLateFills]

-----------------------------------------------------------------------------
(* Placing a live order: Playground.placeLiveOrder, on behalf of a client  *)
(* (c = "api") or of the worker (c = "worker").                            *)

OtherPending(o) ==
    \E x \in (pendingQ \cap Orders) \ {o} : PgOf(x) = PgOf(o)

\* placeOrder's checks.  isSideAllowed adds the pending orders' quantities;
\* there are none left here but the order's own.
Placeable(o) ==
    /\ SideAllowed(Quantity[o], pos[PgOf(o)])
    /\ o \notin doneQ /\ o \notin pendingQ

\* Behind a pending order of its playground the order will join NewOrders;
\* otherwise it is split on the reconcile position of this moment.
StartPlacement(c, o) ==
    /\ pord' = [pord EXCEPT ![c] = o]
    /\ \/ /\ OtherPending(o)
          /\ ppc' = [ppc EXCEPT ![c] = "queue"]
          /\ UNCHANGED <<psend, legQty>>
       \/ /\ ~OtherPending(o) /\ Placeable(o)
          /\ ppc' = [ppc EXCEPT ![c] = "send"]
          /\ legQty' = [l \in Legs |->
                IF l[1] = o THEN LegQuantity(pos[Recon], Quantity[o], l[2])
                            ELSE legQty[l]]
          /\ psend' = [psend EXCEPT ![c] = {l \in LegsOf(o) : legQty'[l] # 0}]

\* gRPC PlaceOrder -> DatabaseService.PlaceOrder up to the broker calls: the
\* blank row is stored first, and stays when the order cannot be placed.
PlaceOrder(o) ==
    /\ MuFree /\ dStatus[o] = "absent" /\ Known(o)
    /\ ~(wpc = "save" /\ PgOf(cur) = PgOf(o))       \* placeOrderMutex
    /\ dStatus' = [dStatus EXCEPT ![o] = "blank"]
    /\ \/ StartPlacement("api", o)
       \/ /\ ~OtherPending(o) /\ ~Placeable(o)
          /\ UNCHANGED <<placeVars, legQty>>
    /\ UNCHANGED <<dTrade, dApplied, memVars, broker, orphans, events,
                   drainVars, workerVars, pgVars, budget>>

\* LiveAccount.PlaceOrder: the legs go to the broker one after the other.
SendLeg(c) ==
    /\ ppc[c] = "send"
    /\ \E l \in psend[c] :
          /\ l[2] = 1 \/ <<l[1], 1>> \notin psend[c]
          /\ broker' = [broker EXCEPT ![l] = "pending"]
          /\ psend' = [psend EXCEPT ![c] = @ \ {l}]
          /\ ppc' = IF psend[c] = {l} THEN [ppc EXCEPT ![c] = "commit"] ELSE ppc
    /\ UNCHANGED <<dbVars, memVars, legQty, orphans, events, drainVars,
                   workerVars, pord, pgVars, budget>>

Idle(c) == ppc' = [ppc EXCEPT ![c] = "idle"] /\ pord' = [pord EXCEPT ![c] = None]

\* The legs of S are live at the broker and nothing records them any more.
Forget(S) ==
    /\ orphans' = orphans \cup {l \in S : broker[l] # "none"}
    /\ broker' = Set(broker, S, "none")
    /\ legQty' = Set(legQty, S, 0)

\* The worker leaves UpdatePendingMarginOrders.
EndPoll == /\ wpc' = "idle" /\ todo' = {} /\ cur' = None
           /\ trades' = {} /\ unseen' = {} /\ verdict' = "none"
           /\ trade' = None /\ save' = "order" /\ news' = {}

\* The worker's answer to a failed placement: order.Reject, AddToOrderQueue,
\* SaveOrderRecord (whose failure is only reported), and the poll is over.
RejectNew(o) ==
    /\ mStatus' = [mStatus EXCEPT ![o] = "rejected"]
    /\ AddToOrderQueue({o})
    /\ EndPoll
    /\ UNCHANGED <<dTrade, dApplied, mTrade, applied, linked, cached, pos>>

\* The broker refuses a leg: the legs already sent are forgotten.
SendFails(c) ==
    /\ ppc[c] = "send"
    /\ Forget(LegsOf(pord[c]))
    /\ Idle(c) /\ psend' = [psend EXCEPT ![c] = {}]
    /\ \/ c = "api" /\ Spend("send") /\ UNCHANGED <<dbVars, memVars, workerVars>>
       \/ /\ c = "worker" /\ RejectNew(pord[c])
          /\ \/ /\ Spend("send")
                /\ dStatus' = [dStatus EXCEPT ![pord[c]] = "rejected"]
             \/ SpendBoth("send", "db") /\ UNCHANGED dStatus
    /\ UNCHANGED <<events, drainVars, pgVars>>

\* The changes PlaceOrder returned, run inside one database transaction:
\* memory is changed first and stays changed when the transaction fails.
CommitSaved(c, rows, s) ==
    \/ /\ dStatus' = Set(dStatus, rows, s)
       /\ UNCHANGED <<workerVars, budget>>
    \/ /\ Spend("db") /\ UNCHANGED dStatus
       /\ IF c = "worker" THEN EndPoll ELSE UNCHANGED workerVars

CommitPlaced(c) ==
    LET o    == pord[c]
        legs == {l \in LegsOf(o) : legQty[l] # 0}
    IN  /\ ppc[c] = "commit"
        /\ newQ' = newQ \ {o}                        \* AddToPendingOrdersQueue
        /\ pendingQ' = pendingQ \cup {o} \cup legs
        /\ mStatus' = Set(mStatus, {o} \cup legs, "pending")
        /\ linked' = linked \cup legs
        /\ CommitSaved(c, {o} \cup legs, "pending")
        /\ Idle(c)
        /\ UNCHANGED <<dTrade, dApplied, doneQ, mTrade, applied, cached, pos,
                       brokerVars, events, drainVars, psend, pgVars>>

CommitQueued(c) ==
    LET o == pord[c]
    IN  /\ ppc[c] = "queue"
        /\ newQ' = newQ \cup {o}                     \* AddToNewOrdersQueue
        /\ mStatus' = IF o \in newQ THEN mStatus
                                    ELSE [mStatus EXCEPT ![o] = "new"]
        /\ CommitSaved(c, {o}, mStatus'[o])
        /\ Idle(c)
        /\ UNCHANGED <<dTrade, dApplied, pendingQ, doneQ, mTrade, applied,
                       linked, cached, pos, brokerVars, events, drainVars,
                       psend, pgVars>>

-----------------------------------------------------------------------------
(* UpdateTradierOrderQueue: the worker asks the broker about every leg that *)
(* was pending in the database when the poll began.                        *)

StartPoll ==
    /\ wpc = "idle"
    /\ wpc' = "legs" /\ todo' = {l \in Legs : dStatus[l] = "pending"}
    /\ UNCHANGED <<dbVars, memVars, brokerVars, events, drainVars, cur, trades,
                   lookVars, trade, save, news, placeVars, pgVars, budget>>

\* A leg the broker has ended is put on the queue, whatever is there already;
\* Enqueue blocks on a full channel.
PollLeg(l) ==
    /\ wpc = "legs" /\ l \in todo /\ MuFree
    /\ \/ ~Reportable(l) /\ UNCHANGED events
       \/ /\ Reportable(l) /\ Len(events) < QueueCap
          /\ events' = Append(events, [leg |-> l, kind |-> broker[l]])
    /\ todo' = todo \ {l}
    /\ UNCHANGED <<dbVars, memVars, brokerVars, drainVars, wpc, cur, trades,
                   lookVars, trade, save, news, placeVars, pgVars, budget>>

-----------------------------------------------------------------------------
(* DrainTradierOrderQueue: one event, first in memory, then in the database *)

\* Reconcile fillOrder: the trade, the status, the position.
FillLeg(l) ==
    /\ mTrade' = mTrade \cup {l}
    /\ pos' = [pos EXCEPT ![Recon] = @ + legQty[l]]

\* CommitPendingOrder of a leg.
CommitFill(l) ==
    /\ mStatus' = [mStatus EXCEPT ![l] = "filled"]
    /\ AddToOrderQueue({l})
    /\ FillLeg(l)
    /\ dpc' = "saveFill" /\ dleg' = l

\* A CreateOrder event whose order is not filled yet -> fillPendingOrder.
\* If neither the leg nor its live order is pending (a fill after a reject or
\* cancel), both are first to be set back to pending; the event is lost when
\* the live order's playground is not found, or the leg not in the queue.
DrainFill ==
    /\ dpc = "idle" /\ events # <<>> /\ Head(events).kind = "filled"
    /\ LET l == Head(events).leg
       IN  /\ ~AlreadyFilled(l)
           /\ \/ IsPending(l) /\ l \in pendingQ /\ CommitFill(l)
              \/ /\ ~IsPending(l) /\ Known(l[1]) /\ MuFree
                 /\ dpc' = "resetLeg" /\ dleg' = l
                 /\ UNCHANGED <<mStatus, queueVars, mTrade, pos>>
              \/ /\ \/ IsPending(l) /\ l \notin pendingQ
                    \/ ~IsPending(l) /\ ~Known(l[1])
                 /\ UNCHANGED <<mStatus, queueVars, mTrade, pos, drainVars>>
    /\ events' = Tail(events)
    /\ UNCHANGED <<dbVars, applied, linked, cached, brokerVars, workerVars,
                   placeVars, pgVars, budget>>

\* The leg's row, then the live order's.  Each is saved with dbService, not
\* with the transaction around them: the first stays when the second fails,
\* and both when that transaction does not commit.
\* What the orders cache gets is a copy that is pending, as good as none.
ResetRow ==
    /\ dpc \in {"resetLeg", "resetOrder"}
    /\ LET x == IF dpc = "resetLeg" THEN dleg ELSE dleg[1]
       IN  \/ /\ dStatus' = [dStatus EXCEPT ![x] = "pending"]
              /\ cached' = cached \ {x}
              /\ \/ /\ dpc' = IF dpc = "resetLeg" THEN "resetOrder" ELSE "reset"
                    /\ UNCHANGED <<dleg, budget>>
                 \/ /\ dpc = "resetOrder" /\ Spend("db")   \* the commit fails
                    /\ dpc' = "idle" /\ dleg' = None
           \/ /\ Spend("db") /\ dpc' = "idle" /\ dleg' = None
              /\ UNCHANGED <<dStatus, cached>>
    /\ UNCHANGED <<dTrade, dApplied, mStatus, queueVars, mTrade, applied, linked,
                   pos, brokerVars, events, workerVars, placeVars, pgVars>>

\* The same two in memory: they go back from Orders to PendingOrders, the live
\* order as the record the leg's Reconciles holds.
ResetRecords ==
    /\ dpc = "reset"
    /\ LET both == {dleg, dleg[1]}
       IN  /\ mStatus' = Set(mStatus, both, "pending")
           /\ pendingQ' = pendingQ \cup both /\ doneQ' = doneQ \ both
    /\ linked' = IF dleg \in linked THEN linked
                 ELSE (linked \ LegsOf(dleg[1])) \cup {dleg}
    /\ dpc' = "fill"
    /\ UNCHANGED <<dbVars, newQ, mTrade, applied, cached, pos, brokerVars, events,
                   dleg, workerVars, placeVars, pgVars, budget>>

FillAfterReset ==
    /\ dpc = "fill"
    /\ CommitFill(dleg)
    /\ UNCHANGED <<dbVars, applied, linked, cached, brokerVars, events,
                   workerVars, placeVars, pgVars, budget>>

\* A CreateOrder event for an order that is filled already is dropped.
DrainSkip ==
    /\ dpc = "idle" /\ events # <<>> /\ Head(events).kind = "filled"
    /\ AlreadyFilled(Head(events).leg)
    /\ events' = Tail(events)
    /\ UNCHANGED <<dbVars, memVars, brokerVars, drainVars, workerVars,
                   placeVars, pgVars, budget>>

\* A ModifyOrder event -> Playground.RejectOrder / CancelOrder of the leg and
\* of the live orders it reconciles: the records of S are closed ...
CloseRecords(l, kind, S) ==
    LET o      == l[1]
        known  == l \in linked \/ o \in pendingQ \cup newQ
        closed == IF known THEN S ELSE S \ {o}
    IN  /\ mStatus' = Set(mStatus, closed, kind)
        /\ linked' = IF l \notin linked /\ o \in closed
                     THEN (linked \ LegsOf(o)) \cup {l} ELSE linked
        /\ AddToOrderQueue(S)

\* ... and tx.Save stores the live order's row with the status it had BEFORE.
CloseRows(l) ==
    IF l \in linked
    THEN /\ dStatus' = [dStatus EXCEPT ![l[1]] = mStatus[l[1]]]
         /\ dApplied' = dApplied \cup {t \in LegsOf(l[1]) : applied[t] > 0}
    ELSE UNCHANGED <<dStatus, dApplied>>

\* The transaction may fail before a record is closed, between the two, or
\* when it commits: no row is changed, the closed records stay closed, and
\* the event is lost.  A deleted playground fails it before the first.
DrainClose ==
    /\ dpc = "idle" /\ events # <<>> /\ Head(events).kind \in {"rejected", "canceled"}
    /\ LET l    == Head(events).leg
           kind == Head(events).kind
       IN  /\ \/ /\ mStatus[l] = "pending" /\ Known(l[1]) /\ MuFree
                 /\ \/ /\ CloseRecords(l, kind, {l, l[1]}) /\ CloseRows(l)
                       /\ dpc' = "saveClose" /\ dleg' = l /\ UNCHANGED budget
                    \/ /\ Spend("db")
                       /\ \E S \in {{}, {l[1]}, {l, l[1]}} : CloseRecords(l, kind, S)
                       /\ UNCHANGED <<dStatus, dApplied, drainVars>>
              \/ /\ mStatus[l] = kind                \* already closed: resave
                 /\ dpc' = "saveClose" /\ dleg' = l
                 /\ UNCHANGED <<dStatus, dApplied, mStatus, queueVars, linked, budget>>
              \/ /\ \/ mStatus[l] \notin {"pending", kind}
                    \/ mStatus[l] = "pending" /\ ~Known(l[1])
                 /\ UNCHANGED <<drainVars, dStatus, dApplied, mStatus, queueVars,
                                linked, budget>>
    /\ events' = Tail(events)
    /\ UNCHANGED <<dTrade, mTrade, applied, cached, pos, brokerVars, workerVars,
                   placeVars, pgVars>>

\* SaveOrderRecord of the leg.  After a fill its failure is only logged; after
\* a close it is log.Fatalf, the Crash action.
DrainSave ==
    /\ dpc \in {"saveFill", "saveClose"}
    /\ \/ /\ dStatus' = [dStatus EXCEPT ![dleg] = mStatus[dleg]]
          /\ dTrade' = dTrade \cup ({dleg} \cap mTrade)
          /\ cached' = cached \cup {dleg}
          /\ UNCHANGED budget
       \/ /\ dpc = "saveFill" /\ Spend("db")
          /\ UNCHANGED <<dStatus, dTrade, cached>>
    /\ dpc' = "idle" /\ dleg' = None
    /\ UNCHANGED <<dApplied, mStatus, queueVars, mTrade, applied, linked, pos,
                   brokerVars, events, workerVars, placeVars, pgVars>>

-----------------------------------------------------------------------------
(* UpdatePendingMarginOrders: the worker brings the live orders up to date *)
(* with their legs, then places the orders that were waiting.              *)

\* FetchPendingOrders leaves out playgrounds deleted from the database.
FetchPending ==
    /\ wpc = "legs" /\ todo = {}
    /\ wpc' = "orders"
    /\ todo' = {o \in Orders : dStatus[o] = "pending" /\ alive[PgOf(o)] = "live"}
    /\ UNCHANGED <<dbVars, memVars, brokerVars, events, drainVars, cur, trades,
                   lookVars, trade, save, news, placeVars, pgVars, budget>>

\* All of newTrades, what earlier orders of the poll left there included.
Deliver(p) == delivered' = [delivered EXCEPT ![p] = @ \cup news]

\* The legs' trades are read once; the order came without its own Trades
\* (FetchPendingOrders does not preload them), so that none is ever "found".
ReadTrades(o) ==
    /\ wpc = "orders" /\ o \in todo
    /\ wpc' = "find" /\ cur' = o /\ trades' = TradesOf(o)
    /\ UNCHANGED <<dbVars, memVars, brokerVars, events, drainVars, todo, lookVars,
                   trade, save, news, placeVars, pgVars, budget>>

\* FetchPlayground, and without a trade the legs the orders cache has.
FindPlayground ==
    /\ wpc = "find" /\ MuFree
    /\ \/ /\ Known(cur) /\ wpc' = "fill"
          /\ unseen' = IF trades = {} THEN LegsOf(cur) \cap cached ELSE {}
          /\ UNCHANGED <<todo, cur, trades>>
       \/ /\ ~Known(cur) /\ wpc' = "orders"
          /\ todo' = todo \ {cur} /\ cur' = None /\ trades' = {}
          /\ UNCHANGED unseen
    /\ UNCHANGED <<dbVars, memVars, brokerVars, events, drainVars, verdict, trade,
                   save, news, placeVars, pgVars, budget>>

\* No trade yet: the status of one leg after the other is read, and a leg that
\* was rejected or canceled ends the order in the same way.
Verdict(l) == IF mStatus[l] \in {"rejected", "canceled"} THEN mStatus[l] ELSE "none"

LookAtLeg(l) ==
    /\ wpc = "fill" /\ l \in unseen
    /\ unseen' = unseen \ {l}
    /\ verdict' = Verdict(l)
    /\ wpc' = IF Verdict(l) = "none" THEN "fill" ELSE "close"
    /\ UNCHANGED <<dbVars, memVars, brokerVars, events, drainVars, todo, cur,
                   trades, trade, save, news, placeVars, pgVars, budget>>

\* DatabaseService.RejectOrder / CancelOrder take mu and write the row, by
\* itself (s.db, not the transaction's tx) ...
CloseRow ==
    /\ wpc = "close" /\ MuFree
    /\ \/ /\ Known(cur) /\ dStatus' = [dStatus EXCEPT ![cur] = verdict]
          /\ wpc' = "closing" /\ UNCHANGED <<verdict, budget>>
       \/ /\ Known(cur) /\ Spend("db")
          /\ wpc' = "fill" /\ verdict' = "none" /\ UNCHANGED dStatus
       \/ /\ ~Known(cur)
          /\ wpc' = "fill" /\ verdict' = "none" /\ UNCHANGED <<dStatus, budget>>
    /\ UNCHANGED <<dTrade, dApplied, memVars, brokerVars, events, drainVars, todo,
                   cur, trades, unseen, trade, save, news, placeVars, pgVars>>

\* ... then the reason, in an update of its own, and memory: a record waiting
\* there is replaced by the database copy, one that has left the queues is not
\* touched.  When the reason cannot be stored memory stays as it was.
ReplaceRecord(o, s) ==
    IF o \in pendingQ \cup newQ
    THEN /\ mStatus' = [mStatus EXCEPT ![o] = s]
         /\ linked' = linked \ LegsOf(o)
    ELSE UNCHANGED <<mStatus, linked>>

CloseRecord ==
    /\ wpc = "closing"
    /\ \/ /\ AddToOrderQueue({cur}) /\ ReplaceRecord(cur, verdict)
          /\ UNCHANGED budget
       \/ /\ verdict = "rejected" /\ Spend("db")
          /\ UNCHANGED <<mStatus, queueVars, linked>>
    /\ wpc' = "fill" /\ verdict' = "none"
    /\ UNCHANGED <<dbVars, mTrade, applied, cached, pos, brokerVars, events,
                   drainVars, todo, cur, trades, unseen, trade, save, news,
                   placeVars, pgVars>>

\* fillPendingOrder of the live order with one trade: OrderRecord.Fill, the
\* position, the queues.  A refused trade rejects the order in memory, but it
\* is the database copy that is then saved, still pending.
Refuse(o) ==
    /\ mStatus' = [mStatus EXCEPT ![o] = "rejected"]
    /\ AddToOrderQueue({o})
    /\ save' = "copy" /\ UNCHANGED <<applied, pos>>

Full(o) == AbsVal(FilledVolume(o)) = AbsVal(Quantity[o])
Exceeds(o, t) ==
    ~Full(o) /\ AbsVal(FilledVolume(o) + legQty[t]) > AbsVal(Quantity[o])

\* A full order takes no further trade (ErrOrderAlreadyFilled) and leaves the
\* pending queue.
Accept(o, t) ==
    /\ save' = "order"
    /\ IF Full(o) THEN UNCHANGED <<applied, pos>>
       ELSE /\ applied' = [applied EXCEPT ![t] = @ + 1]
            /\ pos' = [pos EXCEPT ![PgOf(o)] = @ + legQty[t]]
    /\ IF Full(o) \/ FilledVolume(o) + legQty[t] = Quantity[o]
       THEN /\ mStatus' = [mStatus EXCEPT ![o] = "filled"]
            /\ AddToOrderQueue({o})
       ELSE UNCHANGED <<mStatus, queueVars>>

ApplyTrade(t) ==
    /\ wpc = "fill" /\ t \in trades
    /\ ~(ppc["api"] # "idle" /\ PgOf(pord["api"]) = PgOf(cur))  \* placeOrderMutex
    /\ \/ /\ cur \in pendingQ /\ Tradable(mStatus[cur]) /\ ~Exceeds(cur, t)
          /\ Accept(cur, t)
          /\ wpc' = "save" /\ trade' = t /\ UNCHANGED trades
       \/ /\ cur \in pendingQ /\ (~Tradable(mStatus[cur]) \/ Exceeds(cur, t))
          /\ Refuse(cur)
          /\ wpc' = "save" /\ trade' = t /\ UNCHANGED trades
       \/ /\ cur \notin pendingQ             \* "already in order queue": error
          /\ trades' = trades \ {t}
          /\ UNCHANGED <<wpc, trade, save, mStatus, queueVars, applied, pos>>
    /\ UNCHANGED <<dbVars, mTrade, linked, cached, brokerVars, events, drainVars,
                   todo, cur, lookVars, news, placeVars, pgVars, budget>>

\* SaveOrderRecord of the live order; a failure drops the trade from newTrades.
SaveApplied ==
    /\ wpc = "save"
    /\ \/ /\ save = "order"
          /\ dStatus' = [dStatus EXCEPT ![cur] = mStatus[cur]]
          /\ dApplied' = dApplied \cup {l \in LegsOf(cur) : applied[l] > 0}
          /\ news' = news \cup {trade} /\ UNCHANGED budget
       \/ /\ save = "copy"
          /\ dStatus' = [dStatus EXCEPT ![cur] = "pending"]
          /\ UNCHANGED <<dApplied, news, budget>>
       \/ Spend("db") /\ UNCHANGED <<dStatus, dApplied, news>>
    /\ trades' = trades \ {trade} /\ wpc' = "fill"
    /\ trade' = None /\ save' = "order"
    /\ UNCHANGED <<dTrade, memVars, brokerVars, events, drainVars, todo, cur,
                   lookVars, placeVars, pgVars>>

FinishOrder ==
    /\ wpc = "fill" /\ unseen = {} /\ trades = {}
    /\ Deliver(PgOf(cur))
    /\ todo' = todo \ {cur} /\ cur' = None /\ wpc' = "orders"
    /\ UNCHANGED <<dbVars, memVars, brokerVars, events, drainVars, trades,
                   lookVars, trade, save, news, placeVars, alive, budget>>

\* FetchNewOrders does not look whether the playground still exists.
FetchNew ==
    /\ wpc = "orders" /\ todo = {}
    /\ wpc' = "new" /\ todo' = {o \in Orders : dStatus[o] = "new"} /\ news' = {}
    /\ UNCHANGED <<dbVars, memVars, brokerVars, events, drainVars, cur, trades,
                   lookVars, trade, save, placeVars, pgVars, budget>>

\* One waiting order: an error of any kind ends the poll.
PlaceNew(o) ==
    /\ wpc = "new" /\ ppc["worker"] = "idle" /\ o \in todo /\ MuFree
    /\ \/ /\ Known(o) /\ StartPlacement("worker", o)
          /\ todo' = todo \ {o}
          /\ UNCHANGED <<dStatus, memVars, wpc, cur, trades, lookVars, trade, save,
                         news, budget>>
       \/ /\ Known(o) /\ ~OtherPending(o) /\ ~Placeable(o)
          /\ RejectNew(o)
          /\ \/ dStatus' = [dStatus EXCEPT ![o] = "rejected"] /\ UNCHANGED budget
             \/ Spend("db") /\ UNCHANGED dStatus
          /\ UNCHANGED <<placeVars, legQty>>
       \/ /\ ~Known(o) /\ EndPoll
          /\ UNCHANGED <<dStatus, memVars, placeVars, legQty, budget>>
    /\ UNCHANGED <<dTrade, dApplied, broker, orphans, events, drainVars, pgVars>>

FinishPoll ==
    /\ wpc = "new" /\ todo = {} /\ ppc["worker"] = "idle"
    /\ EndPoll
    /\ UNCHANGED <<dbVars, memVars, brokerVars, events, drainVars, placeVars,
                   pgVars, budget>>

-----------------------------------------------------------------------------
(* The broker, playground deletion, crashes *)

\* The broker ends a leg, once; a fill may still come after a reject or cancel.
BrokerDecides(l) ==
    /\ broker[l] = "pending"
    /\ \E s \in Outcomes : broker' = [broker EXCEPT ![l] = s]
    /\ UNCHANGED <<dbVars, memVars, legQty, orphans, events, drainVars,
                   workerVars, placeVars, pgVars, budget>>

BrokerFillsLate(l) ==
    /\ broker[l] \in {"rejected", "canceled"}
    /\ Spend("late")
    /\ broker' = [broker EXCEPT ![l] = "filled"]
    /\ UNCHANGED <<dbVars, memVars, legQty, orphans, events, drainVars,
                   workerVars, placeVars, pgVars>>

\* gRPC DeletePlayground: first the row, then, under mu, the map entry.
DeletePlayground(p) ==
    /\ p \in Deletable
    /\ \/ alive[p] = "live" /\ alive' = [alive EXCEPT ![p] = "row deleted"]
       \/ /\ alive[p] = "row deleted" /\ MuFree
          /\ alive' = [alive EXCEPT ![p] = "deleted"]
    /\ UNCHANGED <<dbVars, memVars, brokerVars, events, drainVars, workerVars,
                   placeVars, delivered, budget>>

\* A crash and the restart: LoadPlaygrounds rebuilds memory from the rows of
\* the playgrounds that are not deleted; NewBacktesterAccount sorts them by
\* status; UpdatePositionCachePositions counts the filled orders among Orders.
\* Reconciles is loaded as copies, so no leg is linked.
Loaded(x)  == x \in Legs \/ (x \in Orders /\ alive[PgOf(x)] = "live")
InDb(s)    == {x \in Items : dStatus[x] = s /\ Loaded(x)}
DbVolume(o) == MapThenSumSet(LAMBDA l : legQty[l], LegsOf(o) \cap dApplied)

Crash ==
    /\ Spend("crash")
    /\ mStatus' = [x \in Items |-> IF Loaded(x) THEN dStatus[x] ELSE "absent"]
    /\ pendingQ' = InDb("pending") /\ newQ' = InDb("new")
    /\ doneQ' = InDb("blank") \cup UNION {InDb(s) : s \in Ended}
    /\ mTrade' = dTrade
    /\ applied' = [l \in Legs |-> IF l \in dApplied THEN 1 ELSE 0]
    /\ linked' = {} /\ cached' = {l \in Legs : dStatus[l] # "absent"}
    /\ pos' = [a \in Accounts |->
          IF a = Recon
          THEN MapThenSumSet(LAMBDA l : legQty[l], {l \in dTrade : dStatus[l] = "filled"})
          ELSE MapThenSumSet(DbVolume, {o \in Orders : PgOf(o) = a /\ o \in InDb("filled")})]
    /\ Forget({l \in Legs : dStatus[l] = "absent"})
    /\ events' = <<>> /\ dpc' = "idle" /\ dleg' = None
    /\ EndPoll
    /\ ppc' = [c \in Callers |-> "idle"] /\ pord' = [c \in Callers |-> None]
    /\ psend' = [c \in Callers |-> {}]
    /\ alive' = [p \in Playgrounds |-> IF alive[p] = "live" THEN "live" ELSE "deleted"]
    /\ UNCHANGED <<dbVars, delivered>>

-----------------------------------------------------------------------------
Drain ==
    \/ DrainFill \/ DrainSkip \/ DrainClose \/ DrainSave
    \/ ResetRow \/ ResetRecords \/ FillAfterReset

Worker ==
    \/ StartPoll \/ FetchPending \/ FinishOrder \/ SaveApplied \/ FetchNew \/ FinishPoll
    \/ FindPlayground \/ CloseRow \/ CloseRecord
    \/ \E l \in Legs : PollLeg(l) \/ LookAtLeg(l) \/ ApplyTrade(l)
    \/ \E o \in Orders : ReadTrades(o) \/ PlaceNew(o)

Placement(c) == SendLeg(c) \/ CommitPlaced(c) \/ CommitQueued(c)

Faults == Crash \/ \E c \in Callers : SendFails(c)

Next ==
    \/ \E o \in Orders : PlaceOrder(o)
    \/ \E c \in Callers : Placement(c)
    \/ Drain \/ Worker \/ Faults
    \/ \E l \in Legs : BrokerDecides(l) \/ BrokerFillsLate(l)
    \/ \E p \in Playgrounds : DeletePlayground(p)

Spec == Init /\ [][Next]_vars

\* The two goroutines loop forever, a request once begun runs on, and a market
\* order is eventually ended by the broker.  Clients owe no request, but those
\* that trade live are taken to tick: Enqueue on a playground's newTradesQueue
\* or invalidOrdersQueue (999 entries) would block the worker once it is full.
Fairness ==
    /\ WF_vars(Drain) /\ WF_vars(Worker)
    /\ \A c \in Callers : WF_vars(Placement(c))
    /\ \A l \in Legs : WF_vars(BrokerDecides(l))

FairSpec == Spec /\ Fairness
=============================================================================
