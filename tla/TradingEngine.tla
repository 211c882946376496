--------------------------- MODULE TradingEngine ---------------------------
(***************************************************************************)
(* The Python trading engine on a simulator playground: run_strategy, the  *)
(* stack open and close strategies and the client library, driving the     *)
(* server's side of module Simulator.  One symbol, one candle per tick.    *)
(*                                                                         *)
(* Every iteration closes what the close strategy asks for, order by order *)
(* with a tick(0) after each, opens at most one order, and ticks.  The     *)
(* client repeats a call that fails.  A NextTick is answered from the      *)
(* request cache (module TickRequests), but a PlaceOrder whose reply is    *)
(* lost is placed again: GetOrderByClientId looks in the database, where   *)
(* simulator orders are not.  A call may also fail for good.               *)
(***************************************************************************)
EXTENDS Simulator, SequencesExt

CONSTANTS
    Symbol,
    Bars,          \* candles: [dir, line, open, close], dir and line from the supertrend
    History,       \* candles_ltf as loaded
    Feed,          \* [time -> what the candle of that time may be]
    Quantities,    \* what calculate_new_trade_quantity may return
    MaxOpenCount, Ratio,       \* of the strategies
    MaxFaults                  \* PlaceOrder replies lost and calls that fail for good

ASSUME EngineAssumption ==
    /\ Symbols = {Symbol}
    /\ Bars \subseteq [dir : {1, -1}, line : Nat, open : Prices, close : Prices]
    /\ History \in Seq(Bars) /\ Feed \in [0 .. EndTime - 1 -> SUBSET Bars]
    /\ \A t \in 0 .. EndTime - 1 : Closes[t] = {[s \in Symbols |-> b.close] : b \in Feed[t]}
    /\ \A d \in {1, -1} : \E k \in 2 .. Len(History) : History[k].dir = d
    /\ Quantities \subseteq Nat \ {0} /\ MaxOpenCount \in Nat \ {0} /\ Ratio \in Nat
    /\ MaxFaults \in Nat

VARIABLES
    pc,        \* where run_strategy is
    job,       \* the order being placed or the tick being made
    signals,   \* close signals of this iteration still to be handled
    bars,      \* candles_ltf; the last one is the current candle
    fresh,     \* did the last main tick bring a candle?
    account,   \* position quantity in playground.account
    plan,      \* [Slots -> [stop, count, at]]: an opening order's stop, tag and candle
    meant,     \* [Slots -> the open order a close signal was for], None: none
    lost, gaveUp,
    late       \* open orders that were against the trend when the last iteration ended

loop == <<signals, bars, fresh, account, late>>
faults == <<lost, gaveUp>>
engineVars == <<pc, job, loop, plan, meant, faults>>
vars == <<simVars, engineVars>>

Main == [kind |-> "main"]
NoPlan == [stop |-> 0, count |-> 0, at |-> 0]
Candle == Last(bars)
Ask(side, quantity, target) ==
    [symbol |-> Symbol, side |-> side, quantity |-> quantity, target |-> target, forced |-> FALSE]

EngineInit ==
    /\ Init
    /\ pc = "close" /\ job = Main /\ signals = {} /\ fresh = FALSE
    /\ \E b \in Feed[0] : b.close = quote[Symbol] /\ bars = Append(History, b)
    /\ account = 0 /\ late = {} /\ lost = 0 /\ gaveUp = 0
    /\ plan = [i \in Slots |-> NoPlan]
    /\ meant = [i \in Slots |-> None]

(* Slips: one programming mistake each, not used by the specification. *)
SlipStopHit(i) ==
    IF order[i].side = "buy" THEN Candle.close < plan[i].stop ELSE Candle.close > plan[i].stop
SlipAgainst(i) == order[i].side = "sell_short" /\ Candle.dir = 1
SlipTarget(i)  == None                        \* the order to close is not sent
SlipRoom(n)    == n <= MaxOpenCount
SlipRefreshed  == IF job.kind = "main" THEN position[Symbol].quantity ELSE account
SlipHandled(s)    == IF pending = {} THEN signals \ {s} ELSE signals   \* asks again while one is pending

-----------------------------------------------------------------------------
(* SimpleStackCloseStrategy.tick *)

StopHit(i) ==
    IF order[i].side = "buy" THEN Candle.close <= plan[i].stop ELSE Candle.close >= plan[i].stop
Against(i) ==
    \/ order[i].side = "buy" /\ Candle.dir = -1
    \/ order[i].side = "sell_short" /\ Candle.dir = 1

\* target_tp_for_reward_ratio, of all open orders: quantities are positive,
\* also of short orders.  The price is multiplied out by the total quantity.
Distance(i) == Larger(traded[i] - plan[i].stop, plan[i].stop - traded[i])
Risk   == MapThenSumSet(LAMBDA i : Distance(i) * order[i].quantity, open[Symbol])
Target == Ratio * Risk + MapThenSumSet(LAMBDA i : traded[i] * order[i].quantity, open[Symbol])
TargetHit(i) ==
    /\ plan[i].count >= MaxOpenCount
    /\ IF order[i].side = "buy" THEN Candle.close * Volume(open[Symbol]) >= Target
       ELSE Candle.close * Volume(open[Symbol]) <= Target

\* The volumes are those of now, though a signal handled first may change them.
CloseSignals ==
    {[from |-> i, why |-> "order", meant |-> i, quantity |-> Remaining(i)] :
        i \in {i \in open[Symbol] : StopHit(i) \/ (~TargetHit(i) /\ Against(i))}}
    \cup
    {[from |-> i, why |-> "tp", meant |-> None,
      quantity |-> MapThenSumSet(Remaining, open[Symbol])] :
        i \in {i \in open[Symbol] : ~StopHit(i) /\ TargetHit(i)}}

\* place_order sends a close_order_id only if it is true, and 0 is not.
TargetId(i) == IF i = None THEN None ELSE IF Id(i) = 0 THEN None ELSE Id(i)

-----------------------------------------------------------------------------
(* SimpleStackOpenStrategyV1.tick: a candle against the trend, whose body     *)
(* overlaps no earlier such candle of the trend, until the stack is full.     *)

\* find_supertrend_start never looks at the first candle; without a change
\* of direction only the last candle counts.
Trend ==
    LET turns == {k \in 2 .. Len(bars) : bars[k].dir # Candle.dir}
    IN  SubSeq(bars, IF turns = {} THEN Len(bars) ELSE Max(turns) + 1, Len(bars))
Counter(b)    == IF b.dir = 1 THEN b.close < b.open ELSE b.close > b.open
Low(b)        == Min({b.open, b.close})
High(b)       == Max({b.open, b.close})
Overlap(a, b) == ~(High(a) <= Low(b) \/ High(b) <= Low(a))
Room(n)       == n < MaxOpenCount
Stack(trend) ==
    FoldLeft(LAMBDA s, b :
                IF Counter(b) /\ Room(Len(s)) /\ \A k \in DOMAIN s : ~Overlap(b, s[k])
                THEN Append(s, b) ELSE s,
             <<>>, trend)
Signalled == fresh /\ Len(Stack(Trend)) > Len(Stack(Front(Trend)))

-----------------------------------------------------------------------------
(* run_strategy *)

Enter(label) == pc' = label
Working(kind, request, target, entry) ==
    job' = [kind |-> kind, request |-> request, meant |-> target, plan |-> entry]
StartTick == job' = Main /\ Enter("tick")

\* What a call's failure does: the close loop goes on with the next signal,
\* opening an order is given up, anything else ends the program.
Fail ==
    /\ pc' = IF job.kind = "close" THEN "closing" ELSE IF job.kind = "open" THEN "tick" ELSE "dead"
    /\ job' = IF job.kind = "open" THEN Main ELSE job

\* The close strategy's signals, in the order of the open orders.
Close ==
    /\ pc = "close" /\ Enter("closing")
    /\ signals' = CloseSignals
    /\ UNCHANGED <<simVars, job, bars, fresh, account, late, plan, meant, faults>>

Handled(s) == signals \ {s}
NextClose ==
    /\ pc = "closing"
    /\ \/ signals = {} /\ Enter("open") /\ UNCHANGED <<signals, job>>
       \/ \E s \in signals :
            /\ \A u \in signals : s.from <= u.from
            /\ signals' = Handled(s)
            /\ Working("close",
                       Ask(IF order[s.from].side = "buy" THEN "sell" ELSE "buy_to_cover",
                           s.quantity, TargetId(s.meant)),
                       s.meant, NoPlan)
            /\ Enter("place")
    /\ UNCHANGED <<simVars, bars, fresh, account, late, plan, meant, faults>>

\* A new signal first closes a position of the other direction, as the client
\* knows it.
EntrySide == IF Candle.dir = 1 THEN "buy" ELSE "sell_short"
Open ==
    /\ pc = "open"
    /\ \/ ~Signalled /\ StartTick
       \/ Signalled /\ EntrySide = "sell_short" /\ account > 0
          /\ Working("all", Ask("sell", account, None), None, NoPlan) /\ Enter("place")
       \/ Signalled /\ EntrySide = "buy" /\ account < 0
          /\ Working("all", Ask("buy_to_cover", -account, None), None, NoPlan) /\ Enter("place")
       \/ Signalled /\ (EntrySide = "sell_short" => account <= 0) /\ (EntrySide = "buy" => account >= 0)
          /\ Enter("size") /\ UNCHANGED job
    /\ UNCHANGED <<simVars, loop, plan, meant, faults>>

\* calculate_new_trade_quantity and place_order may find the risk or the free
\* margin too small.
SizeOrder ==
    /\ pc = "size"
    /\ \/ StartTick
       \/ \E n \in Quantities :
            /\ Working("open", Ask(EntrySide, n, None), None,
                       [stop |-> Candle.line, count |-> Len(Stack(Trend)), at |-> Len(bars)])
            /\ Enter("place")
    /\ UNCHANGED <<simVars, loop, plan, meant, faults>>

\* PlaceOrder, the two halves of it.  A refusal may be retried, with the same
\* outcome; the ids the retries use are left out.
Place ==
    /\ pc = "place"
    /\ \/ /\ CheckOrder(job.request)
          /\ \/ /\ placing' # None /\ Enter("queue") /\ UNCHANGED job
                /\ plan' = [plan EXCEPT ![placing'] = job.plan]
                /\ meant' = [meant EXCEPT ![placing'] = job.meant]
             \/ placing' = None /\ Fail /\ UNCHANGED <<plan, meant>>
       \/ ~PendingClosesFit(job.request) /\ Fail /\ UNCHANGED <<simVars, plan, meant>>
    /\ UNCHANGED <<loop, faults>>

\* The reply arrives, or it is lost and network_call_with_retry asks again.
Answered ==
    /\ pc = "queue" /\ QueueOrder
    /\ IF job.kind = "open" THEN StartTick ELSE Enter("tick") /\ UNCHANGED job
    /\ UNCHANGED <<loop, plan, meant, faults>>
ReplyLost ==
    /\ pc = "queue" /\ QueueOrder
    /\ lost + gaveUp < MaxFaults /\ lost' = lost + 1 /\ Enter("place")
    /\ UNCHANGED <<job, loop, plan, meant, gaveUp>>

Late == {i \in open[Symbol] : Candle.dir * Signed(order[i]) < 0}
Tick ==
    /\ pc = "tick" /\ Enter("ticking")
    /\ BeginTick(job = Main)
    /\ late' = IF job = Main THEN Late ELSE late
    /\ UNCHANGED <<job, signals, bars, fresh, account, plan, meant, faults>>
Ticking ==
    /\ pc = "ticking" /\ TickStep
    /\ Enter(IF phase' = "idle" THEN "reply" ELSE "ticking")
    /\ UNCHANGED <<job, loop, plan, meant, faults>>

\* The client takes the new candle over, and fetches the account.  After a
\* tick(0) the iteration goes on where the order was placed; the tick that
\* completes the backtest has no candle.
Refreshed == position[Symbol].quantity
Reply ==
    /\ pc = "reply"
    /\ account' = Refreshed
    /\ \/ job = Main /\ complete /\ Enter("finished") /\ UNCHANGED <<bars, fresh>>
       \/ /\ job = Main /\ ~complete /\ Enter("close")
          /\ \E b \in Feed[clock] : b.close = quote[Symbol] /\ bars' = Append(bars, b)
          /\ fresh' = TRUE
       \/ job # Main /\ Enter(IF job.kind = "all" THEN "size" ELSE "closing") /\ UNCHANGED <<bars, fresh>>
    /\ UNCHANGED <<simVars, job, signals, late, plan, meant, faults>>

\* A call fails for good: GetOpenOrders, of the close strategy or of a signal to
\* open, PlaceOrder before it did anything, NextTick, or the GetAccount after it.
GiveUp ==
    /\ lost + gaveUp < MaxFaults /\ gaveUp' = gaveUp + 1
    /\ \/ (pc = "close" \/ (pc = "open" /\ Signalled)) /\ Enter("dead") /\ UNCHANGED job
       \/ pc \in {"place", "tick", "reply"} /\ Fail
    /\ UNCHANGED <<simVars, loop, plan, meant, lost>>

Step ==
    Close \/ NextClose \/ Open \/ SizeOrder \/ Place \/ Answered \/ ReplyLost \/ Tick \/ Ticking
    \/ Reply \/ GiveUp
Engine == EngineInit /\ [][Step]_vars /\ WF_vars(Step)

-----------------------------------------------------------------------------
Faultless == lost + gaveUp = 0

(* Every variable of the engine holds a value of its kind. *)
EngineTypeOK ==
    /\ pc \in {"close", "closing", "open", "size", "place", "queue", "tick", "ticking", "reply",
               "finished", "dead"}
    /\ job.kind \in {"main", "close", "open", "all"}
    /\ job.kind # "main" => job.request \in Order
    /\ bars \in Seq(Bars) /\ fresh \in BOOLEAN /\ account \in Int
    /\ plan \in [Slots -> [stop : Nat, count : 0 .. MaxOpenCount, at : 0 .. Len(bars)]]
    /\ meant \in [Slots -> Slots \cup {None}] /\ late \subseteq Slots
    /\ lost \in Nat /\ gaveUp \in Nat /\ lost + gaveUp <= MaxFaults

(* Counting candles bounds the orders: of those a trend opened, never more    *)
(* than max_open_count are open, but for those a lost reply placed twice.     *)
(* An order left over from an earlier trend (TrendFollowed) is not counted.   *)
StackLimit ==
    Cardinality({i \in open[Symbol] : plan[i].at > Len(bars) - Len(Trend)}) <= MaxOpenCount + lost

(* A close signal closes the order it is for, whatever closed before it; only *)
(* for order 0, whose id place_order does not send, it takes that no call     *)
(* failed.                                                                    *)
CloseHitsItsOrder ==
    [][\A i \in pending \ pending' :
        meant[i] # None =>
            \A j \in open[Symbol] : closed'[j] > closed[j] =>
                j = meant[i] \/ (Id(meant[i]) = 0 /\ ~Faultless)]_vars

(* When the engine decides what to open, the position it remembers is the     *)
(* position, unless a call failed for good.                                   *)
ClientKnows == pc = "open" => account = position[Symbol].quantity \/ gaveUp > 0

(* However the close signals of an iteration get in each other's way, no      *)
(* order is open at or beyond its stop when the iteration ends.               *)
StopsHonoured ==
    pc = "tick" /\ job = Main /\ Faultless =>
        \A i \in open[Symbol] :
            (Candle.close - plan[i].stop) * Signed(order[i]) > 0

(* No order stays against the trend for two iterations.                       *)
TrendFollowed ==
    [][pc = "tick" /\ pc' = "ticking" /\ job = Main /\ Faultless =>
        late \cap late' = {}]_vars

(* The engine only dies of a failed call: the server refuses nothing that     *)
(* ends the program.                                                          *)
DiesOnlyOfFaults == pc = "dead" => ~Faultless

(* The engine ends, with the backtest or with an exception. *)
EngineEnds == <>(pc \in {"finished", "dead"})

(* "TP that would yield the desired reward": the take profit of the open      *)
(* orders is signalled at a price that gains their reward.                    *)
Reward ==
    MapThenSumSet(LAMBDA i : (Candle.close - traded[i]) * Signed(order[i]), open[Symbol])
TakesProfit ==
    [][pc = "close" /\ pc' = "closing" /\ (\E s \in signals' : s.why = "tp") => Reward >= Ratio * Risk]_vars
=============================================================================
