------------------------ MODULE TradingEngineProofs ------------------------
(* Of the trading engine with any candles, quantities, strategy limits and   *)
(* faults: what the client believes of the account when it decides, that the *)
(* server refuses nothing that ends the program, how large the stack gets,   *)
(* what the close signals close, and what they leave to the next iteration.  *)
(* The playground's part of every step is a step of SimulatorProofs, whose   *)
(* invariants hold here; the rest is which order the engine may be placing   *)
(* where in its loop, and for whom.                                          *)
EXTENDS TradingEngine, SimulatorProofs, SequenceTheorems

(* The stack only grows while there is room in it.  It is a fold over the    *)
(* places of a sequence, from the last: for sets of up to n places there is  *)
(* a function that obeys the fold, for every n.                              *)
Put(s, b) ==
    IF Counter(b) /\ Room(Len(s)) /\ \A k \in DOMAIN s : ~Overlap(b, s[k]) THEN Append(s, b) ELSE s
Stacked(trend, g, S) == IF S = {} THEN <<>> ELSE Put(g[S \ {Max(S)}], trend[Max(S)])
StackOf(trend) ==
    CHOOSE g : g = [S \in SUBSET DOMAIN trend |-> Stacked(trend, g, S)]

Stacks(trend, g, n) ==
    /\ g = [S \in SUBSET DOMAIN trend |-> g[S]]
    /\ \A S \in SUBSET DOMAIN trend : Cardinality(S) <= n => g[S] = Stacked(trend, g, S)

LEMMA MaxIn ==
    ASSUME NEW S \in SUBSET Nat, IsFiniteSet(S), S # {}
    PROVE  Max(S) \in S /\ \A x \in S : x <= Max(S)
<1> DEFINE F == {T \in SUBSET S : T # {} /\ ~\E m \in T : \A x \in T : x <= m}
<1>1. F = {}
  <2> SUFFICES ASSUME F # {} PROVE FALSE
    OBVIOUS
  <2>1. \A T \in F : IsFiniteSet(T)
    BY FS_Subset
  <2>2. PICK T \in F : \A U \in F : Cardinality(T) <= Cardinality(U)
    BY <2>1, SmallestSet
  <2>3. PICK x \in T : TRUE
    BY <2>2
  <2>4. T \ {x} \notin F
    <3>1. /\ Cardinality(T) \in Nat /\ Cardinality(T \ {x}) \in Nat
          /\ Cardinality(T \ {x}) = Cardinality(T) - 1
      BY <2>1, <2>2, <2>3, Smaller
    <3>2. ~(Cardinality(T) <= Cardinality(T \ {x}))
      BY <3>1
    <3> QED
      BY <2>2, <3>2
  <2>5. CASE T \ {x} = {}
    <3>1. T = {x} /\ x \in Nat
      BY <2>2, <2>3, <2>5
    <3> QED
      BY <2>2, <3>1
  <2>6. CASE T \ {x} # {}
    <3>1. PICK m \in T \ {x} : \A y \in T \ {x} : y <= m
      BY <2>2, <2>4, <2>6
    <3>2. m \in Nat /\ x \in Nat /\ \A y \in T : y \in Nat
      BY <2>2, <2>3, <3>1
    <3>3. CASE x <= m
      BY <2>2, <3>1, <3>3
    <3>4. CASE m <= x
      BY <2>2, <2>3, <3>1, <3>2, <3>4
    <3> QED
      BY <3>2, <3>3, <3>4
  <2> QED
    BY <2>5, <2>6
<1>2. \E m \in S : \A x \in S : x <= m
  BY <1>1
<1>3. \E m \in S : \A x \in S : m >= x
  BY <1>2
<1> QED
  BY <1>3 DEF Max

LEMMA StackIsFold == \A trend : Stack(trend) = StackOf(trend)[DOMAIN trend]
BY DEF Stack, FoldLeft, MapThenFoldSet, StackOf, Stacked, Put

LEMMA StacksUpTo ==
    ASSUME NEW trend, IsFiniteSet(DOMAIN trend), DOMAIN trend \subseteq Nat
    PROVE  \A n \in Nat : \E g : Stacks(trend, g, n)
<1> DEFINE T == {n \in Nat : ~\E g : Stacks(trend, g, n)}
<1> SUFFICES ASSUME T # {} PROVE FALSE
  OBVIOUS
<1>1. PICK n \in T : \A m \in T : n <= m
  BY LeastNat
<1>2. \A S \in SUBSET DOMAIN trend : IsFiniteSet(S) /\ Cardinality(S) \in Nat /\ S \in SUBSET Nat
  BY FS_Subset, FS_CardinalityType
<1>3. n # 0
  <2> SUFFICES ASSUME n = 0 PROVE FALSE
    OBVIOUS
  <2> DEFINE g == [S \in SUBSET DOMAIN trend |-> <<>>]
  <2>1. \A S \in SUBSET DOMAIN trend : Cardinality(S) <= 0 => S = {}
    BY <1>2, FS_EmptySet
  <2>2. Stacks(trend, g, 0)
    BY <2>1 DEF Stacks, Stacked
  <2> QED BY <2>2
<1>4. n - 1 \in Nat /\ n - 1 \notin T
  BY <1>1, <1>3
<1>5. PICK g : Stacks(trend, g, n - 1)
  BY <1>4
<1> DEFINE h == [S \in SUBSET DOMAIN trend |-> IF Cardinality(S) = n THEN Stacked(trend, g, S) ELSE g[S]]
<1>6. ASSUME NEW S \in SUBSET DOMAIN trend, Cardinality(S) <= n PROVE h[S] = Stacked(trend, h, S)
  <2>1. CASE S = {}
    <3>1. Cardinality(S) = 0
      BY <2>1, FS_EmptySet
    <3>2. Cardinality(S) # n /\ Cardinality(S) <= n - 1
      BY <1>3, <1>4, <3>1
    <3>3. h[S] = g[S] /\ g[S] = Stacked(trend, g, S)
      BY <1>5, <3>2 DEF Stacks
    <3> QED BY <2>1, <3>3 DEF Stacked
  <2>2. CASE S # {}
    <3>1. Max(S) \in S /\ S \ {Max(S)} \in SUBSET DOMAIN trend
      BY <1>2, <2>2, MaxIn
    <3>2. Cardinality(S \ {Max(S)}) = Cardinality(S) - 1 /\ Cardinality(S) \in Nat
      BY <1>2, <3>1, Smaller
    <3>3. h[S \ {Max(S)}] = g[S \ {Max(S)}]
      BY <1>6, <3>1, <3>2
    <3>4. Stacked(trend, h, S) = Stacked(trend, g, S)
      BY <3>3 DEF Stacked
    <3>5. CASE Cardinality(S) = n
      BY <3>4, <3>5
    <3>6. CASE Cardinality(S) # n
      <4>1. h[S] = g[S] /\ Cardinality(S) <= n - 1
        BY <1>4, <1>6, <3>2, <3>6
      <4> QED BY <1>5, <3>4, <4>1 DEF Stacks
    <3> QED BY <3>5, <3>6
  <2> QED BY <2>1, <2>2
<1>7. Stacks(trend, h, n)
  BY <1>6 DEF Stacks
<1> QED BY <1>7

LEMMA StackStep ==
    ASSUME NEW trend, IsFiniteSet(DOMAIN trend), DOMAIN trend \subseteq Nat
    PROVE  \A S \in SUBSET DOMAIN trend : StackOf(trend)[S] = Stacked(trend, StackOf(trend), S)
<1> PICK N : N = Cardinality(DOMAIN trend)
  OBVIOUS
<1>1. N \in Nat /\ \A S \in SUBSET DOMAIN trend : Cardinality(S) <= N
  BY FS_Subset, FS_CardinalityType
<1>2. PICK g : Stacks(trend, g, N)
  BY <1>1, StacksUpTo
<1>3. \A S \in SUBSET DOMAIN trend : g[S] = Stacked(trend, g, S)
  BY <1>1, <1>2 DEF Stacks
<1>4. g = [S \in SUBSET DOMAIN trend |-> g[S]]
  BY <1>2 DEF Stacks
<1>5. g = [S \in SUBSET DOMAIN trend |-> Stacked(trend, g, S)]
  BY <1>3, <1>4
<1>6. StackOf(trend) = [S \in SUBSET DOMAIN trend |-> Stacked(trend, StackOf(trend), S)]
  BY <1>5 DEF StackOf
<1> QED BY <1>6

(* However long the trend, the stack holds at most max_open_count candles.   *)
LEMMA StackBounded ==
    ASSUME NEW trend, IsFiniteSet(DOMAIN trend), DOMAIN trend \subseteq Nat
    PROVE  /\ Stack(trend) \in Seq({trend[k] : k \in DOMAIN trend})
           /\ Len(Stack(trend)) \in 0 .. MaxOpenCount
<1> DEFINE V == {trend[k] : k \in DOMAIN trend}
           Fine(S) == StackOf(trend)[S] \in Seq(V) /\ Len(StackOf(trend)[S]) <= MaxOpenCount
           F == {S \in SUBSET DOMAIN trend : ~Fine(S)}
<1>1. MaxOpenCount \in Nat
  BY EngineAssumption
<1>2. \A S \in SUBSET DOMAIN trend : IsFiniteSet(S) /\ Cardinality(S) \in Nat /\ S \in SUBSET Nat
  BY FS_Subset, FS_CardinalityType
<1>3. F = {}
  <2> SUFFICES ASSUME F # {} PROVE FALSE
    OBVIOUS
  <2>1. PICK S \in F : \A U \in F : Cardinality(S) <= Cardinality(U)
    BY <1>2, SmallestSet
  <2>2. StackOf(trend)[S] = Stacked(trend, StackOf(trend), S)
    BY StackStep
  <2>3. CASE S = {}
    <3>1. StackOf(trend)[S] = <<>>
      BY <2>2, <2>3 DEF Stacked
    <3>2. <<>> \in Seq(V) /\ Len(<<>>) <= MaxOpenCount
      BY <1>1
    <3>3. Fine(S)
      BY <3>1, <3>2
    <3> QED
      BY <2>1, <3>3
  <2>4. CASE S # {}
    <3>1. Max(S) \in S /\ S \ {Max(S)} \in SUBSET DOMAIN trend
      BY <1>2, <2>4, MaxIn
    <3>2. Cardinality(S \ {Max(S)}) = Cardinality(S) - 1 /\ Cardinality(S) \in Nat
      BY <1>2, <3>1, Smaller
    <3>3. S \ {Max(S)} \notin F
      <4>1. ~(Cardinality(S) <= Cardinality(S \ {Max(S)}))
        BY <1>2, <3>1, <3>2
      <4> QED
        BY <2>1, <4>1
    <3> PICK s : s = StackOf(trend)[S \ {Max(S)}]
      OBVIOUS
    <3> PICK b : b = trend[Max(S)]
      OBVIOUS
    <3>4. s \in Seq(V) /\ Len(s) <= MaxOpenCount
      BY <3>1, <3>3
    <3>5. b \in V
      BY <3>1
    <3>6. StackOf(trend)[S] = s \/ (Room(Len(s)) /\ StackOf(trend)[S] = Append(s, b))
      BY <2>2, <2>4 DEF Stacked, Put
    <3>7. Room(Len(s)) => Len(s) + 1 <= MaxOpenCount
      BY <1>1, <3>4 DEF Room
    <3>8. Append(s, b) \in Seq(V) /\ Len(Append(s, b)) = Len(s) + 1
      BY <3>4, <3>5
    <3>9. Fine(S)
      BY <3>4, <3>6, <3>7, <3>8
    <3> QED
      BY <2>1, <3>9
  <2> QED
    BY <2>3, <2>4
<1>4. Fine(DOMAIN trend)
  BY <1>3
<1>5. /\ Stack(trend) \in Seq({trend[k] : k \in DOMAIN trend})
      /\ Len(Stack(trend)) \in Nat /\ Len(Stack(trend)) <= MaxOpenCount
  BY <1>4, StackIsFold
<1> QED
  BY <1>1, <1>5

-----------------------------------------------------------------------------
(* The engine's loop and the playground.  Outside a tick the playground is   *)
(* idle; an order that was sent is queued or the program has met a fault.    *)
Turns ==
    /\ pc = "ticking" <=> phase # "idle"
    /\ pc = "queue" <=> placing # None
    /\ phase = "margin" => pending = {}
    /\ Faultless /\ pc \in {"close", "closing", "open", "size", "place", "queue", "reply"} => pending = {}

(* What the client remembers of the position is right until an order trades, *)
(* and an order only trades in a tick.                                       *)
Remembers ==
    pc \in {"close", "closing", "open", "size", "place", "queue", "tick"} =>
        account = position[Symbol].quantity \/ gaveUp > 0

(* What the engine places: to close everything is to close what it remembers.*)
ClosesAll ==
    \/ account > 0 /\ job.request = Ask("sell", account, None)
    \/ account < 0 /\ job.request = Ask("buy_to_cover", -account, None)
Plans == [stop : Nat, count : 0 .. MaxOpenCount, at : 0 .. Len(bars)]
Jobs ==
    \/ job = Main
    \/ /\ job.kind \in {"close", "open", "all"} /\ job.request \in Asked
       /\ job.meant \in Slots \cup {None} /\ job.plan \in Plans
Placing ==
    pc \in {"place", "queue"} => job.kind \in {"close", "open", "all"} /\ (job.kind = "all" => ClosesAll)

(* What a close signal asks for is an order with an id of a user order.      *)
UserSlots ==
    /\ placing # None => placing <= MaxOrders
    /\ \A i \in pending : i <= MaxOrders
    /\ \A i \in open[Symbol] : i <= MaxOrders
Asks ==
    \A s \in signals :
        /\ s.from \in Slots /\ s.quantity \in Nat \ {0}
        /\ s.meant \in Slots \cup {None} /\ (s.meant # None => s.meant <= MaxOrders)

Labels ==
    {"close", "closing", "open", "size", "place", "queue", "tick", "ticking", "reply", "finished", "dead"}
Loop ==
    /\ pc \in Labels /\ bars \in Seq(Bars) /\ Len(bars) > 0
    /\ fresh \in BOOLEAN /\ account \in Int
    /\ plan \in [Slots -> Plans] /\ meant \in [Slots -> Slots \cup {None}] /\ late \subseteq Slots
    /\ lost \in Nat /\ gaveUp \in Nat /\ lost + gaveUp <= MaxFaults

Running == complete \/ clock < EndTime
EngineInv ==
    Sound /\ UserSlots /\ Running /\ Loop /\ Turns /\ Remembers /\ Jobs /\ Placing /\ Asks /\ DiesOnlyOfFaults

LEMMA TheSymbol == Symbol \in Symbols
BY EngineAssumption

LEMMA Constants ==
    /\ MaxOpenCount \in Nat /\ MaxOpenCount > 0 /\ MaxFaults \in Nat /\ MaxOrders \in Nat
    /\ Ratio \in Nat /\ EndTime \in Nat /\ EndTime > 0
    /\ History \in Seq(Bars) /\ Len(History) > 0
    /\ \A q \in Quantities : q \in Nat \ {0}
    /\ \A b \in Bars : b.line \in Nat
    /\ \A t \in 0 .. EndTime - 1 : Feed[t] \subseteq Bars
<1>1. \E k \in 2 .. Len(History) : TRUE
  BY EngineAssumption
<1>2. History \in Seq(Bars)
  BY EngineAssumption
<1>3. Len(History) > 0
  BY <1>1, <1>2
<1>4. \A b \in Bars : b.line \in Nat
  BY EngineAssumption
<1> QED
  BY <1>2, <1>3, <1>4, EngineAssumption, SimulatorAssumption

(* The candles since the trend began are finitely many.                      *)
LEMMA TrendFinite ==
    ASSUME bars \in Seq(Bars), Len(bars) > 0
    PROVE  IsFiniteSet(DOMAIN Trend) /\ DOMAIN Trend \subseteq Nat
<1> DEFINE turns == {k \in 2 .. Len(bars) : bars[k].dir # Candle.dir}
           m == IF turns = {} THEN Len(bars) ELSE Max(turns) + 1
<1>1. Trend = SubSeq(bars, m, Len(bars))
  BY DEF Trend
<1>2. IsFiniteSet(turns) /\ turns \in SUBSET Nat
  <2>1. turns \in SUBSET (2 .. Len(bars)) /\ Len(bars) \in Nat
    OBVIOUS
  <2>2. IsFiniteSet(2 .. Len(bars))
    BY <2>1, FS_Interval
  <2> QED
    BY <2>1, <2>2, FS_Subset
<1>3. m \in 1 .. Len(bars) + 1
  <2>1. CASE turns = {}
    BY <2>1
  <2>2. CASE turns # {}
    <3>1. Max(turns) \in turns
      BY <1>2, <2>2, MaxIn
    <3> QED
      BY <2>2, <3>1
  <2> QED
    BY <2>1, <2>2
<1> HIDE DEF m
<1>4. SubSeq(bars, m, Len(bars)) \in Seq(Bars)
  BY <1>3
<1>5. PICK n \in Nat : DOMAIN Trend = 1 .. n
  BY <1>1, <1>4
<1> QED
  BY <1>5, FS_Interval

LEMMA StackCount ==
    ASSUME bars \in Seq(Bars), Len(bars) > 0 PROVE Len(Stack(Trend)) \in 0 .. MaxOpenCount
BY TrendFinite, StackBounded

LEMMA CandleIsBar == ASSUME bars \in Seq(Bars), Len(bars) > 0 PROVE Candle \in Bars
BY DEF Candle, Last

-----------------------------------------------------------------------------
(* The playground's part of a step.                                          *)
LEMMA ServerStep == ASSUME EngineInv, [Step]_vars PROVE AnyStep
<1>1. CASE UNCHANGED vars
  BY <1>1 DEF vars, AnyStep
<1>2. ASSUME Place PROVE AnyStep
  <2>1. job.request \in Asked
    BY <1>2 DEF EngineInv, Jobs, Placing, Place, Main
  <2>2. CheckOrder(job.request) \/ UNCHANGED simVars
    BY <1>2 DEF Place
  <2> QED
    BY <2>1, <2>2 DEF AnyStep
<1>3. ASSUME Tick PROVE AnyStep
  <2>1. BeginTick(job = Main) /\ (job = Main) \in BOOLEAN
    BY <1>3 DEF Tick
  <2> QED
    BY <2>1 DEF AnyStep
<1>4. ASSUME Answered \/ ReplyLost PROVE AnyStep
  BY <1>4 DEF Answered, ReplyLost, AnyStep
<1>5. ASSUME Ticking PROVE AnyStep
  BY <1>5 DEF Ticking, AnyStep
<1>6. ASSUME Close \/ NextClose \/ Open \/ SizeOrder \/ Reply \/ GiveUp PROVE AnyStep
  BY <1>6 DEF Close, NextClose, Open, SizeOrder, Reply, GiveUp, AnyStep
<1> QED
  BY <1>1, <1>2, <1>3, <1>4, <1>5, <1>6 DEF Step

(* What a fill or a rejection in a tick leaves of the orders.                *)
LEMMA FillOpens ==
    ASSUME Kinds, NEW i, NEW r, NEW a, Fill(i, r, a), r.symbol \in Symbols
    PROVE  open'[Symbol] \subseteq open[Symbol] \cup Opened(i, r)
BY TheSymbol DEF Fill, Kinds

LEMMA UserSlotsStep == ASSUME Sound, UserSlots, AnyStep PROVE UserSlots'
<1>1. Kinds /\ BooksInv
  BY DEF Sound, BooksInv
<1>2. ASSUME NEW r \in Asked, CheckOrder(r) PROVE UserSlots'
  <2>1. placing' = placing \/ (placing' = nonce + 1 /\ nonce < MaxOrders)
    BY <1>2 DEF CheckOrder
  <2>2. UNCHANGED <<pending, open>>
    BY <1>2 DEF CheckOrder
  <2>3. nonce < MaxOrders => nonce + 1 <= MaxOrders
    BY <1>1, Constants DEF Kinds
  <2> QED
    BY <2>1, <2>2, <2>3 DEF UserSlots
<1>3. ASSUME QueueOrder PROVE UserSlots'
  BY <1>3 DEF UserSlots, QueueOrder
<1>4. ASSUME NEW i \in pending, Commit(i) PROVE UserSlots'
  <2>1. placing' = placing /\ pending' \subseteq pending
    BY <1>4 DEF Commit, Fill, Reject, Ledger
  <2>2. open'[Symbol] \subseteq open[Symbol] \cup {i}
    <3>1. order[i].symbol \in Symbols
      BY <1>1 DEF BooksInv, Waiting, Asked, Order, Kinds
    <3>2. CASE \E a \in Closings(order[i]) : Fill(i, order[i], a)
      BY <1>1, <3>1, <3>2, FillOpens DEF Opened
    <3>3. CASE Reject(i, order[i])
      BY <3>3 DEF Reject
    <3> QED
      BY <1>4, <3>2, <3>3 DEF Commit
  <2> QED
    BY <2>1, <2>2 DEF UserSlots
<1>5. ASSUME NEW s \in Symbols, Liquidate(s) PROVE UserSlots'
  <2>1. PICK a : Fill(nonce', Liquidation(s), a)
    BY <1>5 DEF Liquidate
  <2>2. placing' = placing /\ pending' \subseteq pending
    BY <1>5, <2>1 DEF Liquidate, Fill, Ledger
  <2>3. Liquidation(s).symbol = s /\ Opened(nonce', Liquidation(s)) = {}
    BY DEF Liquidation, Opened, Opening
  <2>4. open'[Symbol] \subseteq open[Symbol]
    BY <1>1, <2>1, <2>3, FillOpens
  <2> QED
    BY <2>2, <2>4 DEF UserSlots
<1>6. ASSUME \/ \E moves \in BOOLEAN : BeginTick(moves)
             \/ CheckMargin
             \/ Advance
             \/ UNCHANGED simVars
      PROVE  UserSlots'
  BY <1>6 DEF UserSlots, BeginTick, CheckMargin, Advance, simVars, books
<1> QED
  BY <1>2, <1>3, <1>4, <1>5, <1>6 DEF AnyStep, TickStep

LEMMA RunningStep == ASSUME Sound, Running, AnyStep PROVE Running'
<1>1. CASE UNCHANGED <<clock, complete>>
  BY <1>1 DEF Running
<1>2. CASE Advance
  <2>1. clock' \in 0 .. EndTime /\ (clock' = EndTime => complete' = TRUE)
    BY <1>2, Constants DEF Advance, Sound, TypeOK
  <2> QED
    BY <2>1, Constants DEF Running
<1> QED
  BY <1>1, <1>2
  DEF AnyStep, TickStep, CheckOrder, QueueOrder, BeginTick, Commit, CheckMargin, Liquidate, simVars, feed

-----------------------------------------------------------------------------
(* What is left of open orders, as a sum of a function.                      *)
RestAt(ord, cl, i) == ord[i].quantity - cl[i]
Rests(ord, cl) == [i \in Slots |-> RestAt(ord, cl, i)]
RestSum(ord, cl, S) == MapThenSumSet(LAMBDA i : RestAt(ord, cl, i), S)

LEMMA RestIsSum ==
    ASSUME NEW ord, NEW cl, NEW S \in SUBSET Slots
    PROVE  RestSum(ord, cl, S) = SumFunctionOnSet(Rests(ord, cl), S)
<1> DEFINE f == Rests(ord, cl)
           At(g, s) == IF s = {} THEN 0 ELSE RestAt(ord, cl, Pick(s)) + g[s \ {Pick(s)}]
           G == CHOOSE g : g = [s \in SUBSET S |-> At(g, s)]
<1>1. RestSum(ord, cl, S) = G[S]
  BY DEF RestSum, MapThenSumSet, MapThenFoldSet, Pick
<1>2. \A s \in SUBSET S : s # {} => f[Pick(s)] = RestAt(ord, cl, Pick(s))
  BY PickIn DEF Rests
<1>3. \A g : [s \in SUBSET S |-> At(g, s)] = [s \in SUBSET S |-> Take(f, g, s)]
  BY <1>2 DEF Take
<1>4. G = Fold(f, S)
  BY ONLY <1>3, Zenon DEF Fold
<1> QED BY <1>1, <1>4, SumIsFold

LEMMA RestOfTheState == MapThenSumSet(Remaining, open[Symbol]) = RestSum(order, closed, open[Symbol])
BY DEF RestSum, RestAt, Remaining, MapThenSumSet, MapThenFoldSet

(* The open orders of the symbol: each a user order with something left, all *)
(* of them together what the position is.                                    *)
OpenRest == [i \in open[Symbol] |-> Remaining(i)]

LEMMA OpenRestSums ==
    ASSUME Sound
    PROVE  /\ open[Symbol] \in SUBSET Slots /\ IsFiniteSet(open[Symbol])
           /\ \A i \in open[Symbol] : Remaining(i) \in Nat /\ Remaining(i) > 0 /\ ~order[i].forced
           /\ \A i \in open[Symbol] : Remaining(i) <= SumFunctionOnSet(OpenRest, open[Symbol])
           /\ RestSum(order, closed, open[Symbol]) = SumFunctionOnSet(OpenRest, open[Symbol])
           /\ SumFunctionOnSet(OpenRest, open[Symbol]) \in Nat
           /\ position[Symbol].quantity \in Int
           /\ SumFunctionOnSet(OpenRest, open[Symbol]) = Larger(position[Symbol].quantity, -position[Symbol].quantity)
<1> PICK O : O = open[Symbol]
  OBVIOUS
<1> PICK q : q = position[Symbol].quantity
  OBVIOUS
<1> PICK f : f = OpenRest
  OBVIOUS
<1> PICK g : g = Lefts(order, closed)
  OBVIOUS
<1>1. /\ Kinds /\ Filled /\ InCache /\ Listed /\ BooksAgree /\ OneSide /\ q \in Int
      /\ O \in SUBSET Slots /\ IsFiniteSet(O)
  BY TheSymbol, SlotsAreFinite, LongOrShort DEF Sound, BooksInv, Accounts, Kinds
<1>2. \A i \in O :
        /\ i \in Slots /\ order[i].side \in {"buy", "sell_short"}
        /\ order[i].quantity \in Nat /\ closed[i] \in Nat /\ order[i].quantity - closed[i] > 0
  BY <1>1, TheSymbol, OpenOrders
<1>3. \A i \in O : Remaining(i) \in Nat /\ Remaining(i) > 0 /\ f[i] = Remaining(i)
  BY <1>2 DEF Remaining, OpenRest
<1>4. \A i \in O : ~order[i].forced
  BY <1>1, TheSymbol DEF InCache, Filled, Asked
<1>5. SumFunctionOnSet(f, O) \in Nat /\ \A i \in O : f[i] <= SumFunctionOnSet(f, O)
  BY <1>1, <1>3, SumSign
<1>6. RestSum(order, closed, O) = SumFunctionOnSet(f, O)
  <2>1. \A i \in O : Rests(order, closed)[i] = f[i]
    BY <1>2, <1>3 DEF Rests, RestAt, Remaining
  <2> QED
    BY <1>1, <2>1, SumSame, RestIsSum
<1>7. SumFunctionOnSet(g, O) = q
  BY <1>1, TheSymbol, BooksSum, LeftIsSum DEF BooksFit
<1>8. SumFunctionOnSet(f, O) = Larger(q, -q)
  <2>1. CASE q = 0
    <3>1. O = {}
      BY <1>1, <2>1, TheSymbol, LongOrShort
    <3> QED
      BY <2>1, <3>1, SumEmpty DEF Larger
  <2>2. CASE q > 0
    <3>1. \A i \in O : order[i].side = "buy"
      BY <1>1, <2>2, TheSymbol, LongOrShort
    <3>2. \A i \in O : f[i] = g[i]
      BY <1>2, <1>3, <3>1 DEF Lefts, LeftAt, Remaining
    <3>3. SumFunctionOnSet(f, O) = SumFunctionOnSet(g, O)
      BY <1>1, <3>2, SumSame
    <3> QED
      BY <1>1, <1>7, <2>2, <3>3 DEF Larger
  <2>3. CASE q < 0
    <3> PICK z : z = [i \in O |-> 0]
      OBVIOUS
    <3>1. \A i \in O : order[i].side = "sell_short"
      BY <1>1, <2>3, TheSymbol, LongOrShort
    <3>2. \A i \in O : f[i] \in Int /\ g[i] \in Int /\ z[i] = f[i] + g[i]
      BY <1>2, <1>3, <3>1 DEF Lefts, LeftAt, Remaining
    <3>3. SumFunctionOnSet(z, O) = SumFunctionOnSet(f, O) + SumFunctionOnSet(g, O)
      BY <1>1, <3>2, SumOfSums
    <3>4. SumFunctionOnSet(z, O) = 0
      BY <1>1, SumOfZeros
    <3> QED
      BY <1>1, <1>5, <1>7, <2>3, <3>3, <3>4 DEF Larger
  <2> QED
    BY <1>1, <2>1, <2>2, <2>3
<1> QED
  BY <1>1, <1>3, <1>4, <1>5, <1>6, <1>8

(* While no call failed, the server takes an order that closes everything:   *)
(* nothing is pending, and each open order is closed by what is left of it.  *)
SweepsAll(r) ==
    LET q == position[Symbol].quantity
    IN  \/ q > 0 /\ r = Ask("sell", q, None)
        \/ q < 0 /\ r = Ask("buy_to_cover", -q, None)

LEMMA CloseAllIsTaken ==
    ASSUME Sound, NEW r, SweepsAll(r)
    PROVE  /\ Allowed(r) /\ Closings(r) # {}
           /\ pending = {} => PendingClosesFit(r) /\ Placeable(r)
<1> PICK q : q = position[Symbol].quantity
  OBVIOUS
<1>1. /\ q \in Int /\ r.symbol = Symbol /\ r.target = None
      /\ \/ q > 0 /\ r.side = "sell" /\ r.quantity = q
         \/ q < 0 /\ r.side = "buy_to_cover" /\ r.quantity = -q
  BY OpenRestSums DEF SweepsAll, Ask
<1>2. PendingClosesFit(r)
  BY <1>1 DEF PendingClosesFit
<1>3. ASSUME pending = {}
      PROVE  SideAllowed(r.side, position[r.symbol].quantity + Net({i \in pending : order[i].symbol = r.symbol}))
  <2>1. NetSum(order, {}) = 0
    BY NetIsSum, SumEmpty
  <2>2. {i \in pending : order[i].symbol = r.symbol} = {}
    BY <1>3
  <2>3. Net({i \in pending : order[i].symbol = r.symbol}) = 0
    BY <2>1, <2>2, SumsOfTheState
  <2> QED
    BY <1>1, <2>3 DEF SideAllowed
<1>4. Allowed(r)
  <2>1. SideAllowed(r.side, position[r.symbol].quantity)
    BY <1>1 DEF SideAllowed
  <2>2. r.quantity <= Larger(q, -q)
    BY <1>1 DEF Larger
  <2>3. q * Signed(r) < 0
    <3>1. Signed(r) = -q /\ q * (-q) < 0
      BY <1>1, Signs DEF Signed
    <3> QED
      BY <3>1
  <2> QED
    BY <1>1, <2>1, <2>2, <2>3 DEF Allowed, Tradable
<1>5. IsClose(r) /\ r.quantity = Larger(q, -q) /\ r.quantity \in Nat
  <2>1. Signed(r) = -q
    BY <1>1 DEF Signed
  <2>2. q * (-q) < 0
    BY <1>1, Signs
  <2> QED
    BY <1>1, <2>1, <2>2 DEF IsClose, Larger
<1>6. OpenRest \in Closings(r)
  <2>1. /\ \A i \in open[Symbol] : Remaining(i) \in Nat /\ Remaining(i) <= r.quantity
        /\ SumFunctionOnSet(OpenRest, open[Symbol]) = r.quantity
    BY <1>5, OpenRestSums
  <2>2. OpenRest \in [open[Symbol] -> 0 .. r.quantity]
    BY <1>5, <2>1 DEF OpenRest
  <2>3. \A i \in open[Symbol] : OpenRest[i] = Remaining(i) /\ Fits(i, OpenRest[i])
    BY <2>1 DEF OpenRest, Fits
  <2> QED
    BY <1>1, <1>5, <2>1, <2>2, <2>3, ClosingsWitness
<1> QED
  BY <1>2, <1>3, <1>4, <1>6 DEF Placeable

(* A close signal asks for a quantity, of an order with a user's id.         *)
LEMMA CloseSignalsAsk ==
    ASSUME Sound, UserSlots, NEW s \in CloseSignals
    PROVE  /\ s.from \in Slots /\ s.quantity \in Nat \ {0}
           /\ s.meant \in Slots \cup {None} /\ (s.meant # None => s.meant <= MaxOrders)
<1>1. /\ open[Symbol] \in SUBSET Slots
      /\ \A i \in open[Symbol] : Remaining(i) \in Nat \ {0} /\ i <= MaxOrders
  BY OpenRestSums DEF UserSlots
<1>2. \A i \in open[Symbol] : MapThenSumSet(Remaining, open[Symbol]) \in Nat \ {0}
  <2> TAKE i \in open[Symbol]
  <2>1. /\ RestSum(order, closed, open[Symbol]) \in Nat
        /\ Remaining(i) <= RestSum(order, closed, open[Symbol]) /\ Remaining(i) \in Nat /\ Remaining(i) > 0
    BY OpenRestSums
  <2>2. RestSum(order, closed, open[Symbol]) > 0
    BY <2>1
  <2> QED
    BY <2>1, <2>2, RestOfTheState
<1>3. \/ \E i \in open[Symbol] : s = [from |-> i, why |-> "order", meant |-> i, quantity |-> Remaining(i)]
      \/ \E i \in open[Symbol] : s = [from |-> i, why |-> "tp", meant |-> None,
                                      quantity |-> MapThenSumSet(Remaining, open[Symbol])]
  BY DEF CloseSignals
<1>4. CASE \E i \in open[Symbol] : s = [from |-> i, why |-> "order", meant |-> i, quantity |-> Remaining(i)]
  BY <1>1, <1>4
<1>5. CASE \E i \in open[Symbol] : s = [from |-> i, why |-> "tp", meant |-> None,
                                        quantity |-> MapThenSumSet(Remaining, open[Symbol])]
  BY <1>1, <1>2, <1>5
<1> QED
  BY <1>3, <1>4, <1>5

-----------------------------------------------------------------------------
(* What the engine's steps leave alone.                                      *)
LEMMA CallsKeepPosition ==
    ASSUME \/ \E r : CheckOrder(r)
           \/ QueueOrder
           \/ \E moves : BeginTick(moves)
           \/ UNCHANGED simVars
    PROVE  position' = position
BY DEF CheckOrder, QueueOrder, BeginTick, simVars, books

(* Candles are only added: entries made of earlier ones stay entries.        *)
LEMMA PlansStay ==
    ASSUME Loop, bars' = bars \/ \E b \in Bars : bars' = Append(bars, b)
    PROVE  bars' \in Seq(Bars) /\ Len(bars') > 0 /\ Plans \subseteq Plans'
<1>1. bars \in Seq(Bars) /\ Len(bars) \in Nat /\ Len(bars) > 0
  BY DEF Loop
<1>2. bars' \in Seq(Bars) /\ Len(bars') \in Nat /\ Len(bars') >= Len(bars)
  BY <1>1
<1>3. 0 .. Len(bars) \subseteq 0 .. Len(bars')
  BY <1>1, <1>2
<1> QED
  BY <1>1, <1>2, <1>3 DEF Plans

LEMMA BarsStep ==
    ASSUME EngineInv, [Step]_vars PROVE bars' = bars \/ \E b \in Bars : bars' = Append(bars, b)
<1>1. ASSUME Reply PROVE bars' = bars \/ \E b \in Bars : bars' = Append(bars, b)
  <2>1. \/ bars' = bars
        \/ ~complete /\ \E b \in Feed[clock] : bars' = Append(bars, b)
    BY <1>1 DEF Reply
  <2>2. ~complete => clock \in 0 .. EndTime - 1
    BY Constants DEF EngineInv, Running, Sound, TypeOK
  <2> QED
    BY <2>1, <2>2, Constants
<1> QED
  BY <1>1
  DEF Step, Close, NextClose, Open, SizeOrder, Place, Answered, ReplyLost, Tick, Ticking, GiveUp, vars, engineVars, loop

LEMMA AskedOf ==
    ASSUME NEW side \in Sides, NEW q \in Nat \ {0}, NEW target \in Ids \cup {None}
    PROVE  Ask(side, q, target) \in Asked
BY TheSymbol DEF Ask, Asked, Order

LEMMA IdOf == \A i \in Slots : i <= MaxOrders => Id(i) \in Ids
<1> TAKE i \in Slots
<1> HAVE i <= MaxOrders
<1>1. i \in Nat /\ i >= 1 /\ MaxOrders \in Nat
  BY SlotsCount, SimulatorAssumption
<1> QED
  BY <1>1 DEF Id, Ids

LEMMA EmptyTarget == TargetId(None) = None
BY DEF TargetId

LEMMA TargetOf ==
    ASSUME NEW i \in Slots \cup {None}, i # None => i <= MaxOrders
    PROVE  TargetId(i) \in Ids \cup {None}
BY IdOf DEF TargetId

(* The job of a step: the next close, everything, or an order of the size    *)
(* the strategy gave.                                                        *)
LEMMA NewJobs ==
    ASSUME EngineInv, job' # job, job' # Main, [Step]_vars
    PROVE  /\ job'.kind \in {"close", "open", "all"} /\ job'.request \in Asked
           /\ job'.meant \in Slots \cup {None} /\ job'.plan \in Plans
           /\ job'.kind = "all" =>
                 \/ account > 0 /\ job'.request = Ask("sell", account, None)
                 \/ account < 0 /\ job'.request = Ask("buy_to_cover", -account, None)
<1>1. Loop /\ Asks /\ account \in Int
  BY DEF EngineInv, Loop
<1>2. NoPlan \in Plans
  BY <1>1, Constants DEF NoPlan, Plans, Loop
<1>3. CASE NextClose
  <2>1. PICK s \in signals :
          Working("close",
                  Ask(IF order[s.from].side = "buy" THEN "sell" ELSE "buy_to_cover", s.quantity, TargetId(s.meant)),
                  s.meant, NoPlan)
    BY <1>3 DEF NextClose
  <2> PICK side : side = IF order[s.from].side = "buy" THEN "sell" ELSE "buy_to_cover"
    OBVIOUS
  <2>2. side \in Sides
    BY DEF Sides
  <2>3. /\ s.quantity \in Nat \ {0} /\ s.meant \in Slots \cup {None}
        /\ TargetId(s.meant) \in Ids \cup {None}
    BY <1>1, TargetOf DEF Asks
  <2>4. Ask(side, s.quantity, TargetId(s.meant)) \in Asked
    BY <2>2, <2>3, AskedOf
  <2> QED
    BY <1>2, <2>1, <2>3, <2>4 DEF Working
<1>4. CASE Open
  <2>1. \/ account > 0 /\ Working("all", Ask("sell", account, None), None, NoPlan)
        \/ account < 0 /\ Working("all", Ask("buy_to_cover", -account, None), None, NoPlan)
    BY <1>4 DEF Open, StartTick
  <2>2. CASE account > 0 /\ Working("all", Ask("sell", account, None), None, NoPlan)
    <3>1. Ask("sell", account, None) \in Asked
      BY <1>1, <2>2, AskedOf DEF Sides
    <3> QED
      BY <1>2, <2>2, <3>1 DEF Working
  <2>3. CASE account < 0 /\ Working("all", Ask("buy_to_cover", -account, None), None, NoPlan)
    <3>1. -account \in Nat \ {0}
      BY <1>1, <2>3
    <3>2. Ask("buy_to_cover", -account, None) \in Asked
      BY <3>1, AskedOf DEF Sides
    <3> QED
      BY <1>2, <2>3, <3>2 DEF Working
  <2> QED
    BY <2>1, <2>2, <2>3
<1>5. CASE SizeOrder
  <2>1. PICK n \in Quantities :
          Working("open", Ask(EntrySide, n, None), None,
                  [stop |-> Candle.line, count |-> Len(Stack(Trend)), at |-> Len(bars)])
    BY <1>5 DEF SizeOrder, StartTick
  <2>2. Ask(EntrySide, n, None) \in Asked
    BY Constants, AskedOf DEF EntrySide, Sides
  <2> PICK p : p = [stop |-> Candle.line, count |-> Len(Stack(Trend)), at |-> Len(bars)]
    OBVIOUS
  <2>3. p \in Plans
    <3>1. Candle.line \in Nat /\ Len(Stack(Trend)) \in 0 .. MaxOpenCount /\ Len(bars) \in 0 .. Len(bars)
      BY <1>1, Constants, CandleIsBar, StackCount DEF Loop
    <3> QED
      BY <3>1 DEF Plans
  <2> QED
    BY <2>1, <2>2, <2>3 DEF Working
<1>6. ~(UNCHANGED vars \/ Close \/ Place \/ Answered \/ ReplyLost \/ Tick \/ Ticking \/ Reply \/ GiveUp)
  BY DEF Close, Place, Fail, Answered, StartTick, ReplyLost, Tick, Ticking, Reply, GiveUp, vars, engineVars
<1> QED
  BY <1>3, <1>4, <1>5, <1>6 DEF Step

LEMMA JobsStep == ASSUME EngineInv, [Step]_vars PROVE Jobs'
<1>1. Jobs /\ Plans \subseteq Plans'
  BY BarsStep, PlansStay DEF EngineInv
<1>2. CASE job' = job
  BY <1>1, <1>2 DEF Jobs
<1>3. CASE job' = Main
  BY <1>3 DEF Jobs
<1>4. CASE job' # job /\ job' # Main
  BY <1>1, <1>4, NewJobs DEF Jobs
<1> QED
  BY <1>2, <1>3, <1>4

LEMMA PlacingJob ==
    ASSUME EngineInv, pc = "place"
    PROVE  /\ job.kind \in {"close", "open", "all"} /\ job.request \in Asked
           /\ job.meant \in Slots \cup {None} /\ job.plan \in Plans
           /\ job.kind = "all" => ClosesAll
BY DEF EngineInv, Jobs, Placing, Main

LEMMA LoopStep == ASSUME EngineInv, Sound', [Step]_vars PROVE Loop'
<1>1. Loop /\ position' \in Positions
  BY DEF EngineInv, Sound, Accounts, Counted
<1>2. bars' \in Seq(Bars) /\ Len(bars') > 0 /\ Plans \subseteq Plans'
  BY <1>1, BarsStep, PlansStay
<1>3. pc' \in Labels
  BY <1>1 DEF Step, Close, NextClose, Open, SizeOrder, Place, Answered, ReplyLost, Tick, Ticking, Reply, GiveUp,
     Enter, Fail, StartTick, vars, engineVars, Loop, Labels
<1>4. fresh' \in BOOLEAN
  BY <1>1 DEF Step, Close, NextClose, Open, SizeOrder, Place, Answered, ReplyLost, Tick, Ticking, Reply, GiveUp,
     vars, engineVars, loop, Loop
<1>5. account' \in Int
  <2>1. account' = account \/ account' = position[Symbol].quantity
    BY DEF Step, Close, NextClose, Open, SizeOrder, Place, Answered, ReplyLost, Tick, Ticking, Reply, GiveUp,
       vars, engineVars, loop, Refreshed
  <2>2. position[Symbol].quantity \in Int
    BY OpenRestSums DEF EngineInv
  <2> QED
    BY <1>1, <2>1, <2>2 DEF Loop
<1>6. plan' \in [Slots -> Plans'] /\ meant' \in [Slots -> Slots \cup {None}]
  <2>1. CASE UNCHANGED <<plan, meant>>
    BY <1>1, <1>2, <2>1 DEF Loop
  <2>2. CASE /\ pc = "place"
             /\ plan' = [plan EXCEPT ![placing'] = job.plan]
             /\ meant' = [meant EXCEPT ![placing'] = job.meant]
    BY <1>1, <1>2, <2>2, PlacingJob DEF Loop
  <2> QED
    BY <2>1, <2>2 DEF Step, Close, NextClose, Open, SizeOrder, Place, Answered, ReplyLost, Tick, Ticking, Reply, GiveUp,
       vars, engineVars
<1>7. late' \subseteq Slots
  <2>1. late' = late \/ late' \subseteq open[Symbol]
    BY DEF Step, Close, NextClose, Open, SizeOrder, Place, Answered, ReplyLost, Tick, Ticking, Reply, GiveUp,
       vars, engineVars, loop, Late
  <2> QED
    BY <1>1, <2>1, OpenRestSums DEF Loop, EngineInv
<1>8. lost' \in Nat /\ gaveUp' \in Nat /\ lost' + gaveUp' <= MaxFaults
  <2>1. \/ UNCHANGED <<lost, gaveUp>>
        \/ lost + gaveUp < MaxFaults /\ lost' = lost + 1 /\ gaveUp' = gaveUp
        \/ lost + gaveUp < MaxFaults /\ gaveUp' = gaveUp + 1 /\ lost' = lost
    BY DEF Step, Close, NextClose, Open, SizeOrder, Place, Answered, ReplyLost, Tick, Ticking, Reply, GiveUp,
       vars, engineVars, faults
  <2> QED
    BY <1>1, <2>1, Constants DEF Loop
<1> QED
  BY <1>2, <1>3, <1>4, <1>5, <1>6, <1>7, <1>8 DEF Loop

(* How a tick goes on: an order waits for its turn or none does.             *)
LEMMA TickTurns ==
    ASSUME TickStep, Turns
    PROVE  /\ phase' \in {"idle", "commit", "margin"} /\ placing' = placing
           /\ phase' # "commit" => pending' = {}
           /\ phase # "idle"
<1>1. ASSUME NEW i \in pending, Commit(i)
      PROVE  phase' = "commit" /\ phase = "commit" /\ placing' = placing
  BY <1>1 DEF Commit
<1>2. ASSUME CheckMargin PROVE phase' = "margin" /\ phase = "commit" /\ placing' = placing /\ pending' = {}
  BY <1>2 DEF CheckMargin, books
<1>3. ASSUME NEW s \in Symbols, Liquidate(s)
      PROVE  phase' = "margin" /\ phase = "margin" /\ placing' = placing /\ pending' = {}
  BY <1>3 DEF Liquidate, Fill, Ledger, Turns
<1>4. ASSUME Advance PROVE phase' = "idle" /\ phase = "margin" /\ placing' = placing /\ pending' = {}
  BY <1>4 DEF Advance, books, Turns
<1> QED
  BY <1>1, <1>2, <1>3, <1>4 DEF TickStep

LEMMA TurnsStep == ASSUME EngineInv, Sound', [Step]_vars PROVE Turns'
<1>1. Turns /\ pc \in Labels /\ lost \in Nat /\ gaveUp \in Nat
  BY DEF EngineInv, Loop
<1>2. ASSUME Close \/ NextClose \/ Open \/ SizeOrder \/ UNCHANGED vars PROVE Turns'
  BY <1>1, <1>2 DEF Close, NextClose, Open, SizeOrder, vars, engineVars, faults, Enter, StartTick,
     simVars, books, Turns, Faultless
<1>3. ASSUME Place PROVE Turns'
  <2>1. /\ pc = "place" /\ phase = "idle" /\ placing = None /\ UNCHANGED <<lost, gaveUp>>
        /\ pc' \in {"queue", "closing", "tick", "dead"}
        /\ pc' = "queue" <=> placing' # None
        /\ phase' = phase /\ pending' = pending
    BY <1>1, <1>3 DEF Place, CheckOrder, Fail, Enter, faults, simVars, books, Turns
  <2> QED
    BY <1>1, <2>1 DEF Turns, Faultless
<1>4. ASSUME Answered PROVE Turns'
  BY <1>1, <1>4 DEF Answered, QueueOrder, StartTick, Enter, Turns
<1>5. ASSUME ReplyLost PROVE Turns'
  <2>1. ~Faultless'
    BY <1>1, <1>5 DEF ReplyLost, Faultless
  <2> QED
    BY <1>1, <1>5, <2>1 DEF ReplyLost, QueueOrder, Enter, Turns
<1>6. ASSUME Tick PROVE Turns'
  BY <1>1, <1>6 DEF Tick, BeginTick, Enter, books, Turns
<1>7. ASSUME Ticking PROVE Turns'
  <2>1. /\ phase' \in {"idle", "commit", "margin"} /\ placing' = placing
        /\ phase' # "commit" => pending' = {}
        /\ phase # "idle"
    BY <1>1, <1>7, TickTurns DEF Ticking
  <2>2. pc = "ticking" /\ pc' = IF phase' = "idle" THEN "reply" ELSE "ticking"
    BY <1>7 DEF Ticking, Enter
  <2> QED
    BY <1>1, <2>1, <2>2 DEF Turns
<1>8. ASSUME Reply PROVE Turns'
  BY <1>1, <1>8 DEF Reply, Enter, simVars, books, faults, Turns, Faultless
<1>9. ASSUME GiveUp PROVE Turns'
  <2>1. ~Faultless'
    BY <1>1, <1>9 DEF GiveUp, Faultless
  <2>2. /\ pc \in {"close", "open", "place", "tick", "reply"} /\ pc' \in {"dead", "closing", "tick"}
        /\ UNCHANGED <<phase, placing, pending>>
    BY <1>9 DEF GiveUp, Fail, Enter, simVars, books
  <2> QED
    BY <1>1, <2>1, <2>2 DEF Turns
<1> QED
  BY <1>2, <1>3, <1>4, <1>5, <1>6, <1>7, <1>8, <1>9 DEF Step

LEMMA RemembersStep == ASSUME EngineInv, [Step]_vars PROVE Remembers'
<1>1. Remembers /\ pc \in Labels /\ gaveUp \in Nat
  BY DEF EngineInv, Loop
<1>2. ASSUME Close \/ NextClose \/ Open \/ SizeOrder \/ UNCHANGED vars PROVE Remembers'
  BY <1>1, <1>2 DEF Close, NextClose, Open, SizeOrder, vars, engineVars, loop, faults, Enter, StartTick,
     simVars, books, Remembers
<1>3. ASSUME Place PROVE Remembers'
  <2>1. pc = "place" /\ UNCHANGED <<account, gaveUp>>
    BY <1>3 DEF Place, loop, faults
  <2>2. position' = position
    BY <1>3, CallsKeepPosition DEF Place
  <2> QED
    BY <1>1, <2>1, <2>2 DEF Remembers
<1>4. ASSUME Answered \/ ReplyLost PROVE Remembers'
  <2>1. pc = "queue" /\ UNCHANGED <<account, gaveUp>>
    BY <1>4 DEF Answered, ReplyLost, loop, faults
  <2>2. position' = position
    BY <1>4, CallsKeepPosition DEF Answered, ReplyLost
  <2> QED
    BY <1>1, <2>1, <2>2 DEF Remembers
<1>5. ASSUME Tick \/ Ticking PROVE Remembers'
  BY <1>5 DEF Tick, Ticking, Enter, Remembers
<1>6. ASSUME Reply PROVE Remembers'
  BY <1>6 DEF Reply, Refreshed, simVars, books, Remembers
<1>7. ASSUME GiveUp PROVE Remembers'
  <2>1. gaveUp' > 0
    BY <1>1, <1>7 DEF GiveUp
  <2> QED
    BY <2>1 DEF Remembers
<1> QED
  BY <1>2, <1>3, <1>4, <1>5, <1>6, <1>7 DEF Step

LEMMA PlacingStep == ASSUME EngineInv, [Step]_vars PROVE Placing'
<1>1. Placing /\ pc \in Labels
  BY DEF EngineInv, Loop
<1>2. CASE pc' \notin {"place", "queue"}
  BY <1>2 DEF Placing
<1>3. CASE pc' \in {"place", "queue"} /\ job' = job /\ pc \in {"place", "queue"} /\ account' = account
  BY <1>1, <1>3 DEF Placing, ClosesAll
<1>4. CASE pc' \in {"place", "queue"} /\ pc \notin {"place", "queue"} /\ job' # Main /\ account' = account
  <2>1. CASE job' # job
    BY <1>4, <2>1, NewJobs DEF Placing, ClosesAll
  <2>2. CASE job' = job
    <3>1. /\ \/ Working("close", job'.request, job'.meant, NoPlan)
             \/ Working("all", job'.request, job'.meant, NoPlan) /\ ClosesAll'
             \/ Working("open", job'.request, job'.meant, job'.plan)
      BY <1>4 DEF Step, Close, NextClose, Open, SizeOrder, Place, Answered, ReplyLost, Tick, Ticking, Reply, GiveUp,
         Enter, StartTick, Fail, Working, vars, engineVars, loop, ClosesAll
    <3> QED
      BY <3>1 DEF Working, Placing
  <2> QED
    BY <2>1, <2>2
<1>5. CASE pc' \in {"place", "queue"} /\ pc \in {"place", "queue"} /\ ~(job' = job /\ account' = account)
  BY <1>5 DEF Step, Close, NextClose, Open, SizeOrder, Place, Answered, ReplyLost, Tick, Ticking, Reply, GiveUp,
     Enter, Fail, StartTick, vars, engineVars, loop
<1>6. CASE pc' \in {"place", "queue"} /\ pc \notin {"place", "queue"} /\ ~(job' # Main /\ account' = account)
  BY <1>1, <1>6 DEF Step, Close, NextClose, Open, SizeOrder, Place, Answered, ReplyLost, Tick, Ticking, Reply, GiveUp,
     Enter, Fail, StartTick, Working, Main, vars, engineVars, loop
<1> QED
  BY <1>2, <1>3, <1>4, <1>5, <1>6

LEMMA AsksStep == ASSUME EngineInv, [Step]_vars PROVE Asks'
<1>1. Asks /\ Sound /\ UserSlots
  BY DEF EngineInv
<1>2. CASE Close
  <2>1. signals' = CloseSignals
    BY <1>2 DEF Close
  <2> QED
    BY <1>1, <2>1, CloseSignalsAsk DEF Asks
<1>3. CASE signals' \subseteq signals
  BY <1>1, <1>3 DEF Asks
<1>4. Close \/ signals' \subseteq signals
  BY DEF Step, NextClose, Handled, Open, SizeOrder, Place, Answered, ReplyLost, Tick, Ticking, Reply, GiveUp,
     vars, engineVars, loop
<1> QED
  BY <1>2, <1>3, <1>4

LEMMA DiesStep == ASSUME EngineInv, [Step]_vars PROVE DiesOnlyOfFaults'
<1>1. DiesOnlyOfFaults /\ lost \in Nat /\ gaveUp \in Nat /\ Sound /\ Turns /\ Remembers
  BY DEF EngineInv, Loop
<1>2. CASE GiveUp
  <2>1. ~Faultless'
    BY <1>1, <1>2 DEF GiveUp, Faultless
  <2> QED
    BY <2>1 DEF DiesOnlyOfFaults
<1>3. CASE Place
  <2>1. pc = "place" /\ (Faultless' <=> Faultless)
    BY <1>3 DEF Place, faults, Faultless
  <2> SUFFICES ASSUME pc' = "dead", Faultless PROVE FALSE
    BY <2>1 DEF DiesOnlyOfFaults
  <2>2. job.kind = "all" /\ ClosesAll
    <3>1. Fail
      BY <1>3 DEF Place, Enter
    <3>2. job.kind \notin {"close", "open"}
      BY <3>1 DEF Fail
    <3> QED
      BY <2>1, <3>2, PlacingJob
  <2>3. account = position[Symbol].quantity /\ pending = {}
    BY <1>1, <2>1 DEF Remembers, Turns, Faultless
  <2>4. PendingClosesFit(job.request) /\ Placeable(job.request)
    BY <1>1, <2>2, <2>3, CloseAllIsTaken DEF ClosesAll, SweepsAll
  <2>5. nonce \in Nat /\ None \notin Slots /\ (nonce < MaxOrders => nonce + 1 \in Slots)
    BY <1>1, NextSlot, SimulatorAssumption DEF Sound, BooksInv, Kinds
  <2>6. CheckOrder(job.request) => placing' # None
    BY <2>4, <2>5 DEF CheckOrder
  <2> QED
    BY <1>3, <2>4, <2>6 DEF Place, Enter
<1>4. CASE pc' = pc /\ UNCHANGED faults
  BY <1>1, <1>4 DEF DiesOnlyOfFaults, Faultless, faults
<1>5. CASE pc' # "dead"
  BY <1>5 DEF DiesOnlyOfFaults
<1>6. GiveUp \/ Place \/ (pc' = pc /\ UNCHANGED faults) \/ pc' # "dead"
  BY DEF Step, Close, NextClose, Open, SizeOrder, Answered, ReplyLost, Tick, Ticking, Reply, Enter, StartTick,
     vars, engineVars, faults
<1> QED
  BY <1>2, <1>3, <1>4, <1>5, <1>6

-----------------------------------------------------------------------------
LEMMA InitEngine == EngineInit => EngineInv
<1> SUFFICES ASSUME EngineInit PROVE EngineInv
  OBVIOUS
<1>1. Init /\ Sound
  BY InitAccounts DEF EngineInit
<1>2. PICK b \in Feed[0] : bars = Append(History, b)
  BY DEF EngineInit
<1>3. b \in Bars /\ bars \in Seq(Bars) /\ Len(bars) > 0
  <2>1. 0 \in 0 .. EndTime - 1 /\ b \in Bars
    BY <1>2, Constants
  <2> QED
    BY <1>2, <2>1, Constants
<1>4. UserSlots /\ Running /\ Turns
  BY <1>1, TheSymbol, Constants DEF EngineInit, Init, UserSlots, Running, Turns
<1>5. Remembers
  BY <1>1, TheSymbol DEF EngineInit, Init, Remembers
<1>6. NoPlan \in Plans
  BY <1>3, Constants DEF NoPlan, Plans
<1>7. Loop
  <2>1. pc \in Labels /\ account \in Int /\ late \subseteq Slots
    <3>1. pc = "close" /\ account = 0 /\ late = {}
      BY DEF EngineInit
    <3> QED
      BY <3>1 DEF Labels
  <2>4. fresh \in BOOLEAN
    BY Zenon DEF EngineInit
  <2>2. plan \in [Slots -> Plans] /\ meant \in [Slots -> Slots \cup {None}]
    BY <1>6 DEF EngineInit
  <2>3. lost \in Nat /\ gaveUp \in Nat /\ lost + gaveUp <= MaxFaults
    BY Constants DEF EngineInit
  <2> QED
    BY <1>3, <2>1, <2>2, <2>3, <2>4 DEF Loop
<1>8. Jobs /\ Placing /\ Asks /\ DiesOnlyOfFaults
  BY DEF EngineInit, Jobs, Placing, Asks, DiesOnlyOfFaults
<1> QED
  BY <1>1, <1>4, <1>5, <1>7, <1>8 DEF EngineInv

LEMMA StepEngine == EngineInv /\ [Step]_vars => EngineInv'
<1> SUFFICES ASSUME EngineInv, [Step]_vars PROVE EngineInv'
  OBVIOUS
<1>1. AnyStep
  BY ServerStep
<1>2. Sound' /\ UserSlots' /\ Running'
  BY <1>1, StepSound, UserSlotsStep, RunningStep DEF EngineInv
<1>3. Loop' /\ Turns' /\ Remembers'
  BY <1>2, LoopStep, TurnsStep, RemembersStep
<1>4. Jobs' /\ Placing' /\ Asks' /\ DiesOnlyOfFaults'
  BY JobsStep, PlacingStep, AsksStep, DiesStep
<1> QED
  BY <1>2, <1>3, <1>4 DEF EngineInv

(* The inductive invariant: the playground's books, where the loop is and    *)
(* what it may be placing there, and what the client knows.                  *)
THEOREM EngineInvHolds == Engine => []EngineInv
<1>1. EngineInit => EngineInv
  BY InitEngine
<1>2. EngineInv /\ [Step]_vars => EngineInv'
  BY StepEngine
<1> QED
  BY <1>1, <1>2, PTL DEF Engine

(* Every variable of the engine keeps its type: an order's stop and its      *)
(* count of candles come from the candles of its time, an order to be placed *)
(* has a quantity.                                                           *)
THEOREM EngineTypeOKHolds == Engine => []EngineTypeOK
<1>1. EngineInv => EngineTypeOK
  <2> SUFFICES ASSUME EngineInv PROVE EngineTypeOK
    OBVIOUS
  <2>1. Loop /\ Jobs
    BY DEF EngineInv
  <2>2. job.kind \in {"main", "close", "open", "all"} /\ (job.kind # "main" => job.request \in Order)
    BY <2>1 DEF Jobs, Main, Asked
  <2> QED
    BY <2>1, <2>2 DEF Loop, Labels, Plans, EngineTypeOK
<1> QED
  BY <1>1, EngineInvHolds, PTL

(* When the engine decides what to open, the position it remembers is the    *)
(* position, unless a call failed for good: also a reply that is lost, and   *)
(* an order placed twice for it, leave it knowing.                           *)
THEOREM ClientKnowsHolds == Engine => []ClientKnows
<1>1. EngineInv => ClientKnows
  <2> SUFFICES ASSUME EngineInv, pc = "open", ~(gaveUp > 0) PROVE account = position[Symbol].quantity
    BY DEF ClientKnows
  <2>1. Remembers
    BY DEF EngineInv
  <2> QED
    BY <2>1 DEF Remembers
<1> QED
  BY <1>1, EngineInvHolds, PTL

(* The program only dies of a call that failed or whose reply was lost: the  *)
(* one order whose refusal would end it, the one that closes everything      *)
(* before a position is turned over, is never refused.                       *)
THEOREM DiesOnlyOfFaultsHolds == Engine => []DiesOnlyOfFaults
<1>1. EngineInv => DiesOnlyOfFaults
  BY DEF EngineInv
<1> QED
  BY <1>1, EngineInvHolds, PTL

-----------------------------------------------------------------------------
(* The stack, candle by candle: one more candle grows it by one or not at    *)
(* all.                                                                      *)
LEMMA StackAppend ==
    ASSUME NEW V, NEW t \in Seq(V), NEW b \in V
    PROVE  Stack(Append(t, b)) = Put(Stack(t), b)
<1> PICK u : u = Append(t, b)
  OBVIOUS
<1> PICK n : n = Len(t)
  OBVIOUS
<1>1. /\ n \in Nat /\ DOMAIN t = 1 .. n /\ DOMAIN u = 1 .. n + 1
      /\ u[n + 1] = b /\ \A k \in 1 .. n : u[k] = t[k]
  OBVIOUS
<1>2. /\ IsFiniteSet(1 .. n) /\ IsFiniteSet(1 .. n + 1)
      /\ 1 .. n \subseteq Nat /\ 1 .. n + 1 \subseteq Nat
  <2>1. 1 \in Int /\ n \in Int /\ n + 1 \in Int
    BY <1>1
  <2>2. IsFiniteSet(1 .. n) /\ IsFiniteSet(1 .. n + 1)
    BY <2>1, FS_Interval
  <2> QED
    BY <1>1, <2>2
<1> DEFINE F == {S \in SUBSET (1 .. n) : StackOf(u)[S] # StackOf(t)[S]}
<1>3. F = {}
  <2> SUFFICES ASSUME F # {} PROVE FALSE
    OBVIOUS
  <2>1. \A S \in F : IsFiniteSet(S)
    BY <1>2, FS_Subset
  <2>2. PICK S \in F : \A U \in F : Cardinality(S) <= Cardinality(U)
    BY <2>1, SmallestSet
  <2>3. StackOf(u)[S] = Stacked(u, StackOf(u), S) /\ StackOf(t)[S] = Stacked(t, StackOf(t), S)
    <3>1. S \in SUBSET DOMAIN t /\ S \in SUBSET DOMAIN u
      BY <1>1, <2>2
    <3> QED
      BY <1>1, <1>2, <3>1, StackStep
  <2>4. CASE S = {}
    BY <2>2, <2>3, <2>4 DEF Stacked
  <2>5. CASE S # {}
    <3>1. Max(S) \in S
      BY <1>2, <2>1, <2>2, <2>5, MaxIn
    <3>2. /\ Cardinality(S) \in Nat /\ Cardinality(S \ {Max(S)}) \in Nat
          /\ Cardinality(S \ {Max(S)}) = Cardinality(S) - 1
      BY <2>1, <2>2, <3>1, Smaller
    <3>3. S \ {Max(S)} \notin F
      <4>1. ~(Cardinality(S) <= Cardinality(S \ {Max(S)}))
        BY <3>2
      <4> QED
        BY <2>2, <4>1
    <3>4. StackOf(u)[S \ {Max(S)}] = StackOf(t)[S \ {Max(S)}] /\ u[Max(S)] = t[Max(S)]
      BY <1>1, <2>2, <3>1, <3>3
    <3> QED
      BY <2>2, <2>3, <2>5, <3>4 DEF Stacked
  <2> QED
    BY <2>4, <2>5
<1>4. Max(1 .. n + 1) = n + 1 /\ (1 .. n + 1) \ {n + 1} = 1 .. n
  <2>1. n + 1 \in 1 .. n + 1 /\ 1 .. n + 1 # {}
    BY <1>1
  <2>2. Max(1 .. n + 1) \in 1 .. n + 1 /\ n + 1 <= Max(1 .. n + 1)
    BY <1>2, <2>1, MaxIn
  <2> QED
    BY <1>1, <2>2
<1>5. StackOf(u)[1 .. n + 1] = Put(StackOf(u)[1 .. n], u[n + 1])
  <2>1. StackOf(u)[1 .. n + 1] = Stacked(u, StackOf(u), 1 .. n + 1)
    BY <1>1, <1>2, StackStep
  <2>2. 1 .. n + 1 # {}
    BY <1>1
  <2> QED
    BY <1>4, <2>1, <2>2 DEF Stacked
<1>6. StackOf(u)[1 .. n] = StackOf(t)[1 .. n]
  BY <1>3
<1> QED
  BY <1>1, <1>5, <1>6, StackIsFold

LEMMA StackGrows ==
    ASSUME NEW V, NEW t \in Seq(V), NEW b \in V
    PROVE  Len(Stack(t)) \in Nat /\ Len(Stack(Append(t, b))) \in {Len(Stack(t)), Len(Stack(t)) + 1}
<1>1. IsFiniteSet(DOMAIN t) /\ DOMAIN t \subseteq Nat
  BY FS_Interval
<1>2. Stack(t) \in Seq({t[k] : k \in DOMAIN t}) /\ Len(Stack(t)) \in Nat
  BY <1>1, StackBounded
<1>3. Stack(t) \in Seq(V)
  <2>1. {t[k] : k \in DOMAIN t} \subseteq V
    OBVIOUS
  <2> QED
    BY <1>2, <2>1
<1>4. Put(Stack(t), b) \in {Stack(t), Append(Stack(t), b)}
  BY DEF Put
<1> QED
  BY <1>2, <1>3, <1>4, StackAppend

(* Parts of a sequence.                                                      *)
LEMMA Piece ==
    ASSUME NEW V, NEW s \in Seq(V), NEW m \in Nat, NEW n \in Nat, 1 <= m, m <= n + 1, n <= Len(s)
    PROVE  /\ SubSeq(s, m, n) \in Seq(V) /\ Len(SubSeq(s, m, n)) = n - m + 1
           /\ \A i \in 1 .. n - m + 1 : SubSeq(s, m, n)[i] = s[m + i - 1]
<1>1. Len(s) \in Nat /\ \A i \in 1 .. Len(s) : s[i] \in V
  BY LenProperties, ElementOfSeq
<1>2. \A i \in m .. n : s[i] \in V
  BY <1>1
<1>3. (IF m <= n THEN n - m + 1 ELSE 0) = n - m + 1
  OBVIOUS
<1>4. m \in Int /\ n \in Int
  OBVIOUS
<1> QED
  BY <1>2, <1>3, <1>4, SubSeqProperties

LEMMA FrontOf ==
    ASSUME NEW V, NEW t \in Seq(V), NEW n \in Nat, n > 0, Len(t) = n
    PROVE  /\ Front(t) \in Seq(V) /\ Len(Front(t)) = n - 1
           /\ \A k \in 1 .. n - 1 : Front(t)[k] = t[k]
           /\ t[n] \in V /\ t = Append(Front(t), t[n])
<1>1. n - 1 \in Nat /\ 1 <= n - 1 + 1 /\ n - 1 <= n /\ n - 1 - 1 + 1 = n - 1 /\ 1 \in Nat
  OBVIOUS
<1>2. /\ SubSeq(t, 1, n - 1) \in Seq(V) /\ Len(SubSeq(t, 1, n - 1)) = n - 1 - 1 + 1
      /\ \A k \in 1 .. n - 1 - 1 + 1 : SubSeq(t, 1, n - 1)[k] = t[1 + k - 1]
  BY ONLY <1>1, Len(t) = n, n - 1 \in Nat, t \in Seq(V), Piece
<1>3. \A k \in 1 .. n - 1 : 1 + k - 1 = k
  OBVIOUS
<1>4. Front(t) = SubSeq(t, 1, n - 1)
  BY DEF Front
<1> PICK f : f = Front(t)
  OBVIOUS
<1>5. f \in Seq(V) /\ Len(f) = n - 1 /\ \A k \in 1 .. n - 1 : f[k] = t[k]
  BY ONLY <1>1, <1>2, <1>3, <1>4, f = Front(t)
<1>6. t[n] \in V
  BY ElementOfSeq
<1> PICK a : a = Append(f, t[n])
  OBVIOUS
<1>7. /\ a \in Seq(V) /\ Len(a) = n - 1 + 1 /\ a[n - 1 + 1] = t[n]
      /\ \A k \in 1 .. n - 1 : a[k] = f[k]
  BY <1>5, <1>6, AppendProperties
<1>8. Len(a) = n /\ \A k \in 1 .. n : a[k] = t[k]
  BY <1>5, <1>7
<1>9. a = t
  BY <1>7, <1>8, SeqEqual
<1> QED
  BY <1>5, <1>6, <1>9

(* The trend of a sequence of candles, and how many candles it leaves out.   *)
TurnsIn(bs)  == {k \in 2 .. Len(bs) : bs[k].dir # Last(bs).dir}
TrendIn(bs)  == SubSeq(bs, IF TurnsIn(bs) = {} THEN Len(bs) ELSE Max(TurnsIn(bs)) + 1, Len(bs))
Before(bs)   == Len(bs) - Len(TrendIn(bs))
Height(bs)   == Len(Stack(TrendIn(bs)))
Base(bs)     == Len(Stack(Front(TrendIn(bs))))
BothWays(bs) == \A d \in {1, -1} : \E k \in 2 .. Len(bs) : bs[k].dir = d

LEMMA TrendIs == Trend = TrendIn(bars)
BY DEF Trend, TrendIn, TurnsIn, Candle

(* With a change of direction in the history the trend is what follows the   *)
(* last candle of the other direction.                                       *)
LEMMA TrendForm ==
    ASSUME NEW bs \in Seq(Bars), BothWays(bs)
    PROVE  LET m == Before(bs)
           IN  /\ m \in 2 .. Len(bs) - 1 /\ bs[m].dir # Last(bs).dir
               /\ \A k \in m + 1 .. Len(bs) : bs[k].dir = Last(bs).dir
               /\ TrendIn(bs) = SubSeq(bs, m + 1, Len(bs)) /\ TrendIn(bs) \in Seq(Bars)
<1> PICK T : T = TurnsIn(bs)
  OBVIOUS
<1>1. Len(bs) \in Nat /\ T \in SUBSET (2 .. Len(bs)) /\ IsFiniteSet(2 .. Len(bs))
  BY FS_Interval DEF TurnsIn
<1>2. T # {} /\ Len(bs) > 0
  BY <1>1 DEF BothWays, TurnsIn
<1> PICK m : m = Max(T)
  OBVIOUS
<1>3. m \in T /\ \A k \in T : k <= m
  <2>1. IsFiniteSet(T) /\ T \in SUBSET Nat
    BY <1>1, FS_Subset
  <2> QED
    BY <1>2, <2>1, MaxIn
<1>4. bs[m].dir # Last(bs).dir /\ m \in 2 .. Len(bs) /\ m # Len(bs)
  BY <1>1, <1>3 DEF TurnsIn, Last
<1>5. \A k \in m + 1 .. Len(bs) : bs[k].dir = Last(bs).dir
  BY <1>1, <1>3, <1>4 DEF TurnsIn
<1>6. TrendIn(bs) = SubSeq(bs, m + 1, Len(bs))
  BY <1>2 DEF TrendIn
<1>7. TrendIn(bs) \in Seq(Bars) /\ Len(TrendIn(bs)) = Len(bs) - m
  BY <1>1, <1>4, <1>6
<1>8. Before(bs) = m
  BY <1>1, <1>4, <1>7 DEF Before
<1> QED
  BY <1>1, <1>4, <1>5, <1>6, <1>7, <1>8

LEMMA Rest ==
    ASSUME NEW V, NEW s \in Seq(V), NEW m \in Nat, NEW n \in Nat, n > 0, Len(s) = m + n
    PROVE  /\ SubSeq(s, m + 1, Len(s)) \in Seq(V) /\ Len(SubSeq(s, m + 1, Len(s))) = n
           /\ \A k \in 1 .. n : SubSeq(s, m + 1, Len(s))[k] = s[m + k]
<1>1. /\ m + 1 \in Nat /\ m + n \in Nat /\ 1 <= m + 1 /\ m + 1 <= m + n + 1
      /\ m + n - (m + 1) + 1 = n
  OBVIOUS
<1>2. \A k \in 1 .. n : m + 1 + k - 1 = m + k
  OBVIOUS
<1>3. m + n <= m + n
  OBVIOUS
<1> QED
  BY <1>1, <1>2, <1>3, Piece

LEMMA TrendParts ==
    ASSUME NEW bs \in Seq(Bars), BothWays(bs)
    PROVE  \E m \in Nat, n \in Nat :
              /\ m = Before(bs) /\ m > 0 /\ n > 0 /\ Len(bs) = m + n
              /\ bs[m].dir # bs[m + n].dir /\ \A k \in m + 1 .. m + n : bs[k].dir = bs[m + n].dir
              /\ TrendIn(bs) \in Seq(Bars) /\ Len(TrendIn(bs)) = n
              /\ \A k \in 1 .. n : TrendIn(bs)[k] = bs[m + k]
<1>1. PICK m \in Nat, n \in Nat :
          /\ m = Before(bs) /\ m > 0 /\ n > 0 /\ Len(bs) = m + n
          /\ bs[m].dir # bs[m + n].dir /\ \A k \in m + 1 .. m + n : bs[k].dir = bs[m + n].dir
          /\ TrendIn(bs) = SubSeq(bs, m + 1, Len(bs))
  <2>1. Len(bs) \in Nat /\ Before(bs) \in 2 .. Len(bs) - 1
    BY TrendForm, LenProperties
  <2>2. /\ Before(bs) \in Nat /\ Before(bs) > 0 /\ Len(bs) - Before(bs) \in Nat
        /\ Len(bs) - Before(bs) > 0 /\ Len(bs) = Before(bs) + (Len(bs) - Before(bs))
    BY <2>1
  <2> QED
    BY <2>2, TrendForm DEF Last
<1>2. /\ TrendIn(bs) \in Seq(Bars) /\ Len(TrendIn(bs)) = n
      /\ \A k \in 1 .. n : TrendIn(bs)[k] = bs[m + k]
  <2> PICK t : t = SubSeq(bs, m + 1, Len(bs))
    OBVIOUS
  <2>1. n > 0 /\ Len(bs) = m + n
    BY <1>1
  <2>2. t \in Seq(Bars) /\ Len(t) = n /\ \A k \in 1 .. n : t[k] = bs[m + k]
    BY <2>1, Rest
  <2>3. TrendIn(bs) = t
    BY <1>1
  <2> QED
    BY <2>2, <2>3
<1> QED
  BY <1>1, <1>2

LEMMA TrendsLast ==
    ASSUME NEW bs \in Seq(Bars), BothWays(bs)
    PROVE  /\ Front(TrendIn(bs)) \in Seq(Bars) /\ Last(bs) \in Bars
           /\ TrendIn(bs) = Append(Front(TrendIn(bs)), Last(bs))
<1>1. PICK m \in Nat, n \in Nat :
          /\ n > 0 /\ Len(bs) = m + n
          /\ TrendIn(bs) \in Seq(Bars) /\ Len(TrendIn(bs)) = n
          /\ \A k \in 1 .. n : TrendIn(bs)[k] = bs[m + k]
  BY TrendParts
<1>2. Last(bs) = TrendIn(bs)[n]
  BY <1>1 DEF Last
<1> QED
  BY <1>1, <1>2, FrontOf

LEMMA Heights ==
    ASSUME NEW bs \in Seq(Bars), BothWays(bs)
    PROVE  Base(bs) \in Nat /\ Height(bs) \in {Base(bs), Base(bs) + 1} /\ Height(bs) <= MaxOpenCount
<1>1. Base(bs) \in Nat /\ Height(bs) \in {Base(bs), Base(bs) + 1}
  BY TrendsLast, StackGrows DEF Base, Height
<1>2. TrendIn(bs) \in Seq(Bars) /\ IsFiniteSet(DOMAIN TrendIn(bs)) /\ DOMAIN TrendIn(bs) \subseteq Nat
  <2>1. PICK t : t = TrendIn(bs) /\ t \in Seq(Bars)
    BY TrendForm
  <2>2. DOMAIN t = 1 .. Len(t) /\ Len(t) \in Nat
    BY <2>1
  <2>3. IsFiniteSet(1 .. Len(t)) /\ 1 .. Len(t) \subseteq Nat
    BY <2>2, FS_Interval
  <2> QED
    BY <2>1, <2>2, <2>3
<1>3. Height(bs) \in 0 .. MaxOpenCount
  BY <1>2, StackBounded DEF Height
<1> QED
  BY <1>1, <1>3, Constants

(* A candle goes on with the trend and its stack, or begins a trend.         *)
LEMMA NextCandle ==
    ASSUME NEW bs \in Seq(Bars), BothWays(bs), NEW b \in Bars
    PROVE  LET nb == Append(bs, b)
           IN  /\ nb \in Seq(Bars) /\ BothWays(nb)
               /\ \/ Before(nb) = Before(bs) /\ Base(nb) = Height(bs)
                  \/ Before(nb) = Len(bs)
<1> PICK nb : nb = Append(bs, b)
  OBVIOUS
<1>1. /\ nb \in Seq(Bars) /\ Len(bs) \in Nat /\ Len(nb) = Len(bs) + 1 /\ nb[Len(bs) + 1] = b
      /\ \A k \in 1 .. Len(bs) : nb[k] = bs[k]
  BY AppendProperties, LenProperties
<1>2. BothWays(nb)
  <2> SUFFICES ASSUME NEW d \in {1, -1} PROVE \E k \in 2 .. Len(nb) : nb[k].dir = d
    BY DEF BothWays
  <2>1. PICK k \in 2 .. Len(bs) : bs[k].dir = d
    BY DEF BothWays
  <2>2. k \in 2 .. Len(nb) /\ k \in 1 .. Len(bs)
    BY <1>1
  <2> QED
    BY <1>1, <2>1, <2>2
<1>3. PICK m \in Nat, n \in Nat :
          /\ m = Before(bs) /\ m > 0 /\ n > 0 /\ Len(bs) = m + n
          /\ bs[m].dir # bs[m + n].dir /\ \A k \in m + 1 .. m + n : bs[k].dir = bs[m + n].dir
          /\ TrendIn(bs) \in Seq(Bars) /\ Len(TrendIn(bs)) = n
          /\ \A k \in 1 .. n : TrendIn(bs)[k] = bs[m + k]
  BY TrendParts
<1>4. PICK p \in Nat, q \in Nat :
          /\ p = Before(nb) /\ p > 0 /\ q > 0 /\ Len(nb) = p + q
          /\ nb[p].dir # nb[p + q].dir /\ \A k \in p + 1 .. p + q : nb[k].dir = nb[p + q].dir
          /\ TrendIn(nb) \in Seq(Bars) /\ Len(TrendIn(nb)) = q
          /\ \A k \in 1 .. q : TrendIn(nb)[k] = nb[p + k]
  BY <1>1, <1>2, TrendParts
<1>5. p + q = m + n + 1 /\ nb[p + q] = b /\ \A k \in 1 .. m + n : nb[k] = bs[k]
  BY <1>1, <1>3, <1>4
<1>6. CASE b.dir = bs[m + n].dir
  <2>1. ~(p < m)
    <3> SUFFICES ASSUME p < m PROVE FALSE
      OBVIOUS
    <3>1. m \in p + 1 .. p + q /\ m \in 1 .. m + n
      BY <1>3, <1>5
    <3>2. nb[m].dir = b.dir /\ nb[m] = bs[m]
      BY <1>4, <1>5, <3>1
    <3> QED
      BY <1>3, <1>6, <3>2
  <2>2. ~(m < p)
    <3> SUFFICES ASSUME m < p PROVE FALSE
      OBVIOUS
    <3>1. p \in m + 1 .. m + n /\ p \in 1 .. m + n
      BY <1>4, <1>5
    <3>2. bs[p].dir = bs[m + n].dir /\ nb[p] = bs[p]
      BY <1>3, <1>5, <3>1
    <3> QED
      BY <1>4, <1>5, <1>6, <3>2
  <2>3. p = m /\ q = n + 1
    BY <1>5, <2>1, <2>2
  <2>4. /\ Front(TrendIn(nb)) \in Seq(Bars) /\ Len(Front(TrendIn(nb))) = n
        /\ \A k \in 1 .. n : Front(TrendIn(nb))[k] = TrendIn(nb)[k]
    <3>1. q - 1 = n
      BY <2>3
    <3> QED
      BY <1>4, <3>1, FrontOf
  <2>5. ASSUME NEW k \in 1 .. n PROVE Front(TrendIn(nb))[k] = TrendIn(bs)[k]
    <3>1. k \in 1 .. q /\ m + k \in 1 .. m + n
      BY <2>3
    <3>2. TrendIn(nb)[k] = nb[m + k] /\ nb[m + k] = bs[m + k] /\ TrendIn(bs)[k] = bs[m + k]
      BY <1>3, <1>4, <1>5, <2>3, <3>1
    <3> QED
      BY <2>4, <3>2
  <2>6. Front(TrendIn(nb)) = TrendIn(bs)
    BY <1>3, <2>4, <2>5, SeqEqual
  <2> QED
    BY <1>1, <1>2, <1>3, <1>4, <2>3, <2>6 DEF Base, Height
<1>7. CASE b.dir # bs[m + n].dir
  <2>1. ~(p < m + n)
    <3> SUFFICES ASSUME p < m + n PROVE FALSE
      OBVIOUS
    <3>1. m + n \in p + 1 .. p + q /\ m + n \in 1 .. m + n
      BY <1>3, <1>5
    <3>2. nb[m + n].dir = b.dir /\ nb[m + n] = bs[m + n]
      BY <1>4, <1>5, <3>1
    <3> QED
      BY <1>7, <3>2
  <2>2. p = m + n
    BY <1>4, <1>5, <2>1
  <2> QED
    BY <1>1, <1>2, <1>3, <1>4, <2>2
<1> QED
  BY <1>6, <1>7

-----------------------------------------------------------------------------
(* The stack limit.  Every order of the trend was opened at a candle the     *)
(* stack grew with, and but for lost replies one was opened at each: until   *)
(* an iteration has opened its own, there are as many as the stack held      *)
(* before the current candle.                                                *)
OfTrend == {i \in Slots : plan[i].at > Before(bars)}
Spent ==
    \/ pc = "queue" /\ job.kind = "open"
    \/ pc \in {"tick", "ticking", "reply"} /\ job = Main
    \/ pc \in {"finished", "dead"}
Grown ==
    \/ pc = "size"
    \/ pc \in {"place", "queue"} /\ job.kind = "open"
    \/ pc \in {"place", "queue", "tick", "ticking", "reply"} /\ job.kind = "all"
Stacking ==
    /\ BothWays(bars)
    /\ Cardinality(OfTrend) <= lost + (IF Spent THEN Height(bars) ELSE Base(bars))
    /\ Grown => Height(bars) = Base(bars) + 1
    /\ pc \in {"place", "queue"} /\ job.kind # "open" => job.plan = NoPlan

LEMMA OrderCounts ==
    ASSUME NEW A \in SUBSET Slots, NEW B \in SUBSET Slots
    PROVE  /\ Cardinality(A) \in Nat /\ Cardinality(B) \in Nat
           /\ B \subseteq A => Cardinality(B) <= Cardinality(A)
           /\ \A x : B \subseteq A \cup {x} => Cardinality(B) <= Cardinality(A) + 1
<1>1. IsFiniteSet(A) /\ IsFiniteSet(B)
  BY SlotsAreFinite
<1>2. Cardinality(A) \in Nat /\ Cardinality(B) \in Nat
  BY <1>1, FS_CardinalityType
<1>3. ASSUME NEW x, B \subseteq A \cup {x} PROVE Cardinality(B) <= Cardinality(A) + 1
  <2>1. IsFiniteSet(A \cup {x}) /\ Cardinality(A \cup {x}) \in {Cardinality(A), Cardinality(A) + 1}
    BY <1>1, FS_AddElement
  <2>2. Cardinality(B) <= Cardinality(A \cup {x})
    BY <1>3, <2>1, FS_Subset
  <2> QED
    BY <1>2, <2>1, <2>2
<1>4. B \subseteq A => Cardinality(B) <= Cardinality(A)
  BY <1>1, FS_Subset
<1> QED
  BY <1>2, <1>3, <1>4

(* A step that opens nothing and brings no candle.                           *)
LEMMA NothingOpened ==
    ASSUME EngineInv, Stacking, bars' = bars, OfTrend' \subseteq OfTrend,
           lost' \in Nat, lost' >= lost, Spent => Spent' \/ lost' > lost,
           Grown' => Height(bars) = Base(bars) + 1,
           pc' \in {"place", "queue"} /\ job'.kind # "open" => job'.plan = NoPlan
    PROVE  Stacking'
<1>1. /\ bars \in Seq(Bars) /\ lost \in Nat /\ BothWays(bars)
      /\ Cardinality(OfTrend) <= lost + (IF Spent THEN Height(bars) ELSE Base(bars))
  BY DEF EngineInv, Loop, Stacking
<1>2. Base(bars) \in Nat /\ Height(bars) \in {Base(bars), Base(bars) + 1}
  BY <1>1, Heights
<1>3. OfTrend \in SUBSET Slots /\ OfTrend' \in SUBSET Slots
  BY DEF OfTrend
<1>4. Cardinality(OfTrend) \in Nat /\ Cardinality(OfTrend') \in Nat /\ Cardinality(OfTrend') <= Cardinality(OfTrend)
  BY <1>3, OrderCounts
<1>5. Cardinality(OfTrend') <= lost' + (IF Spent' THEN Height(bars) ELSE Base(bars))
  <2>1. CASE Spent'
    BY <1>1, <1>2, <1>4, <2>1
  <2>2. CASE ~Spent' /\ ~Spent
    BY <1>1, <1>2, <1>4, <2>2
  <2>3. CASE ~Spent' /\ Spent
    BY <1>1, <1>2, <1>4, <2>3
  <2> QED
    BY <2>1, <2>2, <2>3
<1> QED
  BY <1>1, <1>5 DEF Stacking

LEMMA SamePlan == ASSUME bars' = bars, plan' = plan PROVE OfTrend' \subseteq OfTrend
BY DEF OfTrend

(* The order that is placed is the one more there may be.                    *)
LEMMA PlaceStacks == ASSUME EngineInv, Stacking, Place PROVE Stacking'
<1>1. /\ bars \in Seq(Bars) /\ lost \in Nat /\ BothWays(bars) /\ plan \in [Slots -> Plans]
      /\ pc = "place" /\ bars' = bars /\ lost' = lost
  BY DEF EngineInv, Loop, Stacking, Place, loop, faults
<1>2. ~Spent /\ (job.kind = "open" => Grown) /\ (job.kind = "all" => Grown) /\ (job.kind # "open" => job.plan = NoPlan)
  BY <1>1 DEF Spent, Grown, Stacking
<1>3. CASE Fail
  <2>1. plan' = plan
    <3>1. pc' # "queue"
      BY <1>1, <1>3, PlacingJob DEF Fail
    <3> QED
      BY <3>1 DEF Place, Enter
  <2>2. pc' \in {"closing", "tick", "dead"} /\ (pc' = "tick" => job' = Main)
    BY <1>3 DEF Fail
  <2>3. ~Grown' /\ pc' \notin {"place", "queue"}
    BY <2>2 DEF Grown, Main
  <2> QED
    BY <1>1, <1>2, <2>1, <2>3, SamePlan, NothingOpened
<1>4. CASE /\ pc' = "queue" /\ job' = job /\ plan' = [plan EXCEPT ![placing'] = job.plan]
  <2>1. OfTrend' \subseteq OfTrend \cup {placing'}
    BY <1>1, <1>4 DEF OfTrend
  <2>2. CASE job.kind = "open"
    <3>1. Spent' /\ Grown
      BY <1>2, <1>4, <2>2 DEF Spent
    <3>2. Base(bars) \in Nat /\ Height(bars) = Base(bars) + 1
      BY <1>1, <3>1, Heights DEF Stacking
    <3>3. OfTrend \in SUBSET Slots /\ OfTrend' \in SUBSET Slots
      BY DEF OfTrend
    <3>4. /\ Cardinality(OfTrend) \in Nat /\ Cardinality(OfTrend') \in Nat
          /\ Cardinality(OfTrend') <= Cardinality(OfTrend) + 1
      BY <2>1, <3>3, OrderCounts
    <3>5. Cardinality(OfTrend) <= lost + Base(bars)
      BY <1>2 DEF Stacking
    <3>6. Cardinality(OfTrend') <= lost' + Height(bars)
      BY <1>1, <3>2, <3>4, <3>5
    <3> QED
      BY <1>1, <1>4, <2>2, <3>1, <3>2, <3>6 DEF Stacking
  <2>3. CASE job.kind # "open"
    <3>1. job.plan.at = 0
      BY <1>2, <2>3 DEF NoPlan
    <3>2. Before(bars) \in Nat
      BY <1>1, TrendForm
    <3>3. OfTrend' \subseteq OfTrend
      BY <1>1, <1>4, <3>1, <3>2 DEF OfTrend
    <3>4. Grown' => Grown
      BY <1>1, <1>4 DEF Grown
    <3> QED
      BY <1>1, <1>2, <1>4, <2>3, <3>3, <3>4, NothingOpened DEF Stacking
  <2> QED
    BY <2>2, <2>3
<1> QED
  BY <1>3, <1>4 DEF Place, Enter

(* The candle of the next iteration goes on with the trend or begins one,    *)
(* for which nothing is open yet.                                            *)
LEMMA ReplyStacks == ASSUME EngineInv, Stacking, Reply PROVE Stacking'
<1>1. /\ bars \in Seq(Bars) /\ lost \in Nat /\ BothWays(bars) /\ plan \in [Slots -> Plans]
      /\ pc = "reply" /\ plan' = plan /\ lost' = lost /\ job' = job
  BY DEF EngineInv, Loop, Stacking, Reply, faults
<1>2. CASE bars' = bars /\ job = Main
  <2>1. pc' = "finished" \/ bars' # bars
    <3>1. \A b : Append(bars, b) # bars
      BY <1>1
    <3> QED
      BY <1>2, <3>1 DEF Reply, Enter
  <2>2. Spent' /\ ~Grown' /\ pc' \notin {"place", "queue"}
    BY <1>2, <2>1 DEF Spent, Grown
  <2> QED
    BY <1>1, <1>2, <2>2, SamePlan, NothingOpened
<1>3. CASE job # Main
  <2>1. bars' = bars /\ pc' = IF job.kind = "all" THEN "size" ELSE "closing"
    BY <1>3 DEF Reply, Enter
  <2>2. ~Spent /\ (Grown' => Grown) /\ pc' \notin {"place", "queue"}
    BY <1>1, <1>3, <2>1 DEF Spent, Grown
  <2> QED
    BY <1>1, <2>1, <2>2, SamePlan, NothingOpened DEF Stacking
<1>4. CASE job = Main /\ bars' # bars
  <2>1. pc' = "close" /\ \E b \in Feed[clock] : bars' = Append(bars, b)
    BY <1>4 DEF Reply, Enter
  <2>2. \E b \in Bars : bars' = Append(bars, b)
    <3>1. clock \in 0 .. EndTime - 1
      BY <1>4, Constants DEF Reply, EngineInv, Running, Sound, TypeOK
    <3> QED
      BY <2>1, <3>1, Constants
  <2>3. /\ bars' \in Seq(Bars) /\ BothWays(bars')
        /\ \/ Before(bars') = Before(bars) /\ Base(bars') = Height(bars)
           \/ Before(bars') = Len(bars)
    BY <1>1, <2>2, NextCandle
  <2>4. Spent /\ ~Spent' /\ ~Grown' /\ pc' \notin {"place", "queue"}
    BY <1>1, <1>4, <2>1 DEF Spent, Grown
  <2>5. Cardinality(OfTrend') <= lost + Base(bars')
    <3>1. CASE Before(bars') = Before(bars) /\ Base(bars') = Height(bars)
      <4>1. OfTrend' = OfTrend
        BY <1>1, <3>1 DEF OfTrend
      <4> QED
        BY <2>4, <3>1, <4>1 DEF Stacking
    <3>2. CASE Before(bars') = Len(bars)
      <4>1. \A i \in Slots : plan[i].at \in 0 .. Len(bars) /\ Len(bars) \in Nat
        BY <1>1 DEF Plans
      <4>2. \A i \in Slots : ~(plan[i].at > Len(bars))
        BY <4>1
      <4>3. OfTrend' = {}
        BY <1>1, <3>2, <4>2 DEF OfTrend
      <4>4. Cardinality(OfTrend') = 0 /\ Base(bars') \in Nat
        BY <2>3, <4>3, FS_EmptySet, Heights
      <4> QED
        BY <1>1, <4>4
    <3> QED
      BY <2>3, <3>1, <3>2
  <2> QED
    BY <1>1, <2>3, <2>4, <2>5 DEF Stacking
<1> QED
  BY <1>2, <1>3, <1>4 DEF Reply

LEMMA StackingStep == ASSUME EngineInv, Stacking, [Step]_vars PROVE Stacking'
<1>1. /\ lost \in Nat /\ bars \in Seq(Bars) /\ BothWays(bars) /\ Main.kind = "main"
      /\ Stacking
  BY DEF EngineInv, Loop, Stacking, Main
<1>2. ASSUME Close \/ NextClose \/ Open PROVE Stacking'
  <2>1. bars' = bars /\ plan' = plan /\ lost' = lost /\ ~Spent
    BY <1>2 DEF Close, NextClose, Open, loop, faults, Spent
  <2>2. Grown' => Height(bars) = Base(bars) + 1
    <3>1. ASSUME Grown' PROVE Signalled
      BY <1>2, <3>1 DEF Close, NextClose, Open, Enter, StartTick, Working, Grown, Main
    <3>2. Signalled => Height(bars) > Base(bars)
      BY TrendIs DEF Signalled, Height, Base
    <3> QED
      BY <1>1, <3>1, <3>2, Heights
  <2>3. pc' \in {"place", "queue"} /\ job'.kind # "open" => job'.plan = NoPlan
    BY <1>2 DEF Close, NextClose, Open, Enter, StartTick, Working
  <2> QED
    BY <1>1, <2>1, <2>2, <2>3, SamePlan, NothingOpened
<1>3. ASSUME SizeOrder PROVE Stacking'
  <2>1. bars' = bars /\ plan' = plan /\ lost' = lost /\ ~Spent /\ Grown
    BY <1>3 DEF SizeOrder, loop, faults, Spent, Grown
  <2>2. pc' \in {"place", "queue"} => job'.kind = "open"
    BY <1>3 DEF SizeOrder, Enter, StartTick, Working
  <2> QED
    BY <1>1, <2>1, <2>2, SamePlan, NothingOpened DEF Stacking
<1>4. ASSUME Answered PROVE Stacking'
  <2>1. bars' = bars /\ plan' = plan /\ lost' = lost /\ pc = "queue"
    BY <1>4 DEF Answered, loop, faults
  <2>2. /\ pc' = "tick" /\ (job.kind = "open" => job' = Main)
        /\ (job.kind # "open" => job' = job /\ (Grown' => Grown) /\ ~Spent)
        /\ (job.kind = "open" => ~Grown' /\ Spent')
    BY <1>1, <1>4, <2>1 DEF Answered, Enter, StartTick, Grown, Spent
  <2> QED
    BY <1>1, <2>1, <2>2, SamePlan, NothingOpened DEF Stacking
<1>5. ASSUME ReplyLost PROVE Stacking'
  <2>1. bars' = bars /\ plan' = plan /\ lost' = lost + 1 /\ pc = "queue" /\ pc' = "place" /\ job' = job
    BY <1>5 DEF ReplyLost, loop, Enter
  <2>2. lost' \in Nat /\ lost' >= lost /\ lost' > lost /\ (Grown' => Grown)
    BY <1>1, <2>1 DEF Grown
  <2> QED
    BY <1>1, <2>1, <2>2, SamePlan, NothingOpened DEF Stacking
<1>6. ASSUME Tick \/ Ticking \/ UNCHANGED vars PROVE Stacking'
  <2>1. bars' = bars /\ plan' = plan /\ lost' = lost /\ job' = job
    BY <1>6 DEF Tick, Ticking, vars, engineVars, loop, faults
  <2>2. pc' = pc \/ (pc \in {"tick", "ticking"} /\ pc' \in {"ticking", "reply"})
    BY <1>6 DEF Tick, Ticking, Enter, vars, engineVars
  <2>3. (Spent => Spent') /\ (Grown' => Grown) /\ (pc' \in {"place", "queue"} => pc' = pc)
    BY <2>1, <2>2 DEF Spent, Grown
  <2> QED
    BY <1>1, <2>1, <2>3, SamePlan, NothingOpened DEF Stacking
<1>7. ASSUME GiveUp PROVE Stacking'
  <2>1. bars' = bars /\ plan' = plan /\ lost' = lost
    BY <1>7 DEF GiveUp, loop
  <2>2. /\ pc \in {"close", "open", "place", "tick", "reply"} /\ pc' \in {"dead", "closing", "tick"}
        /\ pc' = "closing" => job.kind = "close" /\ pc \in {"place", "tick", "reply"}
        /\ pc' = "tick" => job' = Main
    BY <1>7 DEF GiveUp, Enter, Fail
  <2>3. ~Grown' /\ pc' \notin {"place", "queue"} /\ (Spent => Spent')
    BY <1>1, <2>2 DEF Spent, Grown
  <2> QED
    BY <1>1, <2>1, <2>3, SamePlan, NothingOpened
<1> QED
  BY <1>2, <1>3, <1>4, <1>5, <1>6, <1>7, PlaceStacks, ReplyStacks DEF Step

LEMMA InitStacking == EngineInit => Stacking
<1> SUFFICES ASSUME EngineInit PROVE Stacking
  OBVIOUS
<1>1. PICK b \in Feed[0] : bars = Append(History, b)
  BY DEF EngineInit
<1>2. bars \in Seq(Bars)
  BY InitEngine DEF EngineInv, Loop
<1>3. BothWays(bars)
  <2> SUFFICES ASSUME NEW d \in {1, -1} PROVE \E k \in 2 .. Len(bars) : bars[k].dir = d
    BY DEF BothWays
  <2>1. PICK k \in 2 .. Len(History) : History[k].dir = d
    BY EngineAssumption
  <2>2. History \in Seq(Bars) /\ Len(History) \in Nat
    BY Constants, LenProperties
  <2>3. Len(bars) = Len(History) + 1 /\ bars[k] = History[k]
    BY <1>1, <2>2
  <2>4. k \in 2 .. Len(bars)
    BY <2>2, <2>3
  <2> QED
    BY <2>1, <2>3, <2>4
<1>4. OfTrend = {}
  <2>1. Before(bars) \in Nat
    BY <1>2, <1>3, TrendForm
  <2>2. \A i \in Slots : plan[i].at = 0
    BY DEF EngineInit, NoPlan
  <2> QED
    BY <2>1, <2>2 DEF OfTrend
<1>5. Cardinality(OfTrend) = 0 /\ Base(bars) \in Nat
  BY <1>2, <1>3, <1>4, FS_EmptySet, Heights
<1>6. pc = "close" /\ lost = 0
  BY DEF EngineInit
<1> QED
  BY <1>3, <1>5, <1>6 DEF Stacking, Spent, Grown

(* For any candles, limits, quantities and faults: of the orders a trend     *)
(* opened, never more are open than max_open_count and one for each          *)
(* PlaceOrder whose reply was lost.                                          *)
THEOREM StackLimitHolds == Engine => []StackLimit
<1>1. EngineInit => EngineInv /\ Stacking
  BY InitEngine, InitStacking
<1>2. EngineInv /\ Stacking /\ [Step]_vars => (EngineInv /\ Stacking)'
  BY StepEngine, StackingStep
<1>3. EngineInv /\ Stacking => StackLimit
  <2> SUFFICES ASSUME EngineInv, Stacking PROVE StackLimit
    OBVIOUS
  <2> PICK S : S = {i \in open[Symbol] : plan[i].at > Len(bars) - Len(Trend)}
    OBVIOUS
  <2>1. bars \in Seq(Bars) /\ lost \in Nat /\ open[Symbol] \in SUBSET Slots
    BY OpenRestSums DEF EngineInv, Loop
  <2>2. S \subseteq OfTrend /\ S \in SUBSET Slots /\ OfTrend \in SUBSET Slots
    BY <2>1, TrendIs DEF OfTrend, Before
  <2>3. Cardinality(S) \in Nat /\ Cardinality(OfTrend) \in Nat /\ Cardinality(S) <= Cardinality(OfTrend)
    BY <2>2, OrderCounts
  <2>4. /\ Base(bars) \in Nat /\ Height(bars) \in {Base(bars), Base(bars) + 1}
        /\ Height(bars) <= MaxOpenCount /\ MaxOpenCount \in Nat
    BY <2>1, Heights, Constants DEF Stacking
  <2>5. Cardinality(OfTrend) <= lost + (IF Spent THEN Height(bars) ELSE Base(bars))
    BY DEF Stacking
  <2>6. Cardinality(S) <= MaxOpenCount + lost
    BY <2>1, <2>3, <2>4, <2>5
  <2> QED
    BY <2>6 DEF StackLimit
<1> QED
  BY <1>1, <1>2, <1>3, PTL DEF Engine

-----------------------------------------------------------------------------
(* Closing an order.  Which id the client sends to close order m, and on     *)
(* which side.                                                               *)
Aim(m)       == IF m = None \/ m = 1 THEN None ELSE m - 1
CloseSide(m) == IF order[m].side = "buy" THEN "sell" ELSE "buy_to_cover"

(* A request that closes what is left of an open order.                      *)
ClosesOrder(r, m) ==
    /\ r \in Asked /\ r.side = CloseSide(m) /\ r.quantity = Remaining(m) /\ r.target = Aim(m)

LEMMA TheOnlySymbol == \A r \in Order : r.symbol = Symbol
BY EngineAssumption, OrderFacts

(* Closing requests are on the other side than the position they may reduce. *)
LEMMA ClosingSide ==
    ASSUME Sound, NEW r \in Asked, ~Opening(r), SideAllowed(r.side, position[Symbol].quantity)
    PROVE  /\ IsClose(r) /\ r.quantity \in Nat /\ r.quantity > 0
           /\ r.symbol = Symbol /\ position[Symbol].quantity * Signed(r) < 0
           /\ Signed(r) = IF position[Symbol].quantity > 0 THEN -r.quantity ELSE r.quantity
<1> PICK q : q = position[Symbol].quantity
  OBVIOUS
<1> PICK n : n = Signed(r)
  OBVIOUS
<1>1. /\ q \in Int /\ n \in Int /\ r.quantity \in Nat /\ r.quantity > 0 /\ r.symbol = Symbol
      /\ r.side \in Sides
  BY OpenRestSums, OrderFacts, TheOnlySymbol DEF Asked
<1>2. \/ q > 0 /\ r.side = "sell" /\ n = -r.quantity
      \/ q < 0 /\ r.side = "buy_to_cover" /\ n = r.quantity
  <2>1. r.side \in {"sell", "buy_to_cover"}
    BY <1>1 DEF Opening, Sides
  <2>2. \/ q > 0 /\ r.side = "sell"
        \/ q < 0 /\ r.side = "buy_to_cover"
    BY <1>1, <2>1 DEF SideAllowed
  <2> QED
    BY <2>2 DEF Signed
<1>3. q * n < 0
  BY <1>1, <1>2, Signs
<1> QED
  BY <1>1, <1>2, <1>3 DEF IsClose

(* What closes a named order, or order 1 while all of it is there, takes     *)
(* nothing from any other order.                                             *)
LEMMA HitsNoOther ==
    ASSUME Sound, NEW r \in Asked, NEW m \in Slots, m <= MaxOrders, r.target = Aim(m),
           NEW a \in Closings(r), IsClose(r), m = 1 => 1 \in open[Symbol] /\ r.quantity = Remaining(1)
    PROVE  /\ \A j \in open[Symbol] : j # m => a[j] = 0
           /\ m \in open[Symbol] /\ a[m] = r.quantity
<1> PICK O : O = open[Symbol]
  OBVIOUS
<1>1. /\ O \in SUBSET Slots /\ IsFiniteSet(O) /\ r.symbol = Symbol
      /\ r.quantity \in Nat /\ r.quantity > 0
      /\ \A i \in O : i \in Nat /\ i >= 1 /\ Id(i) = i - 1 /\ Remaining(i) \in Nat
  <2>1. O \in SUBSET Slots /\ IsFiniteSet(O) /\ \A i \in O : Remaining(i) \in Nat /\ ~order[i].forced
    BY OpenRestSums
  <2> QED
    BY <2>1, SlotsCount, OrderFacts, TheOnlySymbol DEF Asked, Id
<1>2. /\ a \in [O -> 0 .. r.quantity] /\ SumFunctionOnSet(a, O) = r.quantity
      /\ \A i \in O : a[i] \in Nat /\ a[i] <= r.quantity
  BY <1>1, ClosingsSum
<1>3. \A i \in O : a[i] > 0 =>
        IF r.target = None THEN \A j \in O : j < i => a[j] = Remaining(j) ELSE Id(i) = r.target
  BY <1>1, <1>2 DEF Closings
<1>4. m \in Nat /\ m >= 1 /\ m # None
  BY SlotsCount, SimulatorAssumption
<1>5. ASSUME NEW j \in O, j # m PROVE a[j] = 0
  <2> SUFFICES ASSUME a[j] > 0 PROVE FALSE
    BY <1>2
  <2>1. CASE m = 1
    <3>1. 1 \in O /\ 1 < j /\ a[1] = r.quantity
      BY <1>1, <1>3, <1>5, <2>1 DEF Aim
    <3>2. SumFunctionOnSet(a, O) = a[1] + SumFunctionOnSet(a, O \ {1})
      BY <1>1, <1>2, <3>1, SumRemove
    <3>3. IsFiniteSet(O \ {1}) /\ j \in O \ {1}
      BY <1>1, <3>1, FS_Subset
    <3>4. SumFunctionOnSet(a, O \ {1}) \in Nat /\ a[j] <= SumFunctionOnSet(a, O \ {1})
      BY <1>2, <3>3, SumSign
    <3> QED
      BY <1>2, <3>1, <3>2, <3>4
  <2>2. CASE m # 1
    <3>1. r.target = m - 1 /\ m - 1 \in Ids
      <4>1. r.target = m - 1
        BY <1>4, <2>2 DEF Aim
      <4> QED
        BY <1>4, <2>2, <4>1, SimulatorAssumption DEF Ids
    <3>2. r.target # None
      BY <3>1, SimulatorAssumption
    <3> QED
      BY <1>1, <1>3, <1>4, <1>5, <3>1, <3>2
  <2> QED
    BY <2>1, <2>2
<1>6. m \in O
  <2> SUFFICES ASSUME m \notin O PROVE FALSE
    OBVIOUS
  <2>1. SumFunctionOnSet(a, O) = 0
    BY <1>1, <1>5, SumOfZeros
  <2> QED
    BY <1>1, <1>2, <2>1
<1>7. a[m] = r.quantity
  <2>1. SumFunctionOnSet(a, O) = SumFunctionOnSet(a, {m})
    <3>1. {m} \in SUBSET O /\ \A x \in O : a[x] \in Int
      BY <1>2, <1>6
    <3> QED
      BY <1>1, <1>5, <3>1, SumOnPart
  <2>2. a[m] \in Int
    BY <1>2, <1>6
  <2> QED
    BY <1>2, <2>1, <2>2, SumSingleton
<1> QED
  BY <1>5, <1>6, <1>7

(* A request that closes what is left of an open order is never refused:     *)
(* not by the tick, and while nothing is pending not when it is placed.      *)
LEMMA CloseIsTaken ==
    ASSUME Sound, NEW m \in open[Symbol], m <= MaxOrders, NEW r, ClosesOrder(r, m)
    PROVE  /\ Allowed(r) /\ Closings(r) # {}
           /\ pending = {} => PendingClosesFit(r) /\ Placeable(r)
<1> PICK O : O = open[Symbol]
  OBVIOUS
<1> PICK q : q = position[Symbol].quantity
  OBVIOUS
<1> PICK n : n = Remaining(m)
  OBVIOUS
<1>1. /\ Kinds /\ Listed /\ BooksAgree /\ OneSide /\ q \in Int
      /\ O \in SUBSET Slots /\ IsFiniteSet(O) /\ m \in O
      /\ n \in Nat /\ n > 0 /\ ~order[m].forced
      /\ r \in Asked /\ r.symbol = Symbol /\ r.quantity = n /\ r.target = Aim(m)
  BY OpenRestSums, TheOnlySymbol DEF Sound, BooksInv, Accounts, ClosesOrder, Asked
<1>2. /\ m \in Slots /\ m \in Nat /\ m >= 1 /\ m # None /\ m - 1 \in Ids
      /\ \A i \in O : i \in Nat /\ i >= 1
      /\ status[m] = "filled" /\ Opening(order[m]) /\ order[m].side \in {"buy", "sell_short"}
  <2>1. m \in Slots /\ m \in Nat /\ m >= 1 /\ m # None
    BY <1>1, SlotsCount, SimulatorAssumption
  <2>2. m - 1 \in Ids
    BY <2>1, Constants DEF Ids
  <2>3. \A i \in O : i \in Nat /\ i >= 1
    BY <1>1, SlotsCount
  <2> QED
    BY <1>1, <2>1, <2>2, <2>3, TheSymbol, OpenOrders DEF Opening
<1>3. Id(m) = m - 1
  BY <1>1, <1>2 DEF Id
<1>4. n <= Larger(q, -q)
  BY <1>1, OpenRestSums
<1>5. \/ q > 0 /\ r.side = "sell" /\ Signed(r) = -n
      \/ q < 0 /\ r.side = "buy_to_cover" /\ Signed(r) = n
  <2>1. \/ q > 0 /\ order[m].side = "buy"
        \/ q < 0 /\ order[m].side = "sell_short"
    <3>1. /\ q # 0
          /\ q > 0 => order[m].side = "buy"
          /\ q < 0 => order[m].side = "sell_short"
      BY <1>1, TheSymbol, LongOrShort
    <3> QED
      BY <1>1, <3>1
  <2>2. \/ q > 0 /\ r.side = "sell"
        \/ q < 0 /\ r.side = "buy_to_cover"
    BY <2>1 DEF ClosesOrder, CloseSide
  <2> QED
    BY <1>1, <2>2 DEF Signed
<1>6. q * Signed(r) < 0 /\ SideAllowed(r.side, q)
  BY <1>1, <1>5, Signs DEF SideAllowed
<1>7. Allowed(r)
  <2>1. Tradable(r)
    BY <1>1, <1>4, <1>6 DEF Tradable
  <2> QED
    BY <1>1, <1>6, <2>1 DEF Allowed
<1> DEFINE a == [j \in O |-> IF j = m THEN n ELSE 0]
<1>8. a \in Closings(r)
  <2>1. a \in [O -> 0 .. n] /\ a[m] = n /\ a[m] \in Int
    BY <1>1
  <2>2. SumFunctionOnSet(a, O) = n
    <3>1. {m} \in SUBSET O /\ (\A x \in O : a[x] \in Int) /\ \A x \in O \ {m} : a[x] = 0
      BY <1>1
    <3>2. SumFunctionOnSet(a, O) = SumFunctionOnSet(a, {m})
      BY <1>1, <3>1, SumOnPart
    <3> QED
      BY <2>1, <3>2, SumSingleton
  <2>3. \A i \in O : a[i] > 0 =>
          /\ Fits(i, a[i])
          /\ IF r.target = None THEN \A j \in O : j < i => a[j] = Remaining(j)
             ELSE Id(i) = r.target
    <3> TAKE i \in O
    <3> HAVE a[i] > 0
    <3>1. i = m /\ a[i] = Remaining(m) /\ Remaining(m) \in Nat
      BY <1>1
    <3>2. Fits(i, a[i])
      BY <3>1 DEF Fits
    <3>3. CASE m = 1
      <4>1. r.target = None /\ \A j \in O : ~(j < i)
        BY <1>1, <1>2, <3>1, <3>3 DEF Aim
      <4> QED
        BY <3>2, <4>1
    <3>4. CASE m # 1
      <4>1. r.target = m - 1 /\ r.target # None
        BY <1>1, <1>2, <3>4, SimulatorAssumption DEF Aim
      <4> QED
        BY <1>3, <3>1, <3>2, <4>1
    <3> QED
      BY <3>3, <3>4
  <2>4. IsClose(r)
    BY <1>1, <1>6 DEF IsClose
  <2> QED
    BY <1>1, <2>1, <2>2, <2>3, <2>4, ClosingsWitness
<1>9. ASSUME pending = {} PROVE PendingClosesFit(r) /\ Placeable(r)
  <2>1. {i \in pending : order[i].symbol = r.symbol} = {} /\ {i \in pending : order[i].target = r.target} = {}
    BY <1>9
  <2>2. Net({}) = 0 /\ Volume({}) = 0
    <3>1. NetSum(order, {}) = 0 /\ VolumeSum(order, {}) = 0
      BY NetIsSum, VolumeIsSum, SumEmpty
    <3> QED
      BY <3>1, SumsOfTheState
  <2>3. Placeable(r)
    <3>1. Net({i \in pending : order[i].symbol = r.symbol}) = 0
      BY <2>1, <2>2
    <3>2. position[r.symbol].quantity + Net({i \in pending : order[i].symbol = r.symbol}) = q
      BY <1>1, <3>1
    <3> QED
      BY <1>6, <1>8, <3>2 DEF Placeable
  <2>4. CASE r.target = None
    BY <2>3, <2>4 DEF PendingClosesFit
  <2>5. CASE r.target # None
    <3>1. m # 1 /\ r.target = m - 1
      BY <1>1, <1>2, <2>5 DEF Aim
    <3>2. /\ orders \in Seq(Slots) /\ DOMAIN orders = 1 .. Len(orders) /\ Len(orders) \in Nat
          /\ \A k \in DOMAIN orders : orders[k] \in Slots /\ orders[k] \in Nat /\ orders[k] >= 1
      BY <1>1, SlotsCount DEF Listed, EndsListed
    <3>3. \A k \in WithId(r.target) : k \in DOMAIN orders /\ orders[k] = m
      <4> TAKE k \in WithId(r.target)
      <4>1. k \in DOMAIN orders /\ Id(orders[k]) = m - 1
        BY <3>1 DEF WithId
      <4>2. Id(orders[k]) = 0 \/ Id(orders[k]) = orders[k] - 1
        BY DEF Id
      <4> QED
        BY <1>2, <3>1, <3>2, <4>1, <4>2
    <3>4. WithId(r.target) # {}
      <4>1. PICK k \in DOMAIN orders : orders[k] = m
        BY <1>1, <1>2 DEF Listed, EndsListed, Ended
      <4>2. traded[m] # None
        BY <1>1, <1>2, SimulatorAssumption DEF Listed, Records
      <4> QED
        BY <1>3, <3>1, <4>1, <4>2 DEF WithId
    <3>5. WithId(r.target) \in SUBSET Nat /\ IsFiniteSet(WithId(r.target))
      <4>1. WithId(r.target) \in SUBSET (1 .. Len(orders))
        BY <3>2, <3>3
      <4>2. IsFiniteSet(1 .. Len(orders))
        BY <3>2, FS_Interval
      <4> QED
        BY <4>1, <4>2, FS_Subset
    <3>6. PICK k \in WithId(r.target) : \A j \in WithId(r.target) : j <= k
      BY <3>4, <3>5, MaxIn
    <3>7. orders[k] = m /\ 0 <= Remaining(m)
      BY <1>1, <3>3
    <3> QED
      BY <1>2, <2>1, <2>2, <2>3, <3>6, <3>7 DEF PendingClosesFit
  <2> QED
    BY <2>4, <2>5
<1> QED
  BY <1>7, <1>8, <1>9

-----------------------------------------------------------------------------
(* The orders that close.  While no call failed, a signal or a request for   *)
(* an order asks for all that is left of it if it is still open, and one for *)
(* no order in particular for at least all there is: the signal of a take    *)
(* profit is the total when the signals were made, and everything that is    *)
(* closed before it makes it too large.                                      *)
Exposure == Larger(position[Symbol].quantity, -position[Symbol].quantity)
Amount(m, n) == IF m = None THEN n >= Exposure ELSE m \in open[Symbol] => n = Remaining(m)

UserFill(m) == m \in Slots /\ m <= MaxOrders /\ status[m] = "filled" /\ ~order[m].forced

\* Order 1, whose id cannot be sent, is signalled first and handled first.
Fitting(r, m) ==
    /\ r.target = Aim(m)
    /\ m # None => ~Opening(r) /\ m <= MaxOrders
    /\ Faultless /\ ~Opening(r) =>
          /\ Amount(m, r.quantity)
          /\ m \in open[Symbol] => r.side = CloseSide(m)
          /\ m = 1 => 1 \in open[Symbol]

Wanted ==
    /\ \A s \in signals :
          /\ UserFill(s.from) /\ s.meant \in {None, s.from}
          /\ Faultless => Amount(s.meant, s.quantity)
          /\ Faultless /\ s.from = 1 => pc = "closing" /\ 1 \in open[Symbol]
    /\ \A s, u \in signals : s.from = u.from => s = u

\* Signals are handled before anything else is done.
Calling  == pc \in {"place", "queue", "tick", "ticking", "reply"}
NoneLeft == pc \in {"open", "size"} \/ (Calling /\ job.kind # "close") => signals = {}

\* What is sent is for what the signal was for.
SentJob ==
    pc \in {"place", "queue"} =>
        Fitting(job.request, job.meant) /\ (job.kind = "open" <=> Opening(job.request))
SentOrder == pc = "queue" => order[placing] = job.request /\ meant[placing] = job.meant
SentFits  == \A i \in pending : Fitting(order[i], meant[i])
SentAlone ==
    Faultless /\ pc \in {"tick", "ticking"} =>
        /\ \A i, j \in pending : i = j
        /\ job # Main => \A i \in pending : ~Opening(order[i]) /\ meant[i] = job.meant
Sent == SentJob /\ SentOrder /\ SentFits /\ SentAlone

(* What a step leaves of the open orders was open and is as it was.          *)
Loosened ==
    /\ open'[Symbol] \subseteq open[Symbol] /\ Exposure' <= Exposure
    /\ \A j \in open'[Symbol] : order'[j] = order[j] /\ closed'[j] = closed[j]
Same ==
    /\ open'[Symbol] = open[Symbol] /\ position' = position
    /\ \A j \in open[Symbol] : order'[j] = order[j] /\ closed'[j] = closed[j]

\* The exposure is what is left of the open orders.
Exposed ==
    /\ Exposure \in Nat /\ position[Symbol].quantity \in Int
    /\ Exposure = RestSum(order, closed, open[Symbol])
    /\ position[Symbol].quantity = LeftSum(order, closed, open[Symbol])
    /\ Exposure = 0 => open[Symbol] = {}

LEMMA NothingOf == \A n \in Int : n >= 0 /\ n <= 0 => Larger(n, -n) = 0
BY DEF Larger

LEMMA ExposedHolds == Sound => Exposed
<1> SUFFICES ASSUME Sound PROVE Exposed
  OBVIOUS
<1>1. /\ Exposure \in Nat /\ position[Symbol].quantity \in Int
      /\ Exposure = RestSum(order, closed, open[Symbol])
  BY OpenRestSums DEF Exposure
<1>2. position[Symbol].quantity = LeftSum(order, closed, open[Symbol])
  BY TheSymbol, BooksSum DEF BooksFit, Sound, Accounts
<1>3. Exposure = 0 => position[Symbol].quantity = 0
  BY <1>1 DEF Exposure, Larger
<1>4. Exposure = 0 => open[Symbol] = {}
  BY <1>3, TheSymbol, LongOrShort DEF Sound, BooksInv, Accounts
<1> QED
  BY <1>1, <1>2, <1>4 DEF Exposed

LEMMA ExposedNext == ASSUME Sound' PROVE Exposed'
BY ExposedHolds, PTL

LEMMA ExposureType == ASSUME Sound PROVE Exposure \in Nat
BY ExposedHolds DEF Exposed

LEMMA SameLoosens == ASSUME Sound, Same PROVE Loosened
<1>1. Exposure' = Exposure
  BY DEF Same, Exposure
<1> QED
  BY <1>1, ExposureType DEF Same, Loosened

LEMMA AmountStays ==
    ASSUME Sound, Sound', Loosened, NEW m, NEW n \in Int, Amount(m, n) PROVE Amount(m, n)'
<1>1. Exposure \in Nat /\ Exposure' \in Nat
  BY ExposureType, ExposedNext DEF Exposed
<1>2. CASE m = None
  BY <1>1, <1>2 DEF Amount, Loosened
<1>3. CASE m # None
  BY <1>3 DEF Amount, Loosened, Remaining
<1> QED
  BY <1>2, <1>3

LEMMA FittingStays ==
    ASSUME Same, NEW r, NEW m, Fitting(r, m), Faultless' => Faultless PROVE Fitting(r, m)'
<1>1. Exposure' = Exposure
  BY DEF Same, Exposure
<1>2. Amount(m, r.quantity) => Amount(m, r.quantity)'
  BY <1>1 DEF Amount, Same, Remaining
<1>3. m \in open[Symbol] => CloseSide(m)' = CloseSide(m)
  BY DEF Same, CloseSide
<1> QED
  BY <1>2, <1>3 DEF Fitting, Same

LEMMA UserFillStays == ASSUME Sound, AnyStep, NEW m, UserFill(m) PROVE UserFill(m)'
<1>1. Stands
  BY StepBooks DEF Sound
<1> QED
  BY <1>1 DEF UserFill, Stands, Ended

(* Calls change no order that is one already.                                *)
LEMMA CallsKeepOrders ==
    ASSUME Sound, \/ \E r \in Asked : CheckOrder(r)
                  \/ QueueOrder
                  \/ \E moves \in BOOLEAN : BeginTick(moves)
                  \/ CheckMargin
                  \/ Advance
                  \/ UNCHANGED simVars
    PROVE  Same /\ \A j \in Slots : status[j] # "none" => order'[j] = order[j]
<1>1. Kinds /\ Unused /\ \A j \in open[Symbol] : j \in Slots /\ status[j] # "none"
  BY TheSymbol DEF Sound, BooksInv, InCache, Kinds
<1>2. UNCHANGED <<open, position, closed>>
  BY DEF CheckOrder, QueueOrder, BeginTick, CheckMargin, Advance, simVars, books
<1>3. ASSUME NEW j \in Slots, status[j] # "none" PROVE order'[j] = order[j]
  <2>1. j # nonce + 1
    <3>1. j \in Nat /\ nonce \in Nat /\ ~(j > nonce)
      BY <1>1, <1>3, SlotsAreNat DEF Unused, Kinds
    <3> QED
      BY <3>1
  <2>2. \/ order' = order
        \/ \E r : order' = [order EXCEPT ![nonce + 1] = r]
    BY DEF CheckOrder, QueueOrder, BeginTick, CheckMargin, Advance, simVars, books
  <2> QED
    BY <1>1, <1>3, <2>1, <2>2 DEF Kinds
<1> QED
  BY <1>1, <1>2, <1>3 DEF Same

(* A closing order that is filled takes its quantity off the position.       *)
LEMMA FillReduces ==
    ASSUME NEW i, NEW r, NEW a, Filling(i, r, a), r \in Asked, ~Opening(r), Tradable(r), Sound, Sound'
    PROVE  Exposure' = Exposure - r.quantity /\ r.quantity \in Nat /\ r.quantity > 0
<1> PICK q : q = position[Symbol].quantity
  OBVIOUS
<1> PICK p : p = position'[Symbol].quantity
  OBVIOUS
<1> PICK n : n = r.quantity
  OBVIOUS
<1>1. SideAllowed(r.side, position[Symbol].quantity) /\ r.symbol = Symbol
  BY TheOnlySymbol DEF Filling
<1>2. /\ n \in Nat /\ n > 0 /\ q * Signed(r) < 0
      /\ Signed(r) = IF q > 0 THEN -n ELSE n
  BY <1>1, ClosingSide
<1>3. p = LeftSum(order', closed', open'[Symbol])
  BY ExposedNext DEF Exposed
<1>4. p = q + Signed(r)
  BY <1>1, <1>3, ClosingFill
<1>5. q \in Int /\ Exposure' = Larger(p, -p) /\ Exposure = Larger(q, -q)
  BY ExposedHolds DEF Exposed, Exposure
<1>6. n <= Larger(q, -q)
  BY <1>1, <1>2 DEF Tradable
<1>7. q # 0
  <2>1. q = 0 => q * n = 0
    BY <1>2
  <2> QED
    BY <1>2, <1>5, <2>1
<1>8. CASE q > 0
  BY <1>2, <1>4, <1>5, <1>6, <1>8 DEF Larger
<1>9. CASE q < 0
  BY <1>2, <1>4, <1>5, <1>6, <1>9 DEF Larger
<1> QED
  BY <1>5, <1>7, <1>8, <1>9

(* While no call failed, the order of a close signal closes what it is meant *)
(* for, if that is still open, and leaves the other orders alone.            *)
LEMMA CommitCloses ==
    ASSUME Sound, Sound', Loop, Faultless, NEW i \in pending, Commit(i),
           Fitting(order[i], meant[i]), ~Opening(order[i])
    PROVE  Loosened /\ meant[i] \notin open'[Symbol]
<1> PICK r : r = order[i]
  OBVIOUS
<1> PICK m : m = meant[i]
  OBVIOUS
<1>1. /\ BooksInv /\ Accounts /\ Kinds /\ i \in Slots /\ r \in Asked /\ r \in Order /\ m \in Slots \cup {None}
      /\ open[Symbol] \in SUBSET Slots /\ None \notin Slots /\ r.symbol = Symbol
      /\ \A j \in open[Symbol] : j \in Slots /\ closed[j] \in Nat /\ order[j].quantity \in Nat
  <2>1. BooksInv /\ Accounts /\ Kinds /\ i \in Slots /\ r \in Asked /\ r \in Order /\ m \in Slots \cup {None}
    BY DEF Sound, BooksInv, Kinds, Waiting, Loop, Asked
  <2>2. \A j \in open[Symbol] : j \in Slots /\ closed[j] \in Nat /\ order[j].quantity \in Nat
    BY <2>1, TheSymbol, OpenOrders DEF Accounts
  <2> QED
    BY <2>1, <2>2, OpenRestSums, TheOnlySymbol, SimulatorAssumption
<1>2. /\ r.target = Aim(m)
      /\ m # None => m <= MaxOrders
      /\ Amount(m, r.quantity)
      /\ m \in open[Symbol] => r.side = CloseSide(m)
      /\ m = 1 => 1 \in open[Symbol]
  BY DEF Fitting
<1>3. ASSUME NEW a \in Closings(r), Fill(i, r, a), Ends(i, r, "filled"), Allowed(r)
      PROVE  Loosened /\ m \notin open'[Symbol]
  <2>1. Filling(i, r, a) /\ Tradable(r) /\ SideAllowed(r.side, position[Symbol].quantity)
    BY <1>1, <1>3 DEF Filling, Allowed
  <2>2. Exposure' = Exposure - r.quantity /\ r.quantity \in Nat /\ r.quantity > 0 /\ IsClose(r)
    BY <1>1, <2>1, FillReduces, ClosingSide
  <2>3. Exposure \in Nat /\ Exposure' \in Nat /\ Exposure' <= Exposure
    <3>1. Exposure \in Nat /\ Exposure' \in Nat
      BY ExposureType, ExposedNext DEF Exposed
    <3> QED
      BY <2>2, <3>1
  <2>4. /\ open'[Symbol] = {j \in open[Symbol] : order[j].quantity - closed'[j] > 0}
        /\ \A j \in open[Symbol] : closed'[j] = closed[j] + a[j]
        /\ \A j \in Slots : j # i => order'[j] = order[j]
        /\ i \notin open[Symbol]
    BY <1>1, <2>1, FillState, ClosingFill
  <2>5. CASE m = None
    <3>1. Exposure' = 0
      BY <1>2, <2>2, <2>3, <2>5 DEF Amount
    <3>2. open'[Symbol] = {}
      BY <3>1, ExposedNext DEF Exposed
    <3> QED
      BY <2>3, <3>2 DEF Loosened
  <2>6. CASE m # None
    <3>1. /\ \A j \in open[Symbol] : j # m => a[j] = 0
          /\ m \in open[Symbol] /\ a[m] = r.quantity
      BY <1>1, <1>2, <1>3, <2>2, <2>6, HitsNoOther DEF Amount
    <3>2. r.quantity = order[m].quantity - closed[m]
      BY <1>2, <2>6, <3>1 DEF Amount, Remaining
    <3>3. m \notin open'[Symbol]
      BY <1>1, <2>4, <3>1, <3>2
    <3>4. \A j \in open'[Symbol] : order'[j] = order[j] /\ closed'[j] = closed[j]
      BY <1>1, <2>4, <3>1, <3>3
    <3> QED
      BY <2>3, <2>4, <3>3, <3>4 DEF Loosened
  <2> QED
    BY <2>5, <2>6
<1>4. ASSUME Ends(i, r, "rejected"), Reject(i, r), m \notin open[Symbol]
      PROVE  Loosened /\ m \notin open'[Symbol]
  <2>1. UNCHANGED <<closed, open>> /\ order' = [order EXCEPT ![i] = r]
    BY <1>4 DEF Reject, Ledger
  <2>2. order' = order
    BY <1>1, <2>1 DEF Kinds
  <2>3. Exposure' = Exposure
    <3>1. Exposure' = RestSum(order', closed', open'[Symbol])
      BY ExposedNext DEF Exposed
    <3> QED
      BY <2>1, <2>2, <3>1, ExposedHolds DEF Exposed
  <2> QED
    BY <1>4, <2>1, <2>2, <2>3, ExposureType DEF Loosened
<1>5. CASE m \in open[Symbol]
  <2>1. ClosesOrder(r, m) /\ m <= MaxOrders
    BY <1>1, <1>2, <1>5 DEF ClosesOrder, Amount
  <2>2. Allowed(r) /\ Closings(r) # {}
    BY <1>5, <2>1, CloseIsTaken
  <2>3. PICK a \in Closings(r) : Fill(i, r, a)
    BY <2>2 DEF Commit
  <2>4. Ends(i, r, "filled")
    <3>1. Fill(i, r, a) => r.symbol \in Symbols /\ Ledger(i, r, "filled")
      BY <1>1, OrderFacts DEF Fill
    <3>2. status'[i] = "filled"
      BY <1>1, <2>3, <3>1 DEF Ledger, Kinds
    <3>3. Reject(i, r) => status'[i] = "rejected"
      BY <1>1 DEF Reject, Ledger, Kinds
    <3> QED
      BY <1>1, <3>2, <3>3, CommitEnds DEF Ends, Ledger
  <2> QED
    BY <1>3, <2>2, <2>3, <2>4
<1>6. CASE m \notin open[Symbol]
  BY <1>1, <1>3, <1>4, <1>6, CommitEnds
<1> QED
  BY <1>5, <1>6

LEMMA LiquidateCloses ==
    ASSUME Sound, Sound', NEW s \in Symbols, Liquidate(s)
    PROVE  Loosened /\ open'[Symbol] = {}
<1>1. s = Symbol
  BY EngineAssumption
<1> PICK r : r = Liquidation(s)
  OBVIOUS
<1>2. PICK a \in Closings(r) : Fill(nonce', r, a)
  BY LiquidateEnds
<1>3. /\ Filling(nonce', r, a) /\ ~Opening(r) /\ Signed(r) = -position[Symbol].quantity /\ r.symbol = Symbol
  BY <1>1, <1>2, LiquidateEnds DEF Filling, Sound
<1>4. position'[Symbol].quantity = LeftSum(order', closed', open'[Symbol])
  BY ExposedNext DEF Exposed
<1>5. position'[Symbol].quantity = 0
  BY <1>3, <1>4, ClosingFill, ExposedHolds DEF Exposed
<1>6. Exposure' = 0
  <2>1. position'[Symbol].quantity \in Int /\ position'[Symbol].quantity >= 0 /\ position'[Symbol].quantity <= 0
    BY <1>5
  <2> QED
    BY <2>1, NothingOf DEF Exposure
<1>7. open'[Symbol] = {}
  BY <1>6, ExposedNext DEF Exposed
<1> QED
  BY <1>6, <1>7, ExposureType DEF Loosened

LEMMA TickLoosens ==
    ASSUME EngineInv, Sound', Sent, Faultless, pc = "ticking", job # Main, TickStep
    PROVE  /\ Loosened
           /\ pending' # pending => pending' = {} /\ job.meant \notin open'[Symbol]
<1>1. Sound /\ Loop /\ Turns
  BY DEF EngineInv
<1>2. ASSUME NEW i \in pending, Commit(i)
      PROVE  Loosened /\ pending' = {} /\ job.meant \notin open'[Symbol]
  <2>1. /\ Fitting(order[i], meant[i]) /\ pending = {i}
        /\ ~Opening(order[i]) /\ meant[i] = job.meant
    BY <1>2 DEF Sent, SentFits, SentAlone
  <2>2. pending' = pending \ {i}
    BY <1>2 DEF Commit, Fill, Reject, Ledger
  <2> QED
    BY <1>1, <1>2, <2>1, <2>2, CommitCloses
<1>3. ASSUME NEW s \in Symbols, Liquidate(s) PROVE Loosened /\ pending' = pending
  <2>1. pending = {} /\ pending' = pending \ {nonce'}
    BY <1>1, <1>3 DEF Liquidate, Fill, Ledger, Turns
  <2> QED
    BY <1>1, <1>3, <2>1, LiquidateCloses
<1>4. ASSUME CheckMargin \/ Advance PROVE Loosened /\ pending' = pending
  <2>1. Same
    BY <1>1, <1>4, CallsKeepOrders
  <2> QED
    BY <1>1, <1>4, <2>1, SameLoosens DEF CheckMargin, Advance, books
<1> QED
  BY <1>2, <1>3, <1>4 DEF TickStep

-----------------------------------------------------------------------------
LEMMA NoneLeftStep == ASSUME EngineInv, NoneLeft, [Step]_vars PROVE NoneLeft'
<1>1. CASE Close \/ NextClose \/ Open \/ SizeOrder \/ UNCHANGED vars
  BY <1>1 DEF Close, NextClose, Open, SizeOrder, vars, engineVars, loop, Enter, Working, StartTick, NoneLeft, Calling
<1>2. CASE Place \/ GiveUp
  BY <1>2 DEF Place, GiveUp, Fail, Enter, loop, NoneLeft, Calling
<1>3. CASE Answered \/ ReplyLost \/ Tick \/ Ticking
  BY <1>3 DEF Answered, ReplyLost, StartTick, Tick, Ticking, Enter, loop, NoneLeft, Calling
<1>4. CASE Reply
  BY <1>4 DEF Reply, Enter, NoneLeft, Calling
<1> QED
  BY <1>1, <1>2, <1>3, <1>4 DEF Step

(* What the close strategy signals: each open order once, at most.           *)
LEMMA SignalsWanted ==
    ASSUME EngineInv
    PROVE  /\ \A s \in CloseSignals :
                /\ UserFill(s.from) /\ s.meant \in {None, s.from} /\ s.from \in open[Symbol]
                /\ Amount(s.meant, s.quantity)
           /\ \A s, u \in CloseSignals : s.from = u.from => s = u
<1> PICK N : N = MapThenSumSet(Remaining, open[Symbol])
  OBVIOUS
<1>1. /\ Sound /\ open[Symbol] \in SUBSET Slots /\ None \notin Slots
      /\ \A i \in open[Symbol] : UserFill(i) /\ i # None
      /\ N = Exposure /\ Exposure \in Nat
  <2>1. Sound /\ open[Symbol] \in SUBSET Slots /\ N = Exposure /\ Exposure \in Nat
    BY OpenRestSums, RestOfTheState, ExposedHolds DEF EngineInv, Exposed
  <2>2. \A i \in open[Symbol] : UserFill(i)
    BY <2>1, OpenRestSums, TheSymbol DEF EngineInv, UserSlots, Sound, BooksInv, InCache, UserFill
  <2> QED
    BY <2>1, <2>2, SimulatorAssumption
<1>2. \A s \in CloseSignals :
        \E i \in open[Symbol] :
           \/ /\ StopHit(i) \/ (~TargetHit(i) /\ Against(i))
              /\ s = [from |-> i, why |-> "order", meant |-> i, quantity |-> Remaining(i)]
           \/ /\ ~StopHit(i) /\ TargetHit(i)
              /\ s = [from |-> i, why |-> "tp", meant |-> None, quantity |-> N]
  BY DEF CloseSignals
<1>3. ASSUME NEW s \in CloseSignals
      PROVE  /\ UserFill(s.from) /\ s.meant \in {None, s.from} /\ s.from \in open[Symbol]
             /\ Amount(s.meant, s.quantity)
  <2>1. PICK i \in open[Symbol] :
           \/ s = [from |-> i, why |-> "order", meant |-> i, quantity |-> Remaining(i)]
           \/ s = [from |-> i, why |-> "tp", meant |-> None, quantity |-> N]
    BY <1>2
  <2>2. CASE s = [from |-> i, why |-> "order", meant |-> i, quantity |-> Remaining(i)]
    BY <1>1, <2>2 DEF Amount
  <2>3. CASE s = [from |-> i, why |-> "tp", meant |-> None, quantity |-> N]
    BY <1>1, <2>3 DEF Amount
  <2> QED
    BY <2>1, <2>2, <2>3
<1>4. ASSUME NEW s \in CloseSignals, NEW u \in CloseSignals, s.from = u.from PROVE s = u
  <2>1. PICK i \in open[Symbol] :
           \/ /\ StopHit(i) \/ (~TargetHit(i) /\ Against(i))
              /\ s = [from |-> i, why |-> "order", meant |-> i, quantity |-> Remaining(i)]
           \/ /\ ~StopHit(i) /\ TargetHit(i)
              /\ s = [from |-> i, why |-> "tp", meant |-> None, quantity |-> N]
    BY <1>2
  <2>2. PICK j \in open[Symbol] :
           \/ /\ StopHit(j) \/ (~TargetHit(j) /\ Against(j))
              /\ u = [from |-> j, why |-> "order", meant |-> j, quantity |-> Remaining(j)]
           \/ /\ ~StopHit(j) /\ TargetHit(j)
              /\ u = [from |-> j, why |-> "tp", meant |-> None, quantity |-> N]
    BY <1>2
  <2>3. s.from = i
    <3>1. CASE s = [from |-> i, why |-> "order", meant |-> i, quantity |-> Remaining(i)]
      BY <3>1
    <3>2. CASE s = [from |-> i, why |-> "tp", meant |-> None, quantity |-> N]
      BY <3>2
    <3> QED
      BY <2>1, <3>1, <3>2
  <2>4. u.from = j
    <3>1. CASE u = [from |-> j, why |-> "order", meant |-> j, quantity |-> Remaining(j)]
      BY <3>1
    <3>2. CASE u = [from |-> j, why |-> "tp", meant |-> None, quantity |-> N]
      BY <3>2
    <3> QED
      BY <2>2, <3>1, <3>2
  <2>5. i = j
    BY <1>4, <2>3, <2>4
  <2> QED
    BY <2>1, <2>2, <2>5
<1> QED
  BY <1>3, <1>4

LEMMA FaultsStay == ASSUME EngineInv, [Step]_vars PROVE Faultless' => Faultless
<1>1. lost \in Nat /\ gaveUp \in Nat
  BY DEF EngineInv, Loop
<1> QED
  BY <1>1 DEF Step, Close, NextClose, Open, SizeOrder, Place, Answered, ReplyLost, Tick, Ticking, Reply, GiveUp,
     vars, engineVars, faults, Faultless

LEMMA WantedStep ==
    ASSUME EngineInv, Sound', Wanted, NoneLeft, Sent, [Step]_vars PROVE Wanted'
<1>1. Sound /\ Loop /\ Turns /\ Asks /\ AnyStep
  BY ServerStep DEF EngineInv
<1>2. Faultless' => Faultless
  BY FaultsStay
<1>3. CASE Close
  <2>1. signals' = CloseSignals /\ pc' = "closing" /\ UNCHANGED simVars
    BY <1>3 DEF Close, Enter
  <2>2. \A s \in signals' : UserFill(s.from)'
    BY <1>1, <2>1, SignalsWanted, UserFillStays
  <2>3. Same
    BY <1>1, <2>1, CallsKeepOrders
  <2>4. \A s \in signals' : Amount(s.meant, s.quantity)'
    <3> TAKE s \in signals'
    <3>1. s.quantity \in Int
      BY <1>1, <2>1, CloseSignalsAsk DEF EngineInv
    <3>2. Amount(s.meant, s.quantity)
      BY <2>1, SignalsWanted
    <3> QED
      BY <1>1, <2>3, <3>1, <3>2, SameLoosens, AmountStays
  <2>5. \A s \in signals' : s.from \in open'[Symbol]
    BY <2>1, <2>3, SignalsWanted DEF Same
  <2> QED
    BY <2>1, <2>2, <2>4, <2>5, SignalsWanted DEF Wanted
<1>4. CASE ~Close
  <2>1. signals' \subseteq signals
    BY <1>4 DEF Step, NextClose, Handled, Open, SizeOrder, Place, Answered, ReplyLost, Tick, Ticking, Reply, GiveUp,
       vars, engineVars, loop
  <2>2. \A s \in signals' : UserFill(s.from)' /\ s.meant \in {None, s.from}
    BY <1>1, <2>1, UserFillStays DEF Wanted
  <2>3. Faultless => Loosened \/ signals = {}
    <3>1. ASSUME Ticking, Faultless PROVE Loosened \/ signals = {}
      <4>1. CASE job = Main
        BY <3>1, <4>1 DEF Ticking, NoneLeft, Calling, Main
      <4>2. CASE job # Main
        BY <3>1, <4>2, TickLoosens DEF Ticking
      <4> QED
        BY <4>1, <4>2
    <3>2. ASSUME ~Ticking PROVE Loosened
      <4>1. \/ \E r \in Asked : CheckOrder(r)
            \/ QueueOrder
            \/ \E moves \in BOOLEAN : BeginTick(moves)
            \/ UNCHANGED simVars
        <5>1. ASSUME Place PROVE (\E r \in Asked : CheckOrder(r)) \/ UNCHANGED simVars
          BY <5>1, PlacingJob DEF Place
        <5>2. ASSUME Tick PROVE \E moves \in BOOLEAN : BeginTick(moves)
          <6>1. BeginTick(job = Main) /\ (job = Main) \in BOOLEAN
            BY <5>2 DEF Tick
          <6> QED
            BY <6>1
        <5> QED
          BY <3>2, <5>1, <5>2
          DEF Step, Close, NextClose, Open, SizeOrder, Answered, ReplyLost, Reply, GiveUp, vars
      <4> QED
        BY <1>1, <4>1, CallsKeepOrders, SameLoosens
    <3> QED
      BY <3>1, <3>2
  <2>4. ASSUME Faultless', NEW s \in signals' PROVE Amount(s.meant, s.quantity)'
    <3>1. /\ s \in signals /\ s.quantity \in Int /\ Amount(s.meant, s.quantity) /\ Loosened
      BY <1>1, <1>2, <2>1, <2>3, <2>4 DEF Asks, Wanted
    <3> QED
      BY <1>1, <3>1, AmountStays
  <2>5. ASSUME Faultless', NEW s \in signals', s.from = 1 PROVE pc' = "closing" /\ 1 \in open'[Symbol]
    <3>1. pc = "closing" /\ 1 \in open[Symbol] /\ s \in signals
      BY <1>2, <2>1, <2>5 DEF Wanted
    <3>2. NextClose \/ UNCHANGED vars
      BY <1>4, <3>1 DEF Step, Close, Open, SizeOrder, Place, Answered, ReplyLost, Tick, Ticking, Reply, GiveUp
    <3>3. ~NextClose
      <4> SUFFICES ASSUME NextClose PROVE FALSE
        OBVIOUS
      <4>1. PICK t \in signals : (\A u \in signals : t.from <= u.from) /\ signals' = Handled(t)
        BY <3>1 DEF NextClose
      <4>2. t.from \in Nat /\ t.from >= 1 /\ t.from <= 1
        BY <1>1, <2>5, <3>1, <4>1, SlotsCount DEF Asks
      <4>3. s = t
        BY <2>5, <3>1, <4>1, <4>2 DEF Wanted
      <4> QED
        BY <2>5, <4>1, <4>3 DEF Handled
    <3> QED
      BY <3>1, <3>2, <3>3 DEF vars, engineVars, simVars, books
  <2> QED
    BY <2>1, <2>2, <2>4, <2>5 DEF Wanted
<1> QED
  BY <1>3, <1>4

LEMMA FirstSlot == 1 \in Slots
<1>1. Cardinality(Symbols) \in Nat /\ Cardinality(Symbols) # 0
  BY TheSymbol, SimulatorAssumption, FS_CardinalityType, FS_EmptySet
<1> QED
  BY <1>1, SimulatorAssumption DEF Slots

LEMMA PendingFits ==
    ASSUME Faultless' => Faultless, NEW i, Fitting(order[i], meant[i]),
           order'[i] = order[i], meant'[i] = meant[i], Same \/ ~Faultless'
    PROVE  Fitting(order[i], meant[i])'
<1> PICK r : r = order[i]
  OBVIOUS
<1> PICK m : m = meant[i]
  OBVIOUS
<1>1. Fitting(r, m)'
  <2>1. CASE Same
    BY <2>1, FittingStays
  <2>2. CASE ~Faultless'
    BY <2>2 DEF Fitting
  <2> QED
    BY <2>1, <2>2
<1>2. r = order'[i] /\ m = meant'[i]
  OBVIOUS
<1> QED
  BY <1>1, <1>2 DEF Fitting, Amount, CloseSide

(* The request of a new job: a close asks for what the signal said, and      *)
(* everything is what the position is.                                       *)
LEMMA NewJobFits ==
    ASSUME EngineInv, Wanted, NextClose \/ Open \/ SizeOrder, pc' = "place"
    PROVE  /\ Fitting(job.request, job.meant)'
           /\ job'.kind = "open" <=> Opening(job'.request)
<1>1. /\ Sound /\ Loop /\ Remembers /\ Asks /\ None \notin Slots /\ open[Symbol] \in SUBSET Slots
  BY OpenRestSums, SimulatorAssumption DEF EngineInv
<1>2. Same /\ (Faultless' <=> Faultless)
  BY <1>1, CallsKeepOrders DEF NextClose, Open, SizeOrder, faults, Faultless
<1> PICK r : r = job'.request
  OBVIOUS
<1> PICK m : m = job'.meant
  OBVIOUS
<1>3. CASE NextClose
  <2>1. PICK s \in signals :
          /\ \A u \in signals : s.from <= u.from
          /\ Working("close",
                  Ask(IF order[s.from].side = "buy" THEN "sell" ELSE "buy_to_cover", s.quantity, TargetId(s.meant)),
                  s.meant, NoPlan)
    BY <1>3 DEF NextClose, Enter
  <2>2. /\ r = Ask(CloseSide(s.from), s.quantity, TargetId(s.meant)) /\ m = s.meant /\ job'.kind = "close"
    BY <2>1 DEF Working, CloseSide
  <2>3. /\ UserFill(s.from) /\ s.meant \in {None, s.from}
        /\ Faultless => Amount(s.meant, s.quantity)
        /\ Faultless /\ s.from = 1 => 1 \in open[Symbol]
    BY DEF Wanted
  <2>4. TargetId(m) = Aim(m)
    <3>1. CASE m = None
      BY <3>1 DEF TargetId, Aim
    <3>2. CASE m # None
      <4>1. m \in Slots /\ m \in Nat /\ m >= 1 /\ Id(m) = m - 1
        BY <2>2, <2>3, <3>2, SlotsCount DEF UserFill, Id
      <4> QED
        BY <3>2, <4>1 DEF TargetId, Aim
    <3> QED
      BY <3>1, <3>2
  <2>5. ~Opening(r) /\ r.quantity = s.quantity /\ r.target = Aim(m)
    BY <2>2, <2>4 DEF Ask, Opening, CloseSide
  <2>6. Fitting(r, m)
    <3>1. m # None => m = s.from /\ m <= MaxOrders
      BY <2>2, <2>3 DEF UserFill
    <3>2. m \in open[Symbol] => m = s.from /\ r.side = CloseSide(m)
      BY <1>1, <2>2, <2>3 DEF Ask
    <3>3. m = 1 => m = s.from
      <4>1. 1 \in Slots
        BY <2>3, SlotsCount DEF UserFill
      <4> QED
        BY <1>1, <3>1, <4>1
    <3> QED
      BY <2>2, <2>3, <2>5, <3>1, <3>2, <3>3 DEF Fitting
  <2>7. Fitting(r, m)'
    BY <1>2, <2>6, FittingStays
  <2> QED
    BY <2>2, <2>5, <2>7 DEF Fitting, Amount, CloseSide
<1>4. CASE Open
  <2>1. /\ m = None /\ job'.kind = "all"
        /\ \/ account > 0 /\ r = Ask("sell", account, None)
           \/ account < 0 /\ r = Ask("buy_to_cover", -account, None)
    BY <1>4 DEF Open, StartTick, Working, Enter
  <2>2. r.target = None /\ ~Opening(r) /\ r.quantity = Larger(account, -account)
    <3>1. account \in Int
      BY <1>1 DEF Loop
    <3> QED
      BY <2>1, <3>1 DEF Ask, Opening, Larger
  <2>3. Faultless => account = position[Symbol].quantity
    <3>1. pc = "open" /\ lost \in Nat /\ gaveUp \in Nat
      BY <1>1, <1>4 DEF Open, Loop
    <3> QED
      BY <1>1, <3>1 DEF Remembers, Faultless
  <2>4. Faultless => r.quantity >= Exposure
    <3>1. Exposure \in Nat
      BY <1>1, ExposureType
    <3> QED
      BY <2>2, <2>3, <3>1 DEF Exposure
  <2>5. m \notin open[Symbol] /\ m # 1
    <3>1. 1 \in Slots
      BY FirstSlot
    <3> QED
      BY <1>1, <2>1, <3>1
  <2>6. Fitting(r, m)
    BY <2>1, <2>2, <2>4, <2>5 DEF Fitting, Aim, Amount
  <2>7. Fitting(r, m)'
    BY <1>2, <2>6, FittingStays
  <2> QED
    BY <2>1, <2>2, <2>7 DEF Fitting, Amount, CloseSide
<1>5. CASE SizeOrder
  <2>1. m = None /\ job'.kind = "open" /\ r.side = EntrySide /\ r.target = None
    BY <1>5 DEF SizeOrder, StartTick, Working, Enter, Ask
  <2>2. Opening(r)
    BY <2>1 DEF EntrySide, Opening
  <2>3. Fitting(r, m)
    BY <2>1, <2>2 DEF Fitting, Aim
  <2>4. Fitting(r, m)'
    BY <1>2, <2>3, FittingStays
  <2> QED
    BY <2>1, <2>2, <2>4 DEF Fitting, Amount, CloseSide
<1> QED
  BY <1>3, <1>4, <1>5

LEMMA SentJobStep == ASSUME EngineInv, Wanted, Sent, [Step]_vars PROVE SentJob'
<1>1. Sound /\ SentJob /\ (Faultless' => Faultless)
  BY FaultsStay DEF EngineInv, Sent
<1>2. CASE pc' \notin {"place", "queue"}
  BY <1>2 DEF SentJob
<1>3. CASE pc' = "place" /\ (NextClose \/ Open \/ SizeOrder)
  BY <1>3, NewJobFits DEF SentJob
<1>4. CASE pc \in {"place", "queue"} /\ job' = job /\ (Place \/ Answered \/ ReplyLost \/ UNCHANGED vars)
  <2> PICK r : r = job.request
    OBVIOUS
  <2> PICK m : m = job.meant
    OBVIOUS
  <2>1. Same
    <3>1. (\E q \in Asked : CheckOrder(q)) \/ QueueOrder \/ UNCHANGED simVars
      <4>1. ASSUME Place PROVE (\E q \in Asked : CheckOrder(q)) \/ UNCHANGED simVars
        BY <4>1, PlacingJob DEF Place
      <4> QED
        BY <1>4, <4>1 DEF Answered, ReplyLost, vars
    <3> QED
      BY <1>1, <3>1, CallsKeepOrders
  <2>2. Fitting(r, m)'
    BY <1>1, <1>4, <2>1, FittingStays DEF SentJob
  <2>3. job.kind = "open" <=> Opening(job.request)
    BY <1>1, <1>4 DEF SentJob
  <2> QED
    BY <1>4, <2>2, <2>3 DEF SentJob, Fitting, Amount, CloseSide
<1>5. \/ pc' \notin {"place", "queue"}
      \/ pc' = "place" /\ (NextClose \/ Open \/ SizeOrder)
      \/ pc \in {"place", "queue"} /\ job' = job /\ (Place \/ Answered \/ ReplyLost \/ UNCHANGED vars)
  BY DEF Step, Close, NextClose, Open, SizeOrder, Place, Answered, ReplyLost, Tick, Ticking, Reply, GiveUp,
     Enter, StartTick, Fail, vars, engineVars
<1> QED
  BY <1>2, <1>3, <1>4, <1>5

(* What PlaceOrder makes of a request, in a slot that was not used.          *)
LEMMA PlaceQueues ==
    ASSUME EngineInv, Place
    PROVE  /\ pending' = pending
           /\ \A i \in Slots : status[i] # "none" =>
                 order'[i] = order[i] /\ meant'[i] = meant[i] /\ plan'[i] = plan[i]
           /\ pc' = "queue" => /\ placing' # None /\ job' = job
                               /\ order'[placing'] = job.request /\ meant'[placing'] = job.meant
           /\ pc' # "queue" => Fail /\ UNCHANGED <<plan, meant>>
                               /\ ~(PendingClosesFit(job.request) /\ Placeable(job.request))
<1>1. Sound /\ Kinds /\ Unused /\ Loop /\ pc = "place"
  BY DEF EngineInv, Sound, BooksInv, Place
<1>2. nonce < MaxOrders => nonce + 1 \in Slots
  BY <1>1, NextSlot DEF Kinds
<1>3. \A i \in Slots : status[i] # "none" => i # nonce + 1
  <2> TAKE i \in Slots
  <2> HAVE status[i] # "none"
  <2>1. i \in Nat /\ nonce \in Nat /\ ~(i > nonce)
    BY <1>1, SlotsAreNat DEF Unused, Kinds
  <2> QED
    BY <2>1
<1>4. CASE CheckOrder(job.request) /\ placing' # None
  <2>1. placing' = nonce + 1 /\ order' = [order EXCEPT ![nonce + 1] = job.request] /\ nonce + 1 \in Slots
    <3>1. placing = None
      BY <1>4 DEF CheckOrder
    <3> QED
      BY <1>2, <1>4, <3>1 DEF CheckOrder
  <2>2. /\ pc' = "queue" /\ job' = job
        /\ plan' = [plan EXCEPT ![placing'] = job.plan]
        /\ meant' = [meant EXCEPT ![placing'] = job.meant]
    BY <1>4 DEF Place, Enter, CheckOrder
  <2>3. pending' = pending
    BY <1>4 DEF CheckOrder
  <2> QED
    BY <1>1, <1>3, <1>4, <2>1, <2>2, <2>3 DEF Kinds, Loop
<1>5. CASE ~(CheckOrder(job.request) /\ placing' # None)
  <2>1. /\ Fail /\ UNCHANGED <<plan, meant>> /\ pending' = pending
        /\ ~(PendingClosesFit(job.request) /\ Placeable(job.request)) /\ order' = order
    <3>1. CASE CheckOrder(job.request) /\ placing' = None
      <4>1. None \notin Slots
        BY SimulatorAssumption
      <4>2. ~Placeable(job.request) /\ order' = order /\ pending' = pending
        BY <1>2, <3>1, <4>1 DEF CheckOrder
      <4> QED
        BY <1>5, <3>1, <4>2 DEF Place
    <3>2. CASE ~PendingClosesFit(job.request) /\ Fail /\ UNCHANGED <<simVars, plan, meant>>
      BY <3>2 DEF simVars, books
    <3> QED
      BY <1>5, <3>1, <3>2 DEF Place
  <2>2. pc' # "queue"
    BY <2>1 DEF Fail
  <2> QED
    BY <2>1, <2>2
<1> QED
  BY <1>4, <1>5

LEMMA SentOrderStep == ASSUME EngineInv, Sent, [Step]_vars PROVE SentOrder'
<1>1. SentOrder
  BY DEF Sent
<1>2. CASE pc' # "queue"
  BY <1>2 DEF SentOrder
<1>3. CASE Place /\ pc' = "queue"
  BY <1>3, PlaceQueues DEF SentOrder
<1>4. CASE UNCHANGED vars
  BY <1>1, <1>4 DEF SentOrder, vars, engineVars, simVars, books
<1>5. pc' # "queue" \/ Place \/ UNCHANGED vars
  BY DEF Step, Close, NextClose, Open, SizeOrder, Answered, ReplyLost, Tick, Ticking, Reply, GiveUp,
     Enter, StartTick, Fail
<1> QED
  BY <1>2, <1>3, <1>4, <1>5

LEMMA SentFitsStep == ASSUME EngineInv, Sound', Sent, [Step]_vars PROVE SentFits'
<1>1. /\ Sound /\ Turns /\ Loop /\ (Faultless' => Faultless) /\ SentJob /\ SentOrder /\ SentFits /\ SentAlone
      /\ \A i \in pending : i \in Slots /\ status[i] # "none"
  BY FaultsStay DEF EngineInv, Sent, Sound, BooksInv, Waiting, Kinds
<1>2. CASE Place
  <2>1. Same
    <3>1. (\E q \in Asked : CheckOrder(q)) \/ UNCHANGED simVars
      BY <1>2, PlacingJob DEF Place
    <3> QED
      BY <1>1, <3>1, CallsKeepOrders
  <2>2. pending' = pending /\ \A i \in pending : order'[i] = order[i] /\ meant'[i] = meant[i]
    BY <1>1, <1>2, PlaceQueues
  <2> QED
    BY <1>1, <2>1, <2>2, PendingFits DEF SentFits
<1>3. CASE Answered \/ ReplyLost
  <2>1. QueueOrder /\ pc = "queue" /\ meant' = meant
    BY <1>3 DEF Answered, ReplyLost
  <2>2. pending' = pending \cup {placing} /\ order' = order /\ Same
    BY <1>1, <2>1, CallsKeepOrders DEF QueueOrder
  <2>3. Fitting(order[placing], meant[placing])
    BY <1>1, <2>1 DEF SentJob, SentOrder
  <2>4. ASSUME NEW i \in pending' PROVE Fitting(order[i], meant[i])'
    <3>1. Fitting(order[i], meant[i])
      BY <1>1, <2>2, <2>3, <2>4 DEF SentFits
    <3> QED
      BY <1>1, <2>1, <2>2, <3>1, PendingFits
  <2> QED
    BY <2>4 DEF SentFits
<1>4. CASE Ticking
  <2>1. ASSUME NEW i \in pending, Commit(i) PROVE SentFits'
    <3>1. pending' = pending \ {i} /\ order' = [order EXCEPT ![i] = order[i]] /\ meant' = meant
      BY <1>4, <2>1 DEF Commit, Fill, Reject, Ledger, Ticking
    <3>2. order' = order
      BY <1>1, <3>1 DEF Sound, BooksInv, Kinds
    <3>3. CASE Faultless
      <4>1. pending' = {}
        BY <1>1, <1>4, <3>1, <3>3 DEF SentAlone, Ticking
      <4> QED
        BY <4>1 DEF SentFits
    <3>4. CASE ~Faultless
      BY <1>1, <3>1, <3>2, <3>4, PendingFits DEF SentFits
    <3> QED
      BY <3>3, <3>4
  <2>2. ASSUME NEW s \in Symbols, Liquidate(s) PROVE SentFits'
    <3>1. pending' = {}
      BY <1>1, <2>2 DEF Liquidate, Fill, Ledger, Turns
    <3> QED
      BY <3>1 DEF SentFits
  <2>3. ASSUME CheckMargin \/ Advance PROVE SentFits'
    <3>1. Same /\ pending' = pending /\ order' = order /\ meant' = meant
      BY <1>1, <1>4, <2>3, CallsKeepOrders DEF CheckMargin, Advance, books, Ticking
    <3> QED
      BY <1>1, <3>1, PendingFits DEF SentFits
  <2> QED
    BY <1>4, <2>1, <2>2, <2>3 DEF Ticking, TickStep
<1>5. CASE Close \/ NextClose \/ Open \/ SizeOrder \/ Tick \/ Reply \/ GiveUp \/ UNCHANGED vars
  <2>1. (\E moves \in BOOLEAN : BeginTick(moves)) \/ UNCHANGED simVars
    <3>1. ASSUME Tick PROVE \E moves \in BOOLEAN : BeginTick(moves)
      <4>1. BeginTick(job = Main) /\ (job = Main) \in BOOLEAN
        BY <3>1 DEF Tick
      <4> QED
        BY <4>1
    <3> QED
      BY <1>5, <3>1 DEF Close, NextClose, Open, SizeOrder, Reply, GiveUp, vars
  <2>2. meant' = meant
    BY <1>5 DEF Close, NextClose, Open, SizeOrder, Tick, Reply, GiveUp, vars, engineVars
  <2>3. Same /\ pending' = pending /\ order' = order
    BY <1>1, <2>1, CallsKeepOrders DEF BeginTick, simVars, books
  <2> QED
    BY <1>1, <2>2, <2>3, PendingFits DEF SentFits
<1> QED
  BY <1>2, <1>3, <1>4, <1>5 DEF Step

LEMMA SentAloneStep == ASSUME EngineInv, Sound', Sent, [Step]_vars PROVE SentAlone'
<1>1. /\ Turns /\ (Faultless' => Faultless) /\ SentJob /\ SentOrder /\ SentAlone /\ Placing
  BY FaultsStay DEF EngineInv, Sent
<1> SUFFICES ASSUME Faultless', pc' \in {"tick", "ticking"} PROVE SentAlone'
  BY DEF SentAlone
<1>2. CASE pending' = {}
  BY <1>2 DEF SentAlone
<1>3. CASE Answered
  <2>1. pending' = {placing} /\ order' = order /\ meant' = meant
    BY <1>1, <1>3 DEF Answered, QueueOrder, Turns
  <2>2. job' # Main => job' = job /\ job.kind # "open"
    BY <1>3 DEF Answered, StartTick
  <2>3. job' # Main => ~Opening(order[placing]) /\ meant[placing] = job'.meant
    BY <1>1, <1>3, <2>2 DEF SentJob, SentOrder, Answered
  <2> QED
    BY <2>1, <2>3 DEF SentAlone
<1>4. CASE Tick \/ UNCHANGED vars
  BY <1>1, <1>4 DEF Tick, BeginTick, Enter, vars, engineVars, simVars, books, faults, Faultless, SentAlone
<1>5. CASE Ticking
  <2>1. pc = "ticking" /\ job' = job /\ meant' = meant
    BY <1>5 DEF Ticking
  <2>2. ASSUME NEW i \in pending, Commit(i) PROVE pending' = {}
    <3>1. pending' = pending \ {i}
      BY <2>2 DEF Commit, Fill, Reject, Ledger
    <3> QED
      BY <1>1, <2>1, <2>2, <3>1 DEF SentAlone
  <2>3. ASSUME NEW s \in Symbols, Liquidate(s) PROVE pending' = {}
    BY <1>1, <2>3 DEF Liquidate, Fill, Ledger, Turns
  <2>4. ASSUME CheckMargin PROVE pending' = {}
    BY <2>4 DEF CheckMargin, books
  <2>5. ASSUME Advance PROVE pending' = {}
    BY <1>1, <2>5 DEF Advance, books, Turns
  <2> QED
    BY <1>2, <1>5, <2>2, <2>3, <2>4, <2>5 DEF Ticking, TickStep
<1>6. CASE Open \/ SizeOrder \/ Place \/ Close \/ NextClose
  <2>1. pending' = pending /\ pending = {}
    BY <1>1, <1>6, PlaceQueues DEF Open, SizeOrder, Place, Close, NextClose, simVars, books, Turns
  <2> QED
    BY <1>2, <2>1
<1>7. ~(ReplyLost \/ Reply \/ GiveUp)
  <2>1. lost \in Nat /\ gaveUp \in Nat
    BY DEF EngineInv, Loop
  <2> QED
    BY <2>1 DEF ReplyLost, Reply, GiveUp, Enter, Faultless
<1> QED
  BY <1>3, <1>4, <1>5, <1>6, <1>7 DEF Step

LEMMA SentStep == ASSUME EngineInv, Sound', Wanted, Sent, [Step]_vars PROVE Sent'
<1>1. SentJob' /\ SentOrder' /\ SentFits' /\ SentAlone'
  BY SentJobStep, SentOrderStep, SentFitsStep, SentAloneStep
<1> QED
  BY <1>1 DEF Sent

-----------------------------------------------------------------------------
Aims == Wanted /\ NoneLeft /\ Sent

LEMMA InitAims == EngineInit => Aims
<1> SUFFICES ASSUME EngineInit PROVE Aims
  OBVIOUS
<1>1. signals = {} /\ pc = "close" /\ pending = {}
  BY DEF EngineInit, Init
<1> QED
  BY <1>1 DEF Aims, Wanted, NoneLeft, Sent, SentJob, SentOrder, SentFits, SentAlone

LEMMA AimsStep == ASSUME EngineInv, EngineInv', Aims, [Step]_vars PROVE Aims'
BY WantedStep, NoneLeftStep, SentStep DEF Aims, EngineInv

HitsItsOrder ==
    \A i \in pending \ pending' :
        meant[i] # None =>
            \A j \in open[Symbol] : closed'[j] > closed[j] =>
                j = meant[i] \/ (Id(meant[i]) = 0 /\ ~Faultless)

LEMMA StepHits == ASSUME EngineInv, Aims, [Step]_vars PROVE HitsItsOrder
<1> SUFFICES ASSUME NEW i \in pending \ pending', meant[i] # None,
                    NEW j \in open[Symbol], closed'[j] > closed[j],
                    ~(Id(meant[i]) = 0 /\ ~Faultless)
             PROVE  j = meant[i]
  BY DEF HitsItsOrder
<1> PICK r : r = order[i]
  OBVIOUS
<1> PICK m : m = meant[i]
  OBVIOUS
<1>1. /\ Sound /\ BooksInv /\ Accounts /\ Turns /\ AnyStep /\ i \in Slots /\ r \in Asked /\ m \in Slots
      /\ closed[j] \in Nat
  <2>1. j \in Slots
    BY OpenRestSums DEF EngineInv
  <2> QED
    BY <2>1, ServerStep DEF EngineInv, Sound, BooksInv, Kinds, Waiting, Loop
<1>2. Commit(i)
  <2>1. ~(pending \subseteq pending')
    OBVIOUS
  <2>2. PICK k \in pending : Commit(k)
    <3>1. ASSUME NEW s \in Symbols, Liquidate(s) PROVE pending = {}
      BY <1>1, <3>1 DEF Liquidate, Turns
    <3> QED
      BY <1>1, <2>1, <3>1
      DEF AnyStep, TickStep, CheckOrder, QueueOrder, BeginTick, CheckMargin, Advance, simVars, books
  <2>3. pending' = pending \ {k}
    BY <2>2 DEF Commit, Fill, Reject, Ledger
  <2> QED
    BY <2>2, <2>3
<1>3. PICK a \in Closings(r) : Fill(i, r, a) /\ Ends(i, r, "filled") /\ Allowed(r)
  <2>1. ~Reject(i, r)
    BY <1>1 DEF Reject
  <2> QED
    BY <1>1, <1>2, <2>1, CommitEnds
<1>4. /\ r.target = Aim(m) /\ ~Opening(r) /\ m <= MaxOrders
      /\ Faultless => Amount(m, r.quantity) /\ (m = 1 => 1 \in open[Symbol])
  BY DEF Aims, Sent, SentFits, Fitting
<1>5. SideAllowed(r.side, position[Symbol].quantity) /\ r.symbol = Symbol /\ IsClose(r) /\ r \in Order
  <2>1. r.symbol = Symbol /\ r \in Order
    BY <1>1, TheOnlySymbol DEF Asked
  <2> QED
    BY <1>1, <1>3, <1>4, <2>1, ClosingSide DEF Allowed
<1>6. closed'[j] = closed[j] + a[j]
  BY <1>1, <1>3, <1>5, FillState DEF Filling
<1>7. m = 1 => 1 \in open[Symbol] /\ r.quantity = Remaining(1)
  <2> SUFFICES ASSUME m = 1 PROVE 1 \in open[Symbol] /\ r.quantity = Remaining(1)
    OBVIOUS
  <2>1. Faultless
    BY DEF Id
  <2> QED
    BY <1>4, <2>1 DEF Amount
<1>8. j # m => a[j] = 0
  BY <1>1, <1>4, <1>5, <1>7, HitsNoOther
<1> QED
  BY <1>1, <1>6, <1>8

(* A close signal closes the order it is for, whatever was closed before it: *)
(* the request names that order, and for order 1, whose id the client cannot *)
(* send, the oldest is that order unless a call failed.                      *)
THEOREM CloseHitsItsOrderHolds == Engine => CloseHitsItsOrder
<1>1. EngineInit => EngineInv /\ Aims
  BY InitEngine, InitAims
<1>2. EngineInv /\ Aims /\ [Step]_vars => (EngineInv /\ Aims)'
  BY StepEngine, AimsStep
<1>3. EngineInv /\ Aims /\ [Step]_vars => [HitsItsOrder]_vars
  BY StepHits
<1>4. CloseHitsItsOrder <=> [][HitsItsOrder]_vars
  BY DEF CloseHitsItsOrder, HitsItsOrder
<1> QED
  BY <1>1, <1>2, <1>3, <1>4, PTL DEF Engine

-----------------------------------------------------------------------------
(* From the close signals to the end of the iteration, every open order at   *)
(* its stop has a signal or is being closed.  The main tick then moves the   *)
(* price.                                                                    *)
Handling(i) == job.kind = "close" /\ job.meant = i /\ (pc \in {"place", "queue"} \/ pending # {})
Covered(i)  == (\E s \in signals : s.meant = i) \/ Handling(i)
Watching    == pc \notin {"close", "finished", "dead"} /\ ~(job = Main /\ pc \in {"ticking", "reply"})
Watched     == Faultless /\ Watching => \A i \in open[Symbol] : StopHit(i) => Covered(i)

(* The open orders a step leaves were open, and keep their order and stop.   *)
LEMMA StaysOpen ==
    ASSUME EngineInv, EngineInv', Aims, [Step]_vars, Faultless', Watching', NEW i \in open'[Symbol]
    PROVE  /\ i \in open[Symbol] /\ i \in Slots /\ order'[i] = order[i] /\ plan'[i] = plan[i]
           /\ bars' = bars
<1>1. /\ Sound /\ Sound' /\ Turns /\ Loop /\ (Faultless' => Faultless) /\ Wanted /\ Sent
      /\ \A j \in open[Symbol] : j \in Slots /\ status[j] # "none"
  <2>1. \A j \in open[Symbol] : j \in Slots /\ status[j] # "none"
    <3>1. \A j \in open[Symbol] : status[j] = "filled"
      BY TheSymbol DEF EngineInv, Sound, BooksInv, InCache
    <3> QED
      BY <3>1, OpenRestSums DEF EngineInv
  <2> QED
    BY <2>1, FaultsStay DEF EngineInv, Aims
<1>2. CASE Place
  <2>1. (\E r \in Asked : CheckOrder(r)) \/ UNCHANGED simVars
    BY <1>2, PlacingJob DEF Place
  <2>2. Same /\ bars' = bars
    BY <1>1, <1>2, <2>1, CallsKeepOrders DEF Place, loop
  <2> QED
    BY <1>1, <1>2, <2>2, PlaceQueues DEF Same
<1>3. CASE Ticking
  <2>1. job # Main /\ pc = "ticking" /\ bars' = bars /\ plan' = plan /\ TickStep
    BY <1>3 DEF Ticking, Watching, Enter, loop
  <2>2. Loosened
    BY <1>1, <2>1, TickLoosens
  <2> QED
    BY <1>1, <2>1, <2>2 DEF Loosened
<1>4. CASE Reply
  BY <1>1, <1>4 DEF Reply, Watching, Enter, simVars, books
<1>5. CASE Tick
  <2>1. BeginTick(job = Main) /\ (job = Main) \in BOOLEAN /\ bars' = bars /\ plan' = plan
    BY <1>5 DEF Tick
  <2>2. Same
    BY <1>1, <2>1, CallsKeepOrders
  <2> QED
    BY <1>1, <2>1, <2>2 DEF Same
<1>6. CASE Close \/ NextClose \/ Open \/ SizeOrder \/ Answered \/ ReplyLost \/ GiveUp \/ UNCHANGED vars
  <2>1. (QueueOrder \/ UNCHANGED simVars) /\ bars' = bars /\ plan' = plan
    BY <1>6 DEF Close, NextClose, Open, SizeOrder, Answered, ReplyLost, GiveUp, vars, engineVars, loop
  <2>2. Same
    BY <1>1, <2>1, CallsKeepOrders
  <2> QED
    BY <1>1, <2>1, <2>2 DEF Same
<1> QED
  BY <1>2, <1>3, <1>4, <1>5, <1>6 DEF Step

(* Until the iteration ends, what has a signal or is being closed stays so   *)
(* as long as it is open.                                                    *)
LEMMA CoveredStays ==
    ASSUME EngineInv, EngineInv', Aims, [Step]_vars, ~Close, Faultless', Watching', NEW i \in open'[Symbol]
    PROVE  Watching /\ (Covered(i) => Covered(i)')
<1>1. /\ i \in open[Symbol] /\ i \in Slots /\ order'[i] = order[i] /\ plan'[i] = plan[i]
      /\ bars' = bars
  BY StaysOpen
<1>2. /\ Sound /\ Turns /\ Faultless /\ Jobs /\ Placing /\ NoneLeft /\ Sent /\ None \notin Slots
      /\ lost' + gaveUp' = 0 /\ lost \in Nat /\ gaveUp \in Nat
  BY FaultsStay, SimulatorAssumption DEF EngineInv, Aims, Loop, Faultless
<1>3. Watching
  <2>1. ASSUME Tick \/ Ticking \/ Reply PROVE Watching
    BY <2>1 DEF Tick, Ticking, Reply, Enter, Watching
  <2>2. ASSUME NextClose \/ Open \/ SizeOrder \/ Place \/ Answered PROVE Watching
    BY <2>2 DEF NextClose, Open, SizeOrder, Place, Answered, Watching
  <2>3. ASSUME UNCHANGED vars PROVE Watching
    BY <2>3 DEF vars, engineVars, Watching
  <2>4. ~ReplyLost /\ ~GiveUp
    BY <1>2 DEF ReplyLost, GiveUp
  <2> QED
    BY <2>1, <2>2, <2>3, <2>4 DEF Step
<1> SUFFICES ASSUME Covered(i) PROVE Covered(i)'
  BY <1>3
<1>4. CASE NextClose
  <2>1. pending = {} /\ ~Handling(i)
    BY <1>2, <1>4 DEF NextClose, Turns, Handling
  <2>2. PICK s \in signals : s.meant = i
    BY <2>1 DEF Covered
  <2>3. PICK u \in signals :
          /\ signals' = signals \ {u}
          /\ job'.kind = "close" /\ job'.meant = u.meant /\ pc' = "place"
    BY <1>4, <2>2 DEF NextClose, Handled, Working, Enter
  <2> QED
    BY <2>2, <2>3 DEF Covered, Handling
<1>5. CASE Open \/ SizeOrder
  <2>1. pc \in {"open", "size"}
    BY <1>5 DEF Open, SizeOrder
  <2>2. signals = {} /\ pending = {}
    BY <1>2, <2>1 DEF NoneLeft, Turns
  <2> QED
    BY <2>1, <2>2 DEF Covered, Handling
<1>6. CASE Place
  <2>1. pc = "place" /\ signals' = signals /\ pending = {}
    BY <1>2, <1>6 DEF Place, loop, Turns
  <2>2. CASE pc' = "queue"
    <3>1. job' = job
      BY <1>6, <2>2, PlaceQueues
    <3> QED
      BY <2>1, <2>2, <3>1 DEF Covered, Handling
  <2>3. CASE pc' # "queue"
    <3>1. Fail /\ ~(PendingClosesFit(job.request) /\ Placeable(job.request))
      BY <1>6, <2>3, PlaceQueues
    <3>2. ~Handling(i)
      <4> SUFFICES ASSUME Handling(i) PROVE FALSE
        OBVIOUS
      <4>1. job.kind = "close" /\ job.meant = i /\ job.request \in Asked
        BY <2>1, PlacingJob DEF Handling
      <4>2. Fitting(job.request, i) /\ ~Opening(job.request)
        BY <1>2, <2>1, <4>1 DEF Sent, SentJob
      <4>3. i <= MaxOrders /\ ClosesOrder(job.request, i)
        BY <1>1, <1>2, <4>1, <4>2 DEF Fitting, Amount, ClosesOrder
      <4> QED
        BY <1>1, <1>2, <2>1, <3>1, <4>3, CloseIsTaken
    <3> QED
      BY <2>1, <3>2 DEF Covered
  <2> QED
    BY <2>2, <2>3
<1>7. CASE Answered
  <2>1. pending' = pending \cup {placing} /\ signals' = signals /\ pc = "queue" /\ pending = {}
    BY <1>2, <1>7 DEF Answered, QueueOrder, loop, Turns
  <2>2. job.kind = "close" => job' = job
    BY <1>7 DEF Answered
  <2> QED
    BY <2>1, <2>2 DEF Covered, Handling
<1>8. CASE Tick
  <2>1. pending' = pending /\ job' = job /\ signals' = signals /\ pc = "tick"
    BY <1>8 DEF Tick, BeginTick, books
  <2> QED
    BY <2>1 DEF Covered, Handling
<1>9. CASE Ticking
  <2>1. pc = "ticking" /\ job' = job /\ signals' = signals /\ TickStep /\ job # Main
    BY <1>9 DEF Ticking, loop, Enter, Watching
  <2>2. pending' # pending => job.meant # i
    BY <1>1, <1>2, <2>1, TickLoosens DEF EngineInv
  <2> QED
    BY <2>1, <2>2 DEF Covered, Handling
<1>10. CASE Reply
  <2>1. pending = {} /\ signals' = signals /\ pc = "reply"
    BY <1>2, <1>10 DEF Reply, Turns
  <2> QED
    BY <2>1 DEF Covered, Handling
<1>11. CASE UNCHANGED vars
  <2>1. pc' = pc /\ job' = job /\ signals' = signals /\ pending' = pending
    BY <1>11 DEF vars, engineVars, simVars, books, loop
  <2> QED
    BY <2>1 DEF Covered, Handling
<1>12. ~ReplyLost /\ ~GiveUp
  BY <1>2 DEF ReplyLost, GiveUp
<1> QED
  BY <1>4, <1>5, <1>6, <1>7, <1>8, <1>9, <1>10, <1>11, <1>12 DEF Step

LEMMA WatchedStep ==
    ASSUME EngineInv, EngineInv', Aims, Watched, [Step]_vars PROVE Watched'
<1> SUFFICES ASSUME Faultless', Watching', NEW i \in open'[Symbol], StopHit(i)'
             PROVE  Covered(i)'
  BY DEF Watched
<1>1. /\ i \in open[Symbol] /\ i \in Slots /\ order'[i] = order[i] /\ plan'[i] = plan[i]
      /\ bars' = bars /\ Faultless
  BY StaysOpen, FaultsStay
<1>2. StopHit(i)
  BY <1>1 DEF StopHit, Candle
<1>3. CASE Close
  <2>1. [from |-> i, why |-> "order", meant |-> i, quantity |-> Remaining(i)] \in CloseSignals
    BY <1>1, <1>2 DEF CloseSignals
  <2>2. signals' = CloseSignals
    BY <1>3 DEF Close
  <2> QED
    BY <2>1, <2>2 DEF Covered
<1>4. CASE ~Close
  BY <1>1, <1>2, <1>4, CoveredStays DEF Watched
<1> QED
  BY <1>3, <1>4

(* An order that is not at its stop is on the good side of it.               *)
LEMMA StopSide ==
    ASSUME EngineInv, NEW i \in open[Symbol], ~StopHit(i)
    PROVE  (Candle.close - plan[i].stop) * Signed(order[i]) > 0
<1> PICK c : c = Candle.close
  OBVIOUS
<1> PICK p : p = plan[i].stop
  OBVIOUS
<1> PICK n : n = order[i].quantity
  OBVIOUS
<1>1. /\ i \in Slots /\ order[i] \in Order /\ order[i].side \in {"buy", "sell_short"}
      /\ n \in Nat /\ n > 0
  BY TheSymbol, OpenOrders, OrderFacts DEF EngineInv, Sound, BooksInv, Accounts
<1>2. c \in Int /\ p \in Int
  <2>1. Candle \in Bars /\ plan[i] \in Plans
    BY <1>1, CandleIsBar DEF EngineInv, Loop
  <2>2. c \in Prices
    BY <2>1, EngineAssumption
  <2> QED
    BY <2>1, <2>2, PricesArePositive DEF Plans
<1>3. CASE order[i].side = "buy"
  <2>1. c - p > 0 /\ Signed(order[i]) = n
    BY <1>2, <1>3 DEF StopHit, Signed
  <2> QED
    BY <1>1, <1>2, <2>1
<1>4. CASE order[i].side = "sell_short"
  <2>1. c - p < 0 /\ Signed(order[i]) = -n
    BY <1>2, <1>4 DEF StopHit, Signed
  <2>2. \A x, y \in Int : x < 0 /\ y < 0 => x * y > 0
    OBVIOUS
  <2> QED
    BY <1>1, <1>2, <2>1, <2>2
<1> QED
  BY <1>1, <1>3, <1>4

LEMMA AtTheTick == ASSUME EngineInv, Aims, Watched PROVE StopsHonoured
<1> SUFFICES ASSUME pc = "tick", job = Main, Faultless, NEW i \in open[Symbol] PROVE ~StopHit(i)
  BY StopSide DEF StopsHonoured
<1>1. signals = {} /\ job.kind = "main"
  BY DEF Aims, NoneLeft, Calling, Main
<1> QED
  BY <1>1 DEF Watched, Watching, Covered, Handling

(* While no call failed, no order is open at or beyond its stop when the     *)
(* iteration ends: each was signalled, its signal was handled, the request   *)
(* was taken, and the tick filled it.                                        *)
THEOREM StopsHonouredHolds == Engine => []StopsHonoured
<1>1. EngineInit => EngineInv /\ Aims /\ Watched
  <2>1. EngineInit => ~Watching
    BY DEF EngineInit, Watching
  <2> QED
    BY <2>1, InitEngine, InitAims DEF Watched
<1>2. EngineInv /\ Aims /\ Watched /\ [Step]_vars => (EngineInv /\ Aims /\ Watched)'
  BY StepEngine, AimsStep, WatchedStep
<1>3. EngineInv /\ Aims /\ Watched => StopsHonoured
  BY AtTheTick
<1> QED
  BY <1>1, <1>2, <1>3, PTL DEF Engine

-----------------------------------------------------------------------------
(* The orders of the present trend.  While no call failed, they follow the   *)
(* trend, no two belong to the same place of its stack, and they were opened *)
(* after all the others.                                                     *)
Level == IF Spent THEN Height(bars) ELSE Base(bars)
Live  == open[Symbol] \cup pending \cup ({placing} \ {None})
Ranks ==
    /\ \A i \in OfTrend : plan[i].count <= Level /\ order[i].side = EntrySide
    /\ \A i, j \in OfTrend : i # j => plan[i].count # plan[j].count
    /\ \A i, j \in Slots : i < j /\ plan[j].at > 0 => plan[i].at <= plan[j].at
    /\ \A i \in Slots : plan[i].at > 0 => i <= nonce
    /\ \A i \in Live : Opening(order[i]) => plan[i].at > 0
Entry ==
    /\ pc \in {"place", "queue"} /\ job.kind = "open" =>
          /\ job.request.side = EntrySide
          /\ job.plan.at = Len(bars) /\ job.plan.count = Height(bars)
    /\ pc = "queue" /\ job.kind = "open" => placing \in OfTrend
    /\ pc \in {"tick", "ticking"} /\ job = Main => pending \subseteq OfTrend
Layers == Faultless => Ranks /\ Entry

(* A step gives a record only to a new id, and makes live only a new order.  *)
LEMMA LiveStep ==
    ASSUME Sound, Sound', AnyStep
    PROVE  /\ nonce \in Nat /\ nonce' \in Nat /\ nonce <= nonce'
           /\ \A i \in Live : i \in Slots /\ i <= nonce
           /\ \A i \in Slots : i <= nonce => order'[i] = order[i]
           /\ placing' = placing \/ placing' = None \/ (placing' = nonce + 1 /\ placing' = nonce')
           /\ Live' \subseteq Live \cup ({placing'} \ {None})
<1>1. /\ BooksInv /\ Kinds /\ Unused /\ Placed /\ Waiting /\ InCache /\ nonce \in Nat /\ nonce' \in Nat
      /\ None \notin Slots
  BY SimulatorAssumption DEF Sound, BooksInv, Kinds
<1>2. \A i \in Live : i \in Slots /\ i <= nonce
  <2>1. \A i \in Slots : i \in Nat
    BY SlotsAreNat
  <2>2. \A i \in open[Symbol] \cup pending : i \in Slots /\ status[i] # "none"
    BY <1>1, TheSymbol DEF InCache, Kinds, Waiting
  <2>3. \A i \in open[Symbol] \cup pending : i \in Slots /\ i <= nonce
    BY <1>1, <2>1, <2>2 DEF Unused
  <2> QED
    BY <1>1, <2>3 DEF Live, Placed, Kinds
<1>3. ASSUME NEW r \in Asked, CheckOrder(r)
      PROVE  /\ nonce' = nonce + 1 /\ (placing' = placing \/ placing' = nonce + 1)
             /\ \A i \in Slots : i <= nonce => order'[i] = order[i]
             /\ Live' \subseteq Live \cup ({placing'} \ {None})
  <2>1. /\ nonce' = nonce + 1 /\ (placing' = placing \/ placing' = nonce + 1) /\ placing = None
        /\ (order' = order \/ order' = [order EXCEPT ![nonce + 1] = r])
        /\ UNCHANGED <<open, pending>>
    BY <1>3 DEF CheckOrder
  <2>2. \A i \in Slots : i <= nonce => i # nonce + 1
    BY <1>1
  <2>3. \A i \in Slots : i <= nonce => order'[i] = order[i]
    BY <1>1, <2>1, <2>2 DEF Kinds
  <2> QED
    BY <2>1, <2>3 DEF Live
<1>4. ASSUME QueueOrder
      PROVE  /\ nonce' = nonce /\ order' = order /\ placing' = None
             /\ Live' \subseteq Live
  BY <1>4 DEF QueueOrder, Live
<1>5. ASSUME NEW i \in pending, Commit(i)
      PROVE  nonce' = nonce /\ order' = order /\ placing' = placing /\ Live' \subseteq Live
  <2>1. nonce' = nonce /\ placing' = placing /\ pending' = pending \ {i} /\ order' = [order EXCEPT ![i] = order[i]]
    BY <1>5 DEF Commit, Fill, Reject, Ledger
  <2>2. open'[Symbol] \subseteq open[Symbol] \cup {i}
    <3>1. order[i].symbol \in Symbols
      BY <1>1 DEF Waiting, Asked, Order
    <3>2. CASE \E a \in Closings(order[i]) : Fill(i, order[i], a)
      BY <1>1, <3>1, <3>2, FillOpens DEF Opened
    <3>3. CASE Reject(i, order[i])
      BY <3>3 DEF Reject
    <3> QED
      BY <1>5, <3>2, <3>3 DEF Commit
  <2>3. order' = order
    BY <1>1, <2>1 DEF Kinds
  <2> QED
    BY <2>1, <2>2, <2>3 DEF Live
<1>6. ASSUME NEW s \in Symbols, Liquidate(s)
      PROVE  /\ nonce' = nonce + 1 /\ placing' = placing /\ Live' \subseteq Live
             /\ \A i \in Slots : i <= nonce => order'[i] = order[i]
  <2>1. PICK a : Fill(nonce', Liquidation(s), a)
    BY <1>6 DEF Liquidate
  <2>2. /\ nonce' = nonce + 1 /\ placing' = placing /\ pending' \subseteq pending
        /\ order' = [order EXCEPT ![nonce'] = Liquidation(s)]
    BY <1>6, <2>1 DEF Liquidate, Fill, Ledger
  <2>3. Liquidation(s).symbol = s /\ Opened(nonce', Liquidation(s)) = {}
    BY DEF Liquidation, Opened, Opening
  <2>4. open'[Symbol] \subseteq open[Symbol]
    BY <1>1, <2>1, <2>3, FillOpens
  <2>5. \A i \in Slots : i <= nonce => i # nonce'
    BY <1>1, <2>2
  <2> QED
    BY <1>1, <2>2, <2>4, <2>5 DEF Live, Kinds
<1>7. ASSUME (\E moves \in BOOLEAN : BeginTick(moves)) \/ CheckMargin \/ Advance \/ UNCHANGED simVars
      PROVE  nonce' = nonce /\ order' = order /\ placing' = placing /\ Live' = Live
  BY <1>7 DEF BeginTick, CheckMargin, Advance, simVars, books, Live
<1>8. nonce <= nonce + 1
  BY <1>1
<1> QED
  BY <1>1, <1>2, <1>3, <1>4, <1>5, <1>6, <1>7, <1>8 DEF AnyStep, TickStep

(* A step that opens nothing and brings no candle keeps the ranks.           *)
LEMMA RanksStay ==
    ASSUME EngineInv, Sound', AnyStep, Stacking, Ranks, bars' = bars, plan' = plan, Spent => Spent',
           placing' \in {placing, None} \/ ~Opening(order'[placing'])
    PROVE  Ranks'
<1>1. /\ Sound /\ bars \in Seq(Bars) /\ plan \in [Slots -> Plans] /\ OfTrend' = OfTrend /\ EntrySide' = EntrySide
      /\ nonce \in Nat /\ nonce' \in Nat /\ nonce <= nonce'
      /\ \A i \in Live : i \in Slots /\ i <= nonce
      /\ \A i \in Slots : i \in Nat /\ (i <= nonce => order'[i] = order[i])
      /\ Live' \subseteq Live \cup ({placing'} \ {None})
  BY LiveStep, SlotsAreNat DEF EngineInv, Loop, OfTrend, EntrySide, Candle
<1>2. Base(bars) \in Nat /\ Height(bars) \in {Base(bars), Base(bars) + 1}
  BY <1>1, Heights DEF Stacking
<1>3. \A i \in OfTrend : i \in Slots /\ plan[i].at > 0 /\ plan[i].count \in Nat
  <2>1. Before(bars) \in Nat
    BY <1>1, TrendForm DEF Stacking
  <2>2. \A i \in Slots : plan[i].at \in Nat /\ plan[i].count \in Nat
    BY <1>1, Constants DEF Plans
  <2> QED
    BY <2>1, <2>2 DEF OfTrend
<1>4. ASSUME NEW i \in OfTrend' PROVE (plan[i].count <= Level /\ order[i].side = EntrySide)'
  <2>1. i \in OfTrend /\ i \in Slots /\ i <= nonce /\ plan[i].count \in Nat
    BY <1>1, <1>3, <1>4 DEF Ranks
  <2>2. order'[i].side = EntrySide'
    BY <1>1, <2>1 DEF Ranks
  <2>3. plan[i].count <= Level
    BY <2>1 DEF Ranks
  <2>4. plan'[i].count <= Level'
    BY <1>2, <2>1, <2>3 DEF Level
  <2> QED
    BY <2>2, <2>4
<1>5. ASSUME NEW i \in Live', Opening(order'[i]) PROVE plan'[i].at > 0
  <2>1. i \in Live
    BY <1>1, <1>5 DEF Live
  <2> QED
    BY <1>1, <1>5, <2>1 DEF Ranks
<1>6. \A i \in Slots : plan'[i].at > 0 => i <= nonce'
  <2> TAKE i \in Slots
  <2> HAVE plan'[i].at > 0
  <2>1. i \in Nat /\ i <= nonce
    BY <1>1 DEF Ranks
  <2> QED
    BY <1>1, <2>1
<1>7. /\ \A i, j \in OfTrend' : i # j => plan'[i].count # plan'[j].count
      /\ \A i, j \in Slots : i < j /\ plan'[j].at > 0 => plan'[i].at <= plan'[j].at
  BY <1>1 DEF Ranks
<1> QED
  BY <1>4, <1>5, <1>6, <1>7 DEF Ranks

(* Where the layers start, and what is known of the plans in them.           *)
LEMMA LayerFacts ==
    ASSUME EngineInv, Stacking
    PROVE  /\ Base(bars) \in Nat /\ Height(bars) \in {Base(bars), Base(bars) + 1}
           /\ Before(bars) \in Nat /\ Before(bars) < Len(bars) /\ Len(bars) \in Nat
           /\ \A i \in Slots : i \in Nat /\ plan[i].at \in Nat /\ plan[i].at <= Len(bars) /\ plan[i].count \in Nat
           /\ \A i \in OfTrend : i \in Slots /\ plan[i].at > 0
<1>1. /\ bars \in Seq(Bars) /\ plan \in [Slots -> Plans] /\ BothWays(bars) /\ Len(bars) \in Nat
  BY DEF EngineInv, Loop, Stacking
<1>2. Base(bars) \in Nat /\ Height(bars) \in {Base(bars), Base(bars) + 1}
  BY <1>1, Heights
<1>3. Before(bars) \in Nat /\ Before(bars) < Len(bars)
  BY <1>1, TrendForm
<1>4. \A i \in Slots : i \in Nat /\ plan[i].at \in Nat /\ plan[i].at <= Len(bars) /\ plan[i].count \in Nat
  BY <1>1, SlotsAreNat, Constants DEF Plans
<1> QED
  BY <1>1, <1>2, <1>3, <1>4 DEF OfTrend

(* Placing an order of the strategy adds the next place of the stack.        *)
LEMMA RanksPlaced ==
    ASSUME EngineInv, Sound', Stacking, Aims, Ranks, Entry, Place, pc' = "queue"
    PROVE  Ranks' /\ Entry'
<1> DEFINE k == placing'
<1>1. /\ pc = "place" /\ job' = job /\ bars' = bars /\ CheckOrder(job.request)
      /\ job.request \in Asked /\ job.kind \in {"close", "open", "all"}
      /\ plan' = [plan EXCEPT ![k] = job.plan] /\ k # None /\ order'[k] = job.request
      /\ plan \in [Slots -> Plans]
  BY PlaceQueues, PlacingJob DEF Place, loop, Fail, EngineInv, Loop
<1>2. /\ k = nonce + 1 /\ k = nonce' /\ k \in Slots /\ k \in Nat /\ nonce \in Nat
      /\ \A i \in Live : i \in Slots /\ i <= nonce
      /\ \A i \in Slots : i \in Nat /\ (i <= nonce => order'[i] = order[i])
      /\ Live' \subseteq Live \cup {k}
  <2>1. CheckOrder(job.request) => placing = None /\ nonce' = nonce + 1 /\ (k = nonce + 1 \/ k = placing)
    BY DEF CheckOrder
  <2>2. AnyStep
    BY <1>1 DEF AnyStep
  <2>3. k \in Slots
    BY <1>1 DEF Sound, BooksInv, Kinds
  <2> QED
    BY <1>1, <2>1, <2>2, <2>3, LiveStep, SlotsAreNat DEF EngineInv
<1>3. /\ \A i \in Slots : i # k => plan'[i] = plan[i]
      /\ plan'[k] = job.plan /\ ~(plan[k].at > 0)
      /\ \A i \in OfTrend : i \in Slots /\ i <= nonce /\ i # k /\ i < k
  <2>1. ~(k <= nonce)
    BY <1>2
  <2>2. \A i \in OfTrend : i \in Slots /\ plan[i].at > 0
    BY LayerFacts
  <2>3. ~(plan[k].at > 0)
    BY <1>2, <2>1 DEF Ranks
  <2>4. ASSUME NEW i \in OfTrend PROVE i \in Slots /\ i <= nonce /\ i # k /\ i < k
    <3>1. i \in Slots /\ i <= nonce /\ i \in Nat
      BY <1>2, <2>2, <2>4 DEF Ranks
    <3> QED
      BY <1>2, <3>1
  <2>5. (\A i \in Slots : i # k => plan'[i] = plan[i]) /\ plan'[k] = job.plan
    BY <1>1, <1>2
  <2> QED
    BY <2>3, <2>4, <2>5
<1>4. EntrySide' = EntrySide /\ Before(bars)' = Before(bars) /\ Height(bars)' = Height(bars)
      /\ Base(bars)' = Base(bars) /\ Len(bars') = Len(bars)
  BY <1>1 DEF EntrySide, Candle
<1>5. OfTrend' \subseteq OfTrend \cup {k} /\ OfTrend \subseteq OfTrend'
  BY <1>3, <1>4 DEF OfTrend
<1>6. \A i \in OfTrend : /\ plan'[i] = plan[i] /\ order'[i] = order[i]
                         /\ plan[i].count <= Base(bars) /\ order[i].side = EntrySide
  BY <1>1, <1>2, <1>3 DEF Ranks, Level, Spent
<1>7. /\ job.kind = "open" <=> Opening(job.request)
      /\ job.kind # "open" => job.plan.at = 0
      /\ job.kind = "open" => /\ Height(bars) = Base(bars) + 1
                              /\ job.request.side = EntrySide
                              /\ job.plan.at = Len(bars) /\ job.plan.count = Height(bars)
  BY <1>1 DEF Aims, Sent, SentJob, Stacking, Grown, Entry, NoPlan
<1>8. /\ k \in OfTrend' <=> job.kind = "open"
      /\ Level' = IF job.kind = "open" THEN Height(bars) ELSE Base(bars)
  <2>1. k \in OfTrend' <=> job.plan.at > Before(bars)
    BY <1>2, <1>3, <1>4 DEF OfTrend
  <2>2. Before(bars) \in Nat /\ Len(bars) > Before(bars)
    BY LayerFacts
  <2>3. Level' = IF job.kind = "open" THEN Height(bars) ELSE Base(bars)
    BY <1>1, <1>4 DEF Level, Spent
  <2> QED
    BY <1>7, <2>1, <2>2, <2>3
<1>9. \A i \in OfTrend' : plan'[i].count <= Level' /\ order'[i].side = EntrySide'
  <2> TAKE i \in OfTrend'
  <2>1. CASE i \in OfTrend
    <3>1. plan[i].count <= Base(bars) /\ plan[i].count \in Nat /\ Base(bars) \in Nat
      BY <1>3, <1>6, <2>1, LayerFacts
    <3> QED
      BY <1>4, <1>6, <1>7, <1>8, <2>1, <3>1
  <2>2. CASE i = k
    BY <1>1, <1>3, <1>4, <1>7, <1>8, <2>2, LayerFacts
  <2> QED
    BY <1>5, <2>1, <2>2
<1>10. \A i, j \in OfTrend' : i # j => plan'[i].count # plan'[j].count
  <2>1. ASSUME NEW i \in OfTrend, k \in OfTrend' PROVE plan'[i].count # plan'[k].count
    BY <1>3, <1>6, <1>7, <1>8, <2>1, LayerFacts
  <2>2. \A i, j \in OfTrend : i # j => plan'[i].count # plan'[j].count
    BY <1>6 DEF Ranks
  <2> QED
    BY <1>5, <2>1, <2>2
<1>11. \A i, j \in Slots : i < j /\ plan'[j].at > 0 => plan'[i].at <= plan'[j].at
  <2> TAKE i, j \in Slots
  <2> HAVE i < j /\ plan'[j].at > 0
  <2>1. CASE j = k
    <3>1. job.plan.at > 0 /\ i # k
      BY <1>2, <1>3, <2>1
    <3>2. job.plan.at = Len(bars)
      BY <1>7, <3>1
    <3> QED
      BY <1>3, <2>1, <3>1, <3>2, LayerFacts
  <2>2. CASE j # k /\ i = k
    <3>1. plan[j].at > 0 /\ j <= nonce
      BY <1>3, <2>2 DEF Ranks
    <3> QED
      BY <1>2, <2>2, <3>1
  <2>3. CASE j # k /\ i # k
    BY <1>3, <2>3 DEF Ranks
  <2> QED
    BY <2>1, <2>2, <2>3
<1>12. \A i \in Slots : plan'[i].at > 0 => i <= nonce'
  <2> TAKE i \in Slots
  <2> HAVE plan'[i].at > 0
  <2>1. CASE i = k
    BY <1>2, <2>1
  <2>2. CASE i # k
    <3>1. i <= nonce /\ i \in Nat
      BY <1>2, <1>3, <2>2 DEF Ranks
    <3> QED
      BY <1>2, <3>1
  <2> QED
    BY <2>1, <2>2
<1>13. \A i \in Live' : Opening(order'[i]) => plan'[i].at > 0
  <2> TAKE i \in Live'
  <2> HAVE Opening(order'[i])
  <2>1. CASE i \in Live
    <3>1. i \in Slots /\ i <= nonce /\ i # k
      BY <1>2, <2>1
    <3> QED
      BY <1>2, <1>3, <2>1, <3>1 DEF Ranks
  <2>2. CASE i = k
    <3>1. job.plan.at = Len(bars) /\ Len(bars) > 0
      BY <1>1, <1>7, <2>2, LayerFacts DEF EngineInv, Loop
    <3> QED
      BY <1>3, <2>2, <3>1
  <2> QED
    BY <1>2, <2>1, <2>2
<1>14. Ranks'
  BY <1>9, <1>10, <1>11, <1>12, <1>13 DEF Ranks
<1>15. Entry'
  BY <1>1, <1>4, <1>7, <1>8 DEF Entry
<1> QED
  BY <1>14, <1>15

(* A candle of the same trend finds its stack as it was, one of another      *)
(* trend finds none.                                                         *)
LEMMA RanksTurn ==
    ASSUME EngineInv, Sound', Stacking, Ranks, Reply, job = Main
    PROVE  /\ Ranks' /\ Entry'
           /\ \/ bars' = bars
              \/ OfTrend' = OfTrend /\ EntrySide' = EntrySide
              \/ /\ OfTrend' = {}
                 /\ Candle.dir # Candle'.dir /\ Candle.dir \in {1, -1} /\ Candle'.dir \in {1, -1}
<1>1. /\ pc = "reply" /\ pc' \in {"finished", "close"} /\ UNCHANGED <<simVars, plan, job>>
      /\ bars \in Seq(Bars) /\ Len(bars) > 0 /\ BothWays(bars) /\ plan \in [Slots -> Plans]
      /\ \/ bars' = bars /\ pc' = "finished"
         \/ pc' = "close" /\ \E b \in Bars : bars' = Append(bars, b)
  <2>1. \A t \in 0 .. EndTime - 1 : Feed[t] \subseteq Bars
    BY Constants
  <2>2. ~complete => clock \in 0 .. EndTime - 1
    BY Constants DEF EngineInv, Running, Sound, TypeOK
  <2> QED
    BY <2>1, <2>2 DEF Reply, Enter, EngineInv, Loop, Stacking
<1>2. /\ order' = order /\ nonce' = nonce /\ Live' = Live /\ plan' = plan
  BY <1>1 DEF simVars, books, Live
<1>3. Entry'
  BY <1>1 DEF Entry
<1>4. CASE bars' = bars /\ pc' = "finished"
  <2>1. AnyStep /\ (Spent => Spent') /\ placing' \in {placing, None}
    BY <1>1, <1>4 DEF AnyStep, Spent, simVars
  <2> QED
    BY <1>2, <1>3, <1>4, <2>1, RanksStay
<1>5. ASSUME NEW b \in Bars, bars' = Append(bars, b), pc' = "close"
      PROVE  /\ Ranks'
             /\ \/ OfTrend' = OfTrend /\ EntrySide' = EntrySide
                \/ /\ OfTrend' = {}
                   /\ Candle.dir # Candle'.dir /\ Candle.dir \in {1, -1} /\ Candle'.dir \in {1, -1}
  <2> DEFINE nb == Append(bars, b)
  <2>1. /\ nb \in Seq(Bars) /\ BothWays(nb) /\ Len(nb) = Len(bars) + 1 /\ nb[Len(nb)] = b
        /\ \A k \in 1 .. Len(bars) : nb[k] = bars[k]
        /\ (Before(nb) = Before(bars) /\ Base(nb) = Height(bars)) \/ Before(nb) = Len(bars)
        /\ Len(bars) \in Nat
    BY <1>1, NextCandle
  <2>2. /\ Level = Height(bars) /\ Level' = Base(nb)
        /\ OfTrend' = {i \in Slots : plan[i].at > Before(nb)}
    BY <1>1, <1>2, <1>5 DEF Level, Spent, Main, OfTrend
  <2>3. \A x \in Bars : x.dir \in {1, -1}
    BY EngineAssumption
  <2>4. Candle = bars[Len(bars)] /\ Candle' = b /\ Candle \in Bars
    BY <1>1, <1>5, <2>1 DEF Candle, Last
  <2>5. CASE Before(nb) = Before(bars) /\ Base(nb) = Height(bars)
    <3>1. OfTrend' = OfTrend /\ Level' = Level
      BY <2>2, <2>5 DEF OfTrend
    <3>2. b.dir = Candle.dir
      <4>1. /\ Before(bars) \in Nat /\ Before(bars) < Len(bars)
            /\ \A k \in Before(nb) + 1 .. Len(nb) : nb[k].dir = Last(nb).dir
        <5>1. Before(bars) \in 2 .. Len(bars) - 1
          BY <1>1, TrendForm
        <5>2. \A k \in Before(nb) + 1 .. Len(nb) : nb[k].dir = Last(nb).dir
          BY <2>1, TrendForm
        <5> QED
          BY <2>1, <5>1, <5>2
      <4>2. Len(bars) \in Before(nb) + 1 .. Len(nb) /\ Last(nb) = b
        BY <2>1, <2>5, <4>1 DEF Last
      <4> QED
        BY <1>1, <2>1, <2>4, <4>1, <4>2
    <3>3. EntrySide' = EntrySide
      BY <2>4, <3>2 DEF EntrySide
    <3> QED
      BY <1>2, <3>1, <3>3 DEF Ranks
  <2>6. CASE Before(nb) = Len(bars)
    <3>1. OfTrend' = {}
      BY <2>2, <2>6, LayerFacts
    <3>2. b.dir # Candle.dir
      <4>1. nb[Before(nb)].dir # Last(nb).dir
        BY <2>1, TrendForm
      <4> QED
        BY <1>1, <2>1, <2>4, <2>6, <4>1 DEF Last
    <3> QED
      BY <1>2, <2>3, <2>4, <3>1, <3>2 DEF Ranks
  <2> QED
    BY <2>1, <2>5, <2>6
<1> QED
  BY <1>1, <1>3, <1>4, <1>5

(* The other steps leave the ranks alone.                                    *)
LEMMA LayersStep == ASSUME EngineInv, EngineInv', Stacking, Aims, Layers, [Step]_vars PROVE Layers'
<1> SUFFICES ASSUME Faultless' PROVE Ranks' /\ Entry'
  BY DEF Layers
<1>1. /\ Sound' /\ AnyStep /\ Faultless /\ Ranks /\ Entry /\ Turns /\ Turns' /\ Main.kind = "main"
      /\ lost' + gaveUp' = 0 /\ lost \in Nat /\ gaveUp \in Nat /\ Placing /\ None \notin Slots
  BY ServerStep, FaultsStay, SimulatorAssumption DEF EngineInv, Layers, Faultless, Loop, Main
<1>2. ~ReplyLost /\ ~GiveUp
  BY <1>1 DEF ReplyLost, GiveUp
<1>3. ASSUME Close \/ NextClose \/ Open \/ Answered \/ Tick \/ Ticking \/ UNCHANGED vars
      PROVE  bars' = bars /\ plan' = plan /\ (Spent => Spent') /\ placing' \in {placing, None}
  <2>1. bars' = bars /\ plan' = plan /\ placing' \in {placing, None}
    <3>1. CASE Close \/ NextClose \/ Open \/ Answered \/ Tick \/ UNCHANGED vars
      BY <3>1 DEF Close, NextClose, Open, Answered, Tick, vars, engineVars, loop, simVars,
                  QueueOrder, BeginTick
    <3>2. CASE Ticking
      BY <1>1, <3>2, TickTurns DEF Ticking, loop
    <3> QED
      BY <1>3, <3>1, <3>2
  <2>2. Spent => Spent'
    BY <1>3 DEF Close, NextClose, Open, Answered, Tick, Ticking, vars, engineVars, Spent, Enter, StartTick
  <2> QED
    BY <2>1, <2>2
<1>4. ASSUME Close \/ NextClose \/ Open \/ Answered \/ Tick \/ Ticking \/ UNCHANGED vars PROVE Ranks'
  BY <1>1, <1>3, <1>4, RanksStay
<1>5. ASSUME Close \/ NextClose \/ Open \/ Tick \/ Ticking \/ UNCHANGED vars PROVE Entry'
  <2>1. /\ bars' = bars /\ plan' = plan /\ EntrySide' = EntrySide /\ OfTrend' = OfTrend
    BY <1>3, <1>5 DEF EntrySide, Candle, OfTrend
  <2>2. CASE Close \/ NextClose
    BY <2>2 DEF Close, NextClose, Entry, Enter, Working
  <2>3. CASE Open
    BY <1>1, <2>3 DEF Open, Entry, Enter, Working, StartTick, Turns, simVars, books
  <2>4. CASE Tick
    BY <1>1, <2>1, <2>4 DEF Tick, BeginTick, Entry, Enter, books
  <2>5. CASE Ticking
    <3>1. pending' \subseteq pending
      BY <2>5 DEF Ticking, TickStep, Commit, Fill, Reject, Ledger, CheckMargin, Liquidate, Advance, books
    <3> QED
      BY <1>1, <2>1, <2>5, <3>1 DEF Ticking, Entry, Enter
  <2>6. CASE UNCHANGED vars
    BY <1>1, <2>1, <2>6 DEF vars, engineVars, simVars, books, Entry
  <2> QED
    BY <1>5, <2>2, <2>3, <2>4, <2>5, <2>6
<1>6. CASE Answered
  <2>1. /\ pc = "queue" /\ pending = {} /\ pending' = {placing} /\ OfTrend' = OfTrend /\ pc' = "tick"
        /\ job.kind # "main" /\ job' = IF job.kind = "open" THEN Main ELSE job
    BY <1>1, <1>3, <1>6 DEF Answered, QueueOrder, Turns, Placing, OfTrend, Enter, StartTick
  <2>2. Entry'
    BY <1>1, <2>1 DEF Entry
  <2> QED
    BY <1>4, <1>6, <2>2
<1>7. CASE SizeOrder
  <2>1. /\ UNCHANGED <<simVars, bars, plan>> /\ pc = "size" /\ placing' = placing
        /\ EntrySide' = EntrySide /\ Len(bars') = Len(bars) /\ Height(bars') = Height(bars) /\ pending' = {}
    BY <1>1, <1>7 DEF SizeOrder, loop, simVars, EntrySide, Candle, Turns, books
  <2>2. Ranks'
    BY <1>1, <2>1, RanksStay DEF Spent
  <2>3. Entry'
    BY <1>7, <2>1, TrendIs DEF SizeOrder, Entry, Enter, StartTick, Working, Ask, Height, Main
  <2> QED
    BY <2>2, <2>3
<1>8. CASE Place
  <2>1. CASE pc' = "queue"
    BY <1>1, <1>8, <2>1, RanksPlaced
  <2>2. CASE pc' # "queue"
    <3>1. Fail /\ UNCHANGED <<plan, meant>> /\ pending' = pending
      BY <1>8, <2>2, PlaceQueues
    <3>2. pc = "place" /\ bars' = bars /\ pending = {} /\ placing' \in {placing, None}
      BY <1>1, <1>8, <2>2 DEF Place, loop, Turns, Enter, simVars
    <3>3. Ranks'
      BY <1>1, <3>1, <3>2, RanksStay DEF Spent
    <3>4. Entry'
      BY <3>1, <3>2 DEF Entry, Fail
    <3> QED
      BY <3>3, <3>4
  <2> QED
    BY <2>1, <2>2
<1>9. CASE Reply
  <2>1. CASE job = Main
    BY <1>1, <1>9, <2>1, RanksTurn
  <2>2. CASE job # Main
    <3>1. /\ pc = "reply" /\ pc' \in {"size", "closing"} /\ UNCHANGED <<simVars, bars, plan>> /\ placing' = placing
      BY <1>9, <2>2 DEF Reply, Enter, simVars
    <3>2. Ranks'
      BY <1>1, <2>2, <3>1, RanksStay DEF Spent
    <3> QED
      BY <3>1, <3>2 DEF Entry
  <2> QED
    BY <2>1, <2>2
<1> QED
  BY <1>2, <1>4, <1>5, <1>6, <1>7, <1>8, <1>9 DEF Step

LEMMA InitLayers == EngineInit => Layers
<1> SUFFICES ASSUME EngineInit PROVE Ranks /\ Entry
  BY DEF Layers
<1>1. /\ \A i \in Slots : plan[i] = NoPlan
      /\ pc = "close" /\ pending = {} /\ placing = None /\ open[Symbol] = {}
  BY TheSymbol DEF EngineInit, Init
<1>2. OfTrend = {}
  <2>1. bars \in Seq(Bars) /\ BothWays(bars)
    BY InitStacking, InitEngine DEF EngineInv, Loop, Stacking
  <2>2. Before(bars) \in Nat
    BY <2>1, TrendForm
  <2> QED
    BY <1>1, <2>2 DEF OfTrend, NoPlan
<1>3. Live = {}
  BY <1>1 DEF Live
<1>4. Ranks
  BY <1>1, <1>2, <1>3 DEF Ranks, NoPlan
<1> QED
  BY <1>1, <1>4 DEF Entry

-----------------------------------------------------------------------------
(* The orders against the trend.  A close signal of its own closes an order  *)
(* of which some is left; an order whose stack has met its target has none,  *)
(* but a signal to close everything, which is taken only when nothing was    *)
(* closed before it.  So of two orders of earlier trends one is closed, and  *)
(* at most one stays; it has the next iteration's signals for itself.        *)
Sweeping ==
    \/ pc = "closing" /\ \E s \in signals :
          /\ s.meant = None /\ s.from \in open[Symbol] /\ s.quantity = Exposure
          /\ \A u \in signals : s.from <= u.from
    \/ job.kind = "close" /\ pc \in {"place", "queue"} /\ SweepsAll(job.request)
    \/ job.kind = "close" /\ pc \in {"tick", "ticking"} /\ \E i \in pending : SweepsAll(order[i])
Followed ==
    Faultless /\ Watching =>
        /\ \A i, j \in open[Symbol] :
              i < j /\ i \notin OfTrend /\ j \notin OfTrend => Covered(i) \/ Covered(j) \/ Sweeping
        /\ \A i \in open[Symbol] \cap late : Against(i) => Covered(i) \/ Sweeping
Settled ==
    Faultless /\ job = Main /\ pc \in {"ticking", "reply"} =>
        /\ \A i, j \in open[Symbol] : i < j => i \in OfTrend \/ j \in OfTrend
        /\ \A i \in late : i \in Slots /\ i <= nonce /\ Against(i)
Fresh ==
    Faultless /\ pc = "close" =>
        /\ \A k, i, j \in open[Symbol] : k < i /\ i < j => plan[i].count # plan[j].count
        /\ \A i, j \in open[Symbol] : i < j /\ i \notin OfTrend /\ j \notin OfTrend => Against(i)
        /\ \A i \in open[Symbol] \cap late : open[Symbol] = {i}

(* A close of everything that is filled leaves nothing open.                 *)
LEMMA SweepCloses ==
    ASSUME Sound, Sound', NEW i \in pending, Commit(i), SweepsAll(order[i])
    PROVE  open'[Symbol] = {}
<1> PICK r : r = order[i]
  OBVIOUS
<1> PICK q : q = position[Symbol].quantity
  OBVIOUS
<1>1. /\ BooksInv /\ Accounts /\ Kinds /\ i \in Slots /\ r \in Asked /\ r \in Order /\ r.symbol = Symbol
      /\ q \in Int
  BY TheOnlySymbol, OpenRestSums DEF Sound, BooksInv, Kinds, Waiting, Asked
<1>2. ~Opening(r) /\ r.quantity = Larger(q, -q)
  <2>1. \/ q > 0 /\ r.side = "sell" /\ r.quantity = q
        \/ q < 0 /\ r.side = "buy_to_cover" /\ r.quantity = -q
    BY DEF SweepsAll, Ask
  <2> QED
    BY <1>1, <2>1 DEF Opening, Larger
<1>3. Allowed(r) /\ Closings(r) # {}
  BY CloseAllIsTaken
<1>4. PICK a \in Closings(r) : Fill(i, r, a)
  BY <1>3 DEF Commit
<1>5. Ends(i, r, "filled")
  <2>1. Fill(i, r, a) => r.symbol \in Symbols /\ Ledger(i, r, "filled")
    BY <1>1, OrderFacts DEF Fill
  <2>2. status'[i] = "filled"
    BY <1>1, <1>4, <2>1 DEF Ledger, Kinds
  <2>3. Reject(i, r) => status'[i] = "rejected"
    BY <1>1 DEF Reject, Ledger, Kinds
  <2> QED
    BY <1>1, <2>2, <2>3, CommitEnds DEF Ends, Ledger
<1>6. Filling(i, r, a) /\ Tradable(r)
  BY <1>1, <1>3, <1>4, <1>5 DEF Filling, Allowed
<1>7. Exposure' = Exposure - r.quantity /\ Exposure = r.quantity /\ Exposure \in Nat
  BY <1>1, <1>2, <1>6, FillReduces, ExposureType DEF Exposure
<1>8. Exposure' = 0
  BY <1>7
<1> QED
  BY <1>8, ExposedNext DEF Exposed

(* A close of everything stays first until everything is closed.             *)
LEMMA SweepingStays ==
    ASSUME EngineInv, EngineInv', Aims, [Step]_vars, ~Close, Faultless', Watching', open'[Symbol] # {},
           Sweeping
    PROVE  Sweeping'
<1>1. /\ Sound /\ Sound' /\ Turns /\ Faultless /\ Wanted /\ Sent /\ Kinds
      /\ lost' + gaveUp' = 0 /\ lost \in Nat /\ gaveUp \in Nat
      /\ position[Symbol].quantity \in Int
  BY FaultsStay, OpenRestSums DEF EngineInv, Aims, Loop, Faultless, Sound, BooksInv
<1>2. CASE NextClose
  <2>1. pc = "closing" /\ position' = position /\ order' = order
    BY <1>2 DEF NextClose, simVars, books
  <2>2. PICK s \in signals : /\ s.meant = None /\ s.from \in open[Symbol] /\ s.quantity = Exposure
                             /\ \A u \in signals : s.from <= u.from
    BY <2>1 DEF Sweeping
  <2>3. PICK u \in signals :
          /\ \A v \in signals : u.from <= v.from
          /\ pc' = "place" /\ job'.kind = "close"
          /\ job'.request = Ask(IF order[u.from].side = "buy" THEN "sell" ELSE "buy_to_cover",
                                u.quantity, TargetId(u.meant))
    BY <1>2, <2>2 DEF NextClose, Working, Enter
  <2>4. u = s
    <3>1. u.from \in Nat /\ s.from \in Nat
      BY <1>1, <2>2, SlotsAreNat DEF Wanted, UserFill
    <3>2. u.from = s.from
      BY <2>2, <2>3, <3>1
    <3> QED
      BY <1>1, <2>2, <2>3, <3>2 DEF Wanted
  <2>5. job'.request = Ask(IF order[s.from].side = "buy" THEN "sell" ELSE "buy_to_cover", Exposure, None)
    BY <2>2, <2>3, <2>4, EmptyTarget
  <2>6. /\ order[s.from].side \in {"buy", "sell_short"} /\ position[Symbol].quantity # 0
        /\ position[Symbol].quantity > 0 => order[s.from].side = "buy"
        /\ position[Symbol].quantity < 0 => order[s.from].side = "sell_short"
    BY <1>1, <2>2, TheSymbol, OpenOrders, LongOrShort DEF Sound, BooksInv, Accounts
  <2>7. SweepsAll(job'.request)
    <3>1. CASE position[Symbol].quantity > 0
      <4>1. Exposure = position[Symbol].quantity
        BY <1>1, <3>1 DEF Exposure, Larger
      <4> QED
        BY <2>5, <2>6, <3>1, <4>1 DEF SweepsAll
    <3>2. CASE position[Symbol].quantity < 0
      <4>1. Exposure = -position[Symbol].quantity
        BY <1>1, <3>2 DEF Exposure, Larger
      <4>2. order[s.from].side # "buy"
        BY <2>6, <3>2
      <4>3. job'.request = Ask("buy_to_cover", -position[Symbol].quantity, None)
        BY <2>5, <4>1, <4>2
      <4> QED
        BY <3>2, <4>3 DEF SweepsAll
    <3> QED
      BY <1>1, <2>6, <3>1, <3>2
  <2>8. SweepsAll(job'.request) => SweepsAll(job.request)'
    BY <2>1 DEF SweepsAll
  <2> QED
    BY <2>3, <2>7, <2>8 DEF Sweeping
<1>3. CASE Place
  <2>1. pc = "place" /\ pending = {} /\ job.kind = "close" /\ SweepsAll(job.request)
    BY <1>1, <1>3 DEF Place, Turns, Sweeping
  <2>2. PendingClosesFit(job.request) /\ Placeable(job.request)
    BY <1>1, <2>1, CloseAllIsTaken
  <2>3. pc' = "queue" /\ job' = job
    BY <1>3, <2>2, PlaceQueues
  <2>4. position' = position
    BY <1>3, CallsKeepPosition DEF Place
  <2> QED
    BY <2>1, <2>3, <2>4 DEF Sweeping, SweepsAll
<1>4. CASE Answered
  <2>1. /\ pc = "queue" /\ job.kind = "close" /\ SweepsAll(job.request) /\ job' = job /\ pc' = "tick"
        /\ placing \in pending' /\ order' = order /\ position' = position
        /\ order[placing] = job.request
    BY <1>1, <1>4 DEF Answered, QueueOrder, Sweeping, Enter, Sent, SentOrder
  <2> QED
    BY <2>1 DEF Sweeping, SweepsAll
<1>5. CASE Tick
  <2>1. /\ pc = "tick" /\ job' = job /\ pc' = "ticking" /\ pending' = pending
        /\ order' = order /\ position' = position
    BY <1>5 DEF Tick, BeginTick, Enter, books
  <2> QED
    BY <2>1 DEF Sweeping, SweepsAll
<1>6. CASE Ticking
  <2>1. pc = "ticking" /\ job.kind = "close" /\ TickStep
    BY <1>6 DEF Ticking, Sweeping
  <2>2. PICK i \in pending : SweepsAll(order[i])
    BY <2>1 DEF Sweeping
  <2>3. \A j \in pending : j = i
    BY <1>1, <2>1 DEF Sent, SentAlone
  <2>4. phase # "margin"
    BY <1>1, <2>2 DEF Turns
  <2>5. Commit(i)
    BY <2>1, <2>2, <2>3, <2>4 DEF TickStep, CheckMargin, Liquidate, Advance
  <2> QED
    BY <1>1, <2>2, <2>5, SweepCloses
<1>7. CASE UNCHANGED vars
  <2>1. UNCHANGED <<pc, job, signals, pending, order, position, open>>
    BY <1>7 DEF vars, engineVars, simVars, books, loop
  <2>2. Exposure' = Exposure
    BY <2>1 DEF Exposure
  <2> QED
    BY <2>1, <2>2 DEF Sweeping, SweepsAll
<1>8. ~Open /\ ~SizeOrder /\ ~Reply
  BY DEF Open, SizeOrder, Reply, Sweeping
<1>9. ~ReplyLost /\ ~GiveUp
  BY <1>1 DEF ReplyLost, GiveUp
<1> QED
  BY <1>2, <1>3, <1>4, <1>5, <1>6, <1>7, <1>8, <1>9 DEF Step

LEMMA OpenSides ==
    ASSUME Sound
    PROVE  /\ \A i \in open[Symbol] : /\ i \in Slots /\ order[i].side \in {"buy", "sell_short"}
                                      /\ order[i].quantity \in Nat /\ order[i].quantity > 0
           /\ \A i, j \in open[Symbol] : order[i].side = order[j].side
<1>1. ASSUME NEW i \in open[Symbol]
      PROVE  /\ i \in Slots /\ order[i].side \in {"buy", "sell_short"}
             /\ order[i].quantity \in Nat /\ order[i].quantity > 0
  BY TheSymbol, OpenOrders, OrderFacts DEF Sound, BooksInv, Accounts
<1>2. \A i, j \in open[Symbol] : order[i].side = order[j].side
  BY TheSymbol DEF Sound, Accounts, OneSide
<1> QED
  BY <1>1, <1>2

LEMMA TrendSide ==
    ASSUME NEW i, order[i].side = EntrySide PROVE ~Against(i)
BY DEF Against, EntrySide

LEMMA LateIsAgainst ==
    ASSUME EngineInv, NEW i \in open[Symbol], Candle.dir * Signed(order[i]) < 0 PROVE Against(i)
<1> PICK n : n = order[i].quantity
  OBVIOUS
<1> PICK d : d = Candle.dir
  OBVIOUS
<1>1. n \in Nat /\ order[i].side \in {"buy", "sell_short"}
  BY OpenSides DEF EngineInv
<1>2. d \in {1, -1}
  BY CandleIsBar, EngineAssumption DEF EngineInv, Loop
<1>3. CASE order[i].side = "buy"
  <2>1. d * n < 0
    BY <1>3 DEF Signed
  <2>2. d # 1
    BY <1>1, <2>1
  <2> QED
    BY <1>2, <1>3, <2>2 DEF Against
<1>4. CASE order[i].side = "sell_short"
  <2>1. Signed(order[i]) = -n
    BY <1>4 DEF Signed
  <2>2. d * (-n) < 0
    BY <2>1
  <2>3. d # -1
    BY <1>1, <2>2
  <2> QED
    BY <1>2, <1>4, <2>3 DEF Against
<1> QED
  BY <1>1, <1>3, <1>4

(* The signals of an iteration close one of two orders of earlier trends, or *)
(* everything.                                                               *)
LEMMA CloseFollows == ASSUME EngineInv, Stacking, Fresh, Faultless, Close PROVE Followed'
<1>1. /\ pc = "close" /\ pc' = "closing" /\ signals' = CloseSignals /\ UNCHANGED <<simVars, bars, plan, late>>
      /\ open' = open /\ order' = order /\ position' = position
  BY DEF Close, Enter, simVars, books
<1>2. /\ OfTrend' = OfTrend /\ Exposure' = Exposure /\ \A i : Against(i)' <=> Against(i)
  BY <1>1 DEF OfTrend, Against, Candle, Exposure
<1>3. /\ Sound /\ \A i \in open[Symbol] : i \in Slots /\ i \in Nat /\ plan[i].count \in 0 .. MaxOpenCount
      /\ MaxOpenCount \in Nat
  <2>1. Sound /\ plan \in [Slots -> Plans]
    BY DEF EngineInv, Loop
  <2> QED
    BY <2>1, OpenSides, SlotsAreNat, Constants DEF Plans
<1>4. ASSUME NEW i \in open[Symbol], Against(i), ~Covered(i)'
      PROVE  ~StopHit(i) /\ TargetHit(i) /\ plan[i].count = MaxOpenCount
  <2>1. ASSUME StopHit(i) \/ (~TargetHit(i) /\ Against(i)) PROVE FALSE
    <3>1. [from |-> i, why |-> "order", meant |-> i, quantity |-> Remaining(i)] \in CloseSignals
      BY <2>1 DEF CloseSignals
    <3> QED
      BY <1>1, <1>4, <3>1 DEF Covered
  <2>2. ~StopHit(i) /\ TargetHit(i)
    BY <1>4, <2>1
  <2>3. plan[i].count >= MaxOpenCount
    BY <2>2 DEF TargetHit
  <2> QED
    BY <1>3, <2>2, <2>3
<1>5. ASSUME NEW i \in open[Symbol], ~StopHit(i), TargetHit(i), \A k \in open[Symbol] : i <= k
      PROVE  Sweeping'
  <2>1. MapThenSumSet(Remaining, open[Symbol]) = Exposure
    BY <1>3, OpenRestSums, RestOfTheState, ExposedHolds DEF Exposed
  <2>2. [from |-> i, why |-> "tp", meant |-> None, quantity |-> MapThenSumSet(Remaining, open[Symbol])]
          \in CloseSignals
    BY <1>5 DEF CloseSignals
  <2>3. \E s \in CloseSignals :
           s.from = i /\ s.meant = None /\ s.quantity = MapThenSumSet(Remaining, open[Symbol])
    BY <2>2
  <2>4. \A u \in CloseSignals : u.from \in open[Symbol]
    BY SignalsWanted
  <2> QED
    BY <1>1, <1>2, <1>5, <2>1, <2>3, <2>4 DEF Sweeping
<1>6. ASSUME NEW i \in open[Symbol], NEW j \in open[Symbol], i < j, i \notin OfTrend, j \notin OfTrend,
             ~Covered(i)', ~Covered(j)'
      PROVE  Sweeping'
  <2>1. Against(i) /\ order[j].side = order[i].side
    BY <1>1, <1>3, <1>6, OpenSides DEF Fresh
  <2>2. Against(j)
    BY <2>1 DEF Against
  <2>3. ~StopHit(i) /\ TargetHit(i) /\ plan[i].count = plan[j].count
    BY <1>4, <1>6, <2>1, <2>2
  <2>4. \A k \in open[Symbol] : ~(k < i)
    BY <1>1, <1>6, <2>3 DEF Fresh
  <2>5. \A k \in open[Symbol] : i <= k
    BY <1>3, <2>4
  <2> QED
    BY <1>5, <2>3, <2>5
<1>7. ASSUME NEW i \in open[Symbol] \cap late, Against(i), ~Covered(i)'
      PROVE  Sweeping'
  <2>1. open[Symbol] = {i}
    BY <1>1, <1>7 DEF Fresh
  <2>2. i \in open[Symbol] /\ \A k \in open[Symbol] : i <= k
    BY <1>3, <1>7, <2>1
  <2> QED
    BY <1>4, <1>5, <1>7, <2>2
<1> QED
  BY <1>1, <1>2, <1>6, <1>7 DEF Followed

LEMMA FollowedStep ==
    ASSUME EngineInv, EngineInv', Stacking, Aims, Fresh, Followed, [Step]_vars PROVE Followed'
<1> SUFFICES ASSUME Faultless', Watching' PROVE Followed'
  BY DEF Followed
<1>1. CASE Close
  BY <1>1, CloseFollows, FaultsStay
<1>2. CASE ~Close
  <2>1. late' = late
    <3>1. CASE Tick
      BY <3>1 DEF Tick, Enter, Watching
    <3> QED
      BY <1>2, <3>1 DEF Step, NextClose, Open, SizeOrder, Place, Answered, ReplyLost, Ticking, Reply, GiveUp,
                        vars, engineVars, loop
  <2>2. ASSUME NEW i \in open'[Symbol]
        PROVE  /\ i \in open[Symbol] /\ Faultless /\ Watching /\ (Covered(i) => Covered(i)')
               /\ (Sweeping => Sweeping') /\ (Against(i)' => Against(i)) /\ (i \in OfTrend => i \in OfTrend')
    <3>1. /\ i \in open[Symbol] /\ i \in Slots /\ order'[i] = order[i] /\ plan'[i] = plan[i]
          /\ bars' = bars
      BY <2>2, StaysOpen
    <3>2. (Against(i)' => Against(i)) /\ (i \in OfTrend => i \in OfTrend')
      BY <3>1 DEF Against, Candle, OfTrend
    <3>3. Watching /\ (Covered(i) => Covered(i)') /\ (Sweeping => Sweeping')
      BY <1>2, <2>2, CoveredStays, SweepingStays
    <3> QED
      BY <3>1, <3>2, <3>3, FaultsStay
  <2> QED
    BY <2>1, <2>2 DEF Followed
<1> QED
  BY <1>1, <1>2

(* What the iteration leaves.                                                *)
LEMMA SettledStep ==
    ASSUME EngineInv, EngineInv', Aims, Layers, Followed, Settled, [Step]_vars PROVE Settled'
<1> SUFFICES ASSUME Faultless', job' = Main, pc' \in {"ticking", "reply"} PROVE Settled'
  BY DEF Settled
<1>1. /\ Sound /\ Sound' /\ Turns /\ Turns' /\ Faultless /\ AnyStep /\ Main.kind = "main" /\ Entry
      /\ lost' + gaveUp' = 0 /\ lost \in Nat /\ gaveUp \in Nat
  BY FaultsStay, ServerStep DEF EngineInv, Layers, Faultless, Loop, Main
<1>2. /\ nonce \in Nat /\ nonce' \in Nat /\ nonce <= nonce'
      /\ \A i \in Live : i \in Slots /\ i <= nonce
      /\ \A i \in Slots : i \in Nat /\ (i <= nonce => order'[i] = order[i])
      /\ Live' \subseteq Live \cup ({placing'} \ {None})
  BY <1>1, LiveStep, SlotsAreNat
<1>3. CASE Tick
  <2>1. /\ pc = "tick" /\ job = Main /\ open' = open /\ order' = order /\ nonce' = nonce /\ late' = Late
        /\ bars' = bars /\ plan' = plan
    BY <1>3 DEF Tick, BeginTick, books
  <2>2. OfTrend' = OfTrend /\ \A i : Against(i)' <=> Against(i)
    BY <2>1 DEF OfTrend, Against, Candle
  <2>3. signals = {} /\ Watching /\ ~Sweeping /\ \A i : ~Covered(i)
    BY <1>1, <2>1 DEF Aims, NoneLeft, Calling, Watching, Sweeping, Covered, Handling
  <2>4. \A i, j \in open[Symbol] : i < j => i \in OfTrend \/ j \in OfTrend
    BY <1>1, <2>3 DEF Followed
  <2>5. \A i \in Late : i \in Slots /\ i <= nonce /\ Against(i)
    BY <1>2, LateIsAgainst DEF Late, Live
  <2> QED
    BY <2>1, <2>2, <2>4, <2>5 DEF Settled
<1>4. CASE Ticking
  <2>1. /\ pc = "ticking" /\ job = Main /\ late' = late /\ bars' = bars /\ plan' = plan
    BY <1>4 DEF Ticking, loop
  <2>2. OfTrend' = OfTrend
    BY <2>1 DEF OfTrend
  <2>3. placing = None /\ placing' = None
    BY <1>1, <2>1 DEF Turns
  <2>4. open'[Symbol] \subseteq open[Symbol] \cup pending
    BY <1>2, <2>3 DEF Live
  <2>5. pending \subseteq OfTrend
    BY <1>1, <2>1 DEF Entry
  <2>6. \A i, j \in open'[Symbol] : i < j => i \in OfTrend \/ j \in OfTrend
    BY <1>1, <2>1, <2>4, <2>5 DEF Settled
  <2>7. \A i \in late : i \in Slots /\ i <= nonce /\ Against(i)
    BY <1>1, <2>1 DEF Settled
  <2>8. ASSUME NEW i \in late PROVE (i \in Slots /\ i <= nonce /\ Against(i))'
    <3>1. i \in Slots /\ i <= nonce /\ Against(i) /\ i \in Nat /\ order'[i] = order[i]
      BY <1>2, <2>7, <2>8
    <3>2. i <= nonce'
      BY <1>2, <3>1
    <3> QED
      BY <2>1, <3>1, <3>2 DEF Against, Candle
  <2> QED
    BY <2>1, <2>2, <2>6, <2>8 DEF Settled
<1>5. CASE UNCHANGED vars
  <2>1. UNCHANGED <<pc, job, late, bars, plan, order, open, nonce>>
    BY <1>5 DEF vars, engineVars, simVars, books, loop
  <2>2. OfTrend' = OfTrend /\ \A i : Against(i)' <=> Against(i)
    BY <2>1 DEF OfTrend, Against, Candle
  <2> QED
    BY <1>1, <2>1, <2>2 DEF Settled
<1>6. ASSUME Close \/ NextClose \/ Open \/ SizeOrder \/ Answered \/ Reply PROVE FALSE
  BY <1>6 DEF Close, NextClose, Open, SizeOrder, Answered, Reply, Enter, StartTick
<1>7. ~Place
  BY PlaceQueues DEF Fail
<1>8. ~ReplyLost /\ ~GiveUp
  BY <1>1 DEF ReplyLost, GiveUp
<1> QED
  BY <1>3, <1>4, <1>5, <1>6, <1>7, <1>8 DEF Step

(* What the next iteration starts with.                                      *)
LEMMA FreshStep ==
    ASSUME EngineInv, EngineInv', Stacking, Layers, Settled, Fresh, [Step]_vars PROVE Fresh'
<1> SUFFICES ASSUME Faultless', pc' = "close" PROVE Fresh'
  BY DEF Fresh
<1>1. /\ Sound /\ Sound' /\ Faultless /\ Ranks /\ lost' + gaveUp' = 0 /\ lost \in Nat /\ gaveUp \in Nat
  BY FaultsStay DEF EngineInv, Layers, Faultless, Loop
<1>2. CASE Reply /\ job = Main
  <2>1. /\ pc = "reply" /\ open' = open /\ order' = order /\ plan' = plan /\ late' = late
    BY <1>2 DEF Reply, simVars, books
  <2>2. /\ \A i, j \in open[Symbol] : i < j => i \in OfTrend \/ j \in OfTrend
        /\ \A i \in late : Against(i)
    BY <1>1, <1>2, <2>1 DEF Settled
  <2>3. \A i \in open[Symbol] : i \in Slots /\ i \in Nat /\ plan[i].at > 0 /\ plan[i].at \in Nat
    <3> TAKE i \in open[Symbol]
    <3>1. i \in Live /\ Opening(order[i]) /\ i \in Slots
      BY <1>1, OpenSides DEF Live, Opening
    <3> QED
      BY <1>1, <3>1, LayerFacts DEF Ranks
  <2>4. \A i, j \in open[Symbol] : i < j => j \in OfTrend
    <3> TAKE i, j \in open[Symbol]
    <3> HAVE i < j
    <3>1. plan[i].at <= plan[j].at
      BY <1>1, <2>3 DEF Ranks
    <3>2. CASE i \in OfTrend
      <4>1. plan[i].at > Before(bars) /\ Before(bars) \in Nat
        BY <3>2, LayerFacts DEF OfTrend
      <4> QED
        BY <2>3, <3>1, <4>1 DEF OfTrend
    <3> QED
      BY <2>2, <3>2
  <2>5. \A i, j \in open[Symbol] : i < j => order[i].side = EntrySide /\ order[j].side = EntrySide
    BY <1>1, <2>4, OpenSides DEF Ranks
  <2>6. \A k, i, j \in open[Symbol] : k < i /\ i < j => plan[i].count # plan[j].count
    <3> TAKE k, i, j \in open[Symbol]
    <3> HAVE k < i /\ i < j
    <3>1. i \in OfTrend /\ j \in OfTrend /\ i # j
      BY <2>3, <2>4
    <3> QED
      BY <1>1, <3>1 DEF Ranks
  <2>7. \A i, j \in open[Symbol] : i < j /\ i \notin OfTrend' /\ j \notin OfTrend' => Against(i)'
    <3> TAKE i, j \in open[Symbol]
    <3> HAVE i < j /\ i \notin OfTrend' /\ j \notin OfTrend'
    <3>1. j \in OfTrend /\ order[i].side = EntrySide
      BY <2>4, <2>5
    <3>2. CASE bars' = bars
      BY <2>1, <3>1, <3>2 DEF OfTrend
    <3>3. CASE OfTrend' = OfTrend
      BY <3>1, <3>3
    <3>4. CASE Candle.dir # Candle'.dir /\ Candle.dir \in {1, -1} /\ Candle'.dir \in {1, -1}
      <4>1. order'[i].side = order[i].side
        BY <2>1
      <4> QED
        BY <3>1, <3>4, <4>1 DEF Against, EntrySide
    <3> QED
      BY <1>1, <1>2, <3>2, <3>3, <3>4, RanksTurn
  <2>8. \A i \in open[Symbol] \cap late : open[Symbol] = {i}
    <3> TAKE i \in open[Symbol] \cap late
    <3>1. Against(i)
      BY <2>2
    <3>2. order[i].side # EntrySide
      BY <3>1, TrendSide
    <3>3. \A j \in open[Symbol] : ~(i < j) /\ ~(j < i)
      BY <2>5, <3>2
    <3> QED
      BY <2>3, <3>3
  <2> QED
    BY <2>1, <2>6, <2>7, <2>8 DEF Fresh
<1>3. CASE UNCHANGED vars
  <2>1. UNCHANGED <<pc, late, bars, plan, order, open>>
    BY <1>3 DEF vars, engineVars, simVars, books, loop
  <2>2. OfTrend' = OfTrend /\ \A i : Against(i)' <=> Against(i)
    BY <2>1 DEF OfTrend, Against, Candle
  <2> QED
    BY <1>1, <2>1, <2>2 DEF Fresh
<1>4. ASSUME \/ Close \/ NextClose \/ Open \/ SizeOrder \/ Answered \/ Tick \/ Ticking
             \/ Reply /\ job # Main
      PROVE  FALSE
  BY <1>4 DEF Close, NextClose, Open, SizeOrder, Answered, Tick, Ticking, Reply, Enter, StartTick
<1>5. ~Place
  BY PlaceQueues DEF Fail
<1>6. ~ReplyLost /\ ~GiveUp
  BY <1>1 DEF ReplyLost, GiveUp
<1> QED
  BY <1>2, <1>3, <1>4, <1>5, <1>6 DEF Step

LEMMA TickFollows ==
    ASSUME EngineInv, Aims, Followed, [Step]_vars, pc = "tick", pc' = "ticking", job = Main, Faultless
    PROVE  late \cap late' = {}
<1>1. late' = Late
  BY DEF Step, Close, NextClose, Open, SizeOrder, Place, Answered, ReplyLost, Tick, Ticking, Reply, GiveUp,
         Fail, vars, engineVars, Main
<1>2. signals = {} /\ Watching /\ ~Sweeping /\ \A i : ~Covered(i)
  BY DEF Aims, NoneLeft, Calling, Main, Watching, Sweeping, Covered, Handling
<1>3. \A i \in Late : i \in open[Symbol] /\ Against(i)
  BY LateIsAgainst DEF Late
<1> QED
  BY <1>1, <1>2, <1>3 DEF Followed

(* While no call failed, no order stays against the trend for two            *)
(* iterations: an iteration leaves at most one order of an earlier trend,    *)
(* and the signals of the next one close it.                                 *)
THEOREM TrendFollowedHolds == Engine => TrendFollowed
<1> DEFINE Inv == EngineInv /\ Stacking /\ Aims /\ Layers /\ Followed /\ Settled /\ Fresh
<1>1. EngineInit => Inv
  <2>1. EngineInit => Followed /\ Settled
    BY DEF EngineInit, Followed, Settled, Watching
  <2>2. EngineInit => Fresh
    <3> SUFFICES ASSUME EngineInit PROVE open[Symbol] = {}
      BY DEF Fresh
    <3> QED
      BY TheSymbol DEF EngineInit, Init
  <2> QED
    BY <2>1, <2>2, InitEngine, InitStacking, InitAims, InitLayers
<1>2. Inv /\ [Step]_vars => Inv'
  BY StepEngine, StackingStep, AimsStep, LayersStep, FollowedStep, SettledStep, FreshStep
<1>3. Inv /\ [Step]_vars =>
        [pc = "tick" /\ pc' = "ticking" /\ job = Main /\ Faultless => late \cap late' = {}]_vars
  BY TickFollows
<1> QED
  BY <1>1, <1>2, <1>3, PTL DEF Engine, TrendFollowed

=============================================================================
