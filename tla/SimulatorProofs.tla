-------------------------- MODULE SimulatorProofs --------------------------
(* Of a simulator playground with any symbols, requests, feed and balance.   *)
(*                                                                           *)
(* First, of single orders: none is closed by more than it opened, the       *)
(* client is told once of every end, and history stands.  That rests on      *)
(* which order a step touches, and in which state that order is.             *)
(*                                                                           *)
(* Then, of sums: the three books agree, the open orders of a symbol are on  *)
(* one side, every variable has its type, and a tick ends with the margin    *)
(* restored.  A position is what all filled orders of its symbol add up to,  *)
(* so a fill moves it by what it moves the open orders cache; and it has     *)
(* orders that opened it, since a flat one can only be opened, so that its   *)
(* cost basis is an average.                                                 *)
EXTENDS Simulator, SumTheorems, TLAPS

Ended(i) == status[i] \in {"filled", "rejected"}

(* Nothing depends on which orders clients place: the steps are those of a   *)
(* playground asked for any order that is not a liquidation.                 *)
Asked == {r \in Order : ~r.forced}
AnyStep ==
    \/ \E r \in Asked : CheckOrder(r)
    \/ QueueOrder
    \/ \E moves \in BOOLEAN : BeginTick(moves)
    \/ TickStep
    \/ UNCHANGED simVars

(* An order's record is only known to be one while a request is in it: what  *)
(* a liquidation sells is a sum.                                             *)
Kinds ==
    /\ order = [i \in Slots |-> order[i]] /\ traded = [i \in Slots |-> traded[i]]
    /\ status \in [Slots -> Statuses]
    /\ closed \in [Slots -> Nat] /\ told \in [Slots -> Nat]
    /\ open \in [Symbols -> SUBSET Slots]
    /\ pending \subseteq Slots /\ news \subseteq Slots
    /\ nonce \in Nat /\ placing \in Slots \cup {None}

(* Where an order can be in each state of its life. *)
Unused  == \A i \in Slots : i > nonce => status[i] = "none"
Placed  == placing # None => placing <= nonce /\ status[placing] = "none" /\ order[placing] \in Asked
Waiting ==
    /\ \A i \in Slots : i \in pending <=> status[i] = "pending"
    /\ \A i \in pending : order[i] \in Asked
Filled  == \A i \in Slots : status[i] = "filled" /\ Opening(order[i]) => order[i] \in Asked
InCache == \A s \in Symbols : \A i \in open[s] : status[i] = "filled" /\ Opening(order[i])

(* What the delta will tell has not been told. *)
Untold ==
    /\ \A i \in news : Ended(i) /\ told[i] = 0
    /\ ToldOnce

BooksInv == Kinds /\ Unused /\ Placed /\ Waiting /\ Filled /\ InCache /\ NoOverClose /\ Untold

-----------------------------------------------------------------------------
LEMMA SlotsAreNat == Slots \subseteq Nat
<1>1. Cardinality(Symbols) \in Nat
  BY SimulatorAssumption, FS_CardinalityType
<1> QED
  BY <1>1, SimulatorAssumption DEF Slots

(* The next id of a user order. *)
LEMMA NextSlot == ASSUME nonce \in Nat, nonce < MaxOrders PROVE nonce + 1 \in Slots
<1>1. Cardinality(Symbols) \in Nat
  BY SimulatorAssumption, FS_CardinalityType
<1> QED
  BY <1>1, SimulatorAssumption DEF Slots

LEMMA NextIsAnyStep == [Next]_simVars => AnyStep
<1>1. Requests \subseteq Asked
  BY SimulatorAssumption DEF Asked
<1> QED
  BY <1>1 DEF Next, AnyStep

LEMMA AskedHaveQuantities == \A r \in Asked : r.quantity \in Nat
BY DEF Asked, Order

(* A closing takes from open orders no more than remains of them. *)
LEMMA ClosingsFit ==
    ASSUME NEW r, NEW a \in Closings(r), NEW j \in open[r.symbol]
    PROVE  a[j] \in Nat /\ (a[j] > 0 => a[j] <= order[j].quantity - closed[j])
<1>1. \A v : \A k \in 0 .. v : k \in Nat
  OBVIOUS
<1>2. /\ a \in [open[r.symbol] -> 0 .. (IF IsClose(r) THEN r.quantity ELSE 0)]
      /\ \A i \in DOMAIN a : a[i] > 0 => Fits(i, a[i])
  BY DEF Closings
<1> QED
  BY <1>1, <1>2 DEF Fits, Remaining

-----------------------------------------------------------------------------
LEMMA InitBooks == Init => BooksInv
<1> SUFFICES ASSUME Init PROVE BooksInv
  OBVIOUS
<1>1. Kinds
  BY DEF Init, Kinds, Statuses
<1>2. Unused /\ Placed /\ Waiting /\ Filled /\ InCache
  BY DEF Init, Unused, Placed, Waiting, Filled, InCache
<1>3. NoOverClose
  BY DEF Init, NoOverClose
<1>4. Untold
  BY DEF Init, Untold, ToldOnce
<1> QED
  BY <1>1, <1>2, <1>3, <1>4 DEF BooksInv

LEMMA CheckOrderBooks ==
    ASSUME BooksInv, NEW r \in Asked, CheckOrder(r) PROVE BooksInv'
<1>1. /\ Kinds /\ Unused /\ Placed /\ Waiting /\ Filled /\ InCache /\ NoOverClose /\ Untold
      /\ placing = None /\ nonce < MaxOrders /\ nonce' = nonce + 1
      /\ \/ placing' = nonce + 1 /\ order' = [order EXCEPT ![nonce + 1] = r]
         \/ UNCHANGED <<placing, order>>
      /\ UNCHANGED <<status, traded, closed, pending, open, news, told, complete>>
  BY DEF BooksInv, CheckOrder, feed
<1>2. nonce + 1 \in Slots /\ status[nonce + 1] = "none" /\ nonce \in Nat /\ None \notin Slots
  BY <1>1, NextSlot, SlotsAreNat, SimulatorAssumption DEF Kinds, Unused
<1>3. \A i \in Slots : status[i] # "none" => order'[i] = order[i]
  BY <1>1, <1>2 DEF Kinds
<1>4. Kinds'
  BY <1>1, <1>2 DEF Kinds
<1>5. Unused'
  BY <1>1, <1>2, SlotsAreNat DEF Unused
<1>6. Placed'
  BY <1>1, <1>2 DEF Placed, Kinds
<1>7. Waiting'
  BY <1>1, <1>3 DEF Waiting, Kinds
<1>8. Filled'
  BY <1>1, <1>3 DEF Filled, Opening
<1>9. InCache'
  BY <1>1, <1>3 DEF InCache, Opening, Kinds
<1>10. NoOverClose'
  BY <1>1, <1>3 DEF NoOverClose, Opening
<1>11. Untold'
  BY <1>1 DEF Untold, ToldOnce, Ended
<1> QED
  BY <1>4, <1>5, <1>6, <1>7, <1>8, <1>9, <1>10, <1>11 DEF BooksInv

LEMMA QueueOrderBooks == ASSUME BooksInv, QueueOrder PROVE BooksInv'
<1>1. /\ Kinds /\ Unused /\ Placed /\ Waiting /\ Filled /\ InCache /\ NoOverClose /\ Untold
      /\ placing # None /\ placing' = None
      /\ pending' = pending \cup {placing}
      /\ status' = [status EXCEPT ![placing] = "pending"]
      /\ UNCHANGED <<order, traded, closed, open, nonce, news, told, complete>>
  BY DEF BooksInv, QueueOrder, feed
<1>2. /\ placing \in Slots /\ placing <= nonce /\ status[placing] = "none"
      /\ order[placing] \in Asked
  BY <1>1 DEF Kinds, Placed
<1>3. \A i \in Slots : i # placing => status'[i] = status[i]
  BY <1>1 DEF Kinds
<1>4. status'[placing] = "pending"
  BY <1>1, <1>2 DEF Kinds
<1>5. Kinds'
  BY <1>1, <1>2 DEF Kinds, Statuses
<1>6. Unused'
  BY <1>1, <1>2, <1>3, SlotsAreNat DEF Unused, Kinds
<1>7. Placed'
  BY <1>1 DEF Placed
<1>8. Waiting'
  BY <1>1, <1>2, <1>3, <1>4 DEF Waiting, Kinds
<1>9. Filled'
  BY <1>1, <1>3, <1>4 DEF Filled, Opening
<1>10. InCache'
  BY <1>1, <1>2, <1>3 DEF InCache, Opening, Kinds
<1>11. NoOverClose'
  BY <1>1, <1>2, <1>3 DEF NoOverClose, Opening
<1>12. Untold'
  <2>1. \A i \in Slots : Ended(i)' <=> Ended(i)
    BY <1>2, <1>3, <1>4 DEF Ended
  <2> QED
    BY <1>1, <2>1 DEF Untold, ToldOnce, Ended, Kinds
<1> QED
  BY <1>5, <1>6, <1>7, <1>8, <1>9, <1>10, <1>11, <1>12 DEF BooksInv

-----------------------------------------------------------------------------
(* An order ends: of the state only its own part changes.  It has not ended  *)
(* before, and its record changes only if it is a liquidation's.             *)
Ends(i, r, end) ==
    /\ i \in Slots /\ status[i] \in {"none", "pending"} /\ i # placing /\ r.symbol \in Symbols
    /\ order[i] = r \/ ~Opening(r)
    /\ Opening(r) => r \in Asked
    /\ nonce' \in Nat /\ nonce' >= nonce /\ i <= nonce'
    /\ end \in {"filled", "rejected"} /\ Ledger(i, r, end)
    /\ traded' = traded \/ Trade(i, r)
    /\ UNCHANGED <<placing, told, complete>>

LEMMA EndsLedger ==
    ASSUME BooksInv, NEW i, NEW r, NEW end, Ends(i, r, end)
    PROVE  /\ \A j \in Slots : j # i => order'[j] = order[j] /\ status'[j] = status[j]
           /\ order'[i] = r /\ status'[i] = end
           /\ \A j \in Slots : j # i => traded'[j] = traded[j]
           /\ Unused' /\ Placed' /\ Waiting' /\ Filled' /\ Untold'
<1>1. /\ Kinds /\ Unused /\ Placed /\ Waiting /\ Filled /\ Untold
      /\ i \in Slots /\ status[i] \in {"none", "pending"} /\ i # placing
      /\ nonce' \in Nat /\ nonce' >= nonce /\ i <= nonce' /\ end \in {"filled", "rejected"}
      /\ Opening(r) => r \in Asked
      /\ order' = [order EXCEPT ![i] = r] /\ status' = [status EXCEPT ![i] = end]
      /\ pending' = pending \ {i} /\ news \subseteq news' /\ news' \subseteq news \cup {i} /\ i \in news'
      /\ UNCHANGED <<placing, told, complete>>
  BY DEF BooksInv, Ends, Ledger, News
<1>2. /\ \A j \in Slots : j # i => order'[j] = order[j] /\ status'[j] = status[j]
      /\ order'[i] = r /\ status'[i] = end
  BY <1>1 DEF Kinds
<1>3. \A j \in Slots : j # i => traded'[j] = traded[j]
  BY <1>1 DEF Ends, Trade, Kinds
<1>4. Unused'
  BY <1>1, <1>2, SlotsAreNat DEF Unused, Kinds
<1>5. Placed'
  BY <1>1, <1>2, SlotsAreNat DEF Placed, Kinds
<1>6. Waiting'
  BY <1>1, <1>2 DEF Waiting, Kinds
<1>7. Filled'
  BY <1>1, <1>2 DEF Filled, Opening
<1>8. Untold'
  <2>1. \A j \in Slots : Ended(j)' <=> Ended(j) \/ j = i
    BY <1>1, <1>2 DEF Ended
  <2>2. told[i] = 0
    BY <1>1 DEF Untold, ToldOnce, Kinds
  <2> QED
    BY <1>1, <2>1, <2>2 DEF Untold, ToldOnce, Ended, Kinds
<1> QED
  BY <1>2, <1>3, <1>4, <1>5, <1>6, <1>7, <1>8

LEMMA FillBooks ==
    ASSUME BooksInv, NEW i, NEW r, Ends(i, r, "filled"), NEW a \in Closings(r), Fill(i, r, a)
    PROVE  BooksInv' /\ \A j \in Slots : closed[j] <= closed'[j]
<1>1. /\ Kinds /\ Filled /\ InCache /\ NoOverClose /\ i \in Slots
      /\ status[i] \in {"none", "pending"}
      /\ closed' = [j \in Slots |-> IF j \in open[r.symbol] THEN closed[j] + a[j] ELSE closed[j]]
      /\ open' = [open EXCEPT ![r.symbol] = {j \in @ : StillOpen(j, closed'[j])} \cup Opened(i, r)]
  BY DEF BooksInv, Ends, Fill, ClosedBy
<1>2. /\ \A j \in Slots : j # i => order'[j] = order[j] /\ status'[j] = status[j]
      /\ order'[i] = r /\ status'[i] = "filled"
      /\ Unused' /\ Placed' /\ Waiting' /\ Filled' /\ Untold'
  BY EndsLedger
<1>3. \A j \in open[r.symbol] : a[j] \in Nat /\ (a[j] > 0 => a[j] <= order[j].quantity - closed[j])
  BY ClosingsFit
<1>4. \A s \in Symbols : i \notin open[s]
  BY <1>1 DEF InCache
<1>5. \A s \in Symbols : open'[s] \subseteq open[s] \cup Opened(i, r)
  BY <1>1 DEF Kinds
<1>6. closed' \in [Slots -> Nat] /\ \A j \in Slots : closed[j] <= closed'[j]
  <2>1. \A j \in Slots : closed'[j] \in Nat /\ closed[j] <= closed'[j]
    <3> TAKE j \in Slots
    <3>1. closed[j] \in Nat
      BY <1>1 DEF Kinds
    <3>2. CASE j \in open[r.symbol]
      BY <1>1, <1>3, <3>1, <3>2
    <3>3. CASE j \notin open[r.symbol]
      BY <1>1, <3>1, <3>3
    <3> QED
      BY <3>2, <3>3
  <2>2. closed' = [j \in Slots |-> closed'[j]]
    BY <1>1
  <2> QED
    BY <2>1, <2>2
<1>7. Kinds'
  <2>1. /\ order' = [j \in Slots |-> order'[j]] /\ traded' = [j \in Slots |-> traded'[j]]
        /\ status' \in [Slots -> Statuses]
    BY <1>1 DEF Ends, Ledger, Trade, Kinds, Statuses
  <2>2. open' \in [Symbols -> SUBSET Slots]
    BY <1>1, <1>5 DEF Kinds, Opened
  <2>3. /\ pending' \subseteq Slots /\ news' \subseteq Slots /\ nonce' \in Nat
        /\ placing' \in Slots \cup {None} /\ told' \in [Slots -> Nat]
    BY <1>1 DEF Ends, Ledger, News, Kinds
  <2> QED
    BY <1>6, <2>1, <2>2, <2>3 DEF Kinds
<1>8. InCache'
  BY <1>1, <1>2, <1>4, <1>5 DEF InCache, Opening, Opened, Kinds
<1>9. NoOverClose'
  <2> SUFFICES ASSUME NEW j \in Slots, closed'[j] > 0
               PROVE  status'[j] = "filled" /\ Opening(order'[j]) /\ closed'[j] <= order'[j].quantity
    BY DEF NoOverClose, Opening
  <2>1. CASE r.symbol \in Symbols /\ j \in open[r.symbol]
    <3>1. /\ j # i /\ status[j] = "filled" /\ Opening(order[j]) /\ order[j].quantity \in Nat
          /\ closed[j] \in Nat /\ (closed[j] > 0 => closed[j] <= order[j].quantity)
      BY <1>1, <1>4, <2>1, AskedHaveQuantities DEF InCache, Filled, NoOverClose, Kinds
    <3>2. closed'[j] = closed[j] + a[j] /\ closed'[j] <= order[j].quantity
      BY <1>1, <1>3, <2>1, <3>1
    <3> QED
      BY <1>2, <3>1, <3>2 DEF Opening
  <2>2. CASE j \notin open[r.symbol]
    <3>1. closed[j] > 0 /\ closed'[j] = closed[j] /\ j # i
      BY <1>1, <2>2 DEF NoOverClose, Kinds
    <3> QED
      BY <1>1, <1>2, <3>1 DEF NoOverClose, Opening
  <2>3. r.symbol \in Symbols
    BY DEF Ends
  <2> QED
    BY <2>1, <2>2, <2>3
<1> QED
  BY <1>2, <1>6, <1>7, <1>8, <1>9 DEF BooksInv

LEMMA RejectBooks ==
    ASSUME BooksInv, NEW i, NEW r, Ends(i, r, "rejected"), UNCHANGED <<closed, open>>
    PROVE  BooksInv'
<1>1. /\ Kinds /\ InCache /\ NoOverClose /\ i \in Slots /\ status[i] \in {"none", "pending"}
  BY DEF BooksInv, Ends
<1>2. /\ \A j \in Slots : j # i => order'[j] = order[j] /\ status'[j] = status[j]
      /\ Unused' /\ Placed' /\ Waiting' /\ Filled' /\ Untold'
  BY EndsLedger
<1>3. Kinds'
  BY <1>1 DEF Ends, Ledger, News, Trade, Kinds, Statuses
<1>4. InCache'
  BY <1>1, <1>2 DEF InCache, Opening, Kinds
<1>5. NoOverClose'
  BY <1>1, <1>2 DEF NoOverClose, Opening
<1> QED
  BY <1>2, <1>3, <1>4, <1>5 DEF BooksInv

(* What a step may not do to the orders, in one step. *)
Stands ==
    \A i \in Slots :
        /\ Ended(i) => order'[i] = order[i] /\ status'[i] = status[i] /\ traded'[i] = traded[i]
        /\ closed[i] <= closed'[i]

LEMMA EndedStands ==
    ASSUME BooksInv, NEW i, NEW r, NEW end, Ends(i, r, end),
           \A j \in Slots : closed[j] <= closed'[j]
    PROVE  Stands
<1>1. status[i] \in {"none", "pending"}
  BY DEF Ends
<1> QED
  BY <1>1, EndsLedger DEF Stands, Ended

LEMMA ClosedStays == ASSUME Kinds, UNCHANGED closed PROVE \A j \in Slots : closed[j] <= closed'[j]
BY DEF Kinds

LEMMA SameStands == ASSUME Kinds, UNCHANGED <<traded, closed>>,
    \A i \in Slots : Ended(i) => order'[i] = order[i] /\ status'[i] = status[i]
    PROVE Stands
BY ClosedStays DEF Stands

-----------------------------------------------------------------------------
LEMMA CommitBooks == ASSUME BooksInv, NEW i \in pending, Commit(i) PROVE BooksInv' /\ Stands
<1> PICK r : r = order[i]
  OBVIOUS
<1>1. /\ Kinds /\ Unused /\ Placed /\ Waiting
      /\ i \in Slots /\ status[i] = "pending" /\ r \in Asked /\ r.symbol \in Symbols
  BY DEF BooksInv, Kinds, Waiting, Asked, Order
<1>2. i # placing /\ i <= nonce /\ nonce \in Nat
  <2>1. i # placing
    BY <1>1, SimulatorAssumption DEF Placed
  <2>2. i \in Nat /\ nonce \in Nat /\ ~(i > nonce)
    BY <1>1, SlotsAreNat DEF Unused, Kinds
  <2> QED
    BY <2>1, <2>2
<1>3. nonce' = nonce /\ UNCHANGED <<placing, told, complete>>
  BY DEF Commit, feed
<1>4. ASSUME NEW a \in Closings(r), Fill(i, r, a) PROVE BooksInv' /\ Stands
  <2>1. Ends(i, r, "filled")
    BY <1>1, <1>2, <1>3, <1>4 DEF Ends, Fill
  <2> QED
    BY <1>4, <2>1, FillBooks, EndedStands
<1>5. ASSUME traded' = traded \/ Trade(i, r), Reject(i, r) PROVE BooksInv' /\ Stands
  <2>1. Ends(i, r, "rejected")
    BY <1>1, <1>2, <1>3, <1>5 DEF Ends, Reject
  <2>2. UNCHANGED <<closed, open>>
    BY <1>5 DEF Reject
  <2> QED
    BY <1>1, <2>1, <2>2, RejectBooks, EndedStands, ClosedStays
<1> QED
  BY <1>4, <1>5 DEF Commit

LEMMA LiquidateBooks == ASSUME BooksInv, NEW s \in Symbols, Liquidate(s) PROVE BooksInv' /\ Stands
<1> PICK r : r = Liquidation(s)
  OBVIOUS
<1> PICK i : i = nonce'
  OBVIOUS
<1>1. Kinds /\ Unused /\ Placed
  BY DEF BooksInv
<1>2. r.symbol = s /\ ~Opening(r)
  BY DEF Liquidation, Opening
<1>3. i = nonce + 1 /\ i \in Slots /\ UNCHANGED <<placing, told, complete>>
  BY DEF Liquidate, feed
<1>4. status[i] = "none" /\ i # placing /\ nonce \in Nat
  BY <1>1, <1>3, SlotsAreNat, SimulatorAssumption DEF Unused, Placed, Kinds
<1>5. PICK a \in Closings(r) : Fill(i, r, a)
  BY DEF Liquidate
<1>6. Ends(i, r, "filled")
  BY <1>2, <1>3, <1>4, <1>5 DEF Ends, Fill
<1> QED
  BY <1>5, <1>6, FillBooks, EndedStands

LEMMA AdvanceBooks == ASSUME BooksInv, Advance PROVE BooksInv'
<1>1. /\ Kinds /\ Unused /\ Placed /\ Waiting /\ Filled /\ InCache /\ NoOverClose /\ Untold
      /\ news' = {}
      /\ \/ complete' = TRUE /\ told' = told
         \/ complete' = complete /\ Told
      /\ UNCHANGED <<order, status, traded, closed, pending, open, nonce, placing>>
  BY DEF BooksInv, Advance, books
<1>2. Kinds'
  BY <1>1 DEF Kinds, Told
<1>3. Unused' /\ Placed' /\ Waiting' /\ Filled' /\ InCache' /\ NoOverClose'
  BY <1>1 DEF Unused, Placed, Waiting, Filled, InCache, NoOverClose, Opening
<1>4. Untold'
  <2>1. CASE complete' = TRUE /\ told' = told
    BY <1>1, <2>1 DEF Untold, ToldOnce, Ended
  <2>2. CASE complete' = complete /\ Told
    <3>1. \A i \in Slots : told'[i] = IF i \in news THEN told[i] + 1 ELSE told[i]
      BY <2>2 DEF Told
    <3> QED
      BY <1>1, <2>2, <3>1 DEF Untold, ToldOnce, Ended, Kinds
  <2> QED
    BY <1>1, <2>1, <2>2
<1> QED
  BY <1>1, <1>2, <1>3, <1>4 DEF BooksInv

LEMMA QuietBooks ==
    ASSUME BooksInv,
           UNCHANGED <<order, status, traded, closed, pending, open, nonce, placing, news, told, complete>>
    PROVE  BooksInv'
BY DEF BooksInv, Kinds, Unused, Placed, Waiting, Filled, InCache, NoOverClose, Untold, ToldOnce,
       Ended, Opening

(* Every step keeps the invariant and history. *)
LEMMA StepBooks == ASSUME BooksInv, AnyStep PROVE BooksInv' /\ Stands
<1>1. Kinds /\ Placed /\ Unused
  BY DEF BooksInv
<1>2. ASSUME NEW r \in Asked, CheckOrder(r) PROVE BooksInv' /\ Stands
  <2>1. UNCHANGED <<status, traded, closed>> /\ nonce < MaxOrders
        /\ (order' = [order EXCEPT ![nonce + 1] = r] \/ order' = order)
    BY <1>2 DEF CheckOrder
  <2>2. nonce + 1 \in Slots /\ status[nonce + 1] = "none"
    BY <1>1, <2>1, NextSlot DEF Kinds, Unused
  <2>3. \A i \in Slots : Ended(i) => order'[i] = order[i] /\ status'[i] = status[i]
    BY <1>1, <2>1, <2>2 DEF Kinds, Ended
  <2> QED
    BY <1>1, <1>2, <2>1, <2>3, CheckOrderBooks, SameStands
<1>3. ASSUME QueueOrder PROVE BooksInv' /\ Stands
  <2>1. /\ UNCHANGED <<order, traded, closed>> /\ placing # None
        /\ status' = [status EXCEPT ![placing] = "pending"]
    BY <1>3 DEF QueueOrder
  <2>2. \A i \in Slots : Ended(i) => order'[i] = order[i] /\ status'[i] = status[i]
    BY <1>1, <2>1 DEF Kinds, Ended, Placed
  <2> QED
    BY <1>1, <1>3, <2>1, <2>2, QueueOrderBooks, SameStands
<1>4. ASSUME \/ \E moves \in BOOLEAN : BeginTick(moves)
             \/ CheckMargin
             \/ UNCHANGED simVars
      PROVE  BooksInv' /\ Stands
  <2>1. UNCHANGED <<order, status, traded, closed, pending, open, nonce, placing, news, told, complete>>
    BY <1>4 DEF BeginTick, CheckMargin, simVars, books, feed
  <2> QED
    BY <1>1, <2>1, QuietBooks, SameStands
<1>5. ASSUME Advance PROVE BooksInv' /\ Stands
  <2>1. UNCHANGED <<order, status, traded, closed>>
    BY <1>5 DEF Advance, books
  <2> QED
    BY <1>1, <1>5, <2>1, AdvanceBooks, SameStands
<1> QED
  BY <1>2, <1>3, <1>4, <1>5, CommitBooks, LiquidateBooks DEF AnyStep, TickStep

LEMMA BooksInvHolds == Spec => []BooksInv
<1>1. Init => BooksInv
  BY InitBooks
<1>2. BooksInv /\ [Next]_simVars => BooksInv'
  BY StepBooks, NextIsAnyStep
<1> QED
  BY <1>1, <1>2, PTL DEF Spec

(* For any requests and feed, no order is closed by more than it opened.     *)
THEOREM NoOverCloseHolds == Spec => []NoOverClose
<1>1. BooksInv => NoOverClose
  BY DEF BooksInv
<1> QED
  BY <1>1, BooksInvHolds, PTL

(* For any requests and feed, tick deltas tell each end once.                *)
THEOREM ToldOnceHolds == Spec => []ToldOnce
<1>1. BooksInv => ToldOnce
  BY DEF BooksInv, Untold
<1> QED
  BY <1>1, BooksInvHolds, PTL

(* For any requests and feed, an order that ended keeps its end, and what    *)
(* was closed stays closed.                                                  *)
THEOREM HistoryStandsHolds == Spec => HistoryStands
<1>1. BooksInv /\ [Next]_simVars => Stands
  BY StepBooks, NextIsAnyStep
<1>2. Stands =>
        \A i \in Slots :
            /\ status[i] \in {"filled", "rejected"} =>
                  order'[i] = order[i] /\ status'[i] = status[i] /\ traded'[i] = traded[i]
            /\ closed[i] <= closed'[i]
  BY DEF Stands, Ended
<1> QED
  BY <1>1, <1>2, BooksInvHolds, PTL DEF Spec, HistoryStands

-----------------------------------------------------------------------------
(* The sums of Simulator as sums of functions, so that SumTheorems speaks    *)
(* of them: what orders add up to, their volume and their cost, what is left *)
(* open of them, the profits of positions and the margins they need.         *)

NetAt(ord, i) == Signed(ord[i])
Nets(ord) == [i \in Slots |-> NetAt(ord, i)]
NetSum(ord, S) == MapThenSumSet(LAMBDA i : NetAt(ord, i), S)

LEMMA NetIsSum ==
    ASSUME NEW ord, NEW S \in SUBSET Slots
    PROVE  NetSum(ord, S) = SumFunctionOnSet(Nets(ord), S)
<1> DEFINE f == Nets(ord)
           Step(g, s) == IF s = {} THEN 0 ELSE NetAt(ord, Pick(s)) + g[s \ {Pick(s)}]
           G == CHOOSE g : g = [s \in SUBSET S |-> Step(g, s)]
<1>1. NetSum(ord, S) = G[S]
  BY DEF NetSum, MapThenSumSet, MapThenFoldSet, Pick
<1>2. \A s \in SUBSET S : s # {} => f[Pick(s)] = NetAt(ord, Pick(s))
  BY PickIn DEF Nets
<1>3. \A g : [s \in SUBSET S |-> Step(g, s)] = [s \in SUBSET S |-> Take(f, g, s)]
  BY <1>2 DEF Take
<1>4. G = Fold(f, S)
  BY ONLY <1>3, Zenon DEF Fold
<1> QED BY <1>1, <1>4, SumIsFold

VolumeAt(ord, i) == ord[i].quantity
Volumes(ord) == [i \in Slots |-> VolumeAt(ord, i)]
VolumeSum(ord, S) == MapThenSumSet(LAMBDA i : VolumeAt(ord, i), S)

LEMMA VolumeIsSum ==
    ASSUME NEW ord, NEW S \in SUBSET Slots
    PROVE  VolumeSum(ord, S) = SumFunctionOnSet(Volumes(ord), S)
<1> DEFINE f == Volumes(ord)
           Step(g, s) == IF s = {} THEN 0 ELSE VolumeAt(ord, Pick(s)) + g[s \ {Pick(s)}]
           G == CHOOSE g : g = [s \in SUBSET S |-> Step(g, s)]
<1>1. VolumeSum(ord, S) = G[S]
  BY DEF VolumeSum, MapThenSumSet, MapThenFoldSet, Pick
<1>2. \A s \in SUBSET S : s # {} => f[Pick(s)] = VolumeAt(ord, Pick(s))
  BY PickIn DEF Volumes
<1>3. \A g : [s \in SUBSET S |-> Step(g, s)] = [s \in SUBSET S |-> Take(f, g, s)]
  BY <1>2 DEF Take
<1>4. G = Fold(f, S)
  BY ONLY <1>3, Zenon DEF Fold
<1> QED BY <1>1, <1>4, SumIsFold

CostAt(ord, price, i) == price[i] * ord[i].quantity
Costs(ord, price) == [i \in Slots |-> CostAt(ord, price, i)]
CostSum(ord, price, S) == MapThenSumSet(LAMBDA i : CostAt(ord, price, i), S)

LEMMA CostIsSum ==
    ASSUME NEW ord, NEW price, NEW S \in SUBSET Slots
    PROVE  CostSum(ord, price, S) = SumFunctionOnSet(Costs(ord, price), S)
<1> DEFINE f == Costs(ord, price)
           Step(g, s) == IF s = {} THEN 0 ELSE CostAt(ord, price, Pick(s)) + g[s \ {Pick(s)}]
           G == CHOOSE g : g = [s \in SUBSET S |-> Step(g, s)]
<1>1. CostSum(ord, price, S) = G[S]
  BY DEF CostSum, MapThenSumSet, MapThenFoldSet, Pick
<1>2. \A s \in SUBSET S : s # {} => f[Pick(s)] = CostAt(ord, price, Pick(s))
  BY PickIn DEF Costs
<1>3. \A g : [s \in SUBSET S |-> Step(g, s)] = [s \in SUBSET S |-> Take(f, g, s)]
  BY <1>2 DEF Take
<1>4. G = Fold(f, S)
  BY ONLY <1>3, Zenon DEF Fold
<1> QED BY <1>1, <1>4, SumIsFold

LeftAt(ord, cl, i) == IF ord[i].side = "buy" THEN ord[i].quantity - cl[i] ELSE -(ord[i].quantity - cl[i])
Lefts(ord, cl) == [i \in Slots |-> LeftAt(ord, cl, i)]
LeftSum(ord, cl, S) == MapThenSumSet(LAMBDA i : LeftAt(ord, cl, i), S)

LEMMA LeftIsSum ==
    ASSUME NEW ord, NEW cl, NEW S \in SUBSET Slots
    PROVE  LeftSum(ord, cl, S) = SumFunctionOnSet(Lefts(ord, cl), S)
<1> DEFINE f == Lefts(ord, cl)
           Step(g, s) == IF s = {} THEN 0 ELSE LeftAt(ord, cl, Pick(s)) + g[s \ {Pick(s)}]
           G == CHOOSE g : g = [s \in SUBSET S |-> Step(g, s)]
<1>1. LeftSum(ord, cl, S) = G[S]
  BY DEF LeftSum, MapThenSumSet, MapThenFoldSet, Pick
<1>2. \A s \in SUBSET S : s # {} => f[Pick(s)] = LeftAt(ord, cl, Pick(s))
  BY PickIn DEF Lefts
<1>3. \A g : [s \in SUBSET S |-> Step(g, s)] = [s \in SUBSET S |-> Take(f, g, s)]
  BY <1>2 DEF Take
<1>4. G = Fold(f, S)
  BY ONLY <1>3, Zenon DEF Fold
<1> QED BY <1>1, <1>4, SumIsFold

ProfitAt(pos, now, s) == (now[s] * Unit - pos[s].basis) * pos[s].quantity
Profits(pos, now) == [s \in Symbols |-> ProfitAt(pos, now, s)]
ProfitSum(pos, now, S) == MapThenSumSet(LAMBDA s : ProfitAt(pos, now, s), S)

LEMMA ProfitIsSum ==
    ASSUME NEW pos, NEW now, NEW S \in SUBSET Symbols
    PROVE  ProfitSum(pos, now, S) = SumFunctionOnSet(Profits(pos, now), S)
<1> DEFINE f == Profits(pos, now)
           Step(g, t) == IF t = {} THEN 0 ELSE ProfitAt(pos, now, Pick(t)) + g[t \ {Pick(t)}]
           G == CHOOSE g : g = [t \in SUBSET S |-> Step(g, t)]
<1>1. ProfitSum(pos, now, S) = G[S]
  BY DEF ProfitSum, MapThenSumSet, MapThenFoldSet, Pick
<1>2. \A t \in SUBSET S : t # {} => f[Pick(t)] = ProfitAt(pos, now, Pick(t))
  BY PickIn DEF Profits
<1>3. \A g : [t \in SUBSET S |-> Step(g, t)] = [t \in SUBSET S |-> Take(f, g, t)]
  BY <1>2 DEF Take
<1>4. G = Fold(f, S)
  BY ONLY <1>3, Zenon DEF Fold
<1> QED BY <1>1, <1>4, SumIsFold

NeedAt(pos, s) == Margin(pos[s].quantity, pos[s].basis)
Needs(pos) == [s \in Symbols |-> NeedAt(pos, s)]
NeedSum(pos, S) == MapThenSumSet(LAMBDA s : NeedAt(pos, s), S)

LEMMA NeedIsSum ==
    ASSUME NEW pos, NEW S \in SUBSET Symbols
    PROVE  NeedSum(pos, S) = SumFunctionOnSet(Needs(pos), S)
<1> DEFINE f == Needs(pos)
           Step(g, t) == IF t = {} THEN 0 ELSE NeedAt(pos, Pick(t)) + g[t \ {Pick(t)}]
           G == CHOOSE g : g = [t \in SUBSET S |-> Step(g, t)]
<1>1. NeedSum(pos, S) = G[S]
  BY DEF NeedSum, MapThenSumSet, MapThenFoldSet, Pick
<1>2. \A t \in SUBSET S : t # {} => f[Pick(t)] = NeedAt(pos, Pick(t))
  BY PickIn DEF Needs
<1>3. \A g : [t \in SUBSET S |-> Step(g, t)] = [t \in SUBSET S |-> Take(f, g, t)]
  BY <1>2 DEF Take
<1>4. G = Fold(f, S)
  BY ONLY <1>3, Zenon DEF Fold
<1> QED BY <1>1, <1>4, SumIsFold

LEMMA SumsOfTheState ==
    /\ \A S : Net(S) = NetSum(order, S)
    /\ \A S : Volume(S) = VolumeSum(order, S)
    /\ \A S : Vwap(S) = (Unit * CostSum(order, traded, S)) \div VolumeSum(order, S)
    /\ \A p : EquityOf(p) = balance + ProfitSum(p, quote, Symbols)
    /\ \A p : Maintenance(p) = NeedSum(p, Symbols)
    /\ \A s \in Symbols :
          MapThenSumSet(LAMBDA i : IF order[i].side = "buy" THEN Remaining(i) ELSE -Remaining(i), open[s])
             = LeftSum(order, closed, open[s])
BY DEF Net, NetSum, NetAt, Volume, VolumeSum, VolumeAt, Vwap, CostSum, CostAt, EquityOf, ProfitSum, ProfitAt, Profit,
       Maintenance, NeedSum, NeedAt, LeftSum, LeftAt, Remaining, MapThenSumSet, MapThenFoldSet

-----------------------------------------------------------------------------
(* What the books add up to.  Every order that ended is in account.Orders,   *)
(* and the position counted from those is what all filled orders add up to.  *)
FilledSet(s) == {i \in Slots : status[i] = "filled" /\ order[i].symbol = s}

EndsListed ==
    /\ orders \in Seq(Slots)
    /\ \A i \in Slots : Ended(i) <=> \E k \in DOMAIN orders : orders[k] = i

Records ==
    \A i \in Slots :
        /\ Ended(i) => order[i] \in Order
        /\ status[i] = "filled" => traded[i] \in Prices

(* A position has orders that opened it, so that its basis is an average:    *)
(* what was flat can only be opened.                                         *)
Opener(s, k) ==
    /\ k \in FilledOf(s) /\ Opening(order[orders[k]])
    /\ \A j \in FilledOf(s) : j >= k => NetSum(order, Upto(FilledOf(s), j)) # 0
Grounded ==
    \A s \in Symbols : NetSum(order, FilledSet(s)) # 0 => \E k \in DOMAIN orders : Opener(s, k)

Positions == [Symbols -> [quantity : Int, basis : Int]]
Counted ==
    /\ position \in Positions
    /\ \A s \in Symbols : position[s].quantity = NetSum(order, FilledSet(s))

Listed == EndsListed /\ Records
Accounts == Listed /\ Grounded /\ Counted /\ BooksAgree /\ OneSide

LEMMA SlotsAreFinite == IsFiniteSet(Slots) /\ \A S \in SUBSET Slots : IsFiniteSet(S)
<1>1. Cardinality(Symbols) \in Nat
  BY SimulatorAssumption, FS_CardinalityType
<1>2. IsFiniteSet(Slots)
  BY <1>1, FS_Interval, SimulatorAssumption DEF Slots
<1> QED
  BY <1>2, FS_Subset

LEMMA OrderFacts ==
    \A r \in Order :
        /\ r.quantity \in Nat /\ r.quantity > 0 /\ r.symbol \in Symbols /\ r.side \in Sides
        /\ Signed(r) \in Int /\ Signed(r) # 0
BY DEF Order, Signed

LEMMA PricesArePositive == \A p \in Prices : p \in Int /\ p > 0
<1>1. Prices \subseteq Nat \ {0}
  BY SimulatorAssumption
<1> QED
  BY <1>1

LEMMA FilledIsSlots == \A s : FilledSet(s) \in SUBSET Slots /\ IsFiniteSet(FilledSet(s))
BY SlotsAreFinite DEF FilledSet

(* Orders that are records add up to a number.                               *)
LEMMA NetType ==
    ASSUME NEW ord, NEW S \in SUBSET Slots, \A i \in S : ord[i] \in Order
    PROVE  NetSum(ord, S) \in Int
<1>1. IsFiniteSet(S)
  BY SlotsAreFinite
<1>2. \A i \in S : Nets(ord)[i] \in Int
  BY OrderFacts DEF Nets, NetAt
<1> QED
  BY <1>1, <1>2, SumType, NetIsSum

LEMMA NetSame ==
    ASSUME NEW ord, NEW new, NEW S \in SUBSET Slots, \A i \in S : new[i] = ord[i]
    PROVE  NetSum(new, S) = NetSum(ord, S)
<1>1. IsFiniteSet(S)
  BY SlotsAreFinite
<1>2. \A i \in S : Nets(new)[i] = Nets(ord)[i]
  BY DEF Nets, NetAt
<1> QED
  BY <1>1, <1>2, SumSame, NetIsSum

LEMMA NetAdds ==
    ASSUME NEW ord, NEW new, NEW S \in SUBSET Slots, \A i \in S : ord[i] \in Order,
           NEW x \in Slots, x \notin S, new[x] \in Order, \A i \in S : new[i] = ord[i]
    PROVE  NetSum(new, S \cup {x}) = NetSum(ord, S) + Signed(new[x])
<1>1. IsFiniteSet(S)
  BY SlotsAreFinite
<1>2. /\ \A i \in S : Nets(new)[i] \in Int
      /\ Nets(new)[x] \in Int /\ Nets(new)[x] = Signed(new[x])
  BY OrderFacts DEF Nets, NetAt
<1>3. SumFunctionOnSet(Nets(new), S \cup {x}) = Nets(new)[x] + SumFunctionOnSet(Nets(new), S)
  BY <1>1, <1>2, SumAdd
<1>4. NetSum(new, S) = NetSum(ord, S) /\ NetSum(ord, S) \in Int
  BY NetSame, NetType
<1>5. NetSum(new, S \cup {x}) = Signed(new[x]) + NetSum(new, S)
  BY <1>2, <1>3, NetIsSum
<1> QED
  BY <1>2, <1>4, <1>5

-----------------------------------------------------------------------------
(* Positions counted again.                                                  *)
LEMMA FilledListed ==
    ASSUME EndsListed, NEW s
    PROVE  /\ \A k \in DOMAIN orders : orders[k] \in Slots
           /\ \A K \in SUBSET DOMAIN orders : {orders[k] : k \in K} \in SUBSET Slots
           /\ FilledOf(s) \in SUBSET DOMAIN orders
           /\ {orders[k] : k \in FilledOf(s)} = FilledSet(s)
<1>1. \A k \in DOMAIN orders : orders[k] \in Slots
  BY DEF EndsListed
<1>2. FilledOf(s) \in SUBSET DOMAIN orders
  BY DEF FilledOf
<1>3. {orders[k] : k \in FilledOf(s)} = FilledSet(s)
  <2>1. ASSUME NEW i \in FilledSet(s) PROVE \E k \in FilledOf(s) : orders[k] = i
    BY <2>1 DEF EndsListed, Ended, FilledSet, FilledOf
  <2> QED
    BY <1>1, <2>1 DEF FilledOf, FilledSet
<1> QED
  BY <1>1, <1>2, <1>3

LEMMA FilledAreOrders ==
    ASSUME Listed, NEW s
    PROVE  /\ \A i \in FilledSet(s) : order[i] \in Order /\ traded[i] \in Prices
           /\ \A k \in FilledOf(s) : order[orders[k]] \in Order /\ traded[orders[k]] \in Prices
<1>1. \A i \in FilledSet(s) : order[i] \in Order /\ traded[i] \in Prices
  BY DEF Listed, Records, FilledSet, Ended
<1> QED
  BY <1>1, FilledListed DEF Listed

(* The average of orders that opened a position is a number.                 *)
LEMMA VwapType ==
    ASSUME NEW S \in SUBSET Slots, S # {}, \A i \in S : order[i] \in Order /\ traded[i] \in Prices
    PROVE  Vwap(S) \in Int
<1>1. IsFiniteSet(S)
  BY SlotsAreFinite
<1>2. \A i \in S : /\ Volumes(order)[i] \in Nat /\ Volumes(order)[i] > 0
                   /\ Costs(order, traded)[i] \in Int
  <2> TAKE i \in S
  <2>1. order[i].quantity \in Nat /\ order[i].quantity > 0 /\ traded[i] \in Int
    <3>1. order[i] \in Order /\ traded[i] \in Prices
      OBVIOUS
    <3>2. order[i].quantity \in Nat /\ order[i].quantity > 0
      BY <3>1, OrderFacts
    <3> QED
      BY <3>1, <3>2, PricesArePositive
  <2> QED
    BY <2>1 DEF Volumes, VolumeAt, Costs, CostAt
<1>3. VolumeSum(order, S) \in Nat /\ VolumeSum(order, S) > 0
  <2>1. /\ SumFunctionOnSet(Volumes(order), S) \in Nat
        /\ \A i \in S : Volumes(order)[i] <= SumFunctionOnSet(Volumes(order), S)
    BY <1>1, <1>2, SumSign
  <2> QED
    BY <1>2, <2>1, VolumeIsSum
<1>4. CostSum(order, traded, S) \in Int
  BY <1>1, <1>2, SumType, CostIsSum
<1>5. Unit \in Int
  BY DEF Unit
<1>6. \A c, v \in Int : v > 0 => (Unit * c) \div v \in Int
  BY <1>5
<1>7. Vwap(S) = (Unit * CostSum(order, traded, S)) \div VolumeSum(order, S)
  BY SumsOfTheState
<1> QED
  BY <1>3, <1>4, <1>6, <1>7

RecountsAll ==
    /\ Recounted \in Positions
    /\ \A s \in Symbols : Recounted[s].quantity = NetSum(order, FilledSet(s))

LEMMA RecountedCounts == Listed /\ Grounded => RecountsAll
<1> SUFFICES ASSUME Listed, Grounded PROVE RecountsAll
  OBVIOUS
<1>1. Listed /\ EndsListed
  BY DEF Listed
<1>2. \A s \in Symbols :
        Recounted[s] = [quantity |-> NetSum(order, FilledSet(s)),
                        basis |-> IF NetSum(order, FilledSet(s)) = 0 THEN 0 ELSE Vwap(SinceFlat(FilledOf(s)))]
  BY <1>1, FilledListed, SumsOfTheState DEF Recounted
<1>3. \A s \in Symbols : NetSum(order, FilledSet(s)) \in Int
  BY <1>1, NetType, FilledAreOrders, FilledIsSlots
<1>4. ASSUME NEW s \in Symbols, NetSum(order, FilledSet(s)) # 0
      PROVE  Vwap(SinceFlat(FilledOf(s))) \in Int
  <2>1. PICK k \in DOMAIN orders : Opener(s, k)
    BY <1>4 DEF Grounded
  <2>2. orders[k] \in SinceFlat(FilledOf(s))
    BY <2>1, SumsOfTheState DEF SinceFlat, Opener
  <2>3. \A i \in SinceFlat(FilledOf(s)) : \E j \in FilledOf(s) : i = orders[j]
    BY DEF SinceFlat
  <2>4. SinceFlat(FilledOf(s)) \in SUBSET Slots
    BY <1>1, <2>3, FilledListed
  <2>5. \A i \in SinceFlat(FilledOf(s)) : order[i] \in Order /\ traded[i] \in Prices
    BY <1>1, <2>3, FilledAreOrders
  <2> QED
    BY <2>2, <2>4, <2>5, VwapType
<1>5. \A s \in Symbols : Recounted[s] \in [quantity : Int, basis : Int]
  <2> TAKE s \in Symbols
  <2> PICK n : n = NetSum(order, FilledSet(s))
    OBVIOUS
  <2> PICK b : b = IF n = 0 THEN 0 ELSE Vwap(SinceFlat(FilledOf(s)))
    OBVIOUS
  <2>1. n \in Int /\ b \in Int
    BY <1>3, <1>4
  <2>2. Recounted[s] = [quantity |-> n, basis |-> b]
    BY <1>2
  <2> QED
    BY <2>1, <2>2
<1>6. Recounted = [s \in Symbols |-> Recounted[s]]
  BY DEF Recounted
<1> QED
  BY <1>2, <1>5, <1>6 DEF Positions, RecountsAll

-----------------------------------------------------------------------------
(* An order ends: it is listed, and counts if it was filled.                 *)
Counts(r, end, s) == end = "filled" /\ r.symbol = s

LEMMA LedgerLists ==
    ASSUME BooksInv, Listed, quote \in [Symbols -> Prices],
           NEW i, NEW r \in Order, NEW end, Ends(i, r, end), end = "filled" => Trade(i, r)
    PROVE  Listed'
<1>1. /\ Kinds /\ EndsListed /\ Records
      /\ i \in Slots /\ end \in {"filled", "rejected"} /\ orders' = Append(orders, i)
      /\ end = "filled" => traded' = [traded EXCEPT ![i] = quote[r.symbol]]
      /\ r.symbol \in Symbols
  BY OrderFacts DEF BooksInv, Listed, Ends, Ledger, Trade
<1>2. /\ \A j \in Slots : j # i => order'[j] = order[j] /\ status'[j] = status[j] /\ traded'[j] = traded[j]
      /\ order'[i] = r /\ status'[i] = end
  BY EndsLedger
<1>3. EndsListed'
  <2>1. orders' \in Seq(Slots) /\ orders \in Seq(Slots)
    BY <1>1 DEF EndsListed
  <2>2. /\ DOMAIN orders' = 1 .. Len(orders) + 1 /\ DOMAIN orders = 1 .. Len(orders) /\ Len(orders) \in Nat
        /\ \A k \in DOMAIN orders : orders'[k] = orders[k]
        /\ orders'[Len(orders) + 1] = i
    BY <1>1, <2>1
  <2>3. \A j \in Slots : Ended(j)' <=> Ended(j) \/ j = i
    BY <1>1, <1>2 DEF Ended
  <2>4. ASSUME NEW j \in Slots
        PROVE  (\E k \in DOMAIN orders' : orders'[k] = j) <=> (\E k \in DOMAIN orders : orders[k] = j) \/ j = i
    <3>1. \A k \in DOMAIN orders' : k \in DOMAIN orders \/ k = Len(orders) + 1
      BY <2>2
    <3>2. DOMAIN orders \subseteq DOMAIN orders' /\ Len(orders) + 1 \in DOMAIN orders'
      BY <2>2
    <3> QED
      BY <2>2, <3>1, <3>2
  <2> QED
    BY <1>1, <2>1, <2>3, <2>4 DEF EndsListed
<1>4. Records'
  <2> SUFFICES ASSUME NEW j \in Slots
               PROVE  /\ Ended(j)' => order'[j] \in Order
                      /\ status'[j] = "filled" => traded'[j] \in Prices
    BY DEF Records
  <2>1. CASE j = i
    BY <1>1, <1>2, <2>1 DEF Kinds
  <2>2. CASE j # i
    BY <1>1, <1>2, <2>2 DEF Records, Ended
  <2> QED
    BY <2>1, <2>2
<1> QED
  BY <1>3, <1>4 DEF Listed

LEMMA LedgerNet ==
    ASSUME BooksInv, Listed, NEW i, NEW r \in Order, NEW end, Ends(i, r, end), NEW s
    PROVE  /\ FilledSet(s)' = FilledSet(s) \cup (IF Counts(r, end, s) THEN {i} ELSE {})
           /\ i \notin FilledSet(s)
           /\ NetSum(order', FilledSet(s)')
                = NetSum(order, FilledSet(s)) + (IF Counts(r, end, s) THEN Signed(r) ELSE 0)
<1>1. i \in Slots /\ status[i] \in {"none", "pending"} /\ end \in {"filled", "rejected"}
  BY DEF Ends
<1>2. /\ \A j \in Slots : j # i => order'[j] = order[j] /\ status'[j] = status[j]
      /\ order'[i] = r /\ status'[i] = end
  BY EndsLedger
<1>3. i \notin FilledSet(s)
  BY <1>1 DEF FilledSet
<1>4. FilledSet(s)' = FilledSet(s) \cup (IF Counts(r, end, s) THEN {i} ELSE {})
  BY <1>1, <1>2 DEF FilledSet, Counts
<1>5. /\ FilledSet(s) \in SUBSET Slots /\ \A j \in FilledSet(s) : order[j] \in Order
      /\ \A j \in FilledSet(s) : order'[j] = order[j]
  BY <1>2, <1>3, FilledIsSlots, FilledAreOrders
<1>6. NetSum(order, FilledSet(s)) \in Int
  BY <1>5, NetType
<1>7. CASE Counts(r, end, s)
  <2>1. NetSum(order', FilledSet(s) \cup {i}) = NetSum(order, FilledSet(s)) + Signed(order'[i])
    BY <1>1, <1>2, <1>3, <1>5, NetAdds
  <2> QED
    BY <1>2, <1>3, <1>4, <1>7, <2>1
<1>8. CASE ~Counts(r, end, s)
  <2>1. NetSum(order', FilledSet(s)) = NetSum(order, FilledSet(s))
    BY <1>5, NetSame
  <2> QED
    BY <1>3, <1>4, <1>6, <1>8, <2>1
<1> QED
  BY <1>7, <1>8

LEMMA LedgerGrounds ==
    ASSUME BooksInv, Listed, Grounded, NEW i, NEW r \in Order, NEW end, Ends(i, r, end),
           end = "filled" /\ NetSum(order, FilledSet(r.symbol)) = 0 => Opening(r)
    PROVE  Grounded'
<1> SUFFICES ASSUME NEW s \in Symbols, NetSum(order', FilledSet(s)') # 0
             PROVE  \E k \in DOMAIN orders' : Opener(s, k)'
  BY DEF Grounded
<1> PICK n : n = Len(orders) + 1
  OBVIOUS
<1>1. /\ Kinds /\ EndsListed
      /\ i \in Slots /\ status[i] \in {"none", "pending"} /\ end \in {"filled", "rejected"}
      /\ orders' = Append(orders, i)
  BY DEF BooksInv, Listed, Ends, Ledger
<1>2. /\ \A j \in Slots : j # i => order'[j] = order[j] /\ status'[j] = status[j]
      /\ order'[i] = r /\ status'[i] = end
  BY EndsLedger
<1>3. /\ DOMAIN orders = 1 .. n - 1 /\ DOMAIN orders' = 1 .. n /\ n \in Nat /\ n > 0
      /\ \A k \in DOMAIN orders : orders'[k] = orders[k]
      /\ orders'[n] = i
  BY <1>1 DEF EndsListed
<1>4. \A k \in DOMAIN orders :
        /\ orders[k] \in Slots /\ orders[k] # i
        /\ order'[orders[k]] = order[orders[k]] /\ status'[orders[k]] = status[orders[k]]
  BY <1>1, <1>2, FilledListed DEF EndsListed, Ended
<1>5. FilledOf(s)' = FilledOf(s) \cup (IF Counts(r, end, s) THEN {n} ELSE {})
  <2>1. ASSUME NEW k \in DOMAIN orders PROVE k \in FilledOf(s)' <=> k \in FilledOf(s)
    BY <1>3, <1>4, <2>1 DEF FilledOf
  <2>2. n \in FilledOf(s)' <=> Counts(r, end, s)
    BY <1>2, <1>3 DEF FilledOf, Counts
  <2>3. \A k \in DOMAIN orders' : k \in DOMAIN orders \/ k = n
    BY <1>3
  <2>4. FilledOf(s)' \subseteq DOMAIN orders' /\ FilledOf(s) \subseteq DOMAIN orders
    BY DEF FilledOf
  <2> QED
    BY <2>1, <2>2, <2>3, <2>4
<1>6. \A k \in FilledOf(s) : k \in DOMAIN orders /\ k \in Nat /\ k < n
  BY <1>3 DEF FilledOf
<1>7. ASSUME NEW j \in FilledOf(s)
      PROVE  NetSum(order', Upto(FilledOf(s), j)') = NetSum(order, Upto(FilledOf(s), j))
  <2>1. {k \in FilledOf(s)' : k <= j} = {k \in FilledOf(s) : k <= j}
    BY <1>3, <1>5, <1>6
  <2>2. Upto(FilledOf(s), j)' = Upto(FilledOf(s), j)
    BY <1>3, <1>6, <2>1 DEF Upto
  <2>3. \A x \in Upto(FilledOf(s), j) : x \in Slots /\ order'[x] = order[x]
    BY <1>4, <1>6 DEF Upto
  <2> QED
    BY <2>2, <2>3, NetSame
<1>8. /\ FilledSet(s)' = FilledSet(s) \cup (IF Counts(r, end, s) THEN {i} ELSE {})
      /\ NetSum(order', FilledSet(s)')
            = NetSum(order, FilledSet(s)) + (IF Counts(r, end, s) THEN Signed(r) ELSE 0)
      /\ NetSum(order, FilledSet(s)) \in Int
  BY LedgerNet, NetType, FilledAreOrders, FilledIsSlots
<1>9. CASE ~Counts(r, end, s)
  <2>1. PICK k \in DOMAIN orders : Opener(s, k)
    BY <1>8, <1>9 DEF Grounded
  <2>2. k \in DOMAIN orders' /\ FilledOf(s)' = FilledOf(s)
    BY <1>3, <1>5, <1>9
  <2>3. Opener(s, k)'
    BY <1>3, <1>4, <1>7, <2>1, <2>2 DEF Opener, Opening
  <2> QED
    BY <2>2, <2>3
<1>10. CASE Counts(r, end, s)
  <2>1. FilledOf(s)' = FilledOf(s) \cup {n}
    BY <1>5, <1>10
  <2>2. Upto(FilledOf(s), n)' = FilledSet(s)'
    <3>1. {k \in FilledOf(s)' : k <= n} = FilledOf(s) \cup {n}
      BY <1>3, <1>6, <2>1
    <3>2. Upto(FilledOf(s), n)' = {orders'[k] : k \in FilledOf(s) \cup {n}}
      BY <3>1 DEF Upto
    <3>3. {orders[k] : k \in FilledOf(s)} = FilledSet(s)
      BY <1>1, FilledListed
    <3>4. {orders'[k] : k \in FilledOf(s) \cup {n}} = {orders[k] : k \in FilledOf(s)} \cup {i}
      BY <1>3, <1>6
    <3> QED
      BY <1>8, <1>10, <3>2, <3>3, <3>4
  <2>3. CASE NetSum(order, FilledSet(s)) = 0
    <3>1. Opening(r)
      BY <1>10, <2>3 DEF Counts
    <3>2. ASSUME NEW j \in FilledOf(s)', j >= n PROVE j = n
      BY <1>3, <1>6, <2>1, <3>2
    <3>3. Opener(s, n)'
      BY <1>2, <1>3, <2>1, <2>2, <3>1, <3>2 DEF Opener, Opening
    <3> QED
      BY <1>3, <3>3
  <2>4. CASE NetSum(order, FilledSet(s)) # 0
    <3>1. PICK k \in DOMAIN orders : Opener(s, k)
      BY <2>4 DEF Grounded
    <3>2. ASSUME NEW j \in FilledOf(s)', j >= k PROVE NetSum(order', Upto(FilledOf(s), j)') # 0
      <4>1. CASE j = n
        BY <2>2, <4>1
      <4>2. CASE j # n
        BY <1>7, <2>1, <3>1, <3>2, <4>2 DEF Opener
      <4> QED
        BY <4>1, <4>2
    <3>3. Opener(s, k)'
      BY <1>3, <1>4, <2>1, <3>1, <3>2 DEF Opener, Opening
    <3> QED
      BY <1>3, <3>1, <3>3
  <2> QED
    BY <2>3, <2>4
<1> QED
  BY <1>9, <1>10

-----------------------------------------------------------------------------
(* The open orders cache and what is left of its orders.                     *)
CacheOf(s) ==
    {i \in Slots : /\ status[i] = "filled" /\ order[i].symbol = s
                   /\ Opening(order[i]) /\ Remaining(i) > 0}

BooksFit ==
    \A s \in Symbols : /\ open[s] = CacheOf(s)
                       /\ position[s].quantity = LeftSum(order, closed, open[s])

LEMMA BooksSum == BooksAgree <=> BooksFit
BY SumsOfTheState DEF BooksAgree, BooksFit, CacheOf

LEMMA LedgerCounts ==
    ASSUME Listed', Grounded', position' = Recounted' PROVE Counted'
<1>1. RecountsAll'
  BY RecountedCounts, PTL
<1> QED
  BY <1>1 DEF RecountsAll, Counted

(* Both factors of a negative product count: one is below zero.              *)
LEMMA Signs == \A p, q \in Int : p * q < 0 <=> (p > 0 /\ q < 0) \/ (p < 0 /\ q > 0)
OBVIOUS

(* An open order is a record with something left of it.                      *)
LEMMA OpenOrders ==
    ASSUME Kinds, Listed, BooksAgree, NEW s \in Symbols, NEW i \in open[s]
    PROVE  /\ i \in Slots /\ status[i] = "filled" /\ order[i] \in Order /\ order[i].symbol = s
           /\ order[i].side \in {"buy", "sell_short"}
           /\ order[i].quantity \in Nat /\ closed[i] \in Nat /\ order[i].quantity - closed[i] > 0
           /\ Lefts(order, closed)[i] \in Int
           /\ order[i].side = "buy" => Lefts(order, closed)[i] > 0
           /\ order[i].side = "sell_short" => Lefts(order, closed)[i] < 0
<1>1. /\ i \in Slots /\ status[i] = "filled" /\ order[i].symbol = s /\ Opening(order[i])
      /\ order[i].quantity - closed[i] > 0
  BY BooksSum DEF BooksFit, CacheOf, Remaining
<1>2. order[i] \in Order
  BY <1>1 DEF Listed, Records, Ended
<1>3. order[i].quantity \in Nat /\ closed[i] \in Nat
  BY <1>1, <1>2, OrderFacts DEF Kinds
<1>4. order[i].side \in {"buy", "sell_short"}
  BY <1>1 DEF Opening
<1>5. /\ Lefts(order, closed)[i] \in Int
      /\ order[i].side = "buy" => Lefts(order, closed)[i] > 0
      /\ order[i].side = "sell_short" => Lefts(order, closed)[i] < 0
  BY <1>1, <1>3, <1>4 DEF Lefts, LeftAt
<1> QED
  BY <1>1, <1>2, <1>3, <1>4, <1>5

(* A position's sign says on which side its open orders are.                 *)
LEMMA LongOrShort ==
    ASSUME Kinds, Listed, BooksAgree, OneSide, NEW s \in Symbols
    PROVE  /\ position[s].quantity \in Int
           /\ position[s].quantity = 0 => open[s] = {}
           /\ position[s].quantity > 0 => \A i \in open[s] : order[i].side = "buy"
           /\ position[s].quantity < 0 => \A i \in open[s] : order[i].side = "sell_short"
<1> PICK f : f = Lefts(order, closed)
  OBVIOUS
<1>1. open[s] \in SUBSET Slots /\ IsFiniteSet(open[s])
  BY SlotsAreFinite DEF Kinds
<1>2. position[s].quantity = SumFunctionOnSet(f, open[s])
  BY <1>1, BooksSum, LeftIsSum DEF BooksFit
<1>3. \A i \in open[s] :
        /\ order[i].side \in {"buy", "sell_short"} /\ f[i] \in Int
        /\ order[i].side = "buy" => f[i] > 0
        /\ order[i].side = "sell_short" => f[i] < 0
  BY OpenOrders
<1>4. position[s].quantity \in Int
  BY <1>1, <1>2, <1>3, SumType
<1>5. \A i, j \in open[s] : order[i].side = order[j].side
  BY DEF OneSide
<1>6. ASSUME NEW i \in open[s], order[i].side = "buy" PROVE position[s].quantity > 0
  <2>1. \A j \in open[s] : f[j] \in Nat
    BY <1>3, <1>5, <1>6
  <2>2. SumFunctionOnSet(f, open[s]) \in Nat /\ f[i] <= SumFunctionOnSet(f, open[s])
    BY <1>1, <2>1, SumSign
  <2> QED
    BY <1>2, <1>3, <1>6, <2>2
<1>7. ASSUME NEW i \in open[s], order[i].side = "sell_short" PROVE position[s].quantity < 0
  <2>1. \A j \in open[s] : f[j] \in Int /\ f[j] <= 0
    BY <1>3, <1>5, <1>7
  <2>2. IsFiniteSet(open[s] \ {i}) /\ \A j \in open[s] \ {i} : f[j] \in Int /\ f[j] <= 0
    BY <1>1, <2>1, FS_Subset
  <2>3. SumFunctionOnSet(f, open[s] \ {i}) \in Int /\ SumFunctionOnSet(f, open[s] \ {i}) <= 0
    BY <2>2, SumNegative
  <2>4. SumFunctionOnSet(f, open[s]) = f[i] + SumFunctionOnSet(f, open[s] \ {i})
    BY <1>1, <1>3, SumRemove
  <2> QED
    BY <1>2, <1>3, <1>7, <2>3, <2>4
<1>8. \A i \in open[s] : order[i].side = "buy" \/ order[i].side = "sell_short"
  BY <1>3
<1> QED
  BY <1>4, <1>6, <1>7, <1>8

(* What a closing takes adds up to the order's volume, or to nothing.        *)
LEMMA ClosingsSum ==
    ASSUME NEW r, NEW a \in Closings(r)
    PROVE  /\ a \in [open[r.symbol] -> 0 .. (IF IsClose(r) THEN r.quantity ELSE 0)]
           /\ SumFunctionOnSet(a, open[r.symbol]) = IF IsClose(r) THEN r.quantity ELSE 0
<1>1. /\ a \in [open[r.symbol] -> 0 .. (IF IsClose(r) THEN r.quantity ELSE 0)]
      /\ Sum(a) = IF IsClose(r) THEN r.quantity ELSE 0
  BY DEF Closings
<1>2. Sum(a) = SumFunctionOnSet(a, DOMAIN a)
  BY DEF Sum, SumFunctionOnSet, FoldFunctionOnSet, MapThenSumSet, MapThenFoldSet
<1> QED
  BY <1>1, <1>2

(* What may be closed: open orders that add up to the volume, each by no     *)
(* more than is left of it, and none before the older ones are used up.      *)
LEMMA ClosingsWitness ==
    ASSUME NEW r, NEW a \in [open[r.symbol] -> 0 .. (IF IsClose(r) THEN r.quantity ELSE 0)],
           SumFunctionOnSet(a, open[r.symbol]) = (IF IsClose(r) THEN r.quantity ELSE 0),
           \A i \in open[r.symbol] : a[i] > 0 =>
              /\ Fits(i, a[i])
              /\ IF r.target = None THEN \A j \in open[r.symbol] : j < i => a[j] = Remaining(j)
                 ELSE Id(i) = r.target
    PROVE  a \in Closings(r)
<1>1. DOMAIN a = open[r.symbol]
  OBVIOUS
<1>2. Sum(a) = IF IsClose(r) THEN r.quantity ELSE 0
  BY <1>1 DEF Sum, SumFunctionOnSet, FoldFunctionOnSet, MapThenSumSet, MapThenFoldSet
<1> QED
  BY <1>1, <1>2 DEF Closings

-----------------------------------------------------------------------------
(* A fill keeps the cache: an order that opens joins the orders of its side, *)
(* one that closes takes its volume from orders of the other side.           *)
Filling(i, r, a) ==
    /\ BooksInv /\ Accounts /\ r \in Order
    /\ Ends(i, r, "filled") /\ a \in Closings(r) /\ Fill(i, r, a)
    /\ SideAllowed(r.side, position[r.symbol].quantity)

LEMMA FillState ==
    ASSUME NEW i, NEW r, NEW a, Filling(i, r, a)
    PROVE  /\ Kinds /\ NoOverClose /\ Listed /\ BooksAgree /\ OneSide /\ BooksInv
           /\ i \in Slots /\ i \notin open[r.symbol] /\ closed[i] = 0
           /\ r.symbol \in Symbols /\ r.quantity \in Nat /\ r.quantity > 0 /\ r.side \in Sides
           /\ position[r.symbol].quantity \in Int
           /\ open[r.symbol] \in SUBSET Slots /\ IsFiniteSet(open[r.symbol])
           /\ \A j \in Slots : j # i => order'[j] = order[j] /\ status'[j] = status[j]
           /\ order'[i] = r /\ status'[i] = "filled"
           /\ open'[r.symbol] = {j \in open[r.symbol] : order[j].quantity - closed'[j] > 0} \cup Opened(i, r)
           /\ \A s \in Symbols : s # r.symbol => open'[s] = open[s]
           /\ \A j \in open[r.symbol] : closed'[j] = closed[j] + a[j]
           /\ \A j \in Slots : j \notin open[r.symbol] => closed'[j] = closed[j]
<1>1. /\ Kinds /\ NoOverClose /\ Listed /\ BooksAgree /\ OneSide /\ BooksInv /\ InCache
      /\ i \in Slots /\ status[i] \in {"none", "pending"}
  BY DEF Filling, BooksInv, Accounts, Ends
<1>2. r.symbol \in Symbols /\ r.quantity \in Nat /\ r.quantity > 0 /\ r.side \in Sides
  BY OrderFacts DEF Filling
<1>3. i \notin open[r.symbol] /\ closed[i] = 0
  BY <1>1, <1>2 DEF InCache, NoOverClose, Kinds
<1>4. open[r.symbol] \in SUBSET Slots /\ IsFiniteSet(open[r.symbol]) /\ position[r.symbol].quantity \in Int
  BY <1>1, <1>2, SlotsAreFinite, LongOrShort DEF Kinds
<1>5. /\ \A j \in Slots : j # i => order'[j] = order[j] /\ status'[j] = status[j]
      /\ order'[i] = r /\ status'[i] = "filled"
  BY EndsLedger DEF Filling
<1>6. /\ closed' = [j \in Slots |-> IF j \in open[r.symbol] THEN closed[j] + a[j] ELSE closed[j]]
      /\ open' = [open EXCEPT ![r.symbol] = {j \in @ : StillOpen(j, closed'[j])} \cup Opened(i, r)]
  BY DEF Filling, Fill, ClosedBy
<1>7. open'[r.symbol] = {j \in open[r.symbol] : order[j].quantity - closed'[j] > 0} \cup Opened(i, r)
  BY <1>1, <1>2, <1>6 DEF Kinds, StillOpen
<1>8. \A s \in Symbols : s # r.symbol => open'[s] = open[s]
  BY <1>1, <1>6 DEF Kinds
<1>9. /\ \A j \in open[r.symbol] : closed'[j] = closed[j] + a[j]
      /\ \A j \in Slots : j \notin open[r.symbol] => closed'[j] = closed[j]
  BY <1>4, <1>6
<1> QED
  BY <1>1, <1>2, <1>3, <1>4, <1>5, <1>7, <1>8, <1>9

LEMMA OpeningFill ==
    ASSUME NEW i, NEW r, NEW a, Filling(i, r, a), Opening(r)
    PROVE  /\ \A j \in open[r.symbol] : closed'[j] = closed[j]
           /\ open'[r.symbol] = open[r.symbol] \cup {i}
           /\ LeftSum(order', closed', open'[r.symbol]) = position[r.symbol].quantity + Signed(r)
           /\ \A j \in open[r.symbol] : order[j].side = r.side
<1> PICK s : s = r.symbol
  OBVIOUS
<1> PICK q : q = position[s].quantity
  OBVIOUS
<1>1. /\ Kinds /\ Listed /\ BooksAgree /\ OneSide /\ i \in Slots /\ i \notin open[s] /\ closed[i] = 0
      /\ s \in Symbols /\ r.quantity \in Nat /\ r.quantity > 0 /\ q \in Int
      /\ open[s] \in SUBSET Slots /\ IsFiniteSet(open[s])
      /\ \A j \in Slots : j # i => order'[j] = order[j]
      /\ order'[i] = r
      /\ open'[s] = {j \in open[s] : order[j].quantity - closed'[j] > 0} \cup Opened(i, r)
      /\ \A j \in open[s] : closed'[j] = closed[j] + a[j]
      /\ \A j \in Slots : j \notin open[s] => closed'[j] = closed[j]
  BY FillState
<1>2. /\ r.side \in {"buy", "sell_short"}
      /\ q > 0 => r.side = "buy"
      /\ q < 0 => r.side = "sell_short"
  BY DEF Filling, SideAllowed, Opening
<1>3. Signed(r) \in Int /\ ~IsClose(r)
  BY <1>1, <1>2, Signs DEF IsClose, Signed
<1>4. \A j \in open[s] : closed'[j] = closed[j]
  <2>1. \A j \in open[s] : a[j] = 0
    BY <1>3, ClosingsSum DEF Filling
  <2> QED
    BY <1>1, <2>1 DEF Kinds
<1>5. open'[s] = open[s] \cup {i}
  <2>1. \A j \in open[s] : order[j].quantity - closed'[j] > 0
    BY <1>1, <1>4, OpenOrders
  <2> QED
    BY <1>1, <2>1 DEF Opened
<1>6. LeftSum(order', closed', open'[s]) = q + Signed(r)
  <2> PICK f : f = Lefts(order, closed)
    OBVIOUS
  <2> PICK g : g = Lefts(order', closed')
    OBVIOUS
  <2>1. \A j \in open[s] : f[j] \in Int /\ g[j] = f[j]
    <3>1. \A j \in open[s] : j # i /\ j \in Slots /\ order'[j] = order[j] /\ closed'[j] = closed[j]
      BY <1>1, <1>4
    <3> QED
      BY <1>1, <3>1, OpenOrders DEF Lefts, LeftAt
  <2>2. g[i] = Signed(r) /\ g[i] \in Int
    BY <1>1, <1>2, <1>3 DEF Lefts, LeftAt, Signed
  <2>3. SumFunctionOnSet(g, open[s] \cup {i}) = g[i] + SumFunctionOnSet(g, open[s])
    BY <1>1, <2>1, <2>2, SumAdd
  <2>4. SumFunctionOnSet(g, open[s]) = SumFunctionOnSet(f, open[s])
    BY <1>1, <2>1, SumSame
  <2>5. SumFunctionOnSet(f, open[s]) = q
    BY <1>1, BooksSum, LeftIsSum DEF BooksFit
  <2>6. open[s] \cup {i} \in SUBSET Slots
    BY <1>1
  <2>7. LeftSum(order', closed', open'[s]) = SumFunctionOnSet(g, open[s] \cup {i})
    BY <1>5, <2>6, LeftIsSum
  <2> QED
    BY <1>1, <1>3, <2>2, <2>3, <2>4, <2>5, <2>7
<1>7. \A j \in open[s] : order[j].side = r.side
  BY <1>1, <1>2, LongOrShort
<1> QED
  BY <1>4, <1>5, <1>6, <1>7

LEMMA ClosingFill ==
    ASSUME NEW i, NEW r, NEW a, Filling(i, r, a), ~Opening(r)
    PROVE  /\ open'[r.symbol] = {j \in open[r.symbol] : order[j].quantity - closed'[j] > 0}
           /\ LeftSum(order', closed', open'[r.symbol]) = position[r.symbol].quantity + Signed(r)
<1> PICK s : s = r.symbol
  OBVIOUS
<1> PICK q : q = position[s].quantity
  OBVIOUS
<1> PICK f : f = Lefts(order, closed)
  OBVIOUS
<1> PICK g : g = Lefts(order', closed')
  OBVIOUS
<1>1. /\ Kinds /\ NoOverClose /\ Listed /\ BooksAgree /\ OneSide /\ BooksInv
      /\ i \in Slots /\ i \notin open[s]
      /\ s \in Symbols /\ r.quantity \in Nat /\ r.quantity > 0 /\ r.side \in Sides /\ q \in Int
      /\ open[s] \in SUBSET Slots /\ IsFiniteSet(open[s])
      /\ \A j \in Slots : j # i => order'[j] = order[j]
      /\ open'[s] = {j \in open[s] : order[j].quantity - closed'[j] > 0} \cup Opened(i, r)
      /\ \A j \in open[s] : closed'[j] = closed[j] + a[j]
  BY FillState
<1>2. open'[s] = {j \in open[s] : order[j].quantity - closed'[j] > 0}
  BY <1>1 DEF Opened
<1>3. \/ q > 0 /\ r.side = "sell"
      \/ q < 0 /\ r.side = "buy_to_cover"
  BY <1>1 DEF Filling, SideAllowed, Opening, Sides
<1>4. Signed(r) \in Int /\ IsClose(r)
  BY <1>1, <1>3, Signs DEF IsClose, Signed
<1>5. \A j \in open[s] : a[j] \in Nat /\ (a[j] > 0 => a[j] <= order[j].quantity - closed[j])
  BY ClosingsFit DEF Filling
<1>6. SumFunctionOnSet(a, open[s]) = r.quantity
  BY <1>4, ClosingsSum DEF Filling
<1>7. SumFunctionOnSet(f, open[s]) = q
  BY <1>1, BooksSum, LeftIsSum DEF BooksFit
<1>8. \A j \in open[s] :
        /\ j \in Slots /\ j # i /\ order'[j] = order[j] /\ closed'[j] = closed[j] + a[j]
        /\ order[j].quantity \in Nat /\ closed[j] \in Nat /\ a[j] \in Nat
        /\ closed[j] + a[j] <= order[j].quantity
        /\ order[j].side = (IF q > 0 THEN "buy" ELSE "sell_short")
  BY <1>1, <1>3, <1>5, OpenOrders, LongOrShort
<1>9. \A j \in open[s] : f[j] \in Int /\ g[j] \in Int /\ a[j] \in Int
  BY <1>8 DEF Lefts, LeftAt
<1>10. \A j \in open[s] \ open'[s] : g[j] = 0
  BY <1>2, <1>8 DEF Lefts, LeftAt
<1>11. SumFunctionOnSet(g, open'[s]) = SumFunctionOnSet(g, open[s])
  <2>1. open'[s] \in SUBSET open[s]
    BY <1>2
  <2> QED
    BY <1>1, <1>9, <1>10, <2>1, SumOnPart
<1>12. SumFunctionOnSet(g, open[s]) = q + Signed(r)
  <2>1. SumFunctionOnSet(f, open[s]) \in Int /\ SumFunctionOnSet(g, open[s]) \in Int
    BY <1>1, <1>9, SumType
  <2>2. CASE q > 0
    <3>1. \A j \in open[s] : f[j] = g[j] + a[j]
      BY <1>8, <2>2 DEF Lefts, LeftAt
    <3>2. SumFunctionOnSet(f, open[s]) = SumFunctionOnSet(g, open[s]) + SumFunctionOnSet(a, open[s])
      BY <1>1, <1>9, <3>1, SumOfSums
    <3>3. Signed(r) = -r.quantity
      BY <1>3, <2>2, <1>1 DEF Signed
    <3> QED
      BY <1>1, <1>6, <1>7, <2>1, <3>2, <3>3
  <2>3. CASE q < 0
    <3>1. \A j \in open[s] : g[j] = f[j] + a[j]
      BY <1>1, <1>8, <2>3 DEF Lefts, LeftAt
    <3>2. SumFunctionOnSet(g, open[s]) = SumFunctionOnSet(f, open[s]) + SumFunctionOnSet(a, open[s])
      BY <1>1, <1>9, <3>1, SumOfSums
    <3>3. Signed(r) = r.quantity
      BY <1>3, <2>3, <1>1 DEF Signed
    <3> QED
      BY <1>1, <1>6, <1>7, <2>1, <3>2, <3>3
  <2> QED
    BY <1>3, <2>2, <2>3
<1>13. open'[s] \in SUBSET Slots
  BY <1>1, <1>2
<1> QED
  BY <1>2, <1>11, <1>12, <1>13, LeftIsSum

-----------------------------------------------------------------------------
LEMMA LeftSame ==
    ASSUME NEW ord, NEW new, NEW cl, NEW ncl, NEW S \in SUBSET Slots,
           \A i \in S : new[i] = ord[i] /\ ncl[i] = cl[i]
    PROVE  LeftSum(new, ncl, S) = LeftSum(ord, cl, S)
<1>1. IsFiniteSet(S)
  BY SlotsAreFinite
<1>2. \A i \in S : Lefts(new, ncl)[i] = Lefts(ord, cl)[i]
  BY DEF Lefts, LeftAt
<1> QED
  BY <1>1, <1>2, SumSame, LeftIsSum

(* The books of a symbol whose orders a step leaves alone.                   *)
LEMMA BookStays ==
    ASSUME Kinds, BooksAgree, NEW s \in Symbols, open'[s] = open[s],
           \A j \in open[s] : order'[j] = order[j] /\ closed'[j] = closed[j],
           CacheOf(s)' = CacheOf(s), position'[s].quantity = position[s].quantity
    PROVE  open'[s] = CacheOf(s)' /\ position'[s].quantity = LeftSum(order', closed', open'[s])
<1>1. open[s] = CacheOf(s) /\ position[s].quantity = LeftSum(order, closed, open[s])
  BY BooksSum DEF BooksFit
<1>2. LeftSum(order', closed', open[s]) = LeftSum(order, closed, open[s])
  <2>1. open[s] \in SUBSET Slots
    BY DEF Kinds
  <2> QED
    BY <2>1, LeftSame
<1> QED
  BY <1>1, <1>2

LEMMA FillAccounts ==
    ASSUME NEW i, NEW r, NEW a, Filling(i, r, a), quote \in [Symbols -> Prices]
    PROVE  Accounts'
<1> PICK t : t = r.symbol
  OBVIOUS
<1>1. /\ Kinds /\ NoOverClose /\ Listed /\ BooksAgree /\ OneSide /\ BooksInv
      /\ i \in Slots /\ i \notin open[t] /\ closed[i] = 0
      /\ t \in Symbols /\ r.quantity \in Nat /\ r.quantity > 0
      /\ position[t].quantity \in Int
      /\ open[t] \in SUBSET Slots
      /\ \A j \in Slots : j # i => order'[j] = order[j] /\ status'[j] = status[j]
      /\ order'[i] = r /\ status'[i] = "filled"
      /\ \A s \in Symbols : s # t => open'[s] = open[s]
      /\ \A j \in Slots : j \notin open[t] => closed'[j] = closed[j]
  BY FillState
<1>2. /\ Grounded /\ Counted /\ r \in Order /\ Ends(i, r, "filled") /\ Trade(i, r)
      /\ position' = Recounted' /\ status[i] \in {"none", "pending"}
  BY DEF Filling, Accounts, Ends, Fill, Ledger
<1>3. Listed'
  BY <1>1, <1>2, LedgerLists
<1>4. Grounded'
  <2>1. NetSum(order, FilledSet(t)) = 0 => Opening(r)
    BY <1>1, <1>2 DEF Counted, Filling, SideAllowed, Opening
  <2> QED
    BY <1>1, <1>2, <2>1, LedgerGrounds
<1>5. Counted'
  BY <1>2, <1>3, <1>4, LedgerCounts
<1>6. \A s \in Symbols :
        position'[s].quantity = position[s].quantity + (IF s = t THEN Signed(r) ELSE 0)
  <2>1. \A s \in Symbols :
          NetSum(order', FilledSet(s)')
            = NetSum(order, FilledSet(s)) + (IF Counts(r, "filled", s) THEN Signed(r) ELSE 0)
    BY <1>1, <1>2, LedgerNet
  <2> QED
    BY <1>2, <1>5, <2>1 DEF Counted, Counts
<1>7. \A j \in Slots : order[j].symbol # t => j \notin open[t]
  BY <1>1, OpenOrders
<1>8. ASSUME NEW s \in Symbols, s # t
      PROVE  open'[s] = CacheOf(s)' /\ position'[s].quantity = LeftSum(order', closed', open'[s])
  <2>1. \A j \in open[s] : j \in Slots /\ j # i /\ order[j].symbol = s /\ status[j] = "filled"
    BY <1>1, <1>2, OpenOrders
  <2>2. \A j \in open[s] : order'[j] = order[j] /\ closed'[j] = closed[j]
    BY <1>1, <1>7, <1>8, <2>1
  <2>3. CacheOf(s)' = CacheOf(s)
    <3>1. ASSUME NEW j \in Slots PROVE j \in CacheOf(s)' <=> j \in CacheOf(s)
      <4>1. CASE j = i
        BY <1>1, <1>2, <1>8, <4>1 DEF CacheOf
      <4>2. CASE j # i /\ order[j].symbol # s
        BY <1>1, <4>2 DEF CacheOf
      <4>3. CASE j # i /\ order[j].symbol = s
        BY <1>1, <1>7, <1>8, <4>3 DEF CacheOf, Opening, Remaining
      <4> QED
        BY <4>1, <4>2, <4>3
    <3> QED
      BY <3>1 DEF CacheOf
  <2>4. position'[s].quantity = position[s].quantity
    BY <1>2, <1>6, <1>8 DEF Counted, Positions
  <2> QED
    BY <1>1, <1>8, <2>2, <2>3, <2>4, BookStays
<1>9. /\ LeftSum(order', closed', open'[t]) = position[t].quantity + Signed(r)
      /\ open'[t] = {j \in open[t] : order[j].quantity - closed'[j] > 0} \cup Opened(i, r)
      /\ \A j, k \in open'[t] : order'[j].side = order'[k].side
  <2>1. CASE Opening(r)
    <3>1. /\ \A j \in open[t] : closed'[j] = closed[j] /\ order[j].side = r.side
          /\ open'[t] = open[t] \cup {i}
          /\ LeftSum(order', closed', open'[t]) = position[t].quantity + Signed(r)
      BY <2>1, OpeningFill
    <3>2. open'[t] = {j \in open[t] : order[j].quantity - closed'[j] > 0} \cup Opened(i, r)
      BY FillState
    <3> QED
      BY <1>1, <3>1, <3>2
  <2>2. CASE ~Opening(r)
    <3>1. /\ open'[t] = {j \in open[t] : order[j].quantity - closed'[j] > 0}
          /\ LeftSum(order', closed', open'[t]) = position[t].quantity + Signed(r)
      BY <2>2, ClosingFill
    <3> QED
      BY <1>1, <2>2, <3>1 DEF OneSide, Opened
  <2> QED
    BY <2>1, <2>2
<1>10. open'[t] = CacheOf(t)'
  <2>1. open[t] = CacheOf(t)
    BY <1>1, BooksSum DEF BooksFit
  <2>2. ASSUME NEW j \in Slots PROVE j \in CacheOf(t)' <=> j \in open'[t]
    <3>1. CASE j = i
      BY <1>1, <1>9, <3>1 DEF CacheOf, Opened, Opening, Remaining
    <3>2. CASE j # i /\ j \in open[t]
      BY <1>1, <1>9, <2>1, <3>2 DEF CacheOf, Opened, Opening, Remaining
    <3>3. CASE j # i /\ j \notin open[t]
      BY <1>1, <1>9, <2>1, <3>3 DEF CacheOf, Opened, Opening, Remaining
    <3> QED
      BY <3>1, <3>2, <3>3
  <2>3. open'[t] \subseteq Slots
    BY <1>1, <1>9 DEF Opened
  <2> QED
    BY <2>2, <2>3 DEF CacheOf
<1>11. BooksFit'
  BY <1>1, <1>6, <1>8, <1>9, <1>10 DEF BooksFit
<1>12. BooksAgree'
  BY <1>11, BooksSum, PTL
<1>13. OneSide'
  <2> SUFFICES ASSUME NEW s \in Symbols, NEW j \in open'[s], NEW k \in open'[s]
               PROVE  order'[j].side = order'[k].side
    BY DEF OneSide
  <2>1. CASE s = t
    BY <1>9, <2>1
  <2>2. CASE s # t
    <3>1. \A x \in open[s] : x \in Slots /\ x # i
      BY <1>1, <1>2, OpenOrders
    <3> QED
      BY <1>1, <2>2, <3>1 DEF OneSide
  <2> QED
    BY <2>1, <2>2
<1> QED
  BY <1>3, <1>4, <1>5, <1>12, <1>13 DEF Accounts

LEMMA RejectAccounts ==
    ASSUME BooksInv, Accounts, quote \in [Symbols -> Prices],
           NEW i, NEW r \in Order, Ends(i, r, "rejected"), UNCHANGED <<closed, open>>
    PROVE  Accounts'
<1>1. /\ Kinds /\ Listed /\ Grounded /\ Counted /\ BooksAgree /\ OneSide
      /\ i \in Slots /\ status[i] \in {"none", "pending"} /\ position' = Recounted'
  BY DEF BooksInv, Accounts, Ends, Ledger
<1>2. /\ \A j \in Slots : j # i => order'[j] = order[j] /\ status'[j] = status[j]
      /\ order'[i] = r /\ status'[i] = "rejected"
  BY EndsLedger
<1>3. Listed'
  BY <1>1, LedgerLists
<1>4. Grounded'
  BY <1>1, LedgerGrounds
<1>5. Counted'
  BY <1>1, <1>3, <1>4, LedgerCounts
<1>6. ASSUME NEW s \in Symbols
      PROVE  open'[s] = CacheOf(s)' /\ position'[s].quantity = LeftSum(order', closed', open'[s])
  <2>1. \A j \in open[s] : j \in Slots /\ j # i
    BY <1>1, OpenOrders
  <2>2. \A j \in open[s] : order'[j] = order[j] /\ closed'[j] = closed[j]
    BY <1>2, <2>1
  <2>3. CacheOf(s)' = CacheOf(s)
    <3>1. \A j \in Slots : j \in CacheOf(s)' <=> j \in CacheOf(s)
      BY <1>1, <1>2 DEF CacheOf, Opening, Remaining
    <3> QED
      BY <3>1 DEF CacheOf
  <2>4. NetSum(order', FilledSet(s)') = NetSum(order, FilledSet(s)) + 0
    BY <1>1, LedgerNet DEF Counts
  <2>5. position'[s].quantity = position[s].quantity
    BY <1>1, <1>5, <2>4 DEF Counted, Positions
  <2> QED
    BY <1>1, <2>2, <2>3, <2>5, BookStays
<1>7. BooksAgree'
  <2>1. BooksFit'
    BY <1>6 DEF BooksFit
  <2> QED
    BY <2>1, BooksSum, PTL
<1>8. OneSide'
  <2>1. \A s \in Symbols : \A x \in open[s] : x \in Slots /\ x # i
    BY <1>1, OpenOrders
  <2> QED
    BY <1>1, <1>2, <2>1 DEF OneSide
<1> QED
  BY <1>3, <1>4, <1>5, <1>7, <1>8 DEF Accounts

(* A step that ends no order leaves the accounts as they are.                *)
LEMMA QuietAccounts ==
    ASSUME Kinds, Accounts, UNCHANGED <<traded, closed, orders, open, position>>,
           \A i \in Slots : /\ Ended(i)' <=> Ended(i)
                            /\ status'[i] = "filled" <=> status[i] = "filled"
                            /\ Ended(i) => order'[i] = order[i]
    PROVE  Accounts'
<1>1. Kinds /\ Listed /\ EndsListed /\ Records /\ Grounded /\ Counted /\ BooksAgree /\ OneSide
  BY DEF Accounts, Listed
<1>2. \A i \in Slots : status[i] = "filled" => order'[i] = order[i]
  BY DEF Ended
<1>3. Listed'
  BY <1>1 DEF Listed, EndsListed, Records
<1>4. \A s : FilledSet(s)' = FilledSet(s) /\ NetSum(order', FilledSet(s)') = NetSum(order, FilledSet(s))
  <2> TAKE s
  <2>1. FilledSet(s)' = FilledSet(s)
    BY <1>2 DEF FilledSet
  <2>2. \A i \in FilledSet(s) : order'[i] = order[i]
    BY <1>2 DEF FilledSet
  <2> QED
    BY <2>1, <2>2, NetSame, FilledIsSlots
<1>5. Grounded'
  <2> SUFFICES ASSUME NEW s \in Symbols, NetSum(order', FilledSet(s)') # 0
               PROVE  \E k \in DOMAIN orders' : Opener(s, k)'
    BY DEF Grounded
  <2>1. PICK k \in DOMAIN orders : Opener(s, k)
    BY <1>1, <1>4 DEF Grounded
  <2>2. \A j \in DOMAIN orders : orders[j] \in Slots
    BY <1>1, FilledListed
  <2>3. FilledOf(s)' = FilledOf(s) /\ FilledOf(s) \subseteq DOMAIN orders
    BY <1>2, <2>2 DEF FilledOf
  <2>4. \A j \in FilledOf(s) : order'[orders[j]] = order[orders[j]]
    BY <1>2, <2>2 DEF FilledOf
  <2>5. ASSUME NEW j \in FilledOf(s)
        PROVE  NetSum(order', Upto(FilledOf(s), j)') = NetSum(order, Upto(FilledOf(s), j))
    <3>1. Upto(FilledOf(s), j)' = Upto(FilledOf(s), j)
      BY <2>3 DEF Upto
    <3>2. \A x \in Upto(FilledOf(s), j) : x \in Slots /\ order'[x] = order[x]
      BY <2>2, <2>3, <2>4 DEF Upto
    <3> QED
      BY <3>1, <3>2, NetSame
  <2>6. Opener(s, k)'
    BY <2>1, <2>3, <2>4, <2>5 DEF Opener, Opening
  <2> QED
    BY <2>6
<1>6. Counted'
  BY <1>1, <1>4 DEF Counted
<1>7. \A s \in Symbols : \A j \in open[s] : j \in Slots /\ order'[j] = order[j]
  BY <1>1, <1>2, OpenOrders
<1>8. BooksFit'
  <2>1. \A s \in Symbols : CacheOf(s)' = CacheOf(s)
    BY <1>2 DEF CacheOf, Opening, Remaining
  <2> QED
    BY <1>1, <1>7, <2>1, BookStays DEF BooksFit
<1>9. BooksAgree'
  BY <1>8, BooksSum, PTL
<1>10. OneSide'
  BY <1>1, <1>7 DEF OneSide
<1> QED
  BY <1>3, <1>5, <1>6, <1>9, <1>10 DEF Accounts

-----------------------------------------------------------------------------
(* With the accounts, every variable has its type.                           *)
LEMMA SlotsCount == Cardinality(Slots) \in Nat /\ Slots = 1 .. Cardinality(Slots)
<1>1. Cardinality(Symbols) \in Nat
  BY SimulatorAssumption, FS_CardinalityType
<1>2. MaxOrders + Cardinality(Symbols) \in Nat
  BY <1>1, SimulatorAssumption
<1>3. Cardinality(1 .. MaxOrders + Cardinality(Symbols)) = MaxOrders + Cardinality(Symbols)
  BY <1>2, FS_Interval
<1> QED
  BY <1>2, <1>3 DEF Slots

LEMMA EquityType ==
    ASSUME balance \in Int, position \in Positions, quote \in [Symbols -> Prices]
    PROVE  EquityOf(position) \in Int
<1>1. \A s \in Symbols : /\ position[s].basis \in Int /\ position[s].quantity \in Int
                         /\ quote[s] \in Int /\ Unit \in Int
  BY PricesArePositive DEF Positions, Unit
<1>2. \A s \in Symbols : Profits(position, quote)[s] \in Int
  BY <1>1 DEF Profits, ProfitAt
<1>3. ProfitSum(position, quote, Symbols) \in Int
  BY <1>2, SimulatorAssumption, SumType, ProfitIsSum
<1>4. EquityOf(position) = balance + ProfitSum(position, quote, Symbols)
  BY SumsOfTheState
<1> QED
  BY <1>3, <1>4

LEMMA GainType ==
    ASSUME position \in Positions, quote \in [Symbols -> Prices], NEW r \in Order
    PROVE  Gain(r) \in Int
<1>1. /\ r.symbol \in Symbols /\ Signed(r) \in Int
  BY OrderFacts
<1>2. position[r.symbol].basis \in Int /\ quote[r.symbol] \in Int /\ Unit \in Int
  BY <1>1, PricesArePositive DEF Positions, Unit
<1>3. (position[r.symbol].basis - quote[r.symbol] * Unit) * Signed(r) \in Int
  BY <1>1, <1>2
<1> QED
  BY <1>3 DEF Gain

Sound == BooksInv /\ Accounts /\ TypeOK

LEMMA InitAccounts == Init => Sound
<1> SUFFICES ASSUME Init PROVE Sound
  OBVIOUS
<1>1. BooksInv /\ Kinds
  BY InitBooks DEF BooksInv
<1>2. Listed
  BY DEF Init, Listed, EndsListed, Records, Ended
<1>3. \A s : FilledSet(s) = {} /\ NetSum(order, {}) = 0 /\ LeftSum(order, closed, {}) = 0
  BY NetIsSum, LeftIsSum, SumEmpty DEF Init, FilledSet
<1>4. Grounded /\ Counted
  <2>1. \A s \in Symbols : NetSum(order, FilledSet(s)) = 0
    BY <1>3
  <2>2. \A s \in Symbols : position[s] = [quantity |-> 0, basis |-> 0] /\ position[s].quantity = 0
    BY DEF Init
  <2>3. position \in Positions
    BY DEF Init, Positions
  <2> QED
    BY <2>1, <2>2, <2>3 DEF Grounded, Counted
<1>5. BooksAgree
  <2>1. \A s \in Symbols : CacheOf(s) = {}
    BY DEF Init, CacheOf
  <2> QED
    BY <1>3, <2>1, BooksSum DEF Init, BooksFit
<1>6. OneSide
  BY DEF Init, OneSide
<1>7. TypeOK
  <2>1. quote \in [Symbols -> Prices]
    <3>1. 0 \in 0 .. EndTime - 1
      BY SimulatorAssumption
    <3> QED
      BY <3>1, SimulatorAssumption DEF Init
  <2>2. balance \in Int /\ clock \in 0 .. EndTime /\ nonce \in 0 .. Cardinality(Slots)
    BY SimulatorAssumption, SlotsCount DEF Init, Unit
  <2>3. position \in Positions
    BY <1>4 DEF Counted
  <2>4. orders \in Seq(Slots)
    BY <1>2 DEF Listed, EndsListed
  <2>5. order \in [Slots -> Order \cup {None}] /\ traded \in [Slots -> Prices \cup {None}]
    BY Zenon DEF Init
  <2>6. complete \in BOOLEAN /\ moving \in BOOLEAN
    BY Zenon DEF Init
  <2>7. equity \in Int /\ phase \in {"idle", "commit", "margin"}
    <3>1. equity = 0 /\ phase = "idle"
      BY Zenon DEF Init
    <3> QED
      BY <3>1
  <2> QED
    BY <1>1, <2>1, <2>2, <2>3, <2>4, <2>5, <2>6, <2>7 DEF Kinds, TypeOK, Positions
<1> QED
  BY <1>1, <1>2, <1>4, <1>5, <1>6, <1>7 DEF Accounts, Sound

(* An order that ends keeps the types of the rest.                           *)
LEMMA EndsTypes ==
    ASSUME Sound, BooksInv', Accounts', NEW i, NEW r \in Order, NEW end, Ends(i, r, end),
           balance' \in Int, nonce' \in Slots \cup {nonce}, UNCHANGED <<feed, phase, moving, equity>>
    PROVE  TypeOK'
<1>1. /\ TypeOK /\ i \in Slots /\ r.symbol \in Symbols
      /\ order' = [order EXCEPT ![i] = r]
      /\ traded' = traded \/ traded' = [traded EXCEPT ![i] = quote[r.symbol]]
  BY OrderFacts DEF Sound, Ends, Ledger, Trade
<1>2. Kinds'
  BY DEF BooksInv
<1>3. orders' \in Seq(Slots) /\ position' \in Positions
  BY DEF Accounts, Listed, EndsListed, Counted
<1>4. order' \in [Slots -> Order \cup {None}] /\ traded' \in [Slots -> Prices \cup {None}]
  BY <1>1 DEF TypeOK
<1>5. nonce' \in 0 .. Cardinality(Slots)
  BY <1>1, SlotsCount DEF TypeOK
<1> QED
  BY <1>1, <1>2, <1>3, <1>4, <1>5 DEF Kinds, TypeOK, Positions, feed

LEMMA FillSound ==
    ASSUME Sound, NEW i, NEW r \in Order, Ends(i, r, "filled"), NEW a \in Closings(r), Fill(i, r, a),
           SideAllowed(r.side, position[r.symbol].quantity),
           nonce' \in Slots \cup {nonce}, UNCHANGED <<feed, phase, moving, equity>>
    PROVE  Sound'
<1>1. /\ BooksInv /\ Accounts /\ quote \in [Symbols -> Prices] /\ balance \in Int
      /\ position \in Positions /\ balance' = balance + Gain(r)
  BY DEF Sound, TypeOK, Accounts, Counted, Fill
<1>2. BooksInv'
  BY <1>1, FillBooks
<1>3. Accounts'
  BY <1>1, FillAccounts DEF Filling
<1>4. balance' \in Int
  BY <1>1, GainType
<1>5. TypeOK'
  BY <1>2, <1>3, <1>4, EndsTypes
<1> QED
  BY <1>2, <1>3, <1>5 DEF Sound

LEMMA RejectSound ==
    ASSUME Sound, NEW i, NEW r \in Order, Ends(i, r, "rejected"), Reject(i, r),
           nonce' = nonce, UNCHANGED <<feed, phase, moving, equity>>
    PROVE  Sound'
<1>1. /\ BooksInv /\ Accounts /\ quote \in [Symbols -> Prices] /\ balance \in Int
      /\ UNCHANGED <<closed, open, balance>>
  BY DEF Sound, TypeOK, Reject
<1>2. BooksInv'
  BY <1>1, RejectBooks
<1>3. Accounts'
  BY <1>1, RejectAccounts
<1>4. TypeOK'
  BY <1>1, <1>2, <1>3, EndsTypes
<1> QED
  BY <1>2, <1>3, <1>4 DEF Sound

(* Which order a Commit ends, and which a Liquidate.                         *)
LEMMA CommitEnds ==
    ASSUME BooksInv, NEW i \in pending, Commit(i)
    PROVE  /\ order[i] \in Order /\ nonce' = nonce /\ UNCHANGED <<feed, phase, moving, equity>>
           /\ \/ /\ Ends(i, order[i], "filled") /\ Allowed(order[i])
                 /\ \E a \in Closings(order[i]) : Fill(i, order[i], a)
              \/ Ends(i, order[i], "rejected") /\ Reject(i, order[i])
<1> PICK r : r = order[i]
  OBVIOUS
<1>1. /\ Kinds /\ Unused /\ Placed /\ Waiting
      /\ i \in Slots /\ status[i] = "pending" /\ r \in Asked /\ r \in Order
  BY DEF BooksInv, Kinds, Waiting, Asked
<1>2. i # placing /\ i <= nonce /\ nonce \in Nat /\ r.symbol \in Symbols
  <2>1. i # placing
    BY <1>1, SimulatorAssumption DEF Placed
  <2>2. i \in Nat /\ nonce \in Nat /\ ~(i > nonce)
    BY <1>1, SlotsAreNat DEF Unused, Kinds
  <2> QED
    BY <1>1, <2>1, <2>2, OrderFacts
<1>3. nonce' = nonce /\ UNCHANGED <<placing, told, complete>> /\ UNCHANGED <<feed, phase, moving, equity>>
  BY DEF Commit, feed
<1>4. \A a : Fill(i, r, a) => Ends(i, r, "filled")
  BY <1>1, <1>2, <1>3 DEF Ends, Fill
<1>5. (traded' = traded \/ Trade(i, r)) /\ Reject(i, r) => Ends(i, r, "rejected")
  BY <1>1, <1>2, <1>3 DEF Ends, Reject
<1> QED
  BY <1>1, <1>3, <1>4, <1>5 DEF Commit

LEMMA LiquidateEnds ==
    ASSUME Sound, NEW s \in Symbols, Liquidate(s)
    PROVE  /\ Liquidation(s) \in Order /\ nonce' = nonce + 1 /\ nonce' \in Slots
           /\ UNCHANGED <<feed, phase, moving, equity>>
           /\ SideAllowed(Liquidation(s).side, position[s].quantity)
           /\ Liquidation(s).symbol = s /\ ~Opening(Liquidation(s))
           /\ Signed(Liquidation(s)) = -position[s].quantity
           /\ Ends(nonce', Liquidation(s), "filled")
           /\ \E a \in Closings(Liquidation(s)) : Fill(nonce', Liquidation(s), a)
<1> PICK r : r = Liquidation(s)
  OBVIOUS
<1> PICK i : i = nonce'
  OBVIOUS
<1>1. BooksInv /\ Kinds /\ Unused /\ Placed /\ position[s].quantity \in Int /\ position[s].quantity # 0
  BY DEF Sound, BooksInv, Accounts, Counted, Positions, Liquidate, Held
<1>2. /\ r.symbol = s /\ ~Opening(r) /\ r.quantity \in Nat \ {0}
      /\ SideAllowed(r.side, position[s].quantity) /\ Signed(r) = -position[s].quantity
  BY <1>1 DEF Liquidation, Opening, SideAllowed, Larger, Signed
<1>3. r \in Order
  BY <1>1, <1>2 DEF Liquidation, Order, Sides
<1>4. i = nonce + 1 /\ i \in Slots /\ UNCHANGED <<placing, told, complete>> /\ UNCHANGED <<feed, phase, moving, equity>>
  BY DEF Liquidate, feed
<1>5. status[i] = "none" /\ i # placing /\ nonce \in Nat
  BY <1>1, <1>4, SlotsAreNat, SimulatorAssumption DEF Unused, Placed, Kinds
<1>6. PICK a \in Closings(r) : Fill(i, r, a)
  BY DEF Liquidate
<1>7. Ends(i, r, "filled")
  BY <1>2, <1>4, <1>5, <1>6 DEF Ends, Fill
<1> QED
  BY <1>2, <1>3, <1>4, <1>6, <1>7

-----------------------------------------------------------------------------
(* The steps that end no order.                                              *)
LEMMA CheckOrderSound ==
    ASSUME Sound, NEW r \in Asked, CheckOrder(r) PROVE Sound'
<1>1. /\ BooksInv /\ Accounts /\ TypeOK /\ Kinds /\ Unused
      /\ nonce < MaxOrders /\ nonce' = nonce + 1
      /\ \/ placing' = nonce + 1 /\ order' = [order EXCEPT ![nonce + 1] = r]
         \/ UNCHANGED <<placing, order>>
      /\ UNCHANGED <<status, traded, closed, pending, orders, open, position, balance,
                     feed, phase, moving, equity, news, told>>
  BY DEF Sound, BooksInv, CheckOrder
<1>2. nonce + 1 \in Slots /\ status[nonce + 1] = "none"
  BY <1>1, NextSlot DEF Kinds, Unused
<1>3. BooksInv'
  BY <1>1, CheckOrderBooks
<1>4. Accounts'
  <2>1. \A i \in Slots : Ended(i) => order'[i] = order[i]
    BY <1>1, <1>2 DEF Ended, Kinds
  <2> QED
    BY <1>1, <2>1, QuietAccounts DEF Ended
<1>5. TypeOK'
  <2>1. order' \in [Slots -> Order \cup {None}]
    BY <1>1 DEF TypeOK, Asked
  <2>2. nonce' \in 0 .. Cardinality(Slots) /\ placing' \in Slots \cup {None}
    BY <1>1, <1>2, SlotsCount DEF TypeOK
  <2> QED
    BY <1>1, <2>1, <2>2 DEF TypeOK, feed
<1> QED
  BY <1>3, <1>4, <1>5 DEF Sound

LEMMA QueueOrderSound == ASSUME Sound, QueueOrder PROVE Sound'
<1>1. /\ BooksInv /\ Accounts /\ TypeOK /\ Kinds /\ Placed
      /\ placing # None /\ placing' = None
      /\ pending' = pending \cup {placing} /\ status' = [status EXCEPT ![placing] = "pending"]
      /\ UNCHANGED <<order, traded, closed, orders, open, position, balance,
                     feed, nonce, phase, moving, equity, news, told>>
  BY DEF Sound, BooksInv, QueueOrder
<1>2. placing \in Slots /\ status[placing] = "none"
  BY <1>1 DEF Kinds, Placed
<1>3. BooksInv'
  BY <1>1, QueueOrderBooks
<1>4. Accounts'
  <2>1. \A i \in Slots : /\ Ended(i)' <=> Ended(i)
                         /\ status'[i] = "filled" <=> status[i] = "filled"
    BY <1>1, <1>2 DEF Ended, Kinds
  <2> QED
    BY <1>1, <2>1, QuietAccounts
<1>5. TypeOK'
  BY <1>1, <1>2 DEF TypeOK, feed, Statuses
<1> QED
  BY <1>3, <1>4, <1>5 DEF Sound

LEMMA TickSound ==
    ASSUME Sound, \/ \E moves \in BOOLEAN : BeginTick(moves)
                  \/ CheckMargin
                  \/ Advance
                  \/ UNCHANGED simVars
    PROVE  Sound'
<1>1. BooksInv /\ Accounts /\ TypeOK /\ Kinds /\ position \in Positions
  BY DEF Sound, BooksInv, Accounts, Counted
<1>2. BooksInv'
  <2>1. (\E moves \in BOOLEAN : BeginTick(moves)) \/ CheckMargin \/ Advance \/ UNCHANGED simVars => AnyStep
    BY DEF AnyStep, TickStep
  <2> QED
    BY <1>1, <2>1, StepBooks
<1>3. UNCHANGED <<order, status, traded, closed, pending, orders, open, position, balance, nonce, placing>>
  BY DEF BeginTick, CheckMargin, Advance, simVars, books
<1>4. Accounts'
  BY <1>1, <1>3, QuietAccounts DEF Ended
<1>5. equity' \in Int
  BY <1>1, EquityType DEF TypeOK, BeginTick, CheckMargin, Advance, simVars
<1>6. moving' \in BOOLEAN /\ phase' \in {"idle", "commit", "margin"}
  BY <1>1 DEF TypeOK, BeginTick, CheckMargin, Advance, simVars
<1>7. quote' \in [Symbols -> Prices] /\ clock' \in 0 .. EndTime /\ complete' \in BOOLEAN
  <2>1. CASE Advance
    <3>1. clock' \in 0 .. EndTime /\ EndTime \in Nat
      BY <1>1, <2>1, SimulatorAssumption DEF Advance, TypeOK
    <3>2. quote' = quote \/ (clock' # EndTime /\ quote' \in Closes[clock'])
      BY <2>1 DEF Advance
    <3>3. ASSUME clock' # EndTime PROVE Closes[clock'] \subseteq [Symbols -> Prices]
      <4>1. clock' \in 0 .. EndTime - 1
        BY <3>1, <3>3
      <4> QED
        BY <4>1, SimulatorAssumption
    <3>4. complete' \in BOOLEAN
      BY <1>1, <2>1 DEF Advance, TypeOK
    <3> QED
      BY <1>1, <3>1, <3>2, <3>3, <3>4 DEF TypeOK
  <2>2. CASE UNCHANGED feed
    BY <1>1, <2>2 DEF TypeOK, feed
  <2> QED
    BY <2>1, <2>2 DEF BeginTick, CheckMargin, simVars
<1>8. TypeOK'
  BY <1>1, <1>2, <1>3, <1>5, <1>6, <1>7 DEF BooksInv, Kinds, TypeOK
<1> QED
  BY <1>2, <1>4, <1>8 DEF Sound

LEMMA StepSound == ASSUME Sound, AnyStep PROVE Sound'
<1>1. ASSUME NEW i \in pending, Commit(i) PROVE Sound'
  <2>1. BooksInv
    BY DEF Sound
  <2>2. CASE Ends(i, order[i], "rejected") /\ Reject(i, order[i])
    BY <1>1, <2>1, <2>2, CommitEnds, RejectSound
  <2>3. CASE /\ Ends(i, order[i], "filled") /\ Allowed(order[i])
             /\ \E a \in Closings(order[i]) : Fill(i, order[i], a)
    BY <1>1, <2>1, <2>3, CommitEnds, FillSound DEF Allowed
  <2> QED
    BY <1>1, <2>1, <2>2, <2>3, CommitEnds
<1>2. ASSUME NEW s \in Symbols, Liquidate(s) PROVE Sound'
  BY <1>2, LiquidateEnds, FillSound
<1> QED
  BY <1>1, <1>2, CheckOrderSound, QueueOrderSound, TickSound DEF AnyStep, TickStep

LEMMA SoundHolds == Spec => []Sound
<1>1. Init => Sound
  BY InitAccounts
<1>2. Sound /\ [Next]_simVars => Sound'
  BY StepSound, NextIsAnyStep
<1> QED
  BY <1>1, <1>2, PTL DEF Spec

(* Every variable of the playground keeps its type: positions, averages and  *)
(* the balance are numbers, and no id is used that is not a slot.            *)
THEOREM TypeOKHolds == Spec => []TypeOK
<1>1. Sound => TypeOK
  BY DEF Sound
<1> QED
  BY <1>1, SoundHolds, PTL

(* For any requests, feed and balance, the open orders cache and the         *)
(* positions cache stay the same account of the orders, so that validateCache*)
(* never refuses a fill.                                                     *)
THEOREM BooksAgreeHolds == Spec => []BooksAgree
<1>1. Sound => BooksAgree
  BY DEF Sound, Accounts
<1> QED
  BY <1>1, SoundHolds, PTL

(* However placements and ticks interleave, the open orders of a symbol are  *)
(* on one side.                                                              *)
THEOREM OneSideHolds == Spec => []OneSide
<1>1. Sound => OneSide
  BY DEF Sound, Accounts
<1> QED
  BY <1>1, SoundHolds, PTL

-----------------------------------------------------------------------------
(* The margin.  A position counted again depends only on its own symbol's    *)
(* filled orders; so a liquidation moves a position's profit into the        *)
(* balance and changes no other, and the equity read before the first one    *)
(* is the equity after the last.                                             *)
Since(s) == {orders[k] : k \in {k \in FilledOf(s) : Opener(s, k)}}
RecountOf(s) ==
    [quantity |-> NetSum(order, FilledSet(s)),
     basis |-> IF NetSum(order, FilledSet(s)) = 0 THEN 0
               ELSE (Unit * CostSum(order, traded, Since(s))) \div VolumeSum(order, Since(s))]
RecountsForm == \A s \in Symbols : Recounted[s] = RecountOf(s)

Recount == \A s \in Symbols : position[s] = RecountOf(s)

EquityNow  == balance + ProfitSum(position, quote, Symbols)
EquityRead == phase = "margin" => equity = EquityNow

LEMMA RecountedForm == Listed => RecountsForm
<1> SUFFICES ASSUME Listed, NEW s \in Symbols PROVE Recounted[s] = RecountOf(s)
  BY DEF RecountsForm
<1>1. {orders[k] : k \in FilledOf(s)} = FilledSet(s)
  BY FilledListed DEF Listed
<1>2. SinceFlat(FilledOf(s)) = Since(s)
  BY SumsOfTheState DEF SinceFlat, Since, Opener
<1>3. Vwap(Since(s)) = (Unit * CostSum(order, traded, Since(s))) \div VolumeSum(order, Since(s))
  BY SumsOfTheState
<1>4. Recounted[s] =
        [quantity |-> NetSum(order, FilledSet(s)),
         basis |-> IF NetSum(order, FilledSet(s)) = 0 THEN 0 ELSE Vwap(SinceFlat(FilledOf(s)))]
  BY <1>1, SumsOfTheState DEF Recounted
<1> QED
  BY <1>2, <1>3, <1>4 DEF RecountOf

LEMMA VolumeCostSame ==
    ASSUME NEW ord, NEW new, NEW price, NEW nprice, NEW S \in SUBSET Slots,
           \A i \in S : new[i] = ord[i] /\ nprice[i] = price[i]
    PROVE  /\ VolumeSum(new, S) = VolumeSum(ord, S)
           /\ CostSum(new, nprice, S) = CostSum(ord, price, S)
<1>1. IsFiniteSet(S)
  BY SlotsAreFinite
<1>2. \A i \in S : /\ Volumes(new)[i] = Volumes(ord)[i]
                   /\ Costs(new, nprice)[i] = Costs(ord, price)[i]
  BY DEF Volumes, VolumeAt, Costs, CostAt
<1>3. SumFunctionOnSet(Volumes(new), S) = SumFunctionOnSet(Volumes(ord), S)
  BY <1>1, <1>2, SumSame
<1>4. SumFunctionOnSet(Costs(new, nprice), S) = SumFunctionOnSet(Costs(ord, price), S)
  BY <1>1, <1>2, SumSame
<1> QED
  BY <1>3, <1>4, VolumeIsSum, CostIsSum

LEMMA RecountStays ==
    ASSUME Listed, NEW s, FilledOf(s)' = FilledOf(s), FilledSet(s)' = FilledSet(s),
           \A k \in FilledOf(s) : /\ k \in DOMAIN orders' /\ orders'[k] = orders[k]
                                  /\ order'[orders[k]] = order[orders[k]]
                                  /\ traded'[orders[k]] = traded[orders[k]]
    PROVE  RecountOf(s)' = RecountOf(s)
<1>1. /\ FilledOf(s) \subseteq DOMAIN orders /\ \A k \in FilledOf(s) : orders[k] \in Slots
      /\ {orders[k] : k \in FilledOf(s)} = FilledSet(s)
  BY FilledListed DEF Listed
<1>2. NetSum(order', FilledSet(s)') = NetSum(order, FilledSet(s))
  <2>1. \A i \in FilledSet(s) : order'[i] = order[i]
    BY <1>1
  <2> QED
    BY <2>1, NetSame, FilledIsSlots
<1>3. ASSUME NEW j \in FilledOf(s)
      PROVE  NetSum(order', Upto(FilledOf(s), j)') = NetSum(order, Upto(FilledOf(s), j))
  <2>1. Upto(FilledOf(s), j)' = Upto(FilledOf(s), j)
    BY DEF Upto
  <2>2. \A x \in Upto(FilledOf(s), j) : x \in Slots /\ order'[x] = order[x]
    BY <1>1 DEF Upto
  <2> QED
    BY <2>1, <2>2, NetSame
<1>4. \A k \in FilledOf(s) : Opener(s, k)' <=> Opener(s, k)
  BY <1>3 DEF Opener, Opening
<1>5. Since(s)' = Since(s)
  BY <1>4 DEF Since
<1>6. \A x \in Since(s) : x \in Slots /\ order'[x] = order[x] /\ traded'[x] = traded[x]
  BY <1>1 DEF Since
<1>7. /\ VolumeSum(order', Since(s)') = VolumeSum(order, Since(s))
      /\ CostSum(order', traded', Since(s)') = CostSum(order, traded, Since(s))
  BY <1>5, <1>6, VolumeCostSame
<1> QED
  BY <1>2, <1>7 DEF RecountOf

(* An order that ends moves only the position of its symbol, and only if it  *)
(* filled.                                                                   *)
LEMMA LedgerRecounts ==
    ASSUME BooksInv, Listed, Listed', Recount,
           NEW i, NEW r \in Order, NEW end, Ends(i, r, end)
    PROVE  /\ Recount'
           /\ \A s \in Symbols : ~Counts(r, end, s) => position'[s] = position[s]
<1>1. position' = Recounted' /\ orders' = Append(orders, i) /\ i \in Slots /\ status[i] \in {"none", "pending"}
  BY DEF Ends, Ledger
<1>2. /\ \A j \in Slots : j # i => /\ order'[j] = order[j] /\ status'[j] = status[j]
                                   /\ traded'[j] = traded[j]
      /\ order'[i] = r /\ status'[i] = end
  BY EndsLedger
<1>3. Recount'
  <2>1. RecountsForm'
    BY RecountedForm, PTL
  <2> QED
    BY <1>1, <2>1 DEF RecountsForm, Recount
<1>4. ASSUME NEW s \in Symbols, ~Counts(r, end, s) PROVE position'[s] = position[s]
  <2> PICK n : n = Len(orders) + 1
    OBVIOUS
  <2>1. /\ orders \in Seq(Slots) /\ DOMAIN orders = 1 .. n - 1 /\ DOMAIN orders' = 1 .. n
        /\ \A k \in DOMAIN orders : k \in DOMAIN orders' /\ orders'[k] = orders[k]
        /\ orders'[n] = i
    BY <1>1 DEF Listed, EndsListed
  <2>2. \A k \in DOMAIN orders : orders[k] \in Slots /\ orders[k] # i
    BY <1>1, FilledListed DEF Listed, EndsListed, Ended
  <2>3. FilledOf(s) \subseteq DOMAIN orders
    BY DEF FilledOf
  <2>4. FilledOf(s)' = FilledOf(s)
    <3>1. ~(status'[i] = "filled" /\ order'[i].symbol = s)
      BY <1>2, <1>4 DEF Counts
    <3>2. \A k \in DOMAIN orders' : k \in DOMAIN orders \/ k = n
      BY <2>1
    <3> QED
      BY <1>2, <2>1, <2>2, <3>1, <3>2 DEF FilledOf
  <2>5. FilledSet(s)' = FilledSet(s)
    BY <1>4, LedgerNet
  <2>6. RecountOf(s)' = RecountOf(s)
    BY <1>2, <2>1, <2>2, <2>3, <2>4, <2>5, RecountStays
  <2> QED
    BY <1>3, <2>6 DEF Recount
<1> QED
  BY <1>3, <1>4

LEMMA QuietRecount ==
    ASSUME Kinds, Accounts, Recount, UNCHANGED <<traded, closed, orders, open, position>>,
           \A i \in Slots : /\ Ended(i)' <=> Ended(i)
                            /\ status'[i] = "filled" <=> status[i] = "filled"
                            /\ Ended(i) => order'[i] = order[i]
    PROVE  Recount'
<1>1. Listed
  BY DEF Accounts
<1>2. \A i \in Slots : status[i] = "filled" => order'[i] = order[i]
  BY DEF Ended
<1>3. ASSUME NEW s \in Symbols PROVE RecountOf(s)' = RecountOf(s)
  <2>1. \A j \in DOMAIN orders : orders[j] \in Slots
    BY <1>1, FilledListed DEF Listed
  <2>2. FilledOf(s)' = FilledOf(s) /\ FilledOf(s) \subseteq DOMAIN orders
    BY <1>2, <2>1 DEF FilledOf
  <2>3. FilledSet(s)' = FilledSet(s)
    BY <1>2 DEF FilledSet
  <2>4. \A j \in FilledOf(s) : order'[orders[j]] = order[orders[j]]
    BY <1>2, <2>1 DEF FilledOf
  <2> QED
    BY <1>1, <2>2, <2>3, <2>4, RecountStays
<1> QED
  BY <1>3 DEF Recount

-----------------------------------------------------------------------------
LEMMA MarginType == \A q, p \in Int : Margin(q, p) \in Int
BY DEF Margin, Larger, Unit

LEMMA MaintenanceType == ASSUME position \in Positions PROVE Maintenance(position) \in Int
<1>1. \A s \in Symbols : Needs(position)[s] \in Int
  BY MarginType DEF Needs, NeedAt, Positions
<1>2. NeedSum(position, Symbols) \in Int
  BY <1>1, SimulatorAssumption, SumType, NeedIsSum
<1> QED
  BY <1>2, SumsOfTheState

(* What a closing gains is the profit the position showed.                   *)
LEMMA TurnedOver == \A a, b, c \in Int : (a - b) * (-c) = (b - a) * c
OBVIOUS

(* A liquidation leaves the equity as it was.                                *)
LEMMA LiquidateConserves ==
    ASSUME Sound, Sound', Recount, NEW s \in Symbols, Liquidate(s)
    PROVE  Recount' /\ EquityNow' = EquityNow
<1> PICK r : r = Liquidation(s)
  OBVIOUS
<1> PICK i : i = nonce'
  OBVIOUS
<1> PICK q : q = position[s].quantity
  OBVIOUS
<1>1. /\ r \in Order /\ r.symbol = s /\ Signed(r) = -q /\ Ends(i, r, "filled") /\ quote' = quote
  BY LiquidateEnds DEF feed
<1>2. balance' = balance + Gain(r)
  BY LiquidateEnds DEF Fill
<1>3. /\ BooksInv /\ Listed /\ Listed' /\ Counted /\ position \in Positions /\ position' \in Positions
      /\ balance \in Int /\ quote \in [Symbols -> Prices] /\ q \in Int /\ q # 0
  BY DEF Sound, Accounts, Counted, TypeOK, Positions, Liquidate, Held
<1>4. /\ Recount'
      /\ \A t \in Symbols : t # s => position'[t] = position[t]
  BY <1>1, <1>3, LedgerRecounts DEF Counts
<1>5. position'[s].quantity = 0
  <2>1. NetSum(order', FilledSet(s)') = NetSum(order, FilledSet(s)) + Signed(r)
    BY <1>1, <1>3, LedgerNet DEF Counts
  <2>2. position'[s].quantity = NetSum(order', FilledSet(s)')
    BY DEF Sound, Accounts, Counted
  <2> QED
    BY <1>1, <1>3, <2>1, <2>2 DEF Counted
<1>6. /\ position[s].basis \in Int /\ quote[s] * Unit \in Int /\ position'[s].basis \in Int
  <2>1. quote[s] \in Int /\ Unit \in Int
    BY <1>3, PricesArePositive DEF Unit
  <2>2. position[s].basis \in Int /\ position'[s].basis \in Int
    BY <1>3 DEF Positions
  <2> QED
    BY <2>1, <2>2
<1> PICK f : f = Profits(position, quote)
  OBVIOUS
<1> PICK g : g = Profits(position', quote)
  OBVIOUS
<1>7. Gain(r) = f[s]
  <2>1. IsClose(r)
    <3>1. q * (-q) < 0
      BY <1>3, Signs
    <3> QED
      BY <1>1, <3>1 DEF IsClose
  <2>2. Gain(r) = (position[s].basis - quote[s] * Unit) * (-q)
    BY <1>1, <2>1 DEF Gain
  <2>3. f[s] = (quote[s] * Unit - position[s].basis) * q
    BY DEF Profits, ProfitAt
  <2> QED
    BY <1>3, <1>6, <2>2, <2>3, TurnedOver
<1>8. \A t \in Symbols : f[t] \in Int
  <2> TAKE t \in Symbols
  <2>1. /\ position[t].basis \in Int /\ position[t].quantity \in Int /\ quote[t] \in Int /\ Unit \in Int
    BY <1>3, PricesArePositive DEF Positions, Unit
  <2> QED
    BY <2>1 DEF Profits, ProfitAt
<1>9. g[s] = 0
  <2>1. g[s] = (quote[s] * Unit - position'[s].basis) * position'[s].quantity
    BY DEF Profits, ProfitAt
  <2> QED
    BY <1>5, <1>6, <2>1
<1>10. \A t \in Symbols \ {s} : g[t] = f[t]
  BY <1>4 DEF Profits, ProfitAt
<1>11. IsFiniteSet(Symbols)
  BY SimulatorAssumption
<1>12. SumFunctionOnSet(g, Symbols) = SumFunctionOnSet(f, Symbols) + (g[s] - f[s])
  BY <1>8, <1>9, <1>10, <1>11, SumUpdate
<1>13. SumFunctionOnSet(f, Symbols) \in Int
  BY <1>8, <1>11, SumType
<1>14. /\ EquityNow = balance + SumFunctionOnSet(f, Symbols)
       /\ EquityNow' = balance' + SumFunctionOnSet(g, Symbols)
  BY <1>1, ProfitIsSum DEF EquityNow
<1>15. EquityNow' = EquityNow
  BY <1>2, <1>3, <1>7, <1>8, <1>9, <1>12, <1>13, <1>14
<1> QED
  BY <1>4, <1>15

LEMMA StepMargined ==
    ASSUME Sound, Sound', Recount, EquityRead, AnyStep PROVE Recount' /\ EquityRead'
<1>1. BooksInv /\ Kinds /\ Accounts /\ Unused /\ Placed /\ Listed /\ Listed'
  BY DEF Sound, BooksInv, Accounts
<1>2. ASSUME NEW i \in pending, Commit(i) PROVE Recount' /\ EquityRead'
  <2>1. phase' = "commit"
    BY <1>2 DEF Commit
  <2>2. order[i] \in Order /\ (Ends(i, order[i], "filled") \/ Ends(i, order[i], "rejected"))
    BY <1>1, <1>2, CommitEnds
  <2>3. Recount'
    BY <1>1, <2>2, LedgerRecounts
  <2> QED
    BY <2>1, <2>3 DEF EquityRead
<1>3. ASSUME NEW s \in Symbols, Liquidate(s) PROVE Recount' /\ EquityRead'
  <2>1. Recount' /\ EquityNow' = EquityNow
    BY <1>3, LiquidateConserves
  <2>2. phase = "margin" /\ equity' = equity
    BY <1>3 DEF Liquidate
  <2> QED
    BY <2>1, <2>2 DEF EquityRead
<1>4. ASSUME NEW r \in Asked, CheckOrder(r) PROVE Recount' /\ EquityRead'
  <2>1. /\ UNCHANGED <<status, traded, closed, orders, open, position, phase>> /\ phase = "idle" /\ nonce < MaxOrders
        /\ order' = [order EXCEPT ![nonce + 1] = r] \/ order' = order
    BY <1>4 DEF CheckOrder
  <2>2. nonce + 1 \in Slots /\ status[nonce + 1] = "none"
    BY <1>1, <2>1, NextSlot DEF Kinds, Unused
  <2>3. \A i \in Slots : Ended(i) => order'[i] = order[i]
    BY <1>1, <2>1, <2>2 DEF Kinds, Ended
  <2>4. Recount'
    BY <1>1, <2>1, <2>3, QuietRecount DEF Ended
  <2> QED
    BY <2>1, <2>4 DEF EquityRead
<1>5. ASSUME QueueOrder PROVE Recount' /\ EquityRead'
  <2>1. /\ UNCHANGED <<order, traded, closed, orders, open, position, phase>> /\ placing # None /\ phase = "idle"
        /\ status' = [status EXCEPT ![placing] = "pending"]
    BY <1>5 DEF QueueOrder
  <2>2. placing \in Slots /\ status[placing] = "none"
    BY <1>1, <2>1 DEF Kinds, Placed
  <2>3. \A i \in Slots : (Ended(i)' <=> Ended(i)) /\ (status'[i] = "filled" <=> status[i] = "filled")
    BY <1>1, <2>1, <2>2 DEF Kinds, Ended
  <2>4. Recount'
    BY <1>1, <2>1, <2>3, QuietRecount
  <2> QED
    BY <2>1, <2>4 DEF EquityRead
<1>6. ASSUME \/ \E moves \in BOOLEAN : BeginTick(moves)
             \/ CheckMargin
             \/ Advance
             \/ UNCHANGED simVars
      PROVE  Recount' /\ EquityRead'
  <2>1. UNCHANGED <<order, status, traded, closed, orders, open, position, balance>>
    BY <1>6 DEF BeginTick, CheckMargin, Advance, simVars, books
  <2>2. Recount'
    BY <1>1, <2>1, QuietRecount DEF Ended
  <2>3. EquityRead'
    <3>1. CASE \E moves \in BOOLEAN : BeginTick(moves)
      BY <3>1 DEF EquityRead, BeginTick
    <3>2. CASE Advance
      BY <3>2 DEF EquityRead, Advance
    <3>3. CASE CheckMargin
      <4>1. quote' = quote /\ equity' = EquityOf(position)
        BY <3>3 DEF CheckMargin, feed
      <4>2. EquityNow' = EquityNow
        BY <2>1, <4>1 DEF EquityNow
      <4>3. EquityOf(position) = EquityNow
        BY SumsOfTheState DEF EquityNow
      <4> QED
        BY <4>1, <4>2, <4>3 DEF EquityRead
    <3>4. CASE UNCHANGED simVars
      BY <3>4 DEF EquityRead, EquityNow, simVars, books, feed
    <3> QED
      BY <1>6, <3>1, <3>2, <3>3, <3>4
  <2> QED
    BY <2>2, <2>3
<1> QED
  BY <1>2, <1>3, <1>4, <1>5, <1>6 DEF AnyStep, TickStep

LEMMA InitMargined == Init => Recount /\ EquityRead
<1> SUFFICES ASSUME Init PROVE Recount /\ EquityRead
  OBVIOUS
<1>1. \A s : FilledSet(s) = {} /\ NetSum(order, {}) = 0
  BY NetIsSum, SumEmpty DEF Init, FilledSet
<1>2. \A s \in Symbols : RecountOf(s) = [quantity |-> 0, basis |-> 0]
  BY <1>1 DEF RecountOf
<1> QED
  BY <1>2 DEF Init, Recount, EquityRead

Restored ==
    phase = "margin" /\ phase' = "idle" =>
        \/ EquityOf(position) >= Maintenance(position)
        \/ \A s \in Symbols : ~Held(s)

LEMMA AdvanceRestored == ASSUME Sound, EquityRead, AnyStep PROVE Restored
<1> SUFFICES ASSUME phase = "margin", phase' = "idle"
             PROVE  \/ EquityOf(position) >= Maintenance(position)
                    \/ \A s \in Symbols : ~Held(s)
  BY DEF Restored
<1>1. ~Overcommitted
  BY DEF AnyStep, TickStep, CheckOrder, QueueOrder, BeginTick, Commit, CheckMargin, Liquidate, Advance, simVars
<1>2. equity = EquityOf(position)
  BY SumsOfTheState DEF EquityRead, EquityNow
<1>3. equity \in Int /\ Maintenance(position) \in Int
  BY MaintenanceType DEF Sound, TypeOK, Accounts, Counted
<1> QED
  BY <1>1, <1>2, <1>3 DEF Overcommitted

(* For any requests, feed and balance, a tick that ends has restored the     *)
(* margin or left nothing to liquidate: the equity is read once, but no      *)
(* liquidation changes it.                                                   *)
THEOREM MarginRestoredHolds == Spec => MarginRestored
<1>1. Init => Recount /\ EquityRead
  BY InitMargined
<1>2. Sound /\ Sound' /\ (Recount /\ EquityRead) /\ [Next]_simVars => (Recount /\ EquityRead)'
  BY StepMargined, NextIsAnyStep
<1>3. Spec => [](Recount /\ EquityRead)
  BY <1>1, <1>2, SoundHolds, PTL DEF Spec
<1>4. Sound /\ EquityRead /\ [Next]_simVars => Restored
  BY AdvanceRestored, NextIsAnyStep
<1>5. Spec => [][Restored]_simVars
  BY <1>3, <1>4, SoundHolds, PTL DEF Spec
<1> QED
  BY <1>5 DEF MarginRestored, Restored
=============================================================================
