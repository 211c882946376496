------------------------- MODULE StoredOrderProofs -------------------------
(* What the database holds as final, and what it is worth, as long as no    *)
(* order is split, for any playgrounds, orders, crashes, failing saves and  *)
(* transactions, refused legs and late fills: memory holds no other end, no *)
(* step takes a fill back, and the reconcile playground is ahead of the     *)
(* live ones by the fills no live order has taken.  The two legs of a split *)
(* order may end differently; the repository leaves that open               *)
(* (playground.go:764).                                                     *)
EXTENDS LiveTradingProofs

Refused == {"rejected", "canceled"}

(* A leg's row, its record and its trade.  *)
LegRow(l) ==
    /\ Stored(l) =>
          /\ legQty[l] # 0
          /\ dStatus[l] \in Accepted /\ mStatus[l] \in Accepted
          /\ dStatus[l] \in Ended => mStatus[l] = dStatus[l]
          /\ l \in pendingQ => mStatus[l] = "pending"
    /\ l \in cached => Stored(l)
    /\ l \in mTrade <=> mStatus[l] = "filled"
    /\ l \in dTrade <=> dStatus[l] = "filled"

(* An order holds its leg's trade, once, exactly when it is filled.          *)
Counted(o) ==
    /\ applied[<<o, 1>>] \in {0, 1}
    /\ applied[<<o, 1>>] = 1 <=> "filled" \in {mStatus[o], dStatus[o]}
    /\ <<o, 1>> \in dApplied <=> dStatus[o] = "filled"

(* A live order's row and its record. *)
OrderRow(o) ==
    /\ Counted(o)
    /\ dStatus[o] \in Ended =>
          \/ mStatus[o] = dStatus[o]
          \/ dStatus[o] # "filled" /\ mStatus[o] = "pending"
          \/ mStatus[o] = "absent" /\ ~Known(o)

(* Every reject or cancel of a leg and its order, wherever it is noted, goes *)
(* back to the broker's one answer for the leg.                              *)
AtClose == {"close", "closing"}
Said(l) ==
    {dStatus[l], mStatus[l], dStatus[l[1]], mStatus[l[1]], broker[l]}
    \cup {events[i].kind : i \in {j \in 1..Len(events) : events[j].leg = l}}
    \cup IF wpc \in AtClose /\ cur = l[1] THEN {verdict} ELSE {}
Refusals(l) == Said(l) \cap Refused
OneRefusal(l) ==
    /\ \A s, t \in Refusals(l) : s = t
    /\ broker[l] = "pending" \/ (broker[l] = "filled" /\ MaxLateFills = 0)
          => Refusals(l) = {}

FollowsLeg(l) ==
    /\ l[1] \notin newQ
    /\ l[1] \in pendingQ <=> mStatus[l[1]] = "pending"
    /\ mStatus[l[1]] = "absent" => ~Known(l[1])

LegRows == \A l \in Legs : LegRow(l)
OrderRows == \A o \in Orders : OrderRow(o)
OrdersFollowLegs == \A l \in Legs : Stored(l) => FollowsLeg(l) /\ OneRefusal(l)

(* A leg being set back to pending is not filled, and its row, once set      *)
(* back, stays so.                                                           *)
AtReset == {"resetLeg", "resetOrder", "reset", "fill"}
DrainRows ==
    /\ dpc \in AtReset => mStatus[dleg] # "filled"
    /\ dpc \in AtReset \ {"resetLeg"} => dStatus[dleg] = "pending"

(* What the worker fetched as pending is pending, or closed by the drain in  *)
(* row and record alike, until the worker closes it itself; and it closes    *)
(* only an order that had no trade when it looked, which is not filled since.*)
TodoRow(o) ==
    \/ dStatus[o] = "pending"
    \/ dStatus[o] = mStatus[o] /\ dStatus[o] \in Refused /\ ~(dpc = "reset" /\ dleg[1] = o)
NoTradeSeen ==
    \/ wpc = "find" /\ trades = {}
    \/ wpc = "fill" /\ unseen # {}
    \/ wpc \in AtClose
WorkerRows ==
    /\ wpc \in {"orders"} \cup AtOrder =>
          \A o \in todo : o # cur \/ wpc \in {"orders", "find"} \/ trades # {} => TodoRow(o)
    /\ NoTradeSeen => trades = {} /\ mStatus[cur] # "filled" /\ dStatus[cur] # "filled"
    /\ wpc \in AtOrder \ {"find"} => \A l \in unseen : l[1] = cur /\ Stored(l)
    /\ wpc \in AtClose => Stored(<<cur, 1>>)
    /\ wpc = "save" => /\ dStatus[cur] = "pending" /\ mStatus[cur] = "filled"
                       /\ save = "order" /\ unseen = {}

Rows == LegRows /\ OrderRows /\ OrdersFollowLegs /\ DrainRows /\ WorkerRows
NoLateFillLeft == MaxLateFills = 0 => budget["late"] = 0
StoredInv == Inv /\ Quantities /\ Sized /\ NoLateFillLeft /\ Rows

-----------------------------------------------------------------------------
LEMMA Kinds ==
    /\ \A o \in Orders : o \in Items /\ o \notin Legs /\ <<o, 1>> \in Legs /\ <<o, 1>>[1] = o
                         /\ <<o, 1>> \in LegsOf(o)
    /\ \A l \in Legs : l \in Items /\ l \notin Orders /\ l[1] \in Orders /\ l[1] \in Items /\ l # l[1]
<1>1. \A o \in Orders : <<o, 1>> \in Legs /\ <<o, 1>>[1] = o /\ <<o, 1>> \in LegsOf(o)
  BY DEF Legs, LegsOf
<1> QED BY <1>1, LegOrder, ConstantsAssumption DEF Items

LEMMA InitStored == Init => StoredInv
<1> SUFFICES ASSUME Init PROVE StoredInv
  OBVIOUS
<1>1. /\ \A x \in Items : dStatus[x] = "absent" /\ mStatus[x] = "absent"
      /\ cached = {} /\ mTrade = {} /\ dTrade = {} /\ dApplied = {} /\ wpc = "idle" /\ dpc = "idle"
      /\ \A l \in Legs : applied[l] = 0
      /\ budget["late"] = MaxLateFills
  BY DEF Init
<1>2. Inv /\ Quantities
  BY InitTypes DEF TypeInv
<1>3. Sized
  BY DEF Init, Sized, Legs
<1>4. LegRows /\ OrderRows /\ OrdersFollowLegs
  BY <1>1, Kinds DEF LegRows, LegRow, OrderRows, OrderRow, Counted, OrdersFollowLegs, Stored, Ended
<1>5. DrainRows /\ WorkerRows
  BY <1>1 DEF DrainRows, AtReset, WorkerRows, NoTradeSeen, AtOrder, AtClose
<1> QED BY <1>1, <1>2, <1>3, <1>4, <1>5 DEF StoredInv, Rows, NoLateFillLeft

LEMMA Basics ==
    ASSUME StoredInv
    PROVE  /\ Inv /\ ControlTypeOK /\ FillProvenance /\ FillsAreBacked /\ LegsComeAfterOrders
           /\ OnlyStoredLegsMove /\ PlacedOnce /\ WorkerHolds
           /\ dStatus \in [Items -> Status] /\ mStatus \in [Items -> Status]
           /\ mTrade \subseteq Legs /\ dTrade \subseteq mTrade /\ dApplied \subseteq dTrade
           /\ cached \subseteq Legs /\ applied \in [Legs -> Nat] /\ legQty \in [Legs -> Int]
           /\ pos \in [Accounts -> Int]
           /\ \A l \in Legs : applied[l] > 0 => l \in dTrade
           /\ LegRows /\ OrderRows /\ OrdersFollowLegs /\ DrainRows /\ WorkerRows
BY DEF StoredInv, Rows, Inv, FillProvenance, FillsAreBacked, ControlTypeOK, DbTypeOK, MemTypeOK, Quantities

(* Of the legs of an order that is not split only the first is ever stored,  *)
(* and it has the size of the order.                                         *)
LEMMA FirstLeg ==
    ASSUME StoredInv, OneLeg, NEW l \in Legs, Stored(l)
    PROVE  l = <<l[1], 1>> /\ l[1] \in Orders /\ legQty[l] = Quantity[l[1]]
<1>1. PICK o \in Orders, i \in {1, 2} : l = <<o, i>>
  BY DEF Legs
<1>2. legQty[l] # 0 /\ Sized
  BY Basics DEF LegRows, LegRow, StoredInv
<1> QED BY <1>1, <1>2 DEF OneLeg, Sized

LEMMA OnlyLeg ==
    ASSUME StoredInv, OneLeg, NEW l \in Legs, NEW k \in Legs, Stored(l), Stored(k), l[1] = k[1]
    PROVE  l = k
BY FirstLeg

(* A stored leg, and what its order is while the leg has no trade.           *)
LEMMA StoredLeg ==
    ASSUME StoredInv, OneLeg, NEW l \in Legs, Stored(l)
    PROVE  /\ l[1] \in Orders /\ {l, l[1]} \subseteq Items /\ l # l[1] /\ l = <<l[1], 1>>
           /\ LegRow(l) /\ OrderRow(l[1]) /\ FollowsLeg(l) /\ OneRefusal(l)
           /\ dStatus[l[1]] \in Accepted /\ mStatus[l[1]] \in Accepted \cup {"absent"}
           /\ l \notin dTrade => /\ mStatus[l[1]] # "filled" /\ dStatus[l[1]] # "filled"
                                 /\ applied[l] = 0 /\ l \notin dApplied
<1>1. /\ l[1] \in Orders /\ {l, l[1]} \subseteq Items /\ l # l[1] /\ l = <<l[1], 1>>
      /\ LegRow(l) /\ OrderRow(l[1]) /\ FollowsLeg(l) /\ OneRefusal(l)
  BY Kinds, FirstLeg, Basics DEF LegRows, OrderRows, OrdersFollowLegs
<1>2. dStatus[l[1]] \in Accepted /\ mStatus[l[1]] \in Accepted \cup {"absent"}
  BY Basics DEF LegsComeAfterOrders
<1>3. ASSUME l \notin dTrade PROVE applied[l] = 0 /\ l \notin dApplied
  BY <1>3, Basics
<1> QED BY <1>1, <1>2, <1>3 DEF OrderRow, Counted

-----------------------------------------------------------------------------
(* Steps that change little *)

EventsFrom == \A i \in 1..Len(events') : \E j \in 1..Len(events) : events'[i] = events[j]

(* No refusal is new when each is one that was noted already.                *)
LEMMA NoNewRefusal ==
    ASSUME NEW l \in Legs, EventsFrom,
           {dStatus'[l], mStatus'[l], dStatus'[l[1]], mStatus'[l[1]], broker'[l]} \cap Refused \subseteq Refusals(l),
           wpc' \in AtClose /\ cur' = l[1] => verdict' \in Refusals(l)
    PROVE  Refusals(l)' \subseteq Refusals(l)
<1> SUFFICES ASSUME NEW s \in Refusals(l)' PROVE s \in Refusals(l)
  OBVIOUS
<1>1. s \in Refused /\ s \in Said(l)'
  BY DEF Refusals, Refused
<1>2. CASE s \in {dStatus'[l], mStatus'[l], dStatus'[l[1]], mStatus'[l[1]], broker'[l]}
  BY <1>1, <1>2
<1>3. CASE wpc' \in AtClose /\ cur' = l[1] /\ s = verdict'
  BY <1>3
<1>4. ASSUME NEW i \in 1..Len(events'), events'[i].leg = l, s = events'[i].kind PROVE s \in Refusals(l)
  <2>1. PICK j \in 1..Len(events) : events'[i] = events[j]
    BY <1>4 DEF EventsFrom
  <2> QED BY <1>1, <1>4, <2>1 DEF Refusals, Said
<1>5. \/ s \in {dStatus'[l], mStatus'[l], dStatus'[l[1]], mStatus'[l[1]], broker'[l]}
      \/ wpc' \in AtClose /\ cur' = l[1] /\ s = verdict'
      \/ \E i \in 1..Len(events') : events'[i].leg = l /\ s = events'[i].kind
  BY <1>1 DEF Said
<1> QED BY <1>2, <1>3, <1>4, <1>5

LEMMA OneRefusalKept ==
    ASSUME NEW l \in Legs, OneRefusal(l), Refusals(l)' \subseteq Refusals(l), broker'[l] = broker[l]
    PROVE  OneRefusal(l)'
BY DEF OneRefusal

LEMMA TailEvents ==
    ASSUME StoredInv, events # <<>>, events' = Tail(events)
    PROVE  EventsFrom
BY EventType DEF EventsFrom, StoredInv, Inv, ControlTypeOK

LEMMA NoEvents == UNCHANGED events => EventsFrom
BY DEF EventsFrom

(* A step that touches no order and no leg. *)
LEMMA RowsKept ==
    ASSUME StoredInv,
           UNCHANGED <<dStatus, dTrade, dApplied, mStatus, pendingQ, newQ, mTrade, applied, cached,
                       broker, legQty>>,
           \A o \in Orders : ~Known(o) => ~Known(o)',
           \A l \in Legs : Stored(l) => Refusals(l)' \subseteq Refusals(l)
    PROVE  LegRows' /\ OrderRows' /\ OrdersFollowLegs'
<1>1. LegRows /\ OrderRows /\ OrdersFollowLegs
  BY Basics
<1>2. LegRows'
  BY <1>1 DEF LegRows, LegRow, Stored
<1>3. OrderRows'
  BY <1>1 DEF OrderRows, OrderRow, Counted
<1>4. OrdersFollowLegs'
  <2> SUFFICES ASSUME NEW l \in Legs, Stored(l)' PROVE FollowsLeg(l)' /\ OneRefusal(l)'
    BY DEF OrdersFollowLegs
  <2>1. Stored(l) /\ FollowsLeg(l) /\ OneRefusal(l) /\ l[1] \in Orders
    BY <1>1, Kinds DEF Stored, OrdersFollowLegs
  <2>2. OneRefusal(l)'
    BY <2>1, OneRefusalKept
  <2> QED BY <2>1, <2>2 DEF FollowsLeg
<1> QED BY <1>2, <1>3, <1>4

(* A step that touches one stored leg and its order at most. *)
LEMMA TouchedStep ==
    ASSUME StoredInv, OneLeg, NEW l \in Legs, Stored(l),
           \A x \in Items : x \notin {l, l[1]} =>
               /\ dStatus'[x] = dStatus[x] /\ mStatus'[x] = mStatus[x]
               /\ x \in pendingQ' <=> x \in pendingQ
               /\ x \in newQ' <=> x \in newQ,
           \A k \in Legs : k # l =>
               /\ k \in mTrade' <=> k \in mTrade
               /\ k \in dTrade' <=> k \in dTrade
               /\ k \in dApplied' <=> k \in dApplied
               /\ k \in cached' => k \in cached
               /\ applied'[k] = applied[k],
           UNCHANGED <<alive, legQty, broker>>, EventsFrom,
           wpc' \in AtClose => cur' = l[1] \/ (wpc \in AtClose /\ UNCHANGED <<cur, verdict>>),
           LegRow(l)', OrderRow(l[1])', FollowsLeg(l)', Refusals(l)' \subseteq Refusals(l)
    PROVE  LegRows' /\ OrderRows' /\ OrdersFollowLegs'
<1>1. LegRows /\ OrderRows /\ OrdersFollowLegs
  BY Basics
<1>2. ASSUME NEW k \in Legs, k # l
      PROVE  /\ dStatus'[k] = dStatus[k] /\ mStatus'[k] = mStatus[k] /\ (k \in pendingQ' <=> k \in pendingQ)
             /\ Stored(k)' <=> Stored(k)
  BY <1>2, Kinds DEF Stored
<1>3. ASSUME NEW k \in Legs, k # l, Stored(k)
      PROVE  /\ k[1] \in Items /\ k[1] # l[1] /\ k[1] # l
             /\ dStatus'[k[1]] = dStatus[k[1]] /\ mStatus'[k[1]] = mStatus[k[1]]
             /\ k[1] \in pendingQ' <=> k[1] \in pendingQ
             /\ k[1] \in newQ' <=> k[1] \in newQ
  BY <1>3, Kinds, OnlyLeg
<1>4. LegRows'
  <2> SUFFICES ASSUME NEW k \in Legs, k # l PROVE LegRow(k)'
    BY DEF LegRows
  <2> QED BY <1>1, <1>2 DEF LegRows, LegRow
<1>5. OrderRows'
  <2> SUFFICES ASSUME NEW p \in Orders, p # l[1] PROVE OrderRow(p)'
    BY DEF OrderRows
  <2>1. p \in Items /\ p # l /\ <<p, 1>> \in Legs /\ <<p, 1>> # l
    BY Kinds
  <2>2. OrderRow(p)
    BY <1>1 DEF OrderRows
  <2> QED BY <2>1, <2>2 DEF OrderRow, Counted, Known
<1>6. OrdersFollowLegs'
  <2> SUFFICES ASSUME NEW k \in Legs, Stored(k)' PROVE FollowsLeg(k)' /\ OneRefusal(k)'
    BY DEF OrdersFollowLegs
  <2>1. CASE k = l
    <3>1. OneRefusal(l)
      BY <1>1 DEF OrdersFollowLegs
    <3> QED BY <2>1, <3>1, OneRefusalKept
  <2>2. CASE k # l
    <3>1. Stored(k) /\ FollowsLeg(k) /\ OneRefusal(k)
      BY <1>1, <1>2, <2>2 DEF OrdersFollowLegs
    <3>2. FollowsLeg(k)'
      BY <1>3, <2>2, <3>1 DEF FollowsLeg, Known
    <3>3. {dStatus'[k], mStatus'[k], dStatus'[k[1]], mStatus'[k[1]], broker'[k]} \cap Refused \subseteq Refusals(k)
      BY <1>2, <1>3, <2>2, <3>1 DEF Refusals, Said
    <3>4. wpc' \in AtClose /\ cur' = k[1] => verdict' \in Refusals(k)
      <4>1. SUFFICES ASSUME wpc' \in AtClose, cur' = k[1] PROVE verdict' \in Refusals(k)
        OBVIOUS
      <4>2. wpc \in AtClose /\ cur = k[1] /\ verdict' = verdict
        BY <1>3, <2>2, <3>1, <4>1
      <4>3. verdict \in Refused
        BY <4>2, Basics DEF WorkerHolds, AtClose, ControlTypeOK, WorkerTypeOK, Refused
      <4> QED BY <4>2, <4>3 DEF Refusals, Said
    <3> QED BY <3>1, <3>2, <3>3, <3>4, NoNewRefusal, OneRefusalKept
  <2> QED BY <2>1, <2>2
<1> QED BY <1>4, <1>5, <1>6

(* The worker's work is undisturbed as long as the orders it has are. *)
LEMMA WorkerRowsKept ==
    ASSUME StoredInv, UNCHANGED <<wpc, todo, cur, trades, unseen, save>>,
           \A o \in Orders : dStatus[o] \in Accepted =>
               /\ dStatus[o] # "filled" => dStatus'[o] # "filled"
               /\ mStatus[o] # "filled" => mStatus'[o] # "filled"
               /\ TodoRow(o) => TodoRow(o)',
           \A l \in Legs : Stored(l) => Stored(l)',
           wpc = "save" => dStatus'[cur] = "pending" /\ mStatus'[cur] = "filled"
    PROVE  WorkerRows'
<1>1. WorkerRows /\ WorkerHolds /\ unseen \subseteq Legs
  BY Basics DEF ControlTypeOK, WorkerTypeOK
<1>2. wpc \in {"orders"} \cup AtOrder => \A o \in todo : o \in Orders /\ dStatus[o] \in Accepted
  BY <1>1 DEF WorkerHolds
<1>3. wpc \in AtOrder => cur \in todo /\ cur \in Orders /\ dStatus[cur] \in Accepted
  BY <1>1, <1>2 DEF WorkerHolds
<1>4. NoTradeSeen' <=> NoTradeSeen
  BY DEF NoTradeSeen
<1>5. NoTradeSeen => wpc \in AtOrder
  BY DEF NoTradeSeen, AtOrder, AtClose
<1>6. wpc \in AtClose => Stored(<<cur, 1>>)'
  BY <1>1, <1>3, Kinds DEF WorkerRows, AtClose, AtOrder
<1>7. wpc \in AtOrder \ {"find"} => \A l \in unseen : l[1] = cur /\ Stored(l)'
  BY <1>1 DEF WorkerRows
<1>8. wpc \in {"orders"} \cup AtOrder =>
          \A o \in todo : o # cur \/ wpc \in {"orders", "find"} \/ trades # {} => TodoRow(o)'
  BY <1>1, <1>2 DEF WorkerRows
<1>9. NoTradeSeen => trades = {} /\ mStatus'[cur] # "filled" /\ dStatus'[cur] # "filled"
  BY <1>1, <1>3, <1>5 DEF WorkerRows
<1> QED BY <1>1, <1>4, <1>6, <1>7, <1>8, <1>9 DEF WorkerRows

LEMMA DrainRowsKept ==
    ASSUME StoredInv, UNCHANGED <<dpc, dleg>>,
           \A l \in Legs : Stored(l) => dStatus'[l] = dStatus[l] /\ mStatus'[l] = mStatus[l]
    PROVE  DrainRows'
<1>1. DrainRows /\ (dpc # "idle" => dleg \in Legs /\ Stored(dleg))
  BY Basics DEF OnlyStoredLegsMove
<1> QED BY <1>1 DEF DrainRows, AtReset

-----------------------------------------------------------------------------
(* A step on an order that is not accepted, which has no stored leg, as each *)
(* step of a placement is.                                                   *)
LEMMA UnacceptedStep ==
    ASSUME StoredInv, NEW o \in Orders, dStatus[o] \notin Accepted,
           \A x \in Items : x # o /\ x \notin LegsOf(o) =>
               /\ dStatus'[x] = dStatus[x] /\ mStatus'[x] = mStatus[x]
               /\ x \in pendingQ' <=> x \in pendingQ
               /\ x \in newQ' <=> x \in newQ,
           \A l \in Legs : l \notin LegsOf(o) => legQty'[l] = legQty[l] /\ broker'[l] = broker[l],
           \A l \in LegsOf(o) :
               /\ mStatus'[l] = "filled" => mStatus[l] = "filled"
               /\ Stored(l)' =>
                     /\ dStatus'[l] = "pending" /\ mStatus'[l] = "pending"
                     /\ dStatus'[o] = "pending" /\ mStatus'[o] = "pending"
                     /\ legQty'[l] # 0 /\ o \in pendingQ' /\ o \notin newQ',
           dStatus'[o] \in Ended => mStatus'[o] = dStatus'[o],
           "filled" \in {mStatus'[o], dStatus'[o]} => mStatus[o] = "filled",
           UNCHANGED <<dTrade, dApplied, mTrade, applied, cached, alive, events, dpc, dleg>>,
           UNCHANGED <<wpc, todo, cur, trades, unseen, verdict, save>> \/ wpc' \in {"new", "idle"}
    PROVE  Rows'
<1>1. /\ LegRows /\ OrderRows /\ OrdersFollowLegs /\ ControlTypeOK /\ FillProvenance /\ EventsFrom
      /\ mTrade \subseteq Legs /\ dTrade \subseteq mTrade /\ dApplied \subseteq dTrade /\ cached \subseteq Legs
      /\ \A l \in Legs : applied[l] > 0 => l \in dTrade
  BY Basics, NoEvents
<1>2. \A l \in LegsOf(o) : /\ l \in Legs /\ ~Stored(l) /\ l \notin mTrade /\ l \notin dTrade
                           /\ l[1] = o /\ l \notin cached
                           /\ \A i \in 1..Len(events) : events[i].leg # l
  BY <1>1, LegsOfType, NotAccepted DEF LegRows, LegRow
<1>3. \A l \in Legs : l \notin LegsOf(o) =>
          /\ l \in Items /\ l # o /\ l[1] # o /\ l[1] \in Items /\ l[1] \notin LegsOf(o)
  BY Kinds, LegOrder, LegsOfType
<1>4. \A x \in Orders : x # o => x \in Items /\ x \notin LegsOf(o)
  BY Kinds, LegsOfType
<1>5. mStatus'[o] # "filled" /\ dStatus'[o] # "filled" /\ mStatus[o] # "filled" /\ dStatus[o] # "filled"
      /\ applied[<<o, 1>>] = 0 /\ <<o, 1>> \notin dApplied
  <2>1. OrderRow(o) /\ <<o, 1>> \in LegsOf(o)
    BY <1>1, Kinds DEF OrderRows
  <2>2. applied[<<o, 1>>] = 0 /\ <<o, 1>> \notin dApplied
    BY <1>1, <1>2, <2>1 DEF OrderRow, Counted
  <2> QED BY <2>1, <2>2 DEF OrderRow, Counted
<1>6. LegRows'
  <2> SUFFICES ASSUME NEW l \in Legs PROVE LegRow(l)'
    BY DEF LegRows
  <2>1. LegRow(l)
    BY <1>1 DEF LegRows
  <2>2. CASE l \notin LegsOf(o)
    BY <1>3, <2>1, <2>2 DEF LegRow, Stored
  <2>3. CASE l \in LegsOf(o)
    BY <1>2, <2>1, <2>3 DEF LegRow, Stored, Accepted, Ended
  <2> QED BY <2>2, <2>3
<1>7. OrderRows'
  <2> SUFFICES ASSUME NEW p \in Orders PROVE OrderRow(p)'
    BY DEF OrderRows
  <2>1. OrderRow(p)
    BY <1>1 DEF OrderRows
  <2>2. CASE p # o
    BY <1>4, <2>1, <2>2 DEF OrderRow, Counted, Known
  <2>3. CASE p = o
    BY <1>5, <2>3 DEF OrderRow, Counted
  <2> QED BY <2>2, <2>3
<1>8. wpc \in AtClose => cur # o /\ cur \in Orders /\ verdict \in Refused
  BY Basics DEF WorkerHolds, AtClose, AtOrder, ControlTypeOK, WorkerTypeOK, Refused
<1>9. wpc' \in AtClose => wpc \in AtClose /\ cur' = cur /\ verdict' = verdict
  BY DEF AtClose
<1>10. OrdersFollowLegs'
  <2> SUFFICES ASSUME NEW l \in Legs, Stored(l)' PROVE FollowsLeg(l)' /\ OneRefusal(l)'
    BY DEF OrdersFollowLegs
  <2>1. CASE l \notin LegsOf(o)
    <3>1. Stored(l) /\ FollowsLeg(l) /\ OneRefusal(l)
      BY <1>1, <1>3, <2>1 DEF Stored, OrdersFollowLegs
    <3>2. FollowsLeg(l)'
      BY <1>3, <2>1, <3>1 DEF FollowsLeg, Known
    <3>3. {dStatus'[l], mStatus'[l], dStatus'[l[1]], mStatus'[l[1]], broker'[l]} \cap Refused \subseteq Refusals(l)
      BY <1>3, <2>1 DEF Refusals, Said
    <3>4. wpc' \in AtClose /\ cur' = l[1] => verdict' \in Refusals(l)
      BY <1>8, <1>9 DEF Refusals, Said
    <3> QED BY <1>1, <2>1, <3>1, <3>2, <3>3, <3>4, NoNewRefusal, OneRefusalKept
  <2>2. CASE l \in LegsOf(o)
    <3>1. FollowsLeg(l)'
      BY <1>2, <2>2 DEF FollowsLeg
    <3>2. \A i \in 1..Len(events') : events'[i].leg # l
      BY <1>2, <2>2
    <3>3. ~(wpc' \in AtClose /\ cur' = l[1])
      BY <1>2, <1>8, <1>9, <2>2
    <3>4. Refusals(l)' \subseteq {broker'[l]}
      BY <1>2, <2>2, <3>2, <3>3 DEF Refusals, Said, Refused
    <3>5. Refusals(l)' \subseteq Refused
      BY DEF Refusals, Refused
    <3> QED BY <3>1, <3>4, <3>5 DEF OneRefusal, Refused
  <2> QED BY <2>1, <2>2
<1>11. DrainRows'
  <2>1. \A l \in Legs : Stored(l) => dStatus'[l] = dStatus[l] /\ mStatus'[l] = mStatus[l]
    BY <1>2, <1>3
  <2> QED BY <2>1, DrainRowsKept
<1>12. WorkerRows'
  <2>1. CASE wpc' \in {"new", "idle"}
    BY <2>1 DEF WorkerRows, NoTradeSeen, AtOrder, AtClose
  <2>2. CASE UNCHANGED <<wpc, todo, cur, trades, unseen, verdict, save>>
    <3>1. \A p \in Orders : dStatus[p] \in Accepted => dStatus'[p] = dStatus[p] /\ mStatus'[p] = mStatus[p]
      BY <1>4
    <3>2. \A l \in Legs : Stored(l) => Stored(l)'
      BY <1>2, <1>3 DEF Stored
    <3>3. wpc = "save" => /\ cur \in Orders /\ dStatus[cur] \in Accepted
                          /\ dStatus[cur] = "pending" /\ mStatus[cur] = "filled"
      BY Basics DEF WorkerHolds, AtOrder, WorkerRows
    <3> QED BY <2>2, <3>1, <3>2, <3>3, WorkerRowsKept DEF TodoRow
  <2> QED BY <2>1, <2>2
<1> QED BY <1>6, <1>7, <1>10, <1>11, <1>12 DEF Rows

(* An order that is not accepted is not filled in memory either. *)
LEMMA UnacceptedOrder ==
    ASSUME StoredInv, NEW o \in Orders, dStatus[o] \notin Accepted
    PROVE  mStatus[o] # "filled"
<1>1. OrderRow(o) /\ <<o, 1>> \in Legs /\ <<o, 1>>[1] = o /\ <<o, 1>> \in LegsOf(o)
  BY Kinds, Basics DEF OrderRows
<1>2. <<o, 1>> \notin dTrade
  BY <1>1, NotAccepted, Basics
<1>3. applied[<<o, 1>>] = 0
  BY <1>1, <1>2, Basics
<1> QED BY <1>1, <1>3 DEF OrderRow, Counted


(* What is being placed is not accepted yet. *)
LEMMA PlacedOrder ==
    ASSUME StoredInv, NEW c \in Callers, ppc[c] # "idle"
    PROVE  /\ pord[c] \in Orders /\ pord[c] \in Items /\ dStatus[pord[c]] \in {"blank", "new"}
           /\ mStatus[pord[c]] # "filled"
           /\ c = "worker" => wpc = "new"
<1>1. pord[c] \in Orders /\ dStatus[pord[c]] \in {"blank", "new"} /\ (c = "worker" => wpc = "new")
  BY Basics DEF PlacedOnce, Callers
<1> QED BY <1>1, Kinds, UnacceptedOrder DEF Accepted, Ended

LEMMA StartedLegs ==
    ASSUME StoredInv, NEW o \in Orders, NEW c \in Callers,
           StartPlacement(c, o) \/ UNCHANGED legQty
    PROVE  \A l \in Legs : l \notin LegsOf(o) => legQty'[l] = legQty[l]
BY LegOrder DEF StartPlacement

(* A step that changes at most the row and the record of such an order.      *)
LEMMA OwnStep ==
    ASSUME StoredInv, NEW o \in Orders, dStatus[o] \notin Accepted,
           \A x \in Items : x # o =>
               /\ dStatus'[x] = dStatus[x] /\ mStatus'[x] = mStatus[x]
               /\ x \in pendingQ' <=> x \in pendingQ
               /\ x \in newQ' <=> x \in newQ,
           \A l \in Legs : l \notin LegsOf(o) => legQty'[l] = legQty[l] /\ broker'[l] = broker[l],
           dStatus'[o] \notin Ended \/ mStatus'[o] = dStatus'[o],
           dStatus'[o] # "filled", mStatus'[o] # "filled",
           UNCHANGED <<dTrade, dApplied, mTrade, applied, cached, alive, events, dpc, dleg>>,
           UNCHANGED <<wpc, todo, cur, trades, unseen, verdict, save>> \/ wpc' \in {"new", "idle"}
    PROVE  Rows'
<1>1. \A l \in LegsOf(o) : ~Stored(l)' /\ mStatus'[l] = mStatus[l]
  <2> SUFFICES ASSUME NEW l \in LegsOf(o) PROVE ~Stored(l)' /\ mStatus'[l] = mStatus[l]
    OBVIOUS
  <2>1. l \in Legs /\ l \in Items /\ l # o /\ ~Stored(l)
    BY LegsOfType, Kinds, NotAccepted, Basics
  <2> QED BY <2>1 DEF Stored
<1> QED BY <1>1, UnacceptedStep

LEMMA PlaceOrderRows ==
    ASSUME StoredInv, NEW o \in Orders, PlaceOrder(o) PROVE Rows'
<1>1. /\ dStatus[o] \notin Accepted /\ o \in Items /\ dStatus \in [Items -> Status] /\ mStatus[o] # "filled"
  BY Kinds, Basics, UnacceptedOrder DEF PlaceOrder, Accepted, Ended
<1>2. /\ dStatus' = [dStatus EXCEPT ![o] = "blank"]
      /\ UNCHANGED <<dTrade, dApplied, mStatus, pendingQ, newQ, mTrade, applied, cached, alive, events, dpc, dleg>>
      /\ UNCHANGED <<wpc, todo, cur, trades, unseen, verdict, save, broker>>
  BY DEF PlaceOrder, memVars, queueVars, workerVars, lookVars, drainVars, pgVars
<1>3. \A l \in Legs : l \notin LegsOf(o) => legQty'[l] = legQty[l] /\ broker'[l] = broker[l]
  BY <1>2, StartedLegs DEF PlaceOrder, Callers
<1>4. /\ dStatus'[o] = "blank"
      /\ \A x \in Items : x # o => dStatus'[x] = dStatus[x]
  BY <1>1, <1>2
<1> QED BY <1>1, <1>2, <1>3, <1>4, OwnStep DEF Ended

LEMMA SendLegRows ==
    ASSUME StoredInv, NEW c \in Callers, SendLeg(c) PROVE Rows'
<1> DEFINE o == pord[c]
<1>1. o \in Orders /\ o \in Items /\ dStatus[o] \in {"blank", "new"} /\ mStatus[o] # "filled"
  BY PlacedOrder DEF SendLeg
<1>2. \A l \in psend[c] : l \in LegsOf(o)
  BY Basics DEF SendLeg, PlacedOnce
<1>3. /\ UNCHANGED <<dStatus, dTrade, dApplied, mStatus, pendingQ, newQ, mTrade, applied, cached, alive, events, dpc, dleg>>
      /\ UNCHANGED <<wpc, todo, cur, trades, unseen, verdict, save, legQty>>
  BY DEF SendLeg, dbVars, memVars, queueVars, workerVars, lookVars, drainVars, pgVars
<1>4. \A l \in Legs : l \notin LegsOf(o) => legQty'[l] = legQty[l] /\ broker'[l] = broker[l]
  BY <1>2, <1>3, Basics DEF SendLeg, ControlTypeOK, BrokerTypeOK
<1> QED BY <1>1, <1>3, <1>4, OwnStep DEF Accepted, Ended

(* The worker's rejection of an order it could not place, saved or not.      *)
LEMMA RejectNewStep ==
    ASSUME StoredInv, NEW o \in Orders, dStatus[o] \in {"blank", "new"}, RejectNew(o),
           dStatus' \in {dStatus, [dStatus EXCEPT ![o] = "rejected"]}
    PROVE  /\ \A x \in Items : x # o =>
                  /\ dStatus'[x] = dStatus[x] /\ mStatus'[x] = mStatus[x]
                  /\ x \in pendingQ' <=> x \in pendingQ
                  /\ x \in newQ' <=> x \in newQ
           /\ mStatus'[o] = "rejected" /\ dStatus'[o] \in {"blank", "new", "rejected"}
           /\ UNCHANGED <<dTrade, dApplied, mTrade, applied, cached>> /\ wpc' = "idle"
BY Kinds, Basics DEF RejectNew, AddToOrderQueue, EndPoll

LEMMA SendFailsRows ==
    ASSUME StoredInv, NEW c \in Callers, SendFails(c) PROVE Rows'
<1> DEFINE o == pord[c]
<1>1. /\ o \in Orders /\ o \in Items /\ dStatus[o] \in {"blank", "new"} /\ mStatus[o] # "filled"
      /\ dStatus[o] \notin Accepted
  BY PlacedOrder DEF SendFails, Accepted, Ended
<1>2. \A l \in Legs : l \notin LegsOf(o) => legQty'[l] = legQty[l] /\ broker'[l] = broker[l]
  BY Basics DEF SendFails, Forget, Set, ControlTypeOK, BrokerTypeOK
<1>3. UNCHANGED <<alive, events, dpc, dleg>>
  BY DEF SendFails, pgVars, drainVars
<1>4. CASE UNCHANGED <<dbVars, memVars, workerVars>>
  <2>1. /\ UNCHANGED <<dStatus, dTrade, dApplied, mStatus, pendingQ, newQ, mTrade, applied, cached>>
        /\ UNCHANGED <<wpc, todo, cur, trades, unseen, verdict, save>>
    BY <1>4 DEF dbVars, memVars, queueVars, workerVars, lookVars
  <2> QED BY <1>1, <1>2, <1>3, <2>1, OwnStep DEF Ended
<1>5. CASE RejectNew(o) /\ dStatus' \in {dStatus, [dStatus EXCEPT ![o] = "rejected"]}
  <2> HIDE DEF o
  <2> QED BY <1>1, <1>2, <1>3, <1>5, RejectNewStep, OwnStep DEF Ended
<1> QED BY <1>4, <1>5 DEF SendFails

LEMMA CommitQueuedRows ==
    ASSUME StoredInv, NEW c \in Callers, CommitQueued(c) PROVE Rows'
<1> DEFINE o == pord[c]
<1>1. /\ o \in Orders /\ o \in Items /\ dStatus[o] \in {"blank", "new"} /\ mStatus[o] # "filled"
      /\ dStatus[o] \notin Accepted
      /\ dStatus \in [Items -> Status] /\ mStatus \in [Items -> Status]
  BY PlacedOrder, Basics DEF CommitQueued, Accepted, Ended
<1>2. /\ UNCHANGED <<dTrade, dApplied, mTrade, applied, cached, alive, legQty, broker, pendingQ, events, dpc, dleg>>
      /\ newQ' = newQ \cup {o} /\ mStatus' \in {mStatus, [mStatus EXCEPT ![o] = "new"]}
      /\ dStatus' \in {dStatus, Set(dStatus, {o}, mStatus'[o])}
      /\ (UNCHANGED workerVars) \/ EndPoll
  BY DEF CommitQueued, CommitSaved, brokerVars, pgVars, drainVars
<1>3. /\ \A x \in Items : x # o =>
            /\ dStatus'[x] = dStatus[x] /\ mStatus'[x] = mStatus[x]
            /\ x \in newQ' <=> x \in newQ
      /\ mStatus'[o] \in {mStatus[o], "new"} /\ dStatus'[o] \in {dStatus[o], mStatus'[o]}
  BY <1>1, <1>2 DEF Set
<1>4. UNCHANGED <<wpc, todo, cur, trades, unseen, verdict, save>> \/ wpc' \in {"new", "idle"}
  BY <1>2 DEF workerVars, lookVars, EndPoll
<1> QED BY <1>1, <1>2, <1>3, <1>4, OwnStep DEF Ended

LEMMA CommitPlacedRows ==
    ASSUME StoredInv, NEW c \in Callers, CommitPlaced(c) PROVE Rows'
<1> DEFINE o == pord[c]
           legs == {l \in LegsOf(o) : legQty[l] # 0}
           S == {o} \cup legs
<1>1. /\ o \in Orders /\ o \in Items /\ dStatus[o] \in {"blank", "new"} /\ mStatus[o] # "filled"
      /\ dStatus[o] \notin Accepted
      /\ dStatus \in [Items -> Status] /\ mStatus \in [Items -> Status]
  BY PlacedOrder, Basics DEF CommitPlaced, Accepted, Ended
<1>2. \A l \in LegsOf(o) : l \in Legs /\ l \in Items /\ ~Stored(l)
  BY <1>1, LegsOfType, Kinds, NotAccepted, Basics
<1>3. /\ UNCHANGED <<dTrade, dApplied, mTrade, applied, cached, alive, legQty, broker, events, dpc, dleg>>
      /\ newQ' = newQ \ {o} /\ pendingQ' = pendingQ \cup S
      /\ mStatus' = Set(mStatus, S, "pending")
      /\ dStatus' = dStatus \/ dStatus' = Set(dStatus, S, "pending")
      /\ (UNCHANGED workerVars) \/ EndPoll
  BY DEF CommitPlaced, CommitSaved, brokerVars, pgVars, drainVars
<1>4. /\ o \in S /\ S \subseteq Items
      /\ \A l \in LegsOf(o) : l \in S => legQty[l] # 0
      /\ \A x \in Items : x # o /\ x \notin LegsOf(o) => x \notin S
  <2>1. o \in S /\ S \subseteq {o} \cup LegsOf(o) /\ \A l \in S : l # o => legQty[l] # 0
    OBVIOUS
  <2>2. \A l \in LegsOf(o) : l \in Items /\ l # o
    BY <1>1, <1>2, Kinds
  <2> HIDE DEF S, legs
  <2> QED BY <1>1, <2>1, <2>2
<1> HIDE DEF S, legs
<1>5. /\ \A x \in Items : mStatus'[x] = IF x \in S THEN "pending" ELSE mStatus[x]
      /\ \/ dStatus' = dStatus
         \/ \A x \in Items : dStatus'[x] = IF x \in S THEN "pending" ELSE dStatus[x]
  BY <1>1, <1>3 DEF Set
<1>6. \A x \in Items : x # o /\ x \notin LegsOf(o) =>
          /\ dStatus'[x] = dStatus[x] /\ mStatus'[x] = mStatus[x]
          /\ x \in pendingQ' <=> x \in pendingQ
          /\ x \in newQ' <=> x \in newQ
  BY <1>3, <1>4, <1>5
<1>7. \A l \in LegsOf(o) :
          /\ mStatus'[l] = "filled" => mStatus[l] = "filled"
          /\ Stored(l)' =>
                /\ dStatus'[l] = "pending" /\ mStatus'[l] = "pending"
                /\ dStatus'[o] = "pending" /\ mStatus'[o] = "pending"
                /\ legQty'[l] # 0 /\ o \in pendingQ' /\ o \notin newQ'
  <2> SUFFICES ASSUME NEW l \in LegsOf(o)
               PROVE  /\ mStatus'[l] = "filled" => mStatus[l] = "filled"
                      /\ Stored(l)' =>
                            /\ dStatus'[l] = "pending" /\ mStatus'[l] = "pending"
                            /\ dStatus'[o] = "pending" /\ mStatus'[o] = "pending"
                            /\ legQty'[l] # 0 /\ o \in pendingQ' /\ o \notin newQ'
    OBVIOUS
  <2>1. l \in Items /\ dStatus[l] = "absent"
    BY <1>2 DEF Stored
  <2>2. CASE l \notin S
    BY <1>5, <2>1, <2>2 DEF Stored
  <2>3. CASE l \in S
    BY <1>1, <1>3, <1>4, <1>5, <2>1, <2>3 DEF Stored
  <2> QED BY <2>2, <2>3
<1>8. /\ dStatus'[o] \notin Ended /\ mStatus'[o] = "pending" /\ dStatus'[o] # "filled"
  BY <1>1, <1>4, <1>5 DEF Ended
<1>9. UNCHANGED <<wpc, todo, cur, trades, unseen, verdict, save>> \/ wpc' \in {"new", "idle"}
  BY <1>3 DEF workerVars, lookVars, EndPoll
<1>10. \A l \in Legs : l \notin LegsOf(o) => legQty'[l] = legQty[l] /\ broker'[l] = broker[l]
  BY <1>3
<1> HIDE DEF o
<1> QED BY <1>1, <1>3, <1>6, <1>7, <1>8, <1>9, <1>10, UnacceptedStep

LEMMA PlaceNewRows ==
    ASSUME StoredInv, NEW o \in Orders, PlaceNew(o) PROVE Rows'
<1>1. /\ dStatus[o] = "new" /\ o \in Items /\ dStatus[o] \notin Accepted /\ mStatus[o] # "filled"
      /\ wpc' \in {"new", "idle"}
  BY Kinds, Basics, UnacceptedOrder DEF PlaceNew, WorkerHolds, Accepted, Ended, RejectNew, EndPoll
<1>2. UNCHANGED <<dTrade, dApplied, alive, events, dpc, dleg, broker>>
  BY DEF PlaceNew, pgVars, drainVars
<1>3. \A l \in Legs : l \notin LegsOf(o) => legQty'[l] = legQty[l] /\ broker'[l] = broker[l]
  BY <1>2, StartedLegs DEF PlaceNew, Callers
<1>4. CASE UNCHANGED <<dStatus, memVars>>
  <2>1. UNCHANGED <<dStatus, mStatus, pendingQ, newQ, mTrade, applied, cached>>
    BY <1>4 DEF memVars, queueVars
  <2> QED BY <1>1, <1>2, <1>3, <2>1, OwnStep DEF Ended
<1>5. CASE RejectNew(o) /\ dStatus' \in {dStatus, [dStatus EXCEPT ![o] = "rejected"]}
  BY <1>1, <1>2, <1>3, <1>5, RejectNewStep, OwnStep DEF Ended
<1> QED BY <1>4, <1>5 DEF PlaceNew

-----------------------------------------------------------------------------
(* The drain *)

LEMMA VerdictRefused == StoredInv /\ wpc \in AtClose => verdict \in Refused
BY Basics DEF WorkerHolds, AtClose, ControlTypeOK, WorkerTypeOK, Refused

LEMMA QuietRefusals ==
    ASSUME StoredInv, EventsFrom, UNCHANGED <<dStatus, mStatus, broker>>,
           wpc' \in AtClose => UNCHANGED <<wpc, cur, verdict>>
    PROVE  \A l \in Legs : Refusals(l)' \subseteq Refusals(l)
<1> SUFFICES ASSUME NEW l \in Legs PROVE Refusals(l)' \subseteq Refusals(l)
  OBVIOUS
<1>1. {dStatus'[l], mStatus'[l], dStatus'[l[1]], mStatus'[l[1]], broker'[l]} \cap Refused \subseteq Refusals(l)
  BY DEF Refusals, Said
<1>2. wpc' \in AtClose /\ cur' = l[1] => verdict' \in Refusals(l)
  BY VerdictRefused DEF Refusals, Said
<1> QED BY <1>1, <1>2, NoNewRefusal

(* A step of the drain on one stored leg and its order.                      *)
LEMMA DrainStep ==
    ASSUME StoredInv, OneLeg, NEW l \in Legs, Stored(l),
           \A x \in Items : x \notin {l, l[1]} =>
               /\ dStatus'[x] = dStatus[x] /\ mStatus'[x] = mStatus[x]
               /\ x \in pendingQ' <=> x \in pendingQ
               /\ x \in newQ' <=> x \in newQ,
           \A k \in Legs : k # l =>
               /\ k \in mTrade' <=> k \in mTrade
               /\ k \in dTrade' <=> k \in dTrade
               /\ k \in dApplied' <=> k \in dApplied
               /\ k \in cached' => k \in cached
               /\ applied'[k] = applied[k],
           UNCHANGED <<alive, legQty, broker>>, EventsFrom, UNCHANGED workerVars,
           LegRow(l)', OrderRow(l[1])', FollowsLeg(l)', DrainRows',
           {dStatus'[l], mStatus'[l], dStatus'[l[1]], mStatus'[l[1]]} \cap Refused \subseteq Refusals(l),
           Stored(l)',
           dStatus[l[1]] # "filled" => dStatus'[l[1]] # "filled",
           mStatus[l[1]] # "filled" => mStatus'[l[1]] # "filled",
           TodoRow(l[1]) => TodoRow(l[1])',
           dpc' = "reset" => dleg'[1] = l[1],
           mStatus[l[1]] = "filled" => mStatus'[l[1]] = "filled",
           dStatus[l[1]] = "pending" /\ mStatus[l[1]] = "filled" => dStatus'[l[1]] = "pending"
    PROVE  Rows'
<1>1. UNCHANGED <<wpc, todo, cur, trades, unseen, verdict, save>>
  BY DEF workerVars, lookVars
<1>2. Refusals(l)' \subseteq Refusals(l)
  <2>1. {dStatus'[l], mStatus'[l], dStatus'[l[1]], mStatus'[l[1]], broker'[l]} \cap Refused \subseteq Refusals(l)
    BY DEF Refusals, Said
  <2>2. wpc' \in AtClose /\ cur' = l[1] => verdict' \in Refusals(l)
    BY <1>1, VerdictRefused DEF Refusals, Said
  <2> QED BY <2>1, <2>2, NoNewRefusal
<1>3. LegRows' /\ OrderRows' /\ OrdersFollowLegs'
  BY <1>1, <1>2, TouchedStep
<1>4. \A o \in Orders : o # l[1] =>
          dStatus'[o] = dStatus[o] /\ mStatus'[o] = mStatus[o] /\ (TodoRow(o) => TodoRow(o)')
  BY Kinds DEF TodoRow
<1>5. wpc = "save" => /\ cur \in Orders /\ dStatus[cur] = "pending" /\ mStatus[cur] = "filled"
  BY Basics DEF WorkerHolds, WorkerRows, AtOrder
<1>6. wpc = "save" => dStatus'[cur] = "pending" /\ mStatus'[cur] = "filled"
  BY <1>4, <1>5
<1>7. \A k \in Legs : Stored(k) => Stored(k)'
  BY Kinds DEF Stored
<1>8. WorkerRows'
  BY <1>1, <1>4, <1>6, <1>7, WorkerRowsKept
<1> QED BY <1>3, <1>8 DEF Rows

(* A step of the drain that changes no row and no record. *)
LEMMA DrainPasses ==
    ASSUME StoredInv, EventsFrom, DrainRows', dpc' # "reset",
           UNCHANGED <<dStatus, dTrade, dApplied, mStatus, pendingQ, newQ, mTrade, applied, cached,
                       broker, legQty, alive, workerVars>>
    PROVE  Rows'
<1>1. UNCHANGED <<wpc, todo, cur, trades, unseen, verdict, save>>
  BY DEF workerVars, lookVars
<1>2. LegRows' /\ OrderRows' /\ OrdersFollowLegs'
  BY <1>1, QuietRefusals, RowsKept DEF Known
<1>3. WorkerRows'
  <2>1. wpc = "save" => dStatus[cur] = "pending" /\ mStatus[cur] = "filled"
    BY Basics DEF WorkerRows
  <2>2. \A o \in Orders : TodoRow(o) => TodoRow(o)'
    BY DEF TodoRow
  <2>3. \A l \in Legs : Stored(l) => Stored(l)'
    BY DEF Stored
  <2> QED BY <1>1, <2>1, <2>2, <2>3, WorkerRowsKept
<1> QED BY <1>2, <1>3 DEF Rows

(* What an event says of its leg goes back to the broker. *)
LEMMA Heard ==
    ASSUME StoredInv, events # <<>>, NEW l, l = Head(events).leg
    PROVE  /\ l \in Legs /\ Stored(l)
           /\ Head(events).kind \in Refused => Head(events).kind \in Refusals(l)
<1>1. /\ DrainTypeOK /\ OnlyStoredLegsMove
  BY Basics DEF ControlTypeOK
<1>2. 1 \in 1..Len(events) /\ Head(events) = events[1] /\ l \in Legs
  BY <1>1, EventType
<1> QED BY <1>1, <1>2 DEF OnlyStoredLegsMove, Refusals, Said

LEMMA CommitFillRows ==
    ASSUME StoredInv, OneLeg, NEW l \in Legs, Stored(l), dStatus[l] \notin Ended, CommitFill(l),
           EventsFrom, UNCHANGED <<dbVars, applied, cached, brokerVars, workerVars, pgVars>>
    PROVE  Rows'
<1> DEFINE o == l[1]
<1>1. /\ LegRow(l) /\ OrderRow(o) /\ FollowsLeg(l) /\ o \in Items /\ l # o /\ l \in Items /\ o \in Orders
      /\ mStatus \in [Items -> Status] /\ mTrade \subseteq Legs /\ dTrade \subseteq mTrade
  BY StoredLeg, Basics
<1>2. /\ mStatus' = [mStatus EXCEPT ![l] = "filled"] /\ mTrade' = mTrade \cup {l}
      /\ pendingQ' = pendingQ \ {l} /\ newQ' = newQ \ ({l} \ pendingQ)
      /\ UNCHANGED <<dStatus, dTrade, dApplied, applied, cached, alive, legQty, broker>>
      /\ dpc' = "saveFill" /\ dleg' = l
  BY DEF CommitFill, AddToOrderQueue, FillLeg, dbVars, brokerVars, pgVars
<1>3. mStatus'[l] = "filled" /\ \A x \in Items : x # l => mStatus'[x] = mStatus[x]
  BY <1>1, <1>2
<1>4. LegRow(l)'
  BY <1>1, <1>2, <1>3 DEF LegRow, Stored, Accepted, Ended
<1>5. OrderRow(o)' /\ FollowsLeg(l)'
  BY <1>1, <1>2, <1>3 DEF OrderRow, Counted, FollowsLeg, Known
<1>6. {dStatus'[l], mStatus'[l], dStatus'[o], mStatus'[o]} \cap Refused \subseteq Refusals(l)
  BY <1>1, <1>2, <1>3 DEF Refusals, Said, Refused
<1>7. TodoRow(o) => TodoRow(o)'
  BY <1>1, <1>2, <1>3 DEF TodoRow
<1>8. DrainRows'
  BY <1>2 DEF DrainRows, AtReset
<1>9. Stored(l)'
  BY <1>2 DEF Stored
<1> HIDE DEF o
<1>10. /\ \A x \in Items : x \notin {l, l[1]} =>
               /\ dStatus'[x] = dStatus[x] /\ mStatus'[x] = mStatus[x]
               /\ x \in pendingQ' <=> x \in pendingQ
               /\ x \in newQ' <=> x \in newQ
       /\ \A k \in Legs : k # l =>
               /\ k \in mTrade' <=> k \in mTrade
               /\ k \in dTrade' <=> k \in dTrade
               /\ k \in dApplied' <=> k \in dApplied
               /\ k \in cached' => k \in cached
               /\ applied'[k] = applied[k]
  BY <1>2, <1>3
<1> QED BY <1>1, <1>2, <1>3, <1>4, <1>5, <1>6, <1>7, <1>8, <1>9, <1>10, DrainStep DEF o

LEMMA DrainFillRows ==
    ASSUME StoredInv, OneLeg, DrainFill PROVE Rows'
<1> DEFINE l == Head(events).leg
<1>1. /\ l \in Legs /\ Stored(l) /\ mStatus[l] # "filled" /\ EventsFrom /\ dpc = "idle"
      /\ UNCHANGED <<dbVars, applied, cached, brokerVars, workerVars, pgVars>>
  BY Heard, TailEvents DEF DrainFill, AlreadyFilled
<1>2. CASE l \in pendingQ /\ CommitFill(l)
  <2>1. dStatus[l] \notin Ended
    BY <1>1, <1>2, Basics DEF LegRows, LegRow, Ended
  <2> HIDE DEF l
  <2> QED BY <1>1, <1>2, <2>1, CommitFillRows
<1>3. CASE UNCHANGED <<mStatus, queueVars, mTrade>> /\ ((dpc' = "resetLeg" /\ dleg' = l) \/ UNCHANGED drainVars)
  <2>1. DrainRows' /\ dpc' # "reset"
    BY <1>1, <1>3 DEF DrainRows, AtReset, drainVars
  <2>2. UNCHANGED <<dStatus, dTrade, dApplied, mStatus, pendingQ, newQ, mTrade, applied, cached, broker,
                    legQty, alive, workerVars>>
    BY <1>1, <1>3 DEF dbVars, brokerVars, pgVars, queueVars
  <2> QED BY <1>1, <2>1, <2>2, DrainPasses
<1> QED BY <1>2, <1>3 DEF DrainFill

LEMMA DrainSkipRows ==
    ASSUME StoredInv, DrainSkip PROVE Rows'
<1>1. EventsFrom
  BY TailEvents DEF DrainSkip
<1>2. DrainRows' /\ dpc' # "reset"
  BY DEF DrainSkip, DrainRows, AtReset, drainVars
<1>3. UNCHANGED <<dStatus, dTrade, dApplied, mStatus, pendingQ, newQ, mTrade, applied, cached, broker,
                  legQty, alive, workerVars>>
  BY DEF DrainSkip, dbVars, brokerVars, pgVars, memVars, queueVars
<1> QED BY <1>1, <1>2, <1>3, DrainPasses

(* A leg being set back: it and its order have no trade. *)
LEMMA Resetting ==
    ASSUME StoredInv, OneLeg, dpc \in AtReset, NEW l, l = dleg
    PROVE  /\ l \in Legs /\ Stored(l) /\ mStatus[l] # "filled" /\ l \notin mTrade /\ l \notin dTrade
           /\ dpc # "resetLeg" => dStatus[l] = "pending"
           /\ mStatus[l[1]] # "filled" /\ dStatus[l[1]] # "filled"
<1>1. l \in Legs /\ Stored(l) /\ mStatus[l] # "filled" /\ (dpc # "resetLeg" => dStatus[l] = "pending")
  BY Basics DEF OnlyStoredLegsMove, AtReset, DrainRows
<1>2. l \notin mTrade /\ l \notin dTrade
  BY <1>1, Basics DEF LegRows, LegRow
<1> QED BY <1>1, <1>2, StoredLeg

LEMMA ResetRowRows ==
    ASSUME StoredInv, OneLeg, ResetRow PROVE Rows'
<1> SUFFICES ASSUME NEW l, l = dleg PROVE Rows'
  OBVIOUS
<1> DEFINE o == l[1]
<1>1. /\ l \in Legs /\ Stored(l) /\ mStatus[l] # "filled" /\ l \notin mTrade /\ l \notin dTrade
      /\ mStatus[o] # "filled" /\ dStatus[o] # "filled" /\ (dpc # "resetLeg" => dStatus[l] = "pending")
  BY Resetting DEF ResetRow, AtReset
<1>2. /\ LegRow(l) /\ OrderRow(o) /\ FollowsLeg(l) /\ o \in Items /\ l # o /\ l \in Items /\ o \in Orders
      /\ dStatus \in [Items -> Status] /\ mStatus \in [Items -> Status]
      /\ applied[l] = 0 /\ l \notin dApplied
  BY <1>1, StoredLeg, Basics
<1>3. /\ UNCHANGED <<dTrade, dApplied, mStatus, pendingQ, newQ, mTrade, applied, broker, legQty, alive, workerVars, events>>
      /\ EventsFrom
  BY NoEvents DEF ResetRow, queueVars, brokerVars, pgVars
<1>4. CASE dpc' = "idle" /\ UNCHANGED <<dStatus, cached>>
  <2>1. DrainRows' /\ dpc' # "reset"
    BY <1>4 DEF DrainRows, AtReset
  <2> QED BY <1>3, <1>4, <2>1, DrainPasses
<1>5. ASSUME NEW x \in {l, o}, dStatus' = [dStatus EXCEPT ![x] = "pending"], cached' = cached \ {x},
             \/ dleg' = dleg /\ dpc' = IF x = l THEN "resetOrder" ELSE "reset"
             \/ dpc' = "idle",
             x = o => dStatus[l] = "pending"
      PROVE  Rows'
  <2>1. dStatus'[x] = "pending" /\ \A y \in Items : y # x => dStatus'[y] = dStatus[y]
    BY <1>2, <1>5
  <2>2. LegRow(l)'
    BY <1>1, <1>2, <1>3, <1>5, <2>1 DEF LegRow, Stored, Accepted, Ended
  <2>3. OrderRow(o)' /\ FollowsLeg(l)'
    BY <1>1, <1>2, <1>3, <1>5, <2>1 DEF OrderRow, Counted, FollowsLeg, Known, Ended
  <2>4. {dStatus'[l], mStatus'[l], dStatus'[o], mStatus'[o]} \cap Refused \subseteq Refusals(l)
    BY <1>2, <1>3, <1>5, <2>1 DEF Refusals, Said, Refused
  <2>5. TodoRow(o) => TodoRow(o)'
    BY <1>2, <1>3, <1>5, <2>1 DEF TodoRow
  <2>6. DrainRows' /\ Stored(l)'
    BY <1>1, <1>2, <1>3, <1>5, <2>1 DEF DrainRows, AtReset, Stored
  <2>7. /\ \A y \in Items : y \notin {l, o} =>
               /\ dStatus'[y] = dStatus[y] /\ mStatus'[y] = mStatus[y]
               /\ y \in pendingQ' <=> y \in pendingQ
               /\ y \in newQ' <=> y \in newQ
        /\ \A k \in Legs : k # l =>
               /\ k \in mTrade' <=> k \in mTrade
               /\ k \in dTrade' <=> k \in dTrade
               /\ k \in dApplied' <=> k \in dApplied
               /\ k \in cached' => k \in cached
               /\ applied'[k] = applied[k]
    BY <1>3, <1>5, <2>1
  <2>8. dStatus'[o] # "filled" /\ mStatus'[o] # "filled" /\ (dpc' = "reset" => dleg'[1] = o)
    BY <1>1, <1>2, <1>3, <1>5, <2>1
  <2> QED BY <1>1, <1>3, <2>2, <2>3, <2>4, <2>5, <2>6, <2>7, <2>8, DrainStep
<1>6. ASSUME dpc = "resetLeg", dStatus' = [dStatus EXCEPT ![l] = "pending"], cached' = cached \ {l},
             dpc' = "resetOrder", dleg' = dleg
      PROVE  Rows'
  BY <1>2, <1>5, <1>6
<1>7. ASSUME dpc = "resetOrder", dStatus' = [dStatus EXCEPT ![o] = "pending"], cached' = cached \ {o},
             (dpc' = "reset" /\ dleg' = dleg) \/ dpc' = "idle"
      PROVE  Rows'
  BY <1>1, <1>2, <1>5, <1>7
<1> QED BY <1>4, <1>6, <1>7 DEF ResetRow

LEMMA ResetRecordsRows ==
    ASSUME StoredInv, OneLeg, ResetRecords PROVE Rows'
<1> SUFFICES ASSUME NEW l, l = dleg PROVE Rows'
  OBVIOUS
<1> DEFINE o == l[1]
<1>1. /\ l \in Legs /\ Stored(l) /\ mStatus[l] # "filled" /\ l \notin mTrade /\ l \notin dTrade
      /\ mStatus[o] # "filled" /\ dStatus[o] # "filled" /\ dStatus[l] = "pending" /\ dpc = "reset"
  BY Resetting DEF ResetRecords, AtReset
<1>2. /\ LegRow(l) /\ OrderRow(o) /\ FollowsLeg(l) /\ o \in Items /\ l # o /\ l \in Items /\ o \in Orders
      /\ mStatus \in [Items -> Status] /\ applied[l] = 0 /\ l \notin dApplied /\ dStatus[o] \in Accepted
  BY <1>1, StoredLeg, Basics
<1>3. /\ UNCHANGED <<dStatus, dTrade, dApplied, newQ, mTrade, applied, cached, broker, legQty, alive, workerVars>>
      /\ UNCHANGED events /\ EventsFrom /\ pendingQ' = pendingQ \cup {l, o} /\ mStatus' = Set(mStatus, {l, o}, "pending")
      /\ dpc' = "fill" /\ dleg' = dleg
  BY NoEvents DEF ResetRecords, dbVars, brokerVars, pgVars
<1>4. /\ mStatus'[l] = "pending" /\ mStatus'[o] = "pending"
      /\ \A x \in Items : x \notin {l, o} => mStatus'[x] = mStatus[x]
  BY <1>2, <1>3 DEF Set
<1>5. LegRow(l)'
  BY <1>1, <1>2, <1>3, <1>4 DEF LegRow, Stored, Accepted, Ended
<1>6. OrderRow(o)' /\ FollowsLeg(l)'
  BY <1>1, <1>2, <1>3, <1>4 DEF OrderRow, Counted, FollowsLeg
<1>7. {dStatus'[l], mStatus'[l], dStatus'[o], mStatus'[o]} \cap Refused \subseteq Refusals(l)
  BY <1>3, <1>4 DEF Refusals, Said, Refused
<1>8. TodoRow(o) => TodoRow(o)'
  BY <1>1, <1>3 DEF TodoRow
<1>9. DrainRows' /\ Stored(l)'
  BY <1>1, <1>3, <1>4 DEF DrainRows, Stored
<1>10. /\ \A x \in Items : x \notin {l, o} =>
               /\ dStatus'[x] = dStatus[x] /\ mStatus'[x] = mStatus[x]
               /\ x \in pendingQ' <=> x \in pendingQ
               /\ x \in newQ' <=> x \in newQ
       /\ \A k \in Legs : k # l =>
               /\ k \in mTrade' <=> k \in mTrade
               /\ k \in dTrade' <=> k \in dTrade
               /\ k \in dApplied' <=> k \in dApplied
               /\ k \in cached' => k \in cached
               /\ applied'[k] = applied[k]
  BY <1>3, <1>4
<1> QED BY <1>1, <1>3, <1>4, <1>5, <1>6, <1>7, <1>8, <1>9, <1>10, DrainStep

LEMMA FillAfterResetRows ==
    ASSUME StoredInv, OneLeg, FillAfterReset PROVE Rows'
<1>1. dleg \in Legs /\ Stored(dleg) /\ dStatus[dleg] \notin Ended
  BY Resetting DEF FillAfterReset, AtReset, Ended
<1> QED BY <1>1, CommitFillRows, NoEvents DEF FillAfterReset, pgVars

(* What a close makes of the records of a leg and its order, and of the      *)
(* order's row: the leg, still pending, and the order have no trade, and     *)
(* whatever end they were given before is the one they are given now.        *)
ClosedBy(l, kind) ==
    /\ \A x \in Items : x \notin {l, l[1]} =>
          /\ dStatus'[x] = dStatus[x] /\ mStatus'[x] = mStatus[x]
          /\ x \in pendingQ' <=> x \in pendingQ
          /\ x \in newQ' <=> x \in newQ
    /\ dStatus'[l] = dStatus[l]
    /\ mStatus'[l] = "pending" \/ (mStatus'[l] = kind /\ l \notin pendingQ')
    /\ l[1] \notin newQ' /\ dApplied' = dApplied
    /\ \/ /\ mStatus'[l[1]] = mStatus[l[1]] /\ dStatus'[l[1]] = dStatus[l[1]]
          /\ l[1] \in pendingQ' <=> l[1] \in pendingQ
       \/ /\ mStatus'[l[1]] = kind /\ l[1] \notin pendingQ' /\ mStatus[l[1]] \in {"pending", kind}
          /\ dStatus'[l[1]] \in {dStatus[l[1]], mStatus[l[1]]}

LEMMA Closed ==
    ASSUME StoredInv, OneLeg, NEW l \in Legs, Stored(l), mStatus[l] = "pending",
           NEW kind \in Refusals(l), NEW S \in {{}, {l[1]}, {l, l[1]}}, CloseRecords(l, kind, S),
           (CloseRows(l) /\ S = {l, l[1]}) \/ UNCHANGED <<dStatus, dApplied>>
    PROVE  ClosedBy(l, kind)
<1> DEFINE o == l[1]
           known == l \in linked \/ o \in pendingQ \cup newQ
           closed == IF known THEN S ELSE S \ {o}
<1>1. /\ LegRow(l) /\ OrderRow(o) /\ FollowsLeg(l) /\ OneRefusal(l) /\ o \in Items /\ l # o /\ l \in Items
      /\ o \in Orders /\ dStatus \in [Items -> Status] /\ mStatus \in [Items -> Status]
      /\ mStatus[o] \in Accepted \cup {"absent"} /\ l \notin dTrade
  <2>1. mTrade \subseteq Legs /\ dTrade \subseteq mTrade
    BY Basics
  <2> QED BY <2>1, StoredLeg, Basics DEF LegRow
<1>2. mStatus[o] # "filled" /\ dStatus[o] # "filled"
  BY <1>1, StoredLeg
<1>3. l \in linked => mStatus[o] # "absent"
  BY <1>1, Basics DEF OnlyStoredLegsMove
<1>4. mStatus[o] \in Refused => mStatus[o] = kind
  BY <1>1 DEF OneRefusal, Refusals, Said
<1>5. known => mStatus[o] \in {"pending", kind}
  BY <1>1, <1>2, <1>3, <1>4 DEF FollowsLeg, Accepted, Ended, Refused
<1>6. /\ mStatus' = Set(mStatus, closed, kind) /\ pendingQ' = pendingQ \ S /\ newQ' = newQ \ (S \ pendingQ)
  BY DEF CloseRecords, AddToOrderQueue
<1>7. dApplied' = dApplied
  <2>1. CASE UNCHANGED dApplied
    BY <2>1
  <2>2. CASE dApplied' = dApplied \cup {t \in LegsOf(o) : applied[t] > 0}
    <3>1. ASSUME NEW t \in LegsOf(o), applied[t] > 0 PROVE FALSE
      <4>1. t \in Legs /\ t[1] = o /\ t \in dTrade
        BY <1>1, <3>1, LegsOfType, Basics
      <4>2. Stored(t)
        BY <4>1, Basics DEF OnlyStoredLegsMove
      <4> QED BY <1>1, <4>1, <4>2, OnlyLeg
    <3> QED BY <2>2, <3>1
  <2> QED BY <2>1, <2>2 DEF CloseRows
<1>8. /\ \A x \in Items : x # o => dStatus'[x] = dStatus[x]
      /\ \/ dStatus'[o] = dStatus[o]
         \/ dStatus'[o] = mStatus[o] /\ known /\ S = {l, o}
  BY <1>1 DEF CloseRows
<1>9. \A x \in Items : mStatus'[x] = IF x \in closed THEN kind ELSE mStatus[x]
  BY <1>1, <1>6 DEF Set
<1>10. closed \subseteq S /\ S \subseteq {l, o} /\ (o \in closed <=> known /\ o \in S) /\ (l \in closed <=> l \in S)
  BY <1>1
<1>11. o \notin newQ /\ (~known => o \notin pendingQ) /\ kind \in Refused
  BY <1>1 DEF FollowsLeg, Refusals
<1> HIDE DEF closed, known
<1>12. CASE o \in closed
  BY <1>1, <1>5, <1>6, <1>7, <1>8, <1>9, <1>10, <1>11, <1>12 DEF ClosedBy
<1>13. CASE o \notin closed
  BY <1>1, <1>6, <1>7, <1>8, <1>9, <1>10, <1>11, <1>13 DEF ClosedBy
<1> QED BY <1>12, <1>13

LEMMA CloseRecordsRows ==
    ASSUME StoredInv, OneLeg, NEW l \in Legs, Stored(l), mStatus[l] = "pending",
           NEW kind \in Refusals(l), NEW S \in {{}, {l[1]}, {l, l[1]}}, CloseRecords(l, kind, S),
           (CloseRows(l) /\ S = {l, l[1]}) \/ UNCHANGED <<dStatus, dApplied>>,
           UNCHANGED <<dTrade, mTrade, applied, cached, brokerVars, workerVars, pgVars>>, EventsFrom,
           dpc' \in {"idle", "saveClose"}
    PROVE  Rows'
<1> DEFINE o == l[1]
<1>1. /\ LegRow(l) /\ OrderRow(o) /\ FollowsLeg(l) /\ OneRefusal(l) /\ o \in Items /\ l # o /\ l \in Items
      /\ o \in Orders
      /\ mStatus[o] # "filled" /\ dStatus[o] # "filled" /\ applied[l] = 0 /\ l \notin dApplied
      /\ l = <<o, 1>> /\ l \notin mTrade /\ l \notin dTrade
  <2>1. mTrade \subseteq Legs /\ dTrade \subseteq mTrade /\ l \notin mTrade
    BY Basics DEF LegRows, LegRow
  <2> QED BY <2>1, StoredLeg
<1>2. UNCHANGED <<dTrade, mTrade, applied, cached, broker, legQty, alive>>
  BY DEF brokerVars, pgVars
<1>3. kind \in Refused
  BY DEF Refusals
<1>4. /\ dStatus'[l] = dStatus[l]
      /\ mStatus'[l] = "pending" \/ (mStatus'[l] = kind /\ l \notin pendingQ')
      /\ o \notin newQ' /\ dApplied' = dApplied
      /\ \/ /\ mStatus'[o] = mStatus[o] /\ dStatus'[o] = dStatus[o]
            /\ o \in pendingQ' <=> o \in pendingQ
         \/ /\ mStatus'[o] = kind /\ o \notin pendingQ' /\ mStatus[o] \in {"pending", kind}
            /\ dStatus'[o] \in {dStatus[o], mStatus[o]}
  <2>1. ClosedBy(l, kind)
    BY Closed, Zenon
  <2> QED BY <2>1 DEF ClosedBy
<1>5. /\ \A x \in Items : x \notin {l, o} =>
               /\ dStatus'[x] = dStatus[x] /\ mStatus'[x] = mStatus[x]
               /\ x \in pendingQ' <=> x \in pendingQ
               /\ x \in newQ' <=> x \in newQ
      /\ \A k \in Legs : k # l =>
               /\ k \in mTrade' <=> k \in mTrade
               /\ k \in dTrade' <=> k \in dTrade
               /\ k \in dApplied' <=> k \in dApplied
               /\ k \in cached' => k \in cached
               /\ applied'[k] = applied[k]
  <2>1. dApplied' = dApplied
    BY <1>4
  <2>2. ClosedBy(l, kind)
    BY Closed, Zenon
  <2> QED BY <1>2, <2>1, <2>2 DEF ClosedBy
<1>6. dStatus[o] \in Ended => dStatus[o] = kind
  BY <1>1 DEF OneRefusal, Refusals, Said, Ended, Refused
<1> HIDE DEF o
<1>7. LegRow(l)' /\ Stored(l)'
  BY <1>1, <1>2, <1>3, <1>4 DEF LegRow, Stored, Accepted, Ended, Refused
<1>8. OrderRow(o)' /\ FollowsLeg(l)'
  <2>1. Counted(o)'
    BY <1>1, <1>2, <1>3, <1>4 DEF OrderRow, Counted, Refused
  <2>2. dStatus'[o] \in Ended =>
          \/ mStatus'[o] = dStatus'[o]
          \/ dStatus'[o] # "filled" /\ mStatus'[o] = "pending"
          \/ mStatus'[o] = "absent" /\ ~Known(o)'
    BY <1>1, <1>2, <1>3, <1>4, <1>6 DEF OrderRow, Refused, Ended, Known
  <2>3. FollowsLeg(l)'
    BY <1>1, <1>2, <1>3, <1>4 DEF FollowsLeg, Refused, Known, o
  <2> QED BY <2>1, <2>2, <2>3 DEF OrderRow
<1>9. {dStatus'[l], mStatus'[l], dStatus'[o], mStatus'[o]} \cap Refused \subseteq Refusals(l)
  BY <1>4 DEF Refusals, Said, Refused, o
<1>10. TodoRow(o) => TodoRow(o)'
  BY <1>3, <1>4, <1>6 DEF TodoRow, Refused, Ended
<1>11. DrainRows' /\ dpc' # "reset"
  BY DEF DrainRows, AtReset
<1>12. dStatus'[o] # "filled" /\ mStatus'[o] # "filled"
  BY <1>1, <1>3, <1>4 DEF Refused
<1> QED BY <1>1, <1>2, <1>5, <1>7, <1>8, <1>9, <1>10, <1>11, <1>12, DrainStep DEF o

LEMMA DrainCloseRows ==
    ASSUME StoredInv, OneLeg, DrainClose PROVE Rows'
<1> SUFFICES ASSUME NEW l, l = Head(events).leg, NEW kind, kind = Head(events).kind PROVE Rows'
  OBVIOUS
<1>1. /\ l \in Legs /\ Stored(l) /\ EventsFrom /\ kind \in Refusals(l) /\ dpc = "idle"
      /\ UNCHANGED <<dTrade, mTrade, applied, cached, brokerVars, workerVars, pgVars>>
  BY Heard, TailEvents DEF DrainClose, Refused
<1>2. dpc' \in {"idle", "saveClose"}
  BY <1>1 DEF DrainClose, drainVars
<1>3. CASE UNCHANGED <<dStatus, dApplied, mStatus, queueVars>>
  <2>1. DrainRows' /\ dpc' # "reset"
    BY <1>2 DEF DrainRows, AtReset
  <2>2. UNCHANGED <<dStatus, dTrade, dApplied, mStatus, pendingQ, newQ, mTrade, applied, cached, broker,
                    legQty, alive, workerVars>>
    BY <1>1, <1>3 DEF brokerVars, pgVars, queueVars
  <2> QED BY <1>1, <2>1, <2>2, DrainPasses
<1>4. CASE mStatus[l] = "pending" /\ CloseRecords(l, kind, {l, l[1]}) /\ CloseRows(l)
  BY <1>1, <1>2, <1>4, CloseRecordsRows
<1>5. ASSUME mStatus[l] = "pending", NEW S \in {{}, {l[1]}, {l, l[1]}}, CloseRecords(l, kind, S),
             UNCHANGED <<dStatus, dApplied>>
      PROVE  Rows'
  BY <1>1, <1>2, <1>5, CloseRecordsRows
<1> QED BY <1>3, <1>4, <1>5 DEF DrainClose

LEMMA DrainSaveRows ==
    ASSUME StoredInv, OneLeg, DrainSave PROVE Rows'
<1> SUFFICES ASSUME NEW l, l = dleg PROVE Rows'
  OBVIOUS
<1> DEFINE o == l[1]
<1>1. /\ l \in Legs /\ Stored(l)
  BY Basics DEF DrainSave, OnlyStoredLegsMove
<1>2. /\ LegRow(l) /\ OrderRow(o) /\ FollowsLeg(l) /\ o \in Items /\ l # o /\ l \in Items /\ o \in Orders
      /\ dStatus \in [Items -> Status] /\ dTrade \subseteq mTrade
  BY <1>1, StoredLeg, Basics
<1>3. /\ UNCHANGED <<dApplied, mStatus, pendingQ, newQ, mTrade, applied, broker, legQty, alive, workerVars>>
      /\ EventsFrom /\ dpc' = "idle"
  BY NoEvents DEF DrainSave, queueVars, brokerVars, pgVars
<1>4. DrainRows' /\ dpc' # "reset"
  BY <1>3 DEF DrainRows, AtReset
<1>5. CASE UNCHANGED <<dStatus, dTrade, cached>>
  BY <1>3, <1>4, <1>5, DrainPasses
<1>6. CASE /\ dStatus' = [dStatus EXCEPT ![l] = mStatus[l]]
           /\ dTrade' = dTrade \cup ({l} \cap mTrade) /\ cached' = cached \cup {l}
  <2>1. dStatus'[l] = mStatus[l] /\ \A x \in Items : x # l => dStatus'[x] = dStatus[x]
    BY <1>2, <1>6
  <2>2. LegRow(l)' /\ Stored(l)'
    BY <1>1, <1>2, <1>3, <1>6, <2>1 DEF LegRow, Stored, Accepted, Ended
  <2>3. OrderRow(o)' /\ FollowsLeg(l)'
    BY <1>2, <1>3, <2>1 DEF OrderRow, Counted, FollowsLeg, Known
  <2>4. {dStatus'[l], mStatus'[l], dStatus'[o], mStatus'[o]} \cap Refused \subseteq Refusals(l)
    BY <1>2, <1>3, <2>1 DEF Refusals, Said, Refused
  <2>5. TodoRow(o) => TodoRow(o)'
    BY <1>2, <1>3, <2>1 DEF TodoRow
  <2>6. /\ \A y \in Items : y \notin {l, o} =>
               /\ dStatus'[y] = dStatus[y] /\ mStatus'[y] = mStatus[y]
               /\ y \in pendingQ' <=> y \in pendingQ
               /\ y \in newQ' <=> y \in newQ
        /\ \A k \in Legs : k # l =>
               /\ k \in mTrade' <=> k \in mTrade
               /\ k \in dTrade' <=> k \in dTrade
               /\ k \in dApplied' <=> k \in dApplied
               /\ k \in cached' => k \in cached
               /\ applied'[k] = applied[k]
    BY <1>3, <1>6, <2>1
  <2>7. dStatus'[o] = dStatus[o] /\ mStatus'[o] = mStatus[o]
    BY <1>2, <1>3, <2>1
  <2> QED BY <1>1, <1>3, <1>4, <2>2, <2>3, <2>4, <2>5, <2>6, <2>7, DrainStep
<1> QED BY <1>5, <1>6 DEF DrainSave

-----------------------------------------------------------------------------
(* The worker *)

(* A step of the worker that changes no row and no record. *)
LEMMA WorkerPasses ==
    ASSUME StoredInv, WorkerRows',
           UNCHANGED <<dbVars, memVars, brokerVars, drainVars, alive>>,
           \A l \in Legs : Stored(l) => Refusals(l)' \subseteq Refusals(l)
    PROVE  Rows'
<1>1. /\ UNCHANGED <<dStatus, dTrade, dApplied, mStatus, pendingQ, newQ, mTrade, applied, cached,
                     broker, legQty, dpc, dleg>>
      /\ \A o \in Orders : ~Known(o) => ~Known(o)'
  BY DEF dbVars, memVars, queueVars, brokerVars, drainVars, Known
<1>2. LegRows' /\ OrderRows' /\ OrdersFollowLegs'
  BY <1>1, RowsKept
<1>3. DrainRows'
  BY <1>1, Basics DEF DrainRows
<1> QED BY <1>2, <1>3 DEF Rows

LEMMA QuietWork ==
    ASSUME StoredInv, WorkerRows', UNCHANGED <<dbVars, memVars, brokerVars, drainVars, alive, events>>,
           wpc' \in AtClose => UNCHANGED <<wpc, cur, verdict>>
    PROVE  Rows'
<1>1. UNCHANGED <<dStatus, mStatus, broker>> /\ EventsFrom
  BY NoEvents DEF dbVars, memVars, brokerVars
<1> QED BY <1>1, QuietRefusals, WorkerPasses

(* What is fetched is fetched as pending.                                    *)
LEMMA FetchRows ==
    ASSUME StoredInv, StartPoll \/ FetchPending \/ FetchNew \/ FinishPoll PROVE Rows'
<1>1. /\ UNCHANGED <<dbVars, memVars, brokerVars, drainVars, alive, events>>
      /\ wpc' \in {"legs", "orders", "new", "idle"}
      /\ wpc' = "orders" => \A o \in todo' : dStatus[o] = "pending"
  BY DEF StartPoll, FetchPending, FetchNew, FinishPoll, EndPoll, pgVars
<1>2. WorkerRows'
  BY <1>1 DEF WorkerRows, NoTradeSeen, AtOrder, AtClose, TodoRow, dbVars
<1> QED BY <1>1, <1>2, QuietWork DEF AtClose

LEMMA PollLegRows ==
    ASSUME StoredInv, NEW l \in Legs, PollLeg(l) PROVE Rows'
<1>1. /\ UNCHANGED <<dbVars, memVars, brokerVars, drainVars, alive>> /\ wpc' = "legs"
      /\ UNCHANGED <<dStatus, mStatus, broker>>
  BY DEF PollLeg, pgVars, dbVars, memVars, brokerVars
<1>2. WorkerRows'
  BY <1>1 DEF WorkerRows, NoTradeSeen, AtOrder, AtClose
<1>3. \A i \in 1..Len(events') :
          \/ \E j \in 1..Len(events) : events'[i] = events[j]
          \/ events'[i] = [leg |-> l, kind |-> broker[l]]
  <2>1. events \in Seq(Event)
    BY Basics DEF ControlTypeOK, DrainTypeOK
  <2>2. CASE UNCHANGED events
    BY <2>2
  <2>3. CASE broker[l] \in Ended /\ events' = Append(events, [leg |-> l, kind |-> broker[l]])
    <3>1. [leg |-> l, kind |-> broker[l]] \in Event
      BY <2>3 DEF Event
    <3> QED BY <2>1, <2>3, <3>1, AppendProperties
  <2> QED BY <2>2, <2>3 DEF PollLeg, Reportable
<1>4. \A k \in Legs : Refusals(k)' \subseteq Refusals(k)
  <2> SUFFICES ASSUME NEW k \in Legs, NEW s \in Refusals(k)' PROVE s \in Refusals(k)
    OBVIOUS
  <2>1. CASE s \in {dStatus'[k], mStatus'[k], dStatus'[k[1]], mStatus'[k[1]], broker'[k]}
    BY <1>1, <2>1 DEF Refusals, Said
  <2>2. CASE s \in {events'[i].kind : i \in {j \in 1..Len(events') : events'[j].leg = k}}
    BY <1>1, <1>3, <2>2 DEF Refusals, Said
  <2> QED BY <1>1, <2>1, <2>2 DEF Refusals, Said, AtClose
<1> QED BY <1>1, <1>2, <1>4, WorkerPasses

(* An order whose legs' trades are read without finding one is not filled.   *)
LEMMA ReadTradesRows ==
    ASSUME StoredInv, NEW o \in Orders, ReadTrades(o) PROVE Rows'
<1>1. /\ UNCHANGED <<dbVars, memVars, brokerVars, drainVars, alive, events>>
      /\ wpc = "orders" /\ o \in todo /\ wpc' = "find" /\ cur' = o /\ trades' = TradesOf(o) /\ todo' = todo
      /\ UNCHANGED <<dStatus, mStatus, dTrade, dpc, dleg, applied>>
  BY DEF ReadTrades, pgVars, dbVars, memVars, drainVars
<1>2. \A x \in todo : TodoRow(x) /\ TodoRow(x)'
  BY <1>1, Basics DEF WorkerRows, TodoRow
<1>3. trades' = {} => mStatus[o] # "filled" /\ dStatus[o] # "filled"
  <2> HAVE trades' = {}
  <2>1. <<o, 1>> \in Legs /\ <<o, 1>> \notin dTrade /\ OrderRow(o)
    BY <1>1, Kinds, Basics DEF TradesOf, OrderRows
  <2>2. applied[<<o, 1>>] = 0
    BY <2>1, Basics
  <2> QED BY <2>1, <2>2 DEF OrderRow, Counted
<1>4. WorkerRows'
  BY <1>1, <1>2, <1>3 DEF WorkerRows, NoTradeSeen, AtOrder, AtClose
<1> QED BY <1>1, <1>4, QuietWork DEF AtClose

LEMMA FindPlaygroundRows ==
    ASSUME StoredInv, FindPlayground PROVE Rows'
<1>1. /\ UNCHANGED <<dbVars, memVars, brokerVars, drainVars, alive, events>> /\ wpc = "find"
      /\ UNCHANGED <<dStatus, mStatus, dpc, dleg, save>>
  BY DEF FindPlayground, pgVars, dbVars, memVars, drainVars
<1>2. /\ \A x \in todo : TodoRow(x) /\ TodoRow(x)'
      /\ trades = {} => mStatus[cur] # "filled" /\ dStatus[cur] # "filled"
      /\ cur \in Orders
  BY <1>1, Basics DEF WorkerRows, TodoRow, NoTradeSeen, WorkerHolds, AtOrder
<1>3. \A l \in LegsOf(cur) \cap cached : l[1] = cur /\ Stored(l) /\ Stored(l)'
  BY <1>1, <1>2, LegsOfType, Basics DEF LegRows, LegRow, Stored
<1>4. CASE wpc' = "orders" /\ todo' = todo \ {cur} /\ trades' = {}
  <2>1. WorkerRows'
    BY <1>2, <1>4 DEF WorkerRows, NoTradeSeen, AtOrder, AtClose
  <2> QED BY <1>1, <1>4, <2>1, QuietWork DEF AtClose
<1>5. CASE /\ wpc' = "fill" /\ UNCHANGED <<todo, cur, trades>>
           /\ unseen' = IF trades = {} THEN LegsOf(cur) \cap cached ELSE {}
  <2>1. WorkerRows'
    BY <1>1, <1>2, <1>3, <1>5 DEF WorkerRows, NoTradeSeen, AtOrder, AtClose
  <2> QED BY <1>1, <1>5, <2>1, QuietWork DEF AtClose
<1> QED BY <1>4, <1>5 DEF FindPlayground

(* The order the worker is at, seen from a stored leg of it. *)
LEMMA AtLeg ==
    ASSUME StoredInv, OneLeg, wpc \in AtOrder, NEW l \in Legs, Stored(l), l[1] = cur
    PROVE  /\ l = <<cur, 1>> /\ cur \in Orders /\ cur \in Items /\ l # cur /\ cur \in todo
           /\ OrderRow(cur) /\ FollowsLeg(l) /\ OneRefusal(l) /\ LegRow(l)
           /\ mStatus[cur] \in Accepted \cup {"absent"}
           /\ dStatus \in [Items -> Status] /\ mStatus \in [Items -> Status]
BY StoredLeg, Basics DEF WorkerHolds

LEMMA LookAtLegRows ==
    ASSUME StoredInv, OneLeg, NEW l \in Legs, LookAtLeg(l) PROVE Rows'
<1>1. /\ UNCHANGED <<dbVars, memVars, brokerVars, drainVars, alive, events>> /\ wpc = "fill" /\ l \in unseen
      /\ UNCHANGED <<dStatus, mStatus, dpc, dleg, save, todo, cur, trades>>
      /\ unseen' = unseen \ {l} /\ verdict' = Verdict(l)
      /\ wpc' = IF Verdict(l) = "none" THEN "fill" ELSE "close"
  BY DEF LookAtLeg, pgVars, dbVars, memVars, drainVars
<1>2. /\ \A x \in todo : x # cur \/ trades # {} => TodoRow(x)
      /\ \A x \in todo : TodoRow(x) => TodoRow(x)'
      /\ trades = {} /\ mStatus[cur] # "filled" /\ dStatus[cur] # "filled"
      /\ \A k \in unseen : k[1] = cur /\ Stored(k) /\ Stored(k)'
  BY <1>1, Basics DEF WorkerRows, TodoRow, NoTradeSeen, AtOrder, Stored
<1>3. l = <<cur, 1>> /\ Stored(l) /\ l[1] = cur
  BY <1>1, <1>2, AtLeg DEF AtOrder
<1>4. WorkerRows'
  BY <1>1, <1>2, <1>3 DEF WorkerRows, NoTradeSeen, AtOrder, AtClose
<1>5. ASSUME NEW k \in Legs, Stored(k) PROVE Refusals(k)' \subseteq Refusals(k)
  <2>1. {dStatus'[k], mStatus'[k], dStatus'[k[1]], mStatus'[k[1]], broker'[k]} \cap Refused \subseteq Refusals(k)
    BY <1>1 DEF Refusals, Said, brokerVars
  <2>2. wpc' \in AtClose /\ cur' = k[1] => verdict' \in Refusals(k)
    <3> HAVE wpc' \in AtClose /\ cur' = k[1]
    <3>1. k = l
      BY <1>1, <1>3, <1>5, OnlyLeg
    <3>2. verdict' = mStatus[l] /\ mStatus[l] \in Refused
      BY <1>1 DEF Verdict, AtClose, Refused
    <3> QED BY <3>1, <3>2 DEF Refusals, Said
  <2> QED BY <1>1, <2>1, <2>2, NoEvents, NoNewRefusal
<1> QED BY <1>1, <1>4, <1>5, WorkerPasses

LEMMA FinishOrderRows ==
    ASSUME StoredInv, FinishOrder PROVE Rows'
<1>1. /\ UNCHANGED <<dbVars, memVars, brokerVars, drainVars, alive, events>> /\ wpc = "fill"
      /\ UNCHANGED <<dStatus, mStatus, dpc, dleg>> /\ wpc' = "orders" /\ todo' = todo \ {cur}
  BY DEF FinishOrder, pgVars, dbVars, memVars, drainVars
<1>2. \A x \in todo' : TodoRow(x)'
  BY <1>1, Basics DEF WorkerRows, TodoRow, AtOrder
<1>3. WorkerRows'
  BY <1>1, <1>2 DEF WorkerRows, NoTradeSeen, AtOrder, AtClose
<1> QED BY <1>1, <1>3, QuietWork DEF AtClose

(* A step of the worker on the order it is at, which has the stored leg l.   *)
LEMMA OrderStep ==
    ASSUME StoredInv, OneLeg, wpc \in AtOrder, NEW l \in Legs, Stored(l), NEW o, o = l[1], cur = o, cur' = o,
           \A x \in Items : x # o =>
               /\ dStatus'[x] = dStatus[x] /\ mStatus'[x] = mStatus[x]
               /\ x \in pendingQ' <=> x \in pendingQ
               /\ x \in newQ' <=> x \in newQ,
           \A k \in Legs : k # l =>
               (k \in dApplied' <=> k \in dApplied) /\ applied'[k] = applied[k],
           UNCHANGED <<dTrade, mTrade, cached, brokerVars, alive, events, drainVars>>,
           OrderRow(o)', FollowsLeg(l)',
           {dStatus'[o], mStatus'[o]} \cap Refused \subseteq Refusals(l),
           wpc' \in AtClose => verdict' \in Refusals(l)
    PROVE  /\ LegRows' /\ OrderRows' /\ OrdersFollowLegs' /\ DrainRows'
           /\ \A x \in todo : x # cur /\ TodoRow(x) => TodoRow(x)'
           /\ \A k \in unseen : k[1] = cur /\ Stored(k) => Stored(k)'
<1>1. UNCHANGED <<broker, legQty, dpc, dleg>> /\ EventsFrom
  BY NoEvents DEF brokerVars, drainVars
<1>2. l \in Items /\ l # o /\ o \in Items /\ LegRow(l) /\ o \in Orders
  BY StoredLeg
<1>3. dStatus'[l] = dStatus[l] /\ mStatus'[l] = mStatus[l] /\ (l \in pendingQ' <=> l \in pendingQ)
  BY <1>2
<1>4. LegRow(l)'
  BY <1>1, <1>2, <1>3 DEF LegRow, Stored
<1>5. Refusals(l)' \subseteq Refusals(l)
  <2>1. {dStatus'[l], mStatus'[l], dStatus'[l[1]], mStatus'[l[1]], broker'[l]} \cap Refused \subseteq Refusals(l)
    BY <1>1, <1>3 DEF Refusals, Said
  <2> QED BY <1>1, <2>1, NoNewRefusal
<1>6. LegRows' /\ OrderRows' /\ OrdersFollowLegs'
  <2>1. /\ \A x \in Items : x \notin {l, l[1]} =>
               /\ dStatus'[x] = dStatus[x] /\ mStatus'[x] = mStatus[x]
               /\ x \in pendingQ' <=> x \in pendingQ
               /\ x \in newQ' <=> x \in newQ
        /\ \A k \in Legs : k # l =>
               /\ k \in mTrade' <=> k \in mTrade
               /\ k \in dTrade' <=> k \in dTrade
               /\ k \in dApplied' <=> k \in dApplied
               /\ k \in cached' => k \in cached
               /\ applied'[k] = applied[k]
    OBVIOUS
  <2> QED BY <1>1, <1>4, <1>5, <2>1, TouchedStep
<1>7. \A k \in Legs : dStatus'[k] = dStatus[k] /\ mStatus'[k] = mStatus[k]
  BY <1>2, Kinds
<1>8. DrainRows'
  BY <1>1, <1>7, DrainRowsKept
<1>9. \A x \in todo : x # cur /\ TodoRow(x) => TodoRow(x)'
  <2>1. todo \subseteq Orders
    BY Basics DEF WorkerHolds
  <2> QED BY <1>1, <2>1, Kinds DEF TodoRow
<1>10. \A k \in unseen : Stored(k) => Stored(k)'
  <2>1. unseen \subseteq Legs
    BY Basics DEF ControlTypeOK, WorkerTypeOK
  <2> QED BY <1>7, <2>1 DEF Stored
<1> QED BY <1>6, <1>8, <1>9, <1>10

(* The order being closed has a stored leg and no trade. *)
LEMMA Closing ==
    ASSUME StoredInv, OneLeg, wpc \in AtClose
    PROVE  \E l \in Legs :
              /\ l = <<cur, 1>> /\ Stored(l) /\ l[1] = cur /\ cur \in Orders /\ cur \in Items
              /\ OrderRow(cur) /\ FollowsLeg(l) /\ OneRefusal(l)
              /\ mStatus[cur] \in Accepted \cup {"absent"} /\ dStatus[cur] \in Accepted
              /\ mStatus[cur] # "filled" /\ dStatus[cur] # "filled" /\ trades = {}
              /\ verdict \in Refusals(l) /\ verdict \in Refused /\ applied[l] = 0 /\ l \notin dApplied
              /\ \A k \in unseen : k[1] = cur /\ Stored(k)
              /\ \A x \in todo : x # cur => TodoRow(x)
              /\ dStatus \in [Items -> Status] /\ mStatus \in [Items -> Status]
<1>1. wpc \in AtOrder /\ cur \in Orders /\ Stored(<<cur, 1>>) /\ trades = {}
      /\ mStatus[cur] # "filled" /\ dStatus[cur] # "filled"
      /\ (\A k \in unseen : k[1] = cur /\ Stored(k))
      /\ (\A x \in todo : x # cur => TodoRow(x))
  BY Basics DEF AtOrder, AtClose, WorkerHolds, WorkerRows, NoTradeSeen
<1>2. PICK l \in Legs : l = <<cur, 1>> /\ l[1] = cur /\ Stored(l)
  BY <1>1, Kinds
<1>3. /\ cur \in Items /\ OrderRow(cur) /\ FollowsLeg(l) /\ OneRefusal(l)
      /\ mStatus[cur] \in Accepted \cup {"absent"} /\ dStatus[cur] \in Accepted
      /\ dStatus \in [Items -> Status] /\ mStatus \in [Items -> Status]
  BY <1>1, <1>2, StoredLeg, Basics
<1>4. verdict \in Refusals(l) /\ verdict \in Refused
  BY <1>2, VerdictRefused DEF Refusals, Said
<1>5. applied[l] = 0 /\ l \notin dApplied
  BY <1>1, <1>2, <1>3 DEF OrderRow, Counted
<1> QED BY <1>1, <1>2, <1>3, <1>4, <1>5

LEMMA CloseRowRows ==
    ASSUME StoredInv, OneLeg, CloseRow PROVE Rows'
<1>1. PICK l \in Legs :
              /\ l = <<cur, 1>> /\ Stored(l) /\ l[1] = cur /\ cur \in Orders /\ cur \in Items
              /\ OrderRow(cur) /\ FollowsLeg(l) /\ OneRefusal(l)
              /\ mStatus[cur] \in Accepted \cup {"absent"} /\ dStatus[cur] \in Accepted
              /\ mStatus[cur] # "filled" /\ dStatus[cur] # "filled" /\ trades = {}
              /\ verdict \in Refusals(l) /\ verdict \in Refused /\ applied[l] = 0 /\ l \notin dApplied
              /\ \A k \in unseen : k[1] = cur /\ Stored(k)
              /\ \A x \in todo : x # cur => TodoRow(x)
              /\ dStatus \in [Items -> Status] /\ mStatus \in [Items -> Status]
  BY Closing DEF CloseRow, AtClose
<1>2. UNCHANGED <<dTrade, dApplied, memVars, brokerVars, events, drainVars, alive, todo, cur, trades, unseen, save>>
      /\ wpc = "close"
  BY DEF CloseRow, pgVars
<1>3. UNCHANGED <<mStatus, pendingQ, newQ, mTrade, applied, cached, dpc, dleg>>
  BY <1>2 DEF memVars, queueVars, drainVars
<1>4. CASE wpc' = "fill" /\ UNCHANGED dStatus
  <2>1. /\ \A x \in todo : TodoRow(x) => TodoRow(x)'
        /\ \A k \in unseen : Stored(k) => Stored(k)'
    BY <1>2, <1>3, <1>4 DEF TodoRow, Stored
  <2>2. WorkerRows'
    BY <1>1, <1>2, <1>3, <1>4, <2>1 DEF WorkerRows, NoTradeSeen, AtOrder, AtClose
  <2> QED BY <1>2, <1>4, <2>2, QuietWork DEF AtClose, dbVars
<1>5. CASE Known(cur) /\ dStatus' = [dStatus EXCEPT ![cur] = verdict] /\ wpc' = "closing" /\ UNCHANGED verdict
  <2>1. SUFFICES ASSUME NEW o, o = cur PROVE Rows'
    OBVIOUS
  <2>2. dStatus'[o] = verdict /\ \A x \in Items : x # o => dStatus'[x] = dStatus[x]
    BY <1>1, <1>5, <2>1
  <2>3. mStatus[o] \in Refused => mStatus[o] = verdict
    BY <1>1, <2>1 DEF OneRefusal, Refusals, Said
  <2>4. mStatus[o] # "absent"
    BY <1>1, <1>5, <2>1 DEF FollowsLeg
  <2>5. OrderRow(o)'
    <3>1. Counted(o)'
      BY <1>1, <1>2, <1>3, <2>1, <2>2 DEF OrderRow, Counted, Refused
    <3>2. mStatus'[o] = dStatus'[o] \/ (mStatus'[o] = "pending" /\ dStatus'[o] # "filled")
      BY <1>1, <1>3, <2>1, <2>2, <2>3, <2>4 DEF Accepted, Ended, Refused
    <3> QED BY <3>1, <3>2 DEF OrderRow
  <2>6. FollowsLeg(l)'
    BY <1>1, <1>2, <1>3 DEF FollowsLeg, Known
  <2>7. {dStatus'[o], mStatus'[o]} \cap Refused \subseteq Refusals(l)
    BY <1>1, <1>3, <2>1, <2>2, <2>3
  <2>8. /\ LegRows' /\ OrderRows' /\ OrdersFollowLegs' /\ DrainRows'
        /\ \A x \in todo : x # cur /\ TodoRow(x) => TodoRow(x)'
        /\ \A k \in unseen : k[1] = cur /\ Stored(k) => Stored(k)'
    BY <1>1, <1>2, <1>3, <1>5, <2>1, <2>2, <2>5, <2>6, <2>7, OrderStep DEF AtOrder
  <2>9. /\ Stored(<<cur, 1>>)' /\ mStatus'[cur] # "filled" /\ dStatus'[cur] # "filled"
    BY <1>1, <1>2, <1>3, <2>1, <2>2, Kinds DEF Stored, Refused
  <2>10. WorkerRows'
    BY <1>1, <1>2, <1>5, <2>8, <2>9 DEF WorkerRows, NoTradeSeen, AtOrder, AtClose
  <2> QED BY <2>8, <2>10 DEF Rows
<1> QED BY <1>4, <1>5 DEF CloseRow

LEMMA CloseRecordRows ==
    ASSUME StoredInv, OneLeg, CloseRecord PROVE Rows'
<1>1. PICK l \in Legs :
              /\ l = <<cur, 1>> /\ Stored(l) /\ l[1] = cur /\ cur \in Orders /\ cur \in Items
              /\ OrderRow(cur) /\ FollowsLeg(l) /\ OneRefusal(l)
              /\ mStatus[cur] \in Accepted \cup {"absent"} /\ dStatus[cur] \in Accepted
              /\ mStatus[cur] # "filled" /\ dStatus[cur] # "filled" /\ trades = {}
              /\ verdict \in Refusals(l) /\ verdict \in Refused /\ applied[l] = 0 /\ l \notin dApplied
              /\ \A k \in unseen : k[1] = cur /\ Stored(k)
              /\ \A x \in todo : x # cur => TodoRow(x)
              /\ dStatus \in [Items -> Status] /\ mStatus \in [Items -> Status]
  BY Closing DEF CloseRecord, AtClose
<1>2. UNCHANGED <<dbVars, mTrade, applied, cached, brokerVars, events, drainVars, alive, todo, cur, trades,
                  unseen, save>>
      /\ wpc = "closing" /\ wpc' = "fill"
  BY DEF CloseRecord, pgVars
<1>3. UNCHANGED <<dStatus, dTrade, dApplied, dpc, dleg>>
  BY <1>2 DEF dbVars, drainVars
<1>4. CASE UNCHANGED <<mStatus, queueVars, linked>>
  <2>1. /\ \A x \in todo : TodoRow(x) => TodoRow(x)'
        /\ \A k \in unseen : Stored(k) => Stored(k)'
    BY <1>2, <1>3, <1>4 DEF TodoRow, Stored
  <2>2. WorkerRows'
    BY <1>1, <1>2, <1>3, <1>4, <2>1 DEF WorkerRows, NoTradeSeen, AtOrder, AtClose
  <2>3. /\ UNCHANGED <<dStatus, dTrade, dApplied, mStatus, pendingQ, newQ, mTrade, applied, cached,
                       broker, legQty>>
        /\ \A o \in Orders : ~Known(o) => ~Known(o)'
        /\ \A k \in Legs : Refusals(k)' \subseteq Refusals(k)
    BY <1>2, <1>3, <1>4, NoEvents, QuietRefusals DEF queueVars, brokerVars, AtClose, Known
  <2>4. LegRows' /\ OrderRows' /\ OrdersFollowLegs'
    BY <2>3, RowsKept
  <2>5. DrainRows'
    BY <1>3, <1>4, Basics DEF DrainRows
  <2> QED BY <2>2, <2>4, <2>5 DEF Rows
<1>5. CASE AddToOrderQueue({cur}) /\ ReplaceRecord(cur, verdict)
  <2>1. SUFFICES ASSUME NEW o, o = cur PROVE Rows'
    OBVIOUS
  <2>2. /\ \A x \in Items : x # o =>
               /\ mStatus'[x] = mStatus[x] /\ (x \in pendingQ' <=> x \in pendingQ)
               /\ x \in newQ' <=> x \in newQ
        /\ o \notin newQ' /\ o \notin pendingQ'
        /\ \/ mStatus'[o] = verdict
           \/ mStatus'[o] = mStatus[o] /\ o \notin pendingQ
    BY <1>1, <1>5, <2>1 DEF AddToOrderQueue, ReplaceRecord, FollowsLeg
  <2>3. dStatus[o] \in Refused => dStatus[o] = verdict
    BY <1>1, <2>1 DEF OneRefusal, Refusals, Said
  <2>4. OrderRow(o)'
    <3>1. Counted(o)'
      BY <1>1, <1>2, <1>3, <2>1, <2>2 DEF OrderRow, Counted, Refused
    <3>2. dStatus'[o] \in Ended =>
              \/ mStatus'[o] = dStatus'[o]
              \/ dStatus'[o] # "filled" /\ mStatus'[o] = "pending"
              \/ mStatus'[o] = "absent" /\ ~Known(o)'
      BY <1>1, <1>2, <1>3, <2>1, <2>2, <2>3 DEF OrderRow, Refused, Ended, Known
    <3> QED BY <3>1, <3>2 DEF OrderRow
  <2>5. FollowsLeg(l)'
    BY <1>1, <1>2, <2>1, <2>2 DEF FollowsLeg, Known, Refused
  <2>6. {dStatus'[o], mStatus'[o]} \cap Refused \subseteq Refusals(l)
    BY <1>1, <1>3, <2>1, <2>2 DEF Refusals, Said
  <2>7. /\ LegRows' /\ OrderRows' /\ OrdersFollowLegs' /\ DrainRows'
        /\ \A x \in todo : x # cur /\ TodoRow(x) => TodoRow(x)'
        /\ \A k \in unseen : k[1] = cur /\ Stored(k) => Stored(k)'
    BY <1>1, <1>2, <1>3, <2>1, <2>2, <2>4, <2>5, <2>6, OrderStep DEF AtOrder, AtClose
  <2>8. mStatus'[cur] # "filled" /\ dStatus'[cur] # "filled"
    BY <1>1, <1>3, <2>1, <2>2 DEF Refused
  <2>9. WorkerRows'
    BY <1>1, <1>2, <2>7, <2>8 DEF WorkerRows, NoTradeSeen, AtOrder, AtClose
  <2> QED BY <2>7, <2>9 DEF Rows
<1> QED BY <1>4, <1>5 DEF CloseRecord

(* A trade the worker has read is its order's only one. *)
LEMMA TradeRead ==
    ASSUME StoredInv, OneLeg, wpc \in AtOrder, NEW t \in dTrade \cap LegsOf(cur)
    PROVE  /\ t \in Legs /\ Stored(t) /\ t[1] = cur /\ t = <<cur, 1>>
           /\ \A k \in dTrade \cap LegsOf(cur) : k = t
<1>1. cur \in Orders /\ dTrade \subseteq Legs /\ \A k \in dTrade : Stored(k)
  BY Basics DEF WorkerHolds, OnlyStoredLegsMove
<1>2. \A k \in dTrade \cap LegsOf(cur) : k \in Legs /\ Stored(k) /\ k[1] = cur
  BY <1>1, LegsOfType
<1> QED BY <1>2, OnlyLeg, FirstLeg

(* It is read once, while the order is pending, and fills it. *)
LEMMA TradeFits ==
    ASSUME StoredInv, OneLeg, NEW t \in Legs, ApplyTrade(t)
    PROVE  /\ t \in dTrade \cap LegsOf(cur) /\ wpc = "fill" /\ trades = {t} /\ unseen = {} /\ TodoRow(cur)
           /\ \A x \in todo : TodoRow(x)
           /\ cur \in pendingQ =>
                 /\ dStatus[cur] = "pending" /\ mStatus[cur] = "pending" /\ applied[t] = 0
                 /\ applied' = [applied EXCEPT ![t] = 1]
                 /\ pos' = [pos EXCEPT ![PgOf(cur)] = @ + Quantity[cur]]
                 /\ mStatus' = [mStatus EXCEPT ![cur] = "filled"] /\ AddToOrderQueue({cur})
                 /\ wpc' = "save" /\ save' = "order" /\ trade' = t /\ trades' = trades
           /\ cur \notin pendingQ =>
                 /\ wpc' = "fill" /\ trades' = {} /\ UNCHANGED <<mStatus, queueVars, applied, pos>>
<1>1. /\ wpc = "fill" /\ t \in trades /\ trades \subseteq dTrade \cap LegsOf(cur) /\ cur \in todo
      /\ cur \in Orders
  BY Basics DEF ApplyTrade, WorkerHolds, AtOrder
<1>2. /\ t = <<cur, 1>> /\ Stored(t) /\ t[1] = cur /\ trades = {t}
  BY <1>1, TradeRead DEF AtOrder
<1>3. unseen = {} /\ \A x \in todo : TodoRow(x)
  BY <1>1, Basics DEF WorkerRows, NoTradeSeen, AtOrder
<1>4. /\ OrderRow(cur) /\ FollowsLeg(t) /\ legQty[t] = Quantity[cur]
      /\ Quantity[cur] \in Int /\ Quantity[cur] # 0 /\ legQty \in [Legs -> Int] /\ applied \in [Legs -> Nat]
      /\ <<cur, 2>> \in Legs
  BY <1>1, <1>2, StoredLeg, FirstLeg, Basics, ConstantsAssumption DEF Legs
<1>5. CASE cur \notin pendingQ
  BY <1>1, <1>2, <1>3, <1>5 DEF ApplyTrade
<1>6. CASE cur \in pendingQ
  <2>1. mStatus[cur] = "pending" /\ dStatus[cur] = "pending"
    BY <1>1, <1>2, <1>3, <1>4, <1>6 DEF FollowsLeg, TodoRow, Refused
  <2>2. applied[<<cur, 1>>] = 0 /\ legQty[<<cur, 2>>] = 0
    BY <1>1, <1>4, <2>1 DEF OrderRow, Counted, OneLeg
  <2>3. FilledVolume(cur) = 0
    BY <1>2, <1>4, <2>2 DEF FilledVolume
  <2>4. ~Full(cur) /\ ~Exceeds(cur, t) /\ FilledVolume(cur) + legQty[t] = Quantity[cur]
    BY <1>4, <2>3 DEF Full, Exceeds, AbsVal
  <2>5. Accept(cur, t) /\ wpc' = "save" /\ trade' = t /\ UNCHANGED trades
    BY <1>6, <2>1, <2>4 DEF ApplyTrade, Tradable
  <2>6. /\ applied' = [applied EXCEPT ![t] = @ + 1] /\ pos' = [pos EXCEPT ![PgOf(cur)] = @ + legQty[t]]
        /\ mStatus' = [mStatus EXCEPT ![cur] = "filled"] /\ AddToOrderQueue({cur}) /\ save' = "order"
    BY <2>4, <2>5 DEF Accept
  <2>7. applied' = [applied EXCEPT ![t] = 1]
    <3>1. applied[t] + 1 = 1
      BY <1>2, <2>2
    <3> QED BY <2>6, <3>1
  <2> QED BY <1>1, <1>2, <1>3, <1>4, <1>6, <2>1, <2>2, <2>5, <2>6, <2>7
<1> QED BY <1>5, <1>6

LEMMA ApplyTradeRows ==
    ASSUME StoredInv, OneLeg, NEW t \in Legs, ApplyTrade(t) PROVE Rows'
<1>1. /\ UNCHANGED <<dbVars, mTrade, linked, cached, brokerVars, events, drainVars, todo, cur, lookVars, alive>>
      /\ UNCHANGED <<dStatus, dTrade, dApplied, legQty, broker, dpc, dleg, unseen, verdict>>
  BY DEF ApplyTrade, pgVars, dbVars, brokerVars, drainVars, lookVars
<1>2. /\ t \in dTrade \cap LegsOf(cur) /\ wpc = "fill" /\ trades = {t} /\ unseen = {}
      /\ \A x \in todo : TodoRow(x)
  BY TradeFits
<1>3. /\ t = <<cur, 1>> /\ Stored(t) /\ t[1] = cur
  BY <1>2, TradeRead DEF AtOrder
<1>4. CASE cur \notin pendingQ
  <2>1. wpc' = "fill" /\ trades' = {} /\ UNCHANGED <<mStatus, queueVars, applied, pos>>
    BY <1>4, TradeFits
  <2>2. /\ UNCHANGED memVars
        /\ \A x \in todo : TodoRow(x)'
    BY <1>1, <1>2, <2>1 DEF TodoRow, memVars, queueVars
  <2>3. WorkerRows'
    BY <1>1, <1>2, <2>1, <2>2 DEF WorkerRows, NoTradeSeen, AtOrder, AtClose
  <2> QED BY <1>1, <2>1, <2>2, <2>3, QuietWork DEF AtClose
<1>5. CASE cur \in pendingQ
  <2>1. SUFFICES ASSUME NEW o, o = cur PROVE Rows'
    OBVIOUS
  <2>2. /\ dStatus[o] = "pending" /\ mStatus[o] = "pending" /\ applied[t] = 0
        /\ applied' = [applied EXCEPT ![t] = 1] /\ mStatus' = [mStatus EXCEPT ![o] = "filled"]
        /\ AddToOrderQueue({o}) /\ wpc' = "save" /\ save' = "order" /\ trades' = trades
    BY <1>5, <2>1, TradeFits
  <2>3. /\ o \in Orders /\ o \in Items /\ OrderRow(o) /\ FollowsLeg(t)
        /\ mStatus \in [Items -> Status] /\ applied \in [Legs -> Nat]
    BY <1>3, <2>1, StoredLeg, Basics
  <2>4. /\ mStatus'[o] = "filled" /\ applied'[t] = 1 /\ dStatus'[o] = "pending" /\ o \notin pendingQ'
        /\ \A x \in Items : x # o =>
               /\ dStatus'[x] = dStatus[x] /\ mStatus'[x] = mStatus[x]
               /\ x \in pendingQ' <=> x \in pendingQ
               /\ x \in newQ' <=> x \in newQ
        /\ \A k \in Legs : k # t =>
               (k \in dApplied' <=> k \in dApplied) /\ applied'[k] = applied[k]
        /\ o \notin newQ'
    BY <1>1, <1>3, <2>1, <2>2, <2>3 DEF AddToOrderQueue, FollowsLeg
  <2>5. OrderRow(o)' /\ FollowsLeg(t)'
    BY <1>1, <1>3, <2>1, <2>2, <2>3, <2>4 DEF OrderRow, Counted, FollowsLeg, Ended
  <2>6. {dStatus'[o], mStatus'[o]} \cap Refused \subseteq Refusals(t)
    BY <2>4 DEF Refused
  <2>7. /\ LegRows' /\ OrderRows' /\ OrdersFollowLegs' /\ DrainRows'
        /\ \A x \in todo : x # cur /\ TodoRow(x) => TodoRow(x)'
    BY <1>1, <1>2, <1>3, <2>1, <2>2, <2>4, <2>5, <2>6, OrderStep DEF AtOrder, AtClose
  <2>8. TodoRow(cur)'
    BY <1>1, <2>1, <2>4 DEF TodoRow
  <2>9. WorkerRows'
    BY <1>1, <1>2, <2>1, <2>2, <2>4, <2>7, <2>8 DEF WorkerRows, NoTradeSeen, AtOrder, AtClose
  <2> QED BY <2>7, <2>9 DEF Rows
<1> QED BY <1>4, <1>5

(* What is saved is a fill. *)
LEMMA SavedTrade ==
    ASSUME StoredInv, OneLeg, SaveApplied
    PROVE  /\ trade \in dTrade \cap LegsOf(cur) /\ wpc = "save" /\ unseen = {}
           /\ dStatus[cur] = "pending" /\ mStatus[cur] = "filled"
           /\ trades' = {} /\ wpc' = "fill" /\ UNCHANGED <<cur, todo, unseen, verdict>>
           /\ \A x \in todo : x # cur => TodoRow(x)
           /\ \/ UNCHANGED <<dStatus, dApplied>>
              \/ /\ dStatus' = [dStatus EXCEPT ![cur] = "filled"]
                 /\ dApplied' = dApplied \cup {l \in LegsOf(cur) : applied[l] > 0}
<1>1. /\ wpc = "save" /\ trade \in dTrade \cap LegsOf(cur) /\ trades \subseteq dTrade \cap LegsOf(cur)
  BY Basics DEF SaveApplied, WorkerHolds
<1>2. /\ dStatus[cur] = "pending" /\ mStatus[cur] = "filled" /\ save = "order" /\ unseen = {}
      /\ \A x \in todo : x # cur => TodoRow(x)
  BY <1>1, Basics DEF WorkerRows, AtOrder
<1>3. trades \ {trade} = {}
  BY <1>1, TradeRead DEF AtOrder
<1> QED BY <1>1, <1>2, <1>3 DEF SaveApplied, lookVars

LEMMA SaveAppliedRows ==
    ASSUME StoredInv, OneLeg, SaveApplied PROVE Rows'
<1>1. UNCHANGED <<dTrade, memVars, brokerVars, events, drainVars, alive, cur, todo, unseen>>
      /\ UNCHANGED <<mStatus, pendingQ, newQ, mTrade, applied, cached, legQty, broker, dpc, dleg>>
  BY SavedTrade DEF SaveApplied, pgVars, memVars, queueVars, brokerVars, drainVars
<1>2. /\ trade \in dTrade \cap LegsOf(cur) /\ wpc = "save" /\ unseen = {}
      /\ dStatus[cur] = "pending" /\ mStatus[cur] = "filled" /\ trades' = {} /\ wpc' = "fill"
      /\ \A x \in todo : x # cur => TodoRow(x)
  BY SavedTrade
<1>3. PICK t : t = trade
  OBVIOUS
<1>4. t \in Legs /\ Stored(t) /\ t[1] = cur /\ t = <<cur, 1>> /\ \A k \in dTrade \cap LegsOf(cur) : k = t
  BY <1>2, <1>3, TradeRead DEF AtOrder
<1>5. CASE UNCHANGED <<dStatus, dApplied>>
  <2>1. \A x \in todo : x # cur => TodoRow(x)'
    BY <1>1, <1>2, <1>5 DEF TodoRow
  <2>2. WorkerRows'
    BY <1>1, <1>2, <2>1 DEF WorkerRows, NoTradeSeen, AtOrder, AtClose
  <2> QED BY <1>1, <1>2, <1>5, <2>2, QuietWork DEF AtClose, dbVars
<1>6. CASE /\ dStatus' = [dStatus EXCEPT ![cur] = "filled"]
           /\ dApplied' = dApplied \cup {l \in LegsOf(cur) : applied[l] > 0}
  <2>1. SUFFICES ASSUME NEW o, o = cur PROVE Rows'
    OBVIOUS
  <2>2. /\ o \in Orders /\ o \in Items /\ OrderRow(o) /\ FollowsLeg(t)
        /\ dStatus \in [Items -> Status] /\ \A k \in Legs : applied[k] > 0 => k \in dTrade
    BY <1>4, <2>1, StoredLeg, Basics
  <2>3. dApplied' = dApplied \cup {t}
    <3>1. applied[t] = 1 /\ t \in LegsOf(o)
      BY <1>2, <1>3, <1>4, <2>1, <2>2 DEF OrderRow, Counted
    <3>2. {l \in LegsOf(cur) : applied[l] > 0} = {t}
      BY <1>4, <2>1, <2>2, <3>1, LegsOfType
    <3> QED BY <1>6, <3>2
  <2>4. /\ dStatus'[o] = "filled" /\ \A x \in Items : x # o => dStatus'[x] = dStatus[x]
    BY <1>6, <2>1, <2>2
  <2>5. OrderRow(o)' /\ FollowsLeg(t)'
    BY <1>1, <1>2, <1>4, <2>1, <2>2, <2>3, <2>4 DEF OrderRow, Counted, FollowsLeg, Known
  <2>6. {dStatus'[o], mStatus'[o]} \cap Refused \subseteq Refusals(t)
    BY <1>1, <1>2, <2>1, <2>4 DEF Refused
  <2>7. /\ LegRows' /\ OrderRows' /\ OrdersFollowLegs' /\ DrainRows'
        /\ \A x \in todo : x # cur /\ TodoRow(x) => TodoRow(x)'
    BY <1>1, <1>2, <1>4, <2>1, <2>3, <2>4, <2>5, <2>6, OrderStep DEF AtOrder, AtClose
  <2>8. WorkerRows'
    BY <1>1, <1>2, <2>7 DEF WorkerRows, NoTradeSeen, AtOrder, AtClose
  <2> QED BY <2>7, <2>8 DEF Rows
<1> QED BY <1>5, <1>6, SavedTrade

-----------------------------------------------------------------------------
(* The broker, deletions, crashes *)

(* The broker's first answer is the first there is. *)
LEMMA BrokerDecidesRows ==
    ASSUME StoredInv, NEW l \in Legs, BrokerDecides(l) PROVE Rows'
<1>1. /\ UNCHANGED <<dbVars, memVars, legQty, events, drainVars, workerVars, alive>> /\ broker[l] = "pending"
      /\ UNCHANGED <<dStatus, dTrade, dApplied, mStatus, pendingQ, newQ, mTrade, applied, cached, dpc, dleg,
                     wpc, todo, cur, trades, unseen, verdict, save>>
      /\ \A k \in Legs : k # l => broker'[k] = broker[k]
  BY Basics DEF BrokerDecides, pgVars, dbVars, memVars, queueVars, drainVars, workerVars, lookVars,
                ControlTypeOK, BrokerTypeOK
<1>2. /\ LegRows' /\ OrderRows' /\ DrainRows' /\ WorkerRows'
  BY <1>1, Basics DEF LegRows, LegRow, OrderRows, OrderRow, Counted, DrainRows, WorkerRows, NoTradeSeen,
                      TodoRow, Stored, Known
<1>3. ASSUME NEW k \in Legs, Stored(k) PROVE FollowsLeg(k)' /\ OneRefusal(k)'
  <2>1. FollowsLeg(k) /\ OneRefusal(k)
    BY <1>3, Basics DEF OrdersFollowLegs
  <2>2. Said(k)' \subseteq Said(k) \cup {broker'[k]}
    BY <1>1 DEF Said, AtClose
  <2>3. CASE k = l
    <3>1. Refusals(k) = {}
      BY <1>1, <2>1, <2>3 DEF OneRefusal
    <3>2. Refusals(k)' \subseteq {broker'[k]}
      BY <2>2, <3>1 DEF Refusals, Refused
    <3>3. Refusals(k)' \subseteq Refused
      BY DEF Refusals, Refused
    <3> QED BY <1>1, <2>1, <3>2, <3>3 DEF OneRefusal, FollowsLeg, Known, Refused
  <2>4. CASE k # l
    <3>1. broker'[k] = broker[k]
      BY <1>1, <2>4
    <3>2. Refusals(k)' \subseteq Refusals(k)
      BY <2>2, <3>1 DEF Refusals, Said, Refused
    <3> QED BY <1>1, <2>1, <3>1, <3>2, OneRefusalKept DEF FollowsLeg, Known
  <2> QED BY <2>3, <2>4
<1> QED BY <1>1, <1>2, <1>3 DEF Rows, OrdersFollowLegs, Stored

(* A later one takes a refusal back, if it may, and adds none. *)
LEMMA BrokerFillsLateRows ==
    ASSUME StoredInv, NEW l \in Legs, BrokerFillsLate(l) PROVE Rows'
<1>1. /\ UNCHANGED <<dbVars, memVars, legQty, events, drainVars, workerVars, alive>>
      /\ UNCHANGED <<dStatus, dTrade, dApplied, mStatus, pendingQ, newQ, mTrade, applied, cached, dpc, dleg,
                     wpc, todo, cur, trades, unseen, verdict, save>>
      /\ \A k \in Legs : k # l => broker'[k] = broker[k]
      /\ broker'[l] = "filled" /\ MaxLateFills # 0
  BY Basics DEF BrokerFillsLate, Spend, pgVars, dbVars, memVars, queueVars, drainVars, workerVars, lookVars,
                ControlTypeOK, BrokerTypeOK, StoredInv, NoLateFillLeft
<1>2. /\ LegRows' /\ OrderRows' /\ DrainRows' /\ WorkerRows'
  BY <1>1, Basics DEF LegRows, LegRow, OrderRows, OrderRow, Counted, DrainRows, WorkerRows, NoTradeSeen,
                      TodoRow, Stored, Known
<1>3. ASSUME NEW k \in Legs, Stored(k) PROVE FollowsLeg(k)' /\ OneRefusal(k)'
  <2>1. FollowsLeg(k) /\ OneRefusal(k)
    BY <1>3, Basics DEF OrdersFollowLegs
  <2>2. Refusals(k)' \subseteq Refusals(k)
    BY <1>1 DEF Refusals, Said, AtClose, Refused
  <2> QED BY <1>1, <2>1, <2>2 DEF OneRefusal, FollowsLeg, Known
<1> QED BY <1>1, <1>2, <1>3 DEF Rows, OrdersFollowLegs, Stored

LEMMA DeletePlaygroundRows ==
    ASSUME StoredInv, NEW p \in Playgrounds, DeletePlayground(p) PROVE Rows'
<1>1. /\ UNCHANGED <<dbVars, memVars, brokerVars, events, drainVars, workerVars>>
      /\ UNCHANGED <<dStatus, dTrade, dApplied, mStatus, pendingQ, newQ, mTrade, applied, cached, broker, legQty,
                     dpc, dleg, wpc, todo, cur, trades, unseen, verdict, save>>
  BY DEF DeletePlayground, dbVars, memVars, queueVars, brokerVars, drainVars, workerVars, lookVars
<1>2. \A o \in Orders : ~Known(o) => ~Known(o)'
  <2>1. alive \in [Playgrounds -> {"live", "row deleted", "deleted"}]
    BY Basics DEF ControlTypeOK, OtherTypeOK
  <2>2. \A q \in Playgrounds : alive[q] = "deleted" => alive'[q] = "deleted"
    BY <2>1 DEF DeletePlayground
  <2>3. \A o \in Orders : PgOf(o) \in Playgrounds
    BY ConstantsAssumption DEF PgOf
  <2> QED BY <2>2, <2>3 DEF Known, PgOf
<1>3. DrainRows' /\ WorkerRows'
  BY <1>1, Basics DEF DrainRows, WorkerRows, NoTradeSeen, TodoRow, Stored
<1>4. \A l \in Legs : Refusals(l)' \subseteq Refusals(l)
  BY <1>1, NoEvents, QuietRefusals
<1>5. LegRows' /\ OrderRows' /\ OrdersFollowLegs'
  BY <1>1, <1>2, <1>4, RowsKept
<1> QED BY <1>3, <1>5 DEF Rows

(* A restart makes memory what the rows say. *)
LEMMA CrashRows ==
    ASSUME StoredInv, OneLeg, Crash PROVE Rows'
<1>1. /\ UNCHANGED <<dStatus, dTrade, dApplied>> /\ mTrade' = dTrade /\ wpc' = "idle" /\ dpc' = "idle"
      /\ events' = <<>>
      /\ \A x \in Items : mStatus'[x] = IF Loaded(x) THEN dStatus[x] ELSE "absent"
      /\ \A l \in Legs : applied'[l] = IF l \in dApplied THEN 1 ELSE 0
      /\ pendingQ' = InDb("pending") /\ newQ' = InDb("new")
      /\ cached' = {l \in Legs : Stored(l)}
      /\ \A l \in Legs : Stored(l) => legQty'[l] = legQty[l] /\ broker'[l] = broker[l]
      /\ \A p \in Playgrounds : alive[p] # "live" => alive'[p] = "deleted"
      /\ LegRows /\ OrderRows /\ OrdersFollowLegs /\ LegsComeAfterOrders
      /\ dTrade \subseteq mTrade /\ mTrade \subseteq Legs
  BY Basics DEF Crash, dbVars, EndPoll, Forget, Set, Stored, ControlTypeOK, BrokerTypeOK
<1>2. \A l \in Legs : Loaded(l) /\ l \in Items /\ mStatus'[l] = dStatus[l]
  BY <1>1, Kinds DEF Loaded
<1>3. \A o \in Orders : mStatus'[o] = dStatus[o] \/ (mStatus'[o] = "absent" /\ ~Known(o)')
  <2> SUFFICES ASSUME NEW o \in Orders, ~Loaded(o) PROVE ~Known(o)'
    BY <1>1, Kinds
  <2>1. PgOf(o) \in Playgrounds /\ alive[PgOf(o)] # "live"
    BY ConstantsAssumption DEF Loaded, PgOf
  <2> QED BY <1>1, <2>1 DEF Known, PgOf
<1>4. LegRows'
  <2> SUFFICES ASSUME NEW l \in Legs PROVE LegRow(l)'
    BY DEF LegRows
  <2>1. LegRow(l) /\ mStatus'[l] = dStatus[l]
    BY <1>1, <1>2 DEF LegRows
  <2>2. l \in dTrade <=> dStatus[l] = "filled"
    BY <2>1 DEF LegRow
  <2>3. l \in pendingQ' => dStatus[l] = "pending"
    BY <1>1 DEF InDb
  <2> QED BY <1>1, <2>1, <2>2, <2>3 DEF LegRow, Stored
<1>5. OrderRows'
  <2> SUFFICES ASSUME NEW o \in Orders PROVE OrderRow(o)'
    BY DEF OrderRows
  <2>1. OrderRow(o) /\ <<o, 1>> \in Legs
    BY <1>1, Kinds DEF OrderRows
  <2>2. Counted(o)'
    BY <1>1, <1>3, <2>1 DEF OrderRow, Counted
  <2> QED BY <1>1, <1>3, <2>1, <2>2 DEF OrderRow
<1>6. OrdersFollowLegs'
  <2> SUFFICES ASSUME NEW l \in Legs, Stored(l) PROVE FollowsLeg(l)' /\ OneRefusal(l)'
    BY <1>1 DEF OrdersFollowLegs, Stored
  <2>1. /\ l[1] \in Orders /\ l[1] \in Items /\ dStatus[l[1]] \in Accepted /\ FollowsLeg(l) /\ OneRefusal(l)
    BY <1>1, Kinds DEF LegsComeAfterOrders, OrdersFollowLegs
  <2>2. l[1] \in pendingQ' <=> mStatus'[l[1]] = "pending"
    BY <1>1, <2>1 DEF InDb
  <2>3. l[1] \notin newQ'
    BY <1>1, <2>1 DEF InDb, Accepted, Ended
  <2>4. FollowsLeg(l)'
    BY <1>1, <1>3, <2>1, <2>2, <2>3 DEF FollowsLeg, Accepted, Ended
  <2>5. Refusals(l)' \subseteq Refusals(l)
    <3>1. Said(l)' \subseteq {dStatus[l], dStatus[l[1]], broker[l], "absent"}
      BY <1>1, <1>2, <1>3, <2>1 DEF Said, AtClose
    <3> QED BY <3>1 DEF Refusals, Said, Refused
  <2> QED BY <1>1, <2>1, <2>4, <2>5, OneRefusalKept
<1>7. DrainRows' /\ WorkerRows'
  BY <1>1 DEF DrainRows, AtReset, WorkerRows, NoTradeSeen, AtOrder, AtClose
<1> QED BY <1>4, <1>5, <1>6, <1>7 DEF Rows

-----------------------------------------------------------------------------
(* No fault spends what there is none of. *)
LEMMA FaultsSpend ==
    ASSUME ControlTypeOK, [Next]_vars
    PROVE  \A k \in {"crash", "late"} : budget[k] = 0 => budget'[k] = 0
<1>1. UNCHANGED budget \/ SpendBoth("send", "db") \/ \E k \in {"crash", "db", "send", "late"} : Spend(k)
  <2>1. ASSUME NEW o \in Orders, PlaceOrder(o) PROVE UNCHANGED budget
    BY <2>1 DEF PlaceOrder
  <2>2. ASSUME NEW c \in Callers, Placement(c) PROVE UNCHANGED budget \/ Spend("db")
    BY <2>2 DEF Placement, SendLeg, CommitPlaced, CommitQueued, CommitSaved
  <2>3. CASE Drain
    BY <2>3 DEF Drain, DrainFill, DrainSkip, DrainClose, DrainSave, ResetRow, ResetRecords, FillAfterReset
  <2>4. CASE Worker
    BY <2>4 DEF Worker, StartPoll, FetchPending, FetchNew, FinishPoll, FinishOrder, SaveApplied, PollLeg,
                ApplyTrade, ReadTrades, FindPlayground, LookAtLeg, CloseRow, CloseRecord, PlaceNew
  <2>5. CASE Faults
    BY <2>5 DEF Faults, Crash, SendFails
  <2>6. CASE \/ \E l \in Legs : BrokerDecides(l) \/ BrokerFillsLate(l)
             \/ \E p \in Playgrounds : DeletePlayground(p)
    BY <2>6 DEF BrokerDecides, BrokerFillsLate, DeletePlayground
  <2>7. CASE UNCHANGED vars
    BY <2>7 DEF vars
  <2> QED BY <2>1, <2>2, <2>3, <2>4, <2>5, <2>6, <2>7 DEF Next
<1>2. budget \in [{"crash", "db", "send", "late"} -> Nat]
  BY DEF ControlTypeOK, OtherTypeOK
<1> QED BY <1>1, <1>2 DEF Spend, SpendBoth

LEMMA SizedStep ==
    ASSUME Inv, Quantities, Sized, OneLeg, [Next]_vars PROVE Sized'
<1>1. /\ SizeStep /\ legQty \in [Legs -> Int] /\ pos[Recon] \in Int
      /\ \A o \in Orders : /\ Quantity[o] \in Int /\ Quantity[o] # 0
                           /\ \A k \in {1, 2} : <<o, k>> \in Legs /\ <<o, k>>[1] = o /\ <<o, k>>[2] = k
  BY SizesStep, ConstantsAssumption DEF Quantities, Accounts, Legs
<1>2. CASE UNCHANGED legQty
  BY <1>2 DEF Sized
<1>3. ASSUME NEW o \in Orders, Sizes(o) PROVE Sized'
  <2>1. \A x \in Orders, k \in {1, 2} :
           legQty'[<<x, k>>] = IF x = o THEN LegQuantity(pos[Recon], Quantity[o], k) ELSE legQty[<<x, k>>]
    BY <1>1, <1>3 DEF Sizes
  <2>2. LegQuantity(pos[Recon], Quantity[o], 2) = 0 => LegQuantity(pos[Recon], Quantity[o], 1) = Quantity[o]
    BY <1>1, Splitting
  <2>3. \A x \in Orders : legQty'[<<x, 2>>] = 0 => legQty'[<<x, 1>>] \in {0, Quantity[x]}
    BY <2>1, <2>2 DEF Sized
  <2> QED BY <2>3 DEF Sized
<1>4. ASSUME NEW S \in SUBSET Legs, legQty' = Set(legQty, S, 0) PROVE Sized'
  <2>1. \A x \in Orders : legQty'[<<x, 1>>] \in {0, legQty[<<x, 1>>]}
    BY <1>1, <1>4 DEF Set
  <2> QED BY <2>1 DEF Sized, OneLeg
<1>5. CASE Crash
  BY <1>4, <1>5, RestartSizes
<1> QED BY <1>1, <1>2, <1>3, <1>4, <1>5 DEF SizeStep

LEMMA RowsStep == ASSUME StoredInv, OneLeg, [Next]_vars PROVE Rows'
<1>1. ASSUME NEW o \in Orders, PlaceOrder(o) PROVE Rows'
  BY <1>1, PlaceOrderRows
<1>2. ASSUME NEW c \in Callers, Placement(c) PROVE Rows'
  BY <1>2, SendLegRows, CommitPlacedRows, CommitQueuedRows DEF Placement
<1>3. CASE Drain
  BY <1>3, DrainFillRows, DrainSkipRows, DrainCloseRows, DrainSaveRows, ResetRowRows, ResetRecordsRows,
     FillAfterResetRows DEF Drain
<1>4. CASE Worker
  <2>1. CASE StartPoll \/ FetchPending \/ FetchNew \/ FinishPoll \/ FinishOrder \/ SaveApplied
    BY <2>1, FetchRows, FinishOrderRows, SaveAppliedRows
  <2>2. CASE FindPlayground \/ CloseRow \/ CloseRecord
    BY <2>2, FindPlaygroundRows, CloseRowRows, CloseRecordRows
  <2>3. CASE \E l \in Legs : PollLeg(l) \/ LookAtLeg(l) \/ ApplyTrade(l)
    BY <2>3, PollLegRows, LookAtLegRows, ApplyTradeRows
  <2>4. CASE \E o \in Orders : ReadTrades(o) \/ PlaceNew(o)
    BY <2>4, ReadTradesRows, PlaceNewRows
  <2> QED BY <1>4, <2>1, <2>2, <2>3, <2>4 DEF Worker
<1>5. CASE Faults
  BY <1>5, CrashRows, SendFailsRows DEF Faults
<1>6. CASE \/ \E l \in Legs : BrokerDecides(l) \/ BrokerFillsLate(l)
           \/ \E p \in Playgrounds : DeletePlayground(p)
  BY <1>6, BrokerDecidesRows, BrokerFillsLateRows, DeletePlaygroundRows
<1>7. CASE UNCHANGED vars
  <2>1. /\ UNCHANGED <<dbVars, memVars, brokerVars, drainVars, alive, events, wpc, cur, verdict>>
        /\ UNCHANGED <<dStatus, mStatus, wpc, todo, cur, trades, unseen, save, dpc, dleg>>
    BY <1>7 DEF vars, workerVars, lookVars, pgVars, dbVars, memVars, drainVars
  <2>2. WorkerRows'
    BY <2>1, Basics DEF WorkerRows, NoTradeSeen, TodoRow, Stored
  <2> QED BY <2>1, <2>2, QuietWork
<1> QED BY <1>1, <1>2, <1>3, <1>4, <1>5, <1>6, <1>7 DEF Next

LEMMA StoredInvStep == StoredInv /\ OneLeg /\ [Next]_vars => StoredInv'
<1> SUFFICES ASSUME StoredInv, OneLeg, [Next]_vars PROVE StoredInv'
  OBVIOUS
<1>1. Inv' /\ Quantities'
  BY TypesStep DEF TypeInv, StoredInv
<1>2. Sized'
  BY SizedStep DEF StoredInv
<1>3. NoLateFillLeft'
  BY Basics, FaultsSpend DEF StoredInv, NoLateFillLeft
<1> QED BY <1>1, <1>2, <1>3, RowsStep DEF StoredInv

-----------------------------------------------------------------------------
(* What is final stays so *)

LEMMA StoredEnds == StoredInv => StoredEndIsRemembered
<1> SUFFICES ASSUME StoredInv PROVE StoredEndIsRemembered
  OBVIOUS
<1>1. ASSUME NEW l \in Legs, dStatus[l] \in Ended PROVE mStatus[l] = dStatus[l]
  BY <1>1, Basics DEF LegRows, LegRow, Stored, Ended
<1>2. ASSUME NEW o \in Orders, dStatus[o] \in Ended, Known(o)
      PROVE  mStatus[o] = dStatus[o] \/ (dStatus[o] # "filled" /\ mStatus[o] = "pending")
  BY <1>2, Basics DEF OrderRows, OrderRow
<1> QED BY <1>1, <1>2 DEF StoredEndIsRemembered

(* Memory holds no other end of a leg or a live order than the database, and *)
(* knows each stored end of a leg and each stored fill, whatever crashes, is *)
(* refused, fails to be saved or is filled late while the worker closes the  *)
(* order, unless an order is split.  That a rejected live order is rejected  *)
(* in memory too is not claimed, and not true.                               *)
THEOREM StoredEndIsRememberedHolds ==
    Spec /\ []OneLeg => []StoredEndIsRemembered
BY InitStored, StoredInvStep, StoredEnds, PTL DEF Spec

FillKept == \A x \in Items : dStatus[x] = "filled" => dStatus'[x] = "filled"

(* Rows of trades are only ever added. *)
LEMMA TradesKept == [Next]_vars => dTrade \subseteq dTrade' /\ dApplied \subseteq dApplied'
<1> SUFFICES ASSUME [Next]_vars PROVE dTrade \subseteq dTrade' /\ dApplied \subseteq dApplied'
  OBVIOUS
<1>1. ASSUME NEW o \in Orders, PlaceOrder(o) PROVE UNCHANGED <<dTrade, dApplied>>
  BY <1>1 DEF PlaceOrder
<1>2. ASSUME NEW c \in Callers, Placement(c) \/ SendFails(c) PROVE UNCHANGED <<dTrade, dApplied>>
  BY <1>2 DEF Placement, SendLeg, CommitPlaced, CommitQueued, SendFails, RejectNew, dbVars
<1>3. ASSUME Drain PROVE dTrade \subseteq dTrade' /\ dApplied \subseteq dApplied'
  BY <1>3 DEF Drain, DrainFill, DrainSkip, DrainClose, CloseRows, DrainSave, ResetRow, ResetRecords,
              FillAfterReset, dbVars
<1>4. ASSUME Worker PROVE dTrade \subseteq dTrade' /\ dApplied \subseteq dApplied'
  BY <1>4 DEF Worker, StartPoll, FetchPending, FetchNew, FinishPoll, FinishOrder, SaveApplied, PollLeg,
              ApplyTrade, ReadTrades, FindPlayground, LookAtLeg, CloseRow, CloseRecord, PlaceNew, dbVars
<1>5. ASSUME \/ Crash \/ \E l \in Legs : BrokerDecides(l) \/ BrokerFillsLate(l)
             \/ \E p \in Playgrounds : DeletePlayground(p)
      PROVE  UNCHANGED <<dTrade, dApplied>>
  BY <1>5 DEF Crash, BrokerDecides, BrokerFillsLate, DeletePlayground, dbVars, vars
<1>6. CASE UNCHANGED vars
  BY <1>6 DEF vars, dbVars
<1> QED BY <1>1, <1>2, <1>3, <1>4, <1>5, <1>6 DEF Next, Faults

(* A leg is filled in the database exactly when its trade is there, a live   *)
(* order when the trade is there under its name.                             *)
LEMMA FillKeptStep == StoredInv /\ OneLeg /\ [Next]_vars => FillKept
<1> SUFFICES ASSUME StoredInv, OneLeg, [Next]_vars, NEW x \in Items, dStatus[x] = "filled"
             PROVE  dStatus'[x] = "filled"
  BY DEF FillKept
<1>1. LegRows /\ LegRows' /\ OrderRows /\ OrderRows'
  BY Basics, RowsStep DEF Rows
<1>2. CASE x \in Legs
  BY <1>1, <1>2, TradesKept DEF LegRows, LegRow
<1>3. CASE x \in Orders
  BY <1>1, <1>3, TradesKept DEF OrderRows, OrderRow, Counted
<1> QED BY <1>2, <1>3 DEF Items

(* Whatever crashes, is refused, fails to be saved or is filled late: an     *)
(* order or leg the database calls filled stays filled there, unless an      *)
(* order is split.                                                           *)
THEOREM StoredFillIsFinalHolds ==
    Spec /\ []OneLeg => StoredFillIsFinal
BY InitStored, StoredInvStep, FillKeptStep, PTL DEF Spec, StoredFillIsFinal, FillKept

(* Orders of one side are never split: that alone makes what the database    *)
(* holds as final final, whatever crashes, is not saved or is filled late.   *)
THEOREM OneSidedEndsStand ==
    ASSUME OneSided
    PROVE  Spec => []StoredEndIsRemembered /\ StoredFillIsFinal
BY OneSideIsNeverSplit, StoredEndIsRememberedHolds, StoredFillIsFinalHolds, PTL

-----------------------------------------------------------------------------
(* The books: the reconcile playground holds the orders whose leg is filled, *)
(* the live playgrounds together the orders that have taken their fill.      *)

Total(S) == SumFunctionOnSet(Quantity, S)
LegFilled == {o \in Orders : <<o, 1>> \in mTrade}
Taken == {o \in Orders : applied[<<o, 1>>] = 1}
Sums == pos[Recon] = Total(LegFilled) /\ PositionSum = Total(Taken)

(* Memory is not lost, or it is not lost with an order that was worked.      *)
AllLive == \A p \in Playgrounds : alive[p] = "live"
Reloadable == budget["crash"] = 0 \/ (Deletable = {} /\ AllLive)
BooksInv == StoredInv /\ Sums /\ Reloadable

LEMMA OwnSum ==
    /\ PositionSum = SumFunctionOnSet(pos, Playgrounds)
    /\ PositionSum' = SumFunctionOnSet(pos', Playgrounds)
<1>1. PositionSum = SumFunctionOnSet(pos, Playgrounds)
  BY DEF PositionSum, MapThenSumSet, MapThenFoldSet, SumFunctionOnSet, FoldFunctionOnSet
<1>2. PositionSum' = SumFunctionOnSet(pos', Playgrounds)
  BY DEF PositionSum, MapThenSumSet, MapThenFoldSet, SumFunctionOnSet, FoldFunctionOnSet
<1> QED BY <1>1, <1>2

LEMMA TotalType ==
    ASSUME NEW S \in SUBSET Orders
    PROVE  /\ IsFiniteSet(S) /\ Total(S) \in Int
           /\ \A o \in Orders \ S : Total(S \cup {o}) = Quantity[o] + Total(S)
<1>1. IsFiniteSet(S) /\ \A o \in Orders : Quantity[o] \in Int
  BY ConstantsAssumption, FS_Subset
<1>2. ASSUME NEW o \in Orders \ S PROVE Total(S \cup {o}) = Quantity[o] + Total(S)
  BY <1>1, SumAdd DEF Total
<1> QED BY <1>1, <1>2, SumType DEF Total

LEMMA InitSums == Init => Sums
<1> SUFFICES ASSUME Init PROVE Sums
  OBVIOUS
<1>1. /\ \A a \in Accounts : pos[a] = 0
      /\ Recon \in Accounts /\ Playgrounds \subseteq Accounts /\ IsFiniteSet(Playgrounds)
  BY ConstantsAssumption DEF Init, Accounts
<1>2. LegFilled = {} /\ Taken = {}
  BY Kinds DEF Init, LegFilled, Taken
<1>3. SumFunctionOnSet(pos, Playgrounds) = 0
  BY <1>1, SumOfZeros
<1> QED BY <1>1, <1>2, <1>3, OwnSum, SumEmpty DEF Sums, Total

(* The fill of a leg. *)
LEMMA FillSums ==
    ASSUME StoredInv, OneLeg, Sums, NEW l \in Legs, Stored(l), l \notin mTrade, FillLeg(l), UNCHANGED applied
    PROVE  Sums'
<1>1. /\ l = <<l[1], 1>> /\ l[1] \in Orders /\ legQty[l] = Quantity[l[1]]
      /\ pos \in [Accounts -> Int] /\ Recon \in Accounts /\ Playgrounds \subseteq Accounts
      /\ Recon \notin Playgrounds /\ Quantity[l[1]] \in Int /\ IsFiniteSet(Playgrounds)
  BY FirstLeg, Basics, ConstantsAssumption DEF Accounts
<1>2. mTrade' = mTrade \cup {l} /\ pos' = [pos EXCEPT ![Recon] = @ + legQty[l]]
  BY DEF FillLeg
<1>3. /\ LegFilled' = LegFilled \cup {l[1]} /\ l[1] \in Orders \ LegFilled /\ LegFilled \in SUBSET Orders
      /\ Taken' = Taken
  BY <1>1, <1>2 DEF LegFilled, Taken
<1>4. Total(LegFilled') = Quantity[l[1]] + Total(LegFilled)
  BY <1>3, TotalType
<1>5. /\ pos'[Recon] = pos[Recon] + Quantity[l[1]] /\ pos[Recon] \in Int
      /\ \A p \in Playgrounds : pos[p] = pos'[p]
  BY <1>1, <1>2
<1>6. SumFunctionOnSet(pos, Playgrounds) = SumFunctionOnSet(pos', Playgrounds)
  BY ONLY <1>1, <1>5, SumSame
<1>7. pos'[Recon] = Total(LegFilled')
  BY <1>1, <1>4, <1>5 DEF Sums
<1> QED BY <1>3, <1>6, <1>7, OwnSum DEF Sums, Total

(* The fill of a live order. *)
LEMMA TakeSums ==
    ASSUME StoredInv, OneLeg, Sums, NEW t \in Legs, ApplyTrade(t) PROVE Sums'
<1> SUFFICES ASSUME NEW o, o = cur PROVE Sums'
  OBVIOUS
<1>1. UNCHANGED mTrade
  BY DEF ApplyTrade
<1>2. CASE o \notin pendingQ
  <2>1. UNCHANGED <<applied, pos>>
    BY <1>2, TradeFits
  <2>2. UNCHANGED <<LegFilled, Taken, PositionSum>>
    BY <1>1, <2>1, OwnSum DEF LegFilled, Taken
  <2> QED BY <2>1, <2>2 DEF Sums, Total
<1>3. CASE o \in pendingQ
  <2>1. /\ applied[t] = 0 /\ applied' = [applied EXCEPT ![t] = 1]
        /\ pos' = [pos EXCEPT ![PgOf(o)] = @ + Quantity[o]]
        /\ o \in Orders /\ t = <<o, 1>> /\ applied \in [Legs -> Nat]
    BY <1>3, TradeFits, TradeRead, Basics DEF AtOrder, WorkerHolds
  <2>2. /\ pos \in [Accounts -> Int] /\ PgOf(o) \in Playgrounds /\ PgOf(o) # Recon
        /\ Playgrounds \subseteq Accounts /\ Recon \in Accounts /\ Recon \notin Playgrounds
        /\ Quantity[o] \in Int /\ IsFiniteSet(Playgrounds)
    BY <2>1, Basics, ConstantsAssumption DEF Accounts, PgOf
  <2>3. \A x \in Orders : applied'[<<x, 1>>] = IF x = o THEN 1 ELSE applied[<<x, 1>>]
    BY <2>1, Kinds
  <2>4. /\ Taken' = Taken \cup {o} /\ o \in Orders \ Taken
        /\ Taken \in SUBSET Orders /\ LegFilled' = LegFilled
    BY <1>1, <2>1, <2>3 DEF Taken, LegFilled
  <2>5. Total(Taken') = Quantity[o] + Total(Taken)
    BY <2>4, TotalType
  <2>6. /\ pos'[Recon] = pos[Recon]
        /\ \A p \in Playgrounds : pos[p] \in Int
        /\ pos'[PgOf(o)] = pos[PgOf(o)] + Quantity[o] /\ pos'[PgOf(o)] \in Int
        /\ \A p \in Playgrounds \ {PgOf(o)} : pos'[p] = pos[p]
    BY <2>1, <2>2
  <2>7. SumFunctionOnSet(pos', Playgrounds)
           = SumFunctionOnSet(pos, Playgrounds) + (pos'[PgOf(o)] - pos[PgOf(o)])
    BY ONLY <2>2, <2>6, SumUpdate
  <2>8. SumFunctionOnSet(pos, Playgrounds) \in Int
    BY ONLY <2>2, <2>6, SumType
  <2>9. pos'[PgOf(o)] - pos[PgOf(o)] = Quantity[o]
    BY <2>2, <2>6
  <2> QED BY <2>2, <2>4, <2>5, <2>6, <2>7, <2>8, <2>9, OwnSum, TotalType DEF Sums, Total
<1> QED BY <1>2, <1>3

-----------------------------------------------------------------------------
(* A restart counts the positions again, from the rows. *)

(* Stored legs are worth what their orders are. *)
LEMMA LegsAddUp ==
    ASSUME StoredInv, OneLeg, NEW F \in SUBSET Legs, \A l \in F : Stored(l)
    PROVE  SumFunctionOnSet(legQty, F) = Total({o \in Orders : <<o, 1>> \in F})
<1> DEFINE P == {o \in Orders : <<o, 1>> \in F}
           g == [l \in F |-> l[1]]
           Part == [o \in P |-> {l \in F : g[l] = o}]
<1>1. \A l \in F : l \in Legs /\ l = <<l[1], 1>> /\ l[1] \in Orders /\ legQty[l] = Quantity[l[1]]
  BY FirstLeg
<1>2. \A o \in Orders : Quantity[o] \in Int /\ <<o, 1>>[1] = o
  BY ConstantsAssumption
<1>3. IsFiniteSet(F) /\ IsFiniteSet(P)
  <2>1. P \in SUBSET Orders
    OBVIOUS
  <2> QED BY <2>1, LegsFinite, FS_Subset, ConstantsAssumption
<1>4. \A l \in F : legQty[l] \in Int /\ g[l] \in P
  BY <1>1, <1>2
<1>5. ASSUME NEW o \in P PROVE Quantity[o] = SumFunctionOnSet(legQty, Part[o])
  <2>1. <<o, 1>> \in F /\ legQty[<<o, 1>>] = Quantity[o] /\ Quantity[o] \in Int
    BY <1>1, <1>2
  <2>2. Part[o] = {<<o, 1>>}
    BY <1>1, <1>2, <2>1
  <2> HIDE DEF Part
  <2> QED BY <2>1, <2>2, SumSingleton
<1>6. \A o \in P : Part[o] = {l \in F : g[l] = o}
  OBVIOUS
<1> HIDE DEF P, g, Part
<1>7. SumFunctionOnSet(Quantity, P) = SumFunctionOnSet(legQty, F)
  <2>1. SumsOfParts(legQty, g, Quantity, Part, F, P)
    BY ONLY <1>4, <1>5, <1>6 DEF SumsOfParts
  <2> QED BY ONLY <1>3, <2>1, SumByParts
<1> QED BY <1>7 DEF P, Total

(* What the database holds of a filled order is all of it. *)
LEMMA FilledVolumeStored ==
    ASSUME StoredInv, OneLeg, NEW o \in Orders, dStatus[o] = "filled"
    PROVE  DbVolume(o) = Quantity[o]
<1>1. LegsOf(o) \cap dApplied = {<<o, 1>>}
  <2>1. <<o, 1>> \in LegsOf(o) /\ <<o, 1>> \in dApplied
    BY Kinds, Basics DEF OrderRows, OrderRow, Counted
  <2>2. \A l \in LegsOf(o) \cap dApplied : l \in Legs /\ Stored(l) /\ l[1] = o
    BY LegsOfType, Basics DEF OnlyStoredLegsMove
  <2> QED BY <2>1, <2>2, FirstLeg
<1>2. legQty[<<o, 1>>] = Quantity[o] /\ Quantity[o] \in Int
  <2>1. <<o, 1>> \in Legs /\ Stored(<<o, 1>>) /\ <<o, 1>>[1] = o
    BY <1>1, Kinds, Basics DEF OnlyStoredLegsMove
  <2> QED BY <2>1, FirstLeg, ConstantsAssumption
<1>3. DbVolume(o) = SumFunctionOnSet(legQty, LegsOf(o) \cap dApplied)
  BY DEF DbVolume, MapThenSumSet, MapThenFoldSet, SumFunctionOnSet, FoldFunctionOnSet
<1> QED BY <1>1, <1>2, <1>3, SumSingleton

LEMMA CrashSums ==
    ASSUME StoredInv, OneLeg, AllLive, Crash PROVE Sums'
<1> DEFINE D(a) == {o \in Orders : PgOf(o) = a /\ o \in InDb("filled")}
           F == {l \in dTrade : dStatus[l] = "filled"}
           U == {o \in Orders : dStatus[o] = "filled"}
           Part == [p \in Playgrounds |-> {o \in U : PlaygroundOf[o] = p}]
<1>1. /\ pos' = [a \in Accounts |-> IF a = Recon THEN MapThenSumSet(LAMBDA l : legQty[l], F)
                                    ELSE MapThenSumSet(DbVolume, D(a))]
      /\ mTrade' = dTrade
      /\ \A l \in Legs : applied'[l] = IF l \in dApplied THEN 1 ELSE 0
  BY DEF Crash
<1>2. MapThenSumSet(LAMBDA l : legQty[l], F) = SumFunctionOnSet(legQty, F)
  BY DEF MapThenSumSet, MapThenFoldSet, SumFunctionOnSet, FoldFunctionOnSet
<1>3. \A o \in Orders : Loaded(o) /\ o \in Items /\ PgOf(o) \in Playgrounds /\ PgOf(o) = PlaygroundOf[o]
  BY Kinds, ConstantsAssumption DEF AllLive, Loaded, PgOf
<1>4. Taken' = U /\ LegFilled' = {o \in Orders : <<o, 1>> \in dTrade}
  <2>1. \A o \in Orders : <<o, 1>> \in Legs /\ (<<o, 1>> \in dApplied <=> dStatus[o] = "filled")
    BY Kinds, Basics DEF OrderRows, OrderRow, Counted
  <2> QED BY <1>1, <2>1 DEF Taken, LegFilled
<1>5. \A p \in Playgrounds :
         D(p) = Part[p] /\ Part[p] = {o \in U : PlaygroundOf[o] = p}
  BY <1>3 DEF InDb
<1>6. Recon \in Accounts /\ \A p \in Playgrounds : p \in Accounts /\ p # Recon
  BY ConstantsAssumption DEF Accounts
<1>7. IsFiniteSet(U) /\ IsFiniteSet(Playgrounds) /\ U \in SUBSET Orders
  BY ConstantsAssumption, FS_Subset
<1>8. pos'[Recon] = Total(LegFilled')
  <2>1. \A l \in dTrade : l \in Legs /\ Stored(l) /\ dStatus[l] = "filled"
    BY Basics DEF LegRows, LegRow, OnlyStoredLegsMove
  <2>2. F = dTrade
    BY <2>1
  <2> HIDE DEF F
  <2>3. SumFunctionOnSet(legQty, F) = Total({o \in Orders : <<o, 1>> \in F})
    BY <2>1, <2>2, LegsAddUp
  <2> QED BY <1>1, <1>2, <1>4, <1>6, <2>2, <2>3
<1> HIDE DEF F, D, U, Part
<1>9. ASSUME NEW o \in U PROVE Volumes[o] = Quantity[o] /\ Volumes[o] \in Int /\ PlaygroundOf[o] \in Playgrounds
  BY <1>3, <1>7, <1>9, FilledVolumeStored, ConstantsAssumption DEF Volumes, U
<1>10. ASSUME NEW p \in Playgrounds
       PROVE  pos'[p] = SumFunctionOnSet(Volumes, Part[p])
  <2>1. D(p) \in SUBSET Orders /\ pos'[p] = MapThenSumSet(DbVolume, D(p))
    BY <1>1, <1>6 DEF D
  <2> QED BY <1>5, <2>1, VolumeSum
<1>11. SumFunctionOnSet(pos', Playgrounds) = SumFunctionOnSet(Volumes, U)
  <2>1. SumsOfParts(Volumes, PlaygroundOf, pos', Part, U, Playgrounds)
    BY ONLY <1>5, <1>9, <1>10 DEF SumsOfParts
  <2> QED BY ONLY <1>7, <2>1, SumByParts
<1>12. SumFunctionOnSet(Volumes, U) = SumFunctionOnSet(Quantity, U)
  BY ONLY <1>7, <1>9, SumSame
<1> QED BY <1>4, <1>8, <1>11, <1>12, OwnSum DEF Sums, Total

-----------------------------------------------------------------------------
(* No other step moves a position. *)
LEMMA PositionsStand ==
    ASSUME StoredInv, OneLeg, [Next]_vars, ~Crash, \A t \in Legs : ~ApplyTrade(t)
    PROVE  \/ UNCHANGED <<mTrade, applied, pos>>
           \/ \E l \in Legs : Stored(l) /\ l \notin mTrade /\ FillLeg(l) /\ UNCHANGED applied
<1>1. ASSUME NEW o \in Orders, PlaceOrder(o) PROVE UNCHANGED <<mTrade, applied, pos>>
  BY <1>1 DEF PlaceOrder, memVars
<1>2. ASSUME NEW c \in Callers, Placement(c) \/ SendFails(c) PROVE UNCHANGED <<mTrade, applied, pos>>
  BY <1>2 DEF Placement, SendLeg, CommitPlaced, CommitQueued, SendFails, RejectNew, memVars
<1>3. CASE DrainFill
  <2>1. SUFFICES ASSUME NEW l, l = Head(events).leg
                 PROVE  UNCHANGED <<mTrade, applied, pos>> \/ (Stored(l) /\ l \in Legs /\ l \notin mTrade
                                                               /\ FillLeg(l) /\ UNCHANGED applied)
    OBVIOUS
  <2>2. l \in Legs /\ Stored(l) /\ mStatus[l] # "filled"
    BY <1>3, <2>1, Heard DEF DrainFill, AlreadyFilled
  <2>3. l \notin mTrade
    BY <2>2, Basics DEF LegRows, LegRow
  <2> QED BY <1>3, <2>1, <2>2, <2>3 DEF DrainFill, CommitFill
<1>4. CASE FillAfterReset
  <2>1. dleg \in Legs /\ Stored(dleg) /\ dleg \notin mTrade
    BY <1>4, Resetting DEF FillAfterReset, AtReset
  <2> QED BY <1>4, <2>1 DEF FillAfterReset, CommitFill
<1>5. CASE DrainSkip \/ DrainClose \/ DrainSave \/ ResetRow \/ ResetRecords
  BY <1>5 DEF DrainSkip, DrainClose, DrainSave, ResetRow, ResetRecords, memVars
<1>6. CASE Worker
  BY <1>6 DEF Worker, StartPoll, FetchPending, FetchNew, FinishPoll, FinishOrder, SaveApplied, PollLeg,
              ReadTrades, FindPlayground, LookAtLeg, CloseRow, CloseRecord, PlaceNew, RejectNew, memVars
<1>7. CASE \/ \E l \in Legs : BrokerDecides(l) \/ BrokerFillsLate(l)
           \/ \E p \in Playgrounds : DeletePlayground(p)
  BY <1>7 DEF BrokerDecides, BrokerFillsLate, DeletePlayground, memVars
<1>8. CASE UNCHANGED vars
  BY <1>8 DEF vars, memVars
<1> QED BY <1>1, <1>2, <1>3, <1>4, <1>5, <1>6, <1>7, <1>8 DEF Next, Drain, Faults

(* Every playground lives on while none may be deleted. *)
LEMMA AllLiveStep ==
    ASSUME Deletable = {}, AllLive, [Next]_vars PROVE AllLive'
<1>1. UNCHANGED alive \/ alive' = [p \in Playgrounds |-> IF alive[p] = "live" THEN "live" ELSE "deleted"]
  <2>1. ASSUME NEW o \in Orders, PlaceOrder(o) PROVE UNCHANGED alive
    BY <2>1 DEF PlaceOrder, pgVars
  <2>2. ASSUME NEW c \in Callers, Placement(c) PROVE UNCHANGED alive
    BY <2>2 DEF Placement, SendLeg, CommitPlaced, CommitQueued, pgVars
  <2>3. CASE Drain
    BY <2>3 DEF Drain, DrainFill, DrainSkip, DrainClose, DrainSave, ResetRow, ResetRecords, FillAfterReset, pgVars
  <2>4. CASE Worker
    BY <2>4 DEF Worker, StartPoll, FetchPending, FetchNew, FinishPoll, FinishOrder, SaveApplied, PollLeg,
                ApplyTrade, ReadTrades, FindPlayground, LookAtLeg, CloseRow, CloseRecord, PlaceNew, pgVars
  <2>5. CASE Faults
    BY <2>5 DEF Faults, Crash, SendFails, pgVars
  <2>6. CASE \/ \E l \in Legs : BrokerDecides(l) \/ BrokerFillsLate(l)
             \/ \E p \in Playgrounds : DeletePlayground(p)
    BY <2>6 DEF BrokerDecides, BrokerFillsLate, DeletePlayground, pgVars
  <2>7. CASE UNCHANGED vars
    BY <2>7 DEF vars, pgVars
  <2> QED BY <2>1, <2>2, <2>3, <2>4, <2>5, <2>6, <2>7 DEF Next
<1> QED BY <1>1 DEF AllLive

LEMMA BooksStep == BooksInv /\ OneLeg /\ [Next]_vars => BooksInv'
<1> SUFFICES ASSUME BooksInv, OneLeg, [Next]_vars PROVE BooksInv'
  OBVIOUS
<1>1. StoredInv /\ Sums /\ Reloadable /\ ControlTypeOK
  BY Basics DEF BooksInv
<1>2. StoredInv' /\ Reloadable'
  BY <1>1, StoredInvStep, FaultsSpend, AllLiveStep DEF Reloadable
<1>3. CASE Crash
  <2>1. AllLive
    BY <1>1, <1>3 DEF Reloadable, Crash, Spend
  <2> QED BY <1>1, <1>2, <1>3, <2>1, CrashSums DEF BooksInv
<1>4. ASSUME NEW t \in Legs, ApplyTrade(t) PROVE BooksInv'
  BY <1>1, <1>2, <1>4, TakeSums DEF BooksInv
<1>5. CASE UNCHANGED <<mTrade, applied, pos>>
  <2>1. UNCHANGED <<LegFilled, Taken, PositionSum>>
    BY <1>5, OwnSum DEF LegFilled, Taken
  <2> QED BY <1>1, <1>2, <1>5, <2>1 DEF BooksInv, Sums, Total
<1>6. ASSUME NEW l \in Legs, Stored(l), l \notin mTrade, FillLeg(l), UNCHANGED applied PROVE BooksInv'
  BY <1>1, <1>2, <1>6, FillSums DEF BooksInv
<1> QED BY <1>1, <1>3, <1>4, <1>5, <1>6, PositionsStand

LEMMA InitBooks == (MaxCrashes = 0 \/ Deletable = {}) /\ Init => BooksInv
<1>1. Init /\ (MaxCrashes = 0 \/ Deletable = {}) => Reloadable
  BY DEF Init, Reloadable, AllLive
<1> QED BY <1>1, InitStored, InitSums DEF BooksInv

-----------------------------------------------------------------------------
(* Theorems about the books *)

LEMMA TakenIsFilled ==
    ASSUME StoredInv
    PROVE  /\ Taken \in SUBSET LegFilled /\ LegFilled \in SUBSET Orders
           /\ \A o \in Orders : applied[<<o, 1>>] = 0 <=> o \notin Taken
<1>1. \A o \in Orders : <<o, 1>> \in Legs /\ applied[<<o, 1>>] \in {0, 1}
  BY Kinds, Basics DEF OrderRows, OrderRow, Counted
<1>2. \A o \in Orders : applied[<<o, 1>>] = 1 => <<o, 1>> \in mTrade
  BY <1>1, Basics
<1> QED BY <1>1, <1>2 DEF Taken, LegFilled

LEMMA BooksDiffer == BooksInv /\ OneLeg => BooksDifferByMissedFills
<1> SUFFICES ASSUME BooksInv, OneLeg PROVE BooksDifferByMissedFills
  OBVIOUS
<1>1. StoredInv /\ Sums
  BY DEF BooksInv
<1>2. /\ Taken \in SUBSET LegFilled /\ LegFilled \in SUBSET Orders
      /\ \A o \in Orders : applied[<<o, 1>>] = 0 <=> o \notin Taken
  BY <1>1, TakenIsFilled
<1>3. MissedFills \in SUBSET Legs /\ \A l \in MissedFills : Stored(l)
  BY <1>1, Basics DEF MissedFills, OnlyStoredLegsMove
<1>4. {o \in Orders : <<o, 1>> \in MissedFills} = LegFilled \ Taken
  BY <1>2 DEF MissedFills, LegFilled
<1>5. MapThenSumSet(LAMBDA l : legQty[l], MissedFills) = SumFunctionOnSet(legQty, MissedFills)
  BY DEF MapThenSumSet, MapThenFoldSet, SumFunctionOnSet, FoldFunctionOnSet
<1>6. SumFunctionOnSet(legQty, MissedFills) = Total(LegFilled \ Taken)
  BY <1>1, <1>3, <1>4, LegsAddUp
<1>7. Total(LegFilled) = Total(Taken) + Total(LegFilled \ Taken)
  <2>1. /\ Taken \in SUBSET Orders /\ LegFilled \ Taken \in SUBSET Orders
        /\ Taken \cap (LegFilled \ Taken) = {} /\ Taken \cup (LegFilled \ Taken) = LegFilled
    BY <1>2
  <2>2. IsFiniteSet(Taken) /\ IsFiniteSet(LegFilled \ Taken)
    BY <2>1, TotalType
  <2>3. \A o \in Orders : Quantity[o] \in Int
    BY ConstantsAssumption
  <2> QED BY <2>1, <2>2, <2>3, SumOfUnion DEF Total
<1> QED BY <1>1, <1>5, <1>6, <1>7 DEF BooksDifferByMissedFills, Sums

(* The reconcile playground is ahead of the live ones by the fills of legs   *)
(* that no live order has taken, at every moment, whatever is refused, fails *)
(* to be saved or is filled late, and through crashes if no playground is    *)
(* deleted, unless an order is split.                                        *)
THEOREM BooksDifferByMissedFillsHolds ==
    ASSUME MaxCrashes = 0 \/ Deletable = {}
    PROVE  Spec /\ []OneLeg => []BooksDifferByMissedFills
BY InitBooks, BooksStep, BooksDiffer, PTL DEF Spec

(* A settled order whose leg has its trade has taken it, when the broker     *)
(* never takes back an end: nothing can have refused the order.              *)
LEMMA SettledTakes ==
    ASSUME StoredInv, OneLeg, MaxLateFills = 0, Settled PROVE LegFilled = Taken
<1>1. Taken \in SUBSET LegFilled /\ LegFilled \in SUBSET Orders
  BY TakenIsFilled
<1>2. ASSUME NEW o \in LegFilled PROVE o \in Taken
  <2>1. PICK l \in Legs : l = <<o, 1>> /\ l[1] = o /\ o \in Orders /\ o \in Items
    BY <1>1, <1>2, Kinds
  <2>2. l \in mTrade /\ Stored(l) /\ broker[l] = "filled"
    BY <1>2, <2>1, Basics DEF LegFilled, OnlyStoredLegsMove, FillsAreBacked
  <2>3. OneRefusal(l) /\ OrderRow(o) /\ dStatus[o] \in Accepted
    BY <2>1, <2>2, StoredLeg
  <2>4. dStatus[o] \notin Refused
    BY <2>1, <2>2, <2>3 DEF OneRefusal, Refusals, Said
  <2>5. dStatus[o] # "pending"
    BY <2>1 DEF Settled
  <2>6. dStatus[o] = "filled"
    BY <2>3, <2>4, <2>5 DEF Accepted, Ended, Refused
  <2> QED BY <2>1, <2>3, <2>6 DEF OrderRow, Counted, Taken
<1> QED BY <1>1, <1>2

(* Once everything is settled the reconcile playground holds what the live   *)
(* playgrounds hold together, as long as the broker never fills a leg it has *)
(* ended otherwise, whatever is refused and is not saved, and through        *)
(* crashes if no playground is deleted, unless an order is split.            *)
THEOREM BooksAgreeHolds ==
    ASSUME MaxLateFills = 0, MaxCrashes = 0 \/ Deletable = {}
    PROVE  Spec /\ []OneLeg => []BooksAgree
<1>1. BooksInv /\ OneLeg => BooksAgree
  BY SettledTakes DEF BooksInv, Sums, BooksAgree
<1> QED BY <1>1, InitBooks, BooksStep, PTL DEF Spec

(* A live order is filled exactly by its legs, the trade of each counted     *)
(* once, however often the trade was read, reloaded or sent again, and       *)
(* whatever fault there was, unless an order is split.                       *)
THEOREM FilledByItsLegsHolds ==
    Spec /\ []OneLeg => []FilledByItsLegs
<1>1. StoredInv /\ OneLeg => FilledByItsLegs
  <2> SUFFICES ASSUME StoredInv, OneLeg, NEW o \in Orders, mStatus[o] = "filled", NEW l \in LegsOf(o)
               PROVE  applied[l] = IF legQty[l] = 0 THEN 0 ELSE 1
    BY DEF FilledByItsLegs
  <2>1. /\ l \in Legs /\ l \in {<<o, 1>>, <<o, 2>>} /\ applied[l] \in Nat /\ legQty[<<o, 2>>] = 0
        /\ applied[<<o, 1>>] = 1 /\ <<o, 1>> \in Legs
    BY LegsOfType, Basics DEF LegsOf, Legs, OneLeg, OrderRows, OrderRow, Counted
  <2>2. \A k \in Legs : applied[k] > 0 => legQty[k] # 0
    BY Basics DEF LegRows, LegRow, OnlyStoredLegsMove
  <2> QED BY <2>1, <2>2
<1> QED BY <1>1, InitStored, StoredInvStep, PTL DEF Spec

(* Orders of one side are never split: the books of such a run differ by the *)
(* fills not taken alone, each fill counted once, ...                        *)
THEOREM OneSidedBooksDiffer ==
    ASSUME OneSided, MaxCrashes = 0 \/ Deletable = {}
    PROVE  Spec => []BooksDifferByMissedFills /\ []FilledByItsLegs
BY OneSideIsNeverSplit, BooksDifferByMissedFillsHolds, FilledByItsLegsHolds, PTL

(* ... and, if the broker takes no end back, agree when everything is settled. *)
THEOREM OneSidedBooksAgree ==
    ASSUME OneSided, MaxLateFills = 0, MaxCrashes = 0 \/ Deletable = {}
    PROVE  Spec => []BooksAgree
BY OneSideIsNeverSplit, BooksAgreeHolds, PTL

=============================================================================
