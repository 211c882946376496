-------------------------- MODULE OrderBookProofs --------------------------
(* While nothing crashes, no transaction fails and the broker takes no end   *)
(* back, the path through legs, broker, event queue, drain and poll          *)
(* implements OrderBook, for any playgrounds and orders, refused legs and    *)
(* deleted playgrounds, as long as                                           *)
(*   - the client and the worker do not place orders of one playground at    *)
(*     the same time (Apart), and                                            *)
(*   - the broker fills every leg of a split order (SplitsFill): what the    *)
(*     code does otherwise, playground.go:764 leaves open.                   *)
EXTENDS OrderListProofs

Apart ==
    ppc["api"] # "idle" /\ ppc["worker"] # "idle"
        => PgOf(pord["api"]) # PgOf(pord["worker"])

SplitsFill ==
    \A o \in Orders : legQty[<<o, 2>>] # 0 =>
        \A l \in LegsOf(o) : broker[l] \notin {"rejected", "canceled"}

(* No crash and no late fill is left. *)
Calm == budget["crash"] = 0 /\ budget["late"] = 0

(* A leg in memory is the leg of its row, ended as the broker ended it, and  *)
(* has the side of its order.                                                *)
LegAgrees(l) ==
    /\ Stored(l) <=> mStatus[l] # "absent"
    /\ Stored(l) => legQty[l] # 0
    /\ mStatus[l] \in Ended => broker[l] = mStatus[l]
    /\ l \in mTrade => mStatus[l] = "filled"
    /\ legQty[l] # 0 => (legQty[l] > 0 <=> Quantity[l[1]] > 0)
LegsAgree == \A l \in Legs : LegAgrees(l)

(* What is on the queue is what the broker says still. *)
EventsAreCurrent == \A i \in 1..Len(events) : events[i].kind = broker[events[i].leg]

LegFacts == Calm /\ Quantities /\ LegsAgree /\ Sized /\ EventsAreCurrent

(* No fill comes after a reject or cancel, so that nothing is set back.      *)
NoReset == dpc \notin {"resetLeg", "resetOrder", "reset", "fill"}

(* The worker looks at legs of its order, and closes it because one of them  *)
(* has ended that way.                                                       *)
Looking ==
    /\ wpc \notin {"fill", "close", "closing", "save"} => unseen = {}
    /\ \A l \in unseen : l \in LegsOf(cur)
    /\ wpc \in {"close", "closing"} => \E l \in LegsOf(cur) : mStatus[l] = verdict

LegInv == ListInv /\ LegFacts /\ NoReset /\ Looking

-----------------------------------------------------------------------------
LEMMA InitLegs == MaxCrashes = 0 /\ MaxLateFills = 0 /\ Init => LegFacts
<1> SUFFICES ASSUME MaxCrashes = 0, MaxLateFills = 0, Init PROVE LegFacts
  OBVIOUS
<1>1. Calm /\ Quantities
  BY DEF Init, Calm, Quantities
<1>2. LegsAgree
  BY DEF Init, LegsAgree, LegAgrees, Stored, Items, Ended
<1>3. Sized
  BY DEF Init, Sized, Legs
<1>4. EventsAreCurrent
  BY DEF Init, EventsAreCurrent
<1> QED BY <1>1, <1>2, <1>3, <1>4 DEF LegFacts

(* A step that sets the size of no leg but those of an order about to be     *)
(* placed.                                                                   *)
LEMMA StartedQuantities ==
    ASSUME LegInv, NEW o \in Orders, NEW c \in Callers,
           StartPlacement(c, o) \/ UNCHANGED legQty
    PROVE  /\ legQty' \in [Legs -> Int] /\ Sized'
           /\ \A l \in Legs : l[1] # o => legQty'[l] = legQty[l]
           /\ \A l \in Legs : legQty'[l] # 0 => (legQty'[l] > 0 <=> Quantity[l[1]] > 0)
<1>1. /\ legQty \in [Legs -> Int] /\ LegsAgree /\ Sized /\ pos[Recon] \in Int
      /\ Quantity[o] \in Int /\ Quantity[o] # 0
      /\ \A l \in Legs : l[2] \in {1, 2}
      /\ \A x \in Orders, k \in {1, 2} : <<x, k>> \in Legs
  BY ConstantsAssumption DEF LegInv, LegFacts, Quantities, Accounts, Legs
<1>2. CASE UNCHANGED legQty
  BY <1>1, <1>2 DEF LegsAgree, LegAgrees, Sized
<1> DEFINE L(k) == LegQuantity(pos[Recon], Quantity[o], k)
<1>3. CASE legQty' = [l \in Legs |-> IF l[1] = o THEN L(l[2]) ELSE legQty[l]]
  <2>1. /\ L(1) \in Int /\ L(2) \in Int
        /\ L(1) # 0 => (L(1) > 0 <=> Quantity[o] > 0)
        /\ L(2) # 0 => (L(2) > 0 <=> Quantity[o] > 0)
        /\ L(2) = 0 => L(1) = Quantity[o]
    BY <1>1, Splitting
  <2> HIDE DEF L
  <2>2. legQty' \in [Legs -> Int]
    BY <1>1, <1>3, <2>1
  <2>3. \A l \in Legs : legQty'[l] # 0 => (legQty'[l] > 0 <=> Quantity[l[1]] > 0)
    BY <1>1, <1>3, <2>1 DEF LegsAgree, LegAgrees
  <2>4. \A x \in Orders : x # o => legQty'[<<x, 1>>] = legQty[<<x, 1>>] /\ legQty'[<<x, 2>>] = legQty[<<x, 2>>]
    BY <1>1, <1>3
  <2>5. legQty'[<<o, 1>>] = L(1) /\ legQty'[<<o, 2>>] = L(2)
    BY <1>1, <1>3
  <2>6. Sized'
    BY <1>1, <2>1, <2>4, <2>5 DEF Sized
  <2> QED BY <1>3, <2>2, <2>3, <2>6
<1> QED BY <1>2, <1>3 DEF StartPlacement

(* No fault spends what there is none of. *)
LEMMA StaysCalm ==
    ASSUME ControlTypeOK, Calm,
           UNCHANGED budget \/ Spend("send") \/ Spend("db") \/ SpendBoth("send", "db")
    PROVE  Calm'
<1>1. budget \in [{"crash", "db", "send", "late"} -> Nat]
  BY DEF ControlTypeOK, OtherTypeOK
<1> QED BY <1>1 DEF Calm, Spend, SpendBoth

LEMMA NoCrash == Calm => ~Crash /\ \A l \in Legs : ~BrokerFillsLate(l)
BY DEF Calm, Crash, BrokerFillsLate, Spend

(* What a step must touch to disturb a leg, or the queue. *)
LEMMA LegKept ==
    ASSUME NEW l \in Legs, LegAgrees(l),
           dStatus'[l] # "absent" <=> Stored(l), mStatus'[l] = mStatus[l],
           legQty'[l] = legQty[l], mStatus[l] \in Ended => broker'[l] = broker[l],
           l \in mTrade' <=> l \in mTrade
    PROVE  LegAgrees(l)'
BY DEF LegAgrees, Stored

LEMMA LegsKept ==
    ASSUME LegInv, UNCHANGED <<legQty, broker, mTrade>>,
           \A l \in Legs : mStatus'[l] = mStatus[l] /\ (dStatus'[l] # "absent" <=> Stored(l))
    PROVE  LegsAgree' /\ Sized'
BY LegKept DEF LegInv, LegFacts, LegsAgree, Sized

LEMMA EventsKept ==
    ASSUME LegInv, UNCHANGED events, \A l \in Legs : broker[l] \in Ended => broker'[l] = broker[l]
    PROVE  EventsAreCurrent'
BY EventsType DEF EventsAreCurrent, LegInv, LegFacts, ListInv, Inv, ControlTypeOK

LEMMA EventsTaken ==
    ASSUME LegInv, events # <<>>, events' = Tail(events), UNCHANGED broker
    PROVE  EventsAreCurrent'
<1> DEFINE q == Tail(events)
<1>1. \A i \in 1..Len(q) : i + 1 \in 1..Len(events) /\ q[i] = events[i + 1]
  BY EventType DEF LegInv, ListInv, Inv, ControlTypeOK
<1> HIDE DEF q
<1>2. \A i \in 1..Len(q) : q[i].kind = broker[q[i].leg]
  BY <1>1 DEF EventsAreCurrent, LegInv, LegFacts
<1>3. events' = q
  BY DEF q
<1> QED BY <1>2, <1>3 DEF EventsAreCurrent

-----------------------------------------------------------------------------
(* Placing an order. *)

(* The legs of an order that is not accepted are on no books. *)
LEMMA UnstoredLegs ==
    ASSUME LegInv, NEW o \in Orders, dStatus[o] \notin Accepted
    PROVE  \A l \in Legs : l[1] = o =>
               ~Stored(l) /\ mStatus[l] = "absent" /\ l \notin mTrade /\ applied[l] = 0
<1> SUFFICES ASSUME NEW l \in Legs, l[1] = o
             PROVE  ~Stored(l) /\ mStatus[l] = "absent" /\ l \notin mTrade /\ applied[l] = 0
  OBVIOUS
<1>1. /\ ControlTypeOK /\ FillProvenance /\ FillsAreBacked /\ OnlyStoredLegsMove
      /\ LegsComeAfterOrders /\ LegsAgree
  BY DEF LegInv, LegFacts, ListInv, Inv, FillProvenance
<1>2. ~Stored(l) /\ l \notin mTrade
  BY <1>1 DEF LegsComeAfterOrders, OnlyStoredLegsMove
<1>3. applied[l] = 0
  BY <1>1, <1>2 DEF FillsAreBacked, ControlTypeOK, MemTypeOK
<1> QED BY <1>1, <1>2, <1>3 DEF LegsAgree, LegAgrees

(* A step that sizes the legs of an unaccepted order and moves no other leg. *)
LEMMA StartKeepsLegs ==
    ASSUME LegInv, NEW o \in Orders, dStatus[o] \notin Accepted, NEW c \in Callers,
           StartPlacement(c, o) \/ UNCHANGED legQty,
           UNCHANGED <<broker, mTrade, events, pos>>,
           Calm',
           \A l \in Legs : mStatus'[l] = mStatus[l] /\ dStatus'[l] = dStatus[l]
    PROVE  LegFacts'
<1>1. /\ legQty' \in [Legs -> Int] /\ Sized'
      /\ \A l \in Legs : l[1] # o => legQty'[l] = legQty[l]
      /\ \A l \in Legs : legQty'[l] # 0 => (legQty'[l] > 0 <=> Quantity[l[1]] > 0)
  BY StartedQuantities
<1>2. LegsAgree'
  BY <1>1, UnstoredLegs DEF LegInv, LegFacts, LegsAgree, LegAgrees, Stored, Ended
<1>3. Quantities'
  BY <1>1 DEF Quantities, LegInv, LegFacts
<1>4. EventsAreCurrent'
  BY EventsKept
<1> QED BY <1>1, <1>2, <1>3, <1>4 DEF LegFacts

LEMMA PlaceOrderLegs ==
    ASSUME LegInv, NEW o \in Orders, PlaceOrder(o) PROVE LegFacts'
<1>1. /\ dStatus \in [Items -> Status] /\ dStatus[o] \notin Accepted /\ ControlTypeOK
      /\ dStatus' = [dStatus EXCEPT ![o] = "blank"] /\ Calm
      /\ UNCHANGED <<mStatus, mTrade, pos, broker, events, budget>>
  BY DEF LegInv, LegFacts, ListInv, Inv, ControlTypeOK, DbTypeOK, PlaceOrder, memVars,
         Accepted, Ended
<1>2. \A l \in Legs : dStatus'[l] = dStatus[l]
  BY <1>1, ItemKinds
<1>3. Calm'
  BY <1>1, StaysCalm
<1> QED BY <1>1, <1>2, <1>3, StartKeepsLegs DEF PlaceOrder, Callers

LEMMA PlaceNewLegs ==
    ASSUME LegInv, NEW o \in Orders, PlaceNew(o) PROVE LegFacts'
<1>1. /\ dStatus \in [Items -> Status] /\ mStatus \in [Items -> Status] /\ ControlTypeOK
      /\ dStatus[o] = "new" /\ Calm
      /\ UNCHANGED <<mTrade, pos, broker, events>>
  BY DEF LegInv, LegFacts, ListInv, Inv, FillProvenance, WorkerHolds, ControlTypeOK, DbTypeOK,
         MemTypeOK, PlaceNew, memVars, RejectNew
<1>2. Calm'
  BY <1>1, StaysCalm DEF PlaceNew
<1>3. /\ dStatus' = dStatus \/ dStatus' = [dStatus EXCEPT ![o] = "rejected"]
      /\ mStatus' = mStatus \/ mStatus' = [mStatus EXCEPT ![o] = "rejected"]
      /\ StartPlacement("worker", o) \/ UNCHANGED legQty
  BY DEF PlaceNew, RejectNew, memVars
<1>4. \A l \in Legs : dStatus'[l] = dStatus[l] /\ mStatus'[l] = mStatus[l]
  BY <1>1, <1>3, ItemKinds
<1>5. dStatus[o] \notin Accepted
  BY <1>1 DEF Accepted, Ended
<1> QED BY <1>1, <1>2, <1>3, <1>4, <1>5, StartKeepsLegs DEF Callers

LEMMA PlacedNow ==
    ASSUME LegInv, NEW c \in Callers, ppc[c] # "idle"
    PROVE  /\ pord[c] \in Orders /\ pord[c] \in Items /\ dStatus[pord[c]] \notin Accepted
           /\ \A l \in Legs : l \in LegsOf(pord[c]) <=> l[1] = pord[c]
           /\ \A l \in LegsOf(pord[c]) :
                 /\ l \in Legs /\ l[1] = pord[c] /\ ~Stored(l) /\ l \in Items
                 /\ mStatus[l] = "absent" /\ l \notin mTrade /\ applied[l] = 0
<1>1. pord[c] \in Orders /\ dStatus[pord[c]] \notin Accepted
  BY PlacedIsUnlisted DEF LegInv, Accepted, Ended
<1>2. \A l \in LegsOf(pord[c]) : l \in Legs /\ l[1] = pord[c]
  BY <1>1, LegsOfType
<1> QED BY <1>1, <1>2, UnstoredLegs, ItemKinds, LegOrder

LEMMA SendLegLegs ==
    ASSUME LegInv, NEW c \in Callers, SendLeg(c) PROVE LegFacts'
<1>1. PICK l \in psend[c] : broker' = [broker EXCEPT ![l] = "pending"]
  BY DEF SendLeg
<1>2. l \in LegsOf(pord[c]) /\ ppc[c] # "idle"
  BY <1>1 DEF LegInv, ListInv, Inv, FillProvenance, PlacedOnce, SendLeg
<1>3. l \in Legs /\ mStatus[l] = "absent" /\ ~Stored(l)
  BY <1>2, PlacedNow
<1>4. /\ UNCHANGED <<dStatus, mStatus, mTrade, pos, legQty, events, budget>> /\ Calm
      /\ ControlTypeOK /\ LegsAgree /\ Sized /\ Quantities
      /\ \A k \in Legs : k # l => broker'[k] = broker[k]
  BY <1>1 DEF SendLeg, dbVars, memVars, LegInv, LegFacts, ListInv, Inv, ControlTypeOK, BrokerTypeOK
<1>5. LegsAgree'
  BY <1>3, <1>4, LegKept DEF LegsAgree, Stored, Ended
<1>6. EventsAreCurrent'
  <2>1. \A i \in 1..Len(events) : events[i].leg \in Legs /\ Stored(events[i].leg)
    BY EventsType DEF LegInv, ListInv, Inv, ControlTypeOK, FillProvenance, OnlyStoredLegsMove
  <2> QED BY <1>3, <1>4, <2>1 DEF EventsAreCurrent, LegInv, LegFacts
<1> QED BY <1>4, <1>5, <1>6, StaysCalm DEF LegFacts, Quantities, Sized

LEMMA SendFailsLegs ==
    ASSUME LegInv, NEW c \in Callers, SendFails(c) PROVE LegFacts'
<1> DEFINE o == pord[c]
<1>1. /\ o \in Orders /\ dStatus[o] \notin Accepted /\ o \notin Legs
      /\ \A l \in Legs : l \in LegsOf(o) <=> l[1] = o
      /\ \A l \in LegsOf(o) : ~Stored(l) /\ mStatus[l] = "absent" /\ l \notin mTrade
  BY PlacedNow, ItemKinds DEF SendFails
<1>2. /\ UNCHANGED <<mTrade, pos, events>> /\ Calm' /\ LegsAgree /\ Sized /\ Quantities
      /\ dStatus \in [Items -> Status] /\ mStatus \in [Items -> Status]
      /\ broker \in [Legs -> {"none", "pending"} \cup Ended]
      /\ \A i \in 1..Len(events) : events[i].leg \in Legs /\ Stored(events[i].leg)
  BY StaysCalm, EventsType
     DEF SendFails, RejectNew, memVars, LegInv, LegFacts, ListInv, Inv, ControlTypeOK, DbTypeOK,
         MemTypeOK, BrokerTypeOK, FillProvenance, OnlyStoredLegsMove
<1>3. \A l \in Legs : dStatus'[l] = dStatus[l] /\ mStatus'[l] = mStatus[l]
  BY <1>1, <1>2, ItemKinds DEF SendFails, RejectNew, dbVars, memVars
<1>4. /\ \A l \in Legs : /\ broker'[l] = IF l[1] = o THEN "none" ELSE broker[l]
                         /\ legQty'[l] = IF l[1] = o THEN 0 ELSE legQty[l]
      /\ legQty' \in [Legs -> Int]
  BY <1>1, <1>2 DEF SendFails, Forget, Set, Quantities
<1> HIDE DEF o
<1>5. LegsAgree'
  BY <1>1, <1>2, <1>3, <1>4 DEF LegsAgree, LegAgrees, Stored, Ended
<1>6. Sized'
  BY <1>2, <1>4 DEF Sized, Legs
<1>7. EventsAreCurrent'
  BY <1>1, <1>2, <1>4 DEF EventsAreCurrent, LegInv, LegFacts
<1> QED BY <1>2, <1>4, <1>5, <1>6, <1>7 DEF LegFacts, Quantities

LEMMA CommitPlacedLegs ==
    ASSUME LegInv, NEW c \in Callers, CommitPlaced(c) PROVE LegFacts'
<1> DEFINE o == pord[c]
           S == {o} \cup {l \in LegsOf(o) : legQty[l] # 0}
<1>1. /\ o \in Orders /\ o \notin Legs
      /\ \A l \in LegsOf(o) : ~Stored(l) /\ mStatus[l] = "absent" /\ l \notin mTrade
      /\ ~Spend("db") /\ Calm
  BY PlacedNow, ItemKinds, NoDbFailure DEF CommitPlaced, LegInv, LegFacts, ListInv, Inv
<1>2. /\ UNCHANGED <<mTrade, pos, events, legQty, broker, budget>>
      /\ ControlTypeOK /\ LegsAgree /\ Sized /\ Quantities
      /\ dStatus \in [Items -> Status] /\ mStatus \in [Items -> Status]
      /\ dStatus' = Set(dStatus, S, "pending") /\ mStatus' = Set(mStatus, S, "pending")
  BY <1>1 DEF CommitPlaced, CommitSaved, brokerVars, LegInv, LegFacts, ListInv, Inv, ControlTypeOK,
              DbTypeOK, MemTypeOK
<1>3. \A l \in Legs : IF l \in LegsOf(o) /\ legQty[l] # 0
                      THEN dStatus'[l] = "pending" /\ mStatus'[l] = "pending"
                      ELSE dStatus'[l] = dStatus[l] /\ mStatus'[l] = mStatus[l]
  BY <1>1, <1>2, ItemKinds DEF Set
<1> HIDE DEF S, o
<1>4. LegsAgree'
  BY <1>1, <1>2, <1>3 DEF LegsAgree, LegAgrees, Stored, Ended
<1>5. EventsAreCurrent'
  BY <1>2, EventsKept
<1> QED BY <1>1, <1>2, <1>4, <1>5, StaysCalm DEF LegFacts, Quantities, Sized

LEMMA CommitQueuedLegs ==
    ASSUME LegInv, NEW c \in Callers, CommitQueued(c) PROVE LegFacts'
<1> DEFINE o == pord[c]
<1>1. o \in Orders /\ o \notin Legs /\ ~Spend("db") /\ Calm
  BY PlacedNow, ItemKinds, NoDbFailure DEF CommitQueued, LegInv, LegFacts, ListInv, Inv
<1>2. /\ UNCHANGED <<mTrade, pos, events, legQty, broker, budget>>
      /\ ControlTypeOK /\ Quantities
      /\ dStatus \in [Items -> Status] /\ mStatus \in [Items -> Status]
      /\ dStatus' = Set(dStatus, {o}, mStatus'[o])
      /\ mStatus' \in {mStatus, [mStatus EXCEPT ![o] = "new"]}
  BY <1>1 DEF CommitQueued, CommitSaved, brokerVars, LegInv, LegFacts, ListInv, Inv, ControlTypeOK,
              DbTypeOK, MemTypeOK
<1>3. \A l \in Legs : dStatus'[l] = dStatus[l] /\ mStatus'[l] = mStatus[l]
  BY <1>1, <1>2, ItemKinds DEF Set
<1>4. LegsAgree' /\ Sized'
  BY <1>2, <1>3, LegsKept DEF Stored
<1>5. EventsAreCurrent'
  BY <1>2, EventsKept
<1> QED BY <1>1, <1>2, <1>4, <1>5, StaysCalm DEF LegFacts, Quantities

-----------------------------------------------------------------------------
(* The drain *)

LEMMA CurrentEvent ==
    ASSUME LegInv, events # <<>>, NEW l, l = Head(events).leg
    PROVE  /\ l \in Legs /\ l[1] \in Orders /\ l \in Items /\ l[1] \in Items /\ l # l[1]
           /\ Stored(l) /\ mStatus[l] \in Accepted /\ legQty[l] # 0 /\ LegAgrees(l)
           /\ Head(events).kind = broker[l]
           /\ dStatus[l[1]] \in Accepted /\ mStatus[l[1]] \in Accepted \cup {"absent"}
           /\ l[1] \notin newQ
           /\ dStatus \in [Items -> Status] /\ mStatus \in [Items -> Status]
<1>1. /\ l \in Legs /\ l[1] \in Orders /\ {l, l[1]} \subseteq Items
      /\ dStatus[l] \in Accepted /\ dStatus[l[1]] \in Accepted
      /\ mStatus[l[1]] \in Accepted \cup {"absent"}
      /\ dStatus \in [Items -> Status] /\ mStatus \in [Items -> Status]
  BY DrainedLeg DEF LegInv
<1>2. Head(events).kind = broker[l]
  BY EventType DEF LegInv, LegFacts, EventsAreCurrent, ListInv, Inv, ControlTypeOK
<1>3. LegAgrees(l) /\ Lists /\ Stored(l)
  BY <1>1 DEF LegInv, LegFacts, LegsAgree, ListInv, Stored, Accepted, Ended
<1>4. mStatus[l] \in Accepted /\ legQty[l] # 0
  BY <1>1, <1>3 DEF LegAgrees, Lists
<1>5. l[1] \notin newQ
  BY <1>1, <1>3 DEF Lists, OneQueue, Accepted, Ended
<1> QED BY <1>1, <1>2, <1>3, <1>4, <1>5, ItemKinds

(* A fill is never an end taken back: the leg is pending still. *)
LEMMA FillOfPendingLeg ==
    ASSUME LegInv, DrainFill, NEW l, l = Head(events).leg
    PROVE  /\ mStatus[l] = "pending"
           /\ \/ /\ mStatus' = [mStatus EXCEPT ![l] = "filled"] /\ AddToOrderQueue({l})
                 /\ mTrade' = mTrade \cup {l}
                 /\ pos' = [pos EXCEPT ![Recon] = @ + legQty[l]]
              \/ UNCHANGED <<mStatus, queueVars, mTrade, pos>>
           /\ UNCHANGED dStatus /\ (dpc' = "saveFill" \/ UNCHANGED dpc)
<1>1. /\ l \in Legs /\ mStatus[l] \in Accepted /\ LegAgrees(l) /\ broker[l] = "filled"
      /\ ~AlreadyFilled(l)
  BY CurrentEvent DEF DrainFill
<1>2. mStatus[l] = "pending"
  BY <1>1 DEF LegAgrees, AlreadyFilled, Accepted, Ended
<1>3. IsPending(l)
  BY <1>2 DEF IsPending
<1> QED BY <1>2, <1>3 DEF DrainFill, CommitFill, FillLeg, dbVars, drainVars

(* A leg that ends as the broker says agrees; the others are left alone. *)
LEMMA LegEnds ==
    ASSUME LegInv, NEW l \in Legs, Stored(l), NEW kind \in Ended, broker[l] = kind,
           mStatus'[l] = kind, l \in mTrade' => kind = "filled",
           \A k \in Legs : dStatus'[k] = dStatus[k],
           \A k \in Legs : k # l => mStatus'[k] = mStatus[k] /\ (k \in mTrade' <=> k \in mTrade),
           UNCHANGED <<legQty, broker>>
    PROVE  LegsAgree'
<1>1. ASSUME NEW k \in Legs, k # l PROVE LegAgrees(k)'
  BY <1>1, LegKept DEF LegInv, LegFacts, LegsAgree, Stored
<1>2. LegAgrees(l)'
  BY DEF LegInv, LegFacts, LegsAgree, LegAgrees, Stored, Ended
<1> QED BY <1>1, <1>2 DEF LegsAgree

LEMMA DrainFillLegs ==
    ASSUME LegInv, DrainFill PROVE LegFacts'
<1> DEFINE l == Head(events).leg
<1>1. /\ l \in Legs /\ l \in Items /\ legQty[l] # 0 /\ LegAgrees(l) /\ Stored(l)
      /\ broker[l] = "filled" /\ mStatus \in [Items -> Status]
      /\ mStatus[l] = "pending"
      /\ \/ /\ mStatus' = [mStatus EXCEPT ![l] = "filled"]
            /\ mTrade' = mTrade \cup {l} /\ pos' = [pos EXCEPT ![Recon] = @ + legQty[l]]
         \/ UNCHANGED <<mStatus, mTrade, pos>>
      /\ UNCHANGED dStatus
  BY CurrentEvent, FillOfPendingLeg DEF DrainFill
<1>2. /\ UNCHANGED <<legQty, broker, budget>> /\ ControlTypeOK /\ Calm /\ Quantities /\ LegsAgree
      /\ Sized
      /\ legQty[l] \in Int
  BY <1>1 DEF DrainFill, brokerVars, LegInv, LegFacts, ListInv, Inv, Quantities
<1>3. EventsAreCurrent'
  BY EventsTaken DEF DrainFill, brokerVars
<1> HIDE DEF l
<1>4. Quantities'
  <2>1. pos \in [Accounts -> Int] /\ Recon \in Accounts
    BY <1>2 DEF Quantities, Accounts
  <2> QED BY <1>1, <1>2, <2>1 DEF Quantities
<1>5. LegsAgree'
  <2>1. CASE UNCHANGED <<mStatus, mTrade>>
    BY <1>1, <1>2, <2>1, LegsKept DEF Stored
  <2>2. CASE mStatus' = [mStatus EXCEPT ![l] = "filled"] /\ mTrade' = mTrade \cup {l}
    <3>1. \A k \in Legs : /\ k # l => mStatus'[k] = mStatus[k] /\ (k \in mTrade' <=> k \in mTrade)
                          /\ dStatus'[k] = dStatus[k]
      BY <1>1, <2>2, ItemKinds
    <3> QED BY <1>1, <1>2, <2>2, <3>1, LegEnds DEF Ended
  <2> QED BY <1>1, <2>1, <2>2
<1> QED BY <1>2, <1>3, <1>4, <1>5, StaysCalm DEF LegFacts, Sized

LEMMA DrainSkipLegs ==
    ASSUME LegInv, DrainSkip PROVE LegFacts'
<1>1. /\ UNCHANGED <<dStatus, mStatus, mTrade, pos, legQty, broker, budget>>
      /\ ControlTypeOK /\ Calm /\ Quantities
  BY DEF DrainSkip, dbVars, memVars, brokerVars, LegInv, LegFacts, ListInv, Inv
<1> QED BY <1>1, LegsKept, StaysCalm, EventsTaken DEF DrainSkip, LegFacts, Quantities, Stored

(* The transaction that closes a leg does not fail.                          *)
LEMMA ClosedOrResaved ==
    ASSUME LegInv, DrainClose
    PROVE  /\ \/ /\ mStatus[Head(events).leg] = "pending"
                 /\ CloseRecords(Head(events).leg, Head(events).kind,
                                 {Head(events).leg, Head(events).leg[1]})
                 /\ CloseRows(Head(events).leg)
              \/ UNCHANGED <<dStatus, mStatus, queueVars>>
           /\ UNCHANGED budget /\ (dpc' = "saveClose" \/ UNCHANGED dpc)
<1>1. ~Spend("db")
  BY NoDbFailure DEF LegInv, ListInv, Inv
<1> QED BY <1>1 DEF DrainClose, drainVars

LEMMA DrainCloseLegs ==
    ASSUME LegInv, DrainClose PROVE LegFacts'
<1> DEFINE l == Head(events).leg
           kind == Head(events).kind
<1>1. /\ l \in Legs /\ {l, l[1]} \subseteq Items /\ LegAgrees(l) /\ Stored(l) /\ kind = broker[l]
      /\ l[1] \notin Legs /\ dStatus[l[1]] \in Accepted /\ l[1] \in Orders
      /\ dStatus \in [Items -> Status] /\ mStatus \in [Items -> Status]
      /\ kind \in {"rejected", "canceled"}
  BY CurrentEvent, ItemKinds DEF DrainClose
<1>2. /\ UNCHANGED <<mTrade, pos, legQty, broker, budget>> /\ ControlTypeOK /\ Calm /\ Quantities
      /\ LegsAgree /\ Sized
  BY ClosedOrResaved DEF DrainClose, brokerVars, LegInv, LegFacts, ListInv, Inv
<1>3. EventsAreCurrent'
  BY EventsTaken DEF DrainClose, brokerVars
<1>4. \/ mStatus[l] = "pending" /\ CloseRecords(l, kind, {l, l[1]}) /\ CloseRows(l)
      \/ UNCHANGED <<dStatus, mStatus>>
  BY ClosedOrResaved
<1> HIDE DEF l, kind
<1>5. CASE mStatus[l] = "pending" /\ CloseRecords(l, kind, {l, l[1]}) /\ CloseRows(l)
  <2>1. /\ \A k \in Legs : dStatus'[k] = dStatus[k]
        /\ mStatus'[l] = kind /\ \A k \in Legs : k # l => mStatus'[k] = mStatus[k]
    BY <1>1, <1>5, ItemKinds DEF CloseRecords, CloseRows, Set
  <2>2. l \notin mTrade
    BY <1>1, <1>5 DEF LegAgrees
  <2>3. LegsAgree'
    BY <1>1, <1>2, <2>1, <2>2, LegEnds DEF Ended
  <2> QED BY <1>2, <1>3, <2>3, StaysCalm DEF LegFacts, Quantities, Sized
<1>6. CASE UNCHANGED <<dStatus, mStatus>>
  BY <1>2, <1>3, <1>6, LegsKept, StaysCalm DEF LegFacts, Quantities, Stored
<1> QED BY <1>4, <1>5, <1>6

LEMMA DrainSaveLegs ==
    ASSUME LegInv, DrainSave PROVE LegFacts'
<1>1. /\ dleg \in Legs /\ Stored(dleg) /\ mStatus[dleg] # "absent" /\ dStatus \in [Items -> Status]
      /\ ~Spend("db") /\ ControlTypeOK /\ Calm /\ Quantities
  BY NoDbFailure DEF DrainSave, LegInv, LegFacts, ListInv, Inv, FillProvenance, OnlyStoredLegsMove,
                     ControlTypeOK, DbTypeOK
<1>2. /\ UNCHANGED <<mStatus, mTrade, pos, legQty, broker, budget, events>>
      /\ dStatus' = [dStatus EXCEPT ![dleg] = mStatus[dleg]]
  BY <1>1 DEF DrainSave, brokerVars
<1>3. \A l \in Legs : dStatus'[l] # "absent" <=> Stored(l)
  BY <1>1, <1>2, ItemKinds DEF Stored
<1> QED BY <1>1, <1>2, <1>3, LegsKept, StaysCalm, EventsKept DEF LegFacts, Quantities

-----------------------------------------------------------------------------
(* The worker, and the rest of the world. *)

LEMMA PollLegLegs ==
    ASSUME LegInv, NEW l \in Legs, PollLeg(l) PROVE LegFacts'
<1>1. /\ UNCHANGED <<dStatus, mStatus, mTrade, pos, legQty, broker, budget>>
      /\ ControlTypeOK /\ Calm /\ Quantities /\ events \in Seq(Event) /\ EventsAreCurrent
  BY DEF PollLeg, dbVars, memVars, brokerVars, LegInv, LegFacts, ListInv, Inv, ControlTypeOK,
         DrainTypeOK
<1>2. EventsAreCurrent'
  <2>1. CASE UNCHANGED events
    BY <1>1, <2>1, EventsKept
  <2>2. CASE broker[l] \in Ended /\ events' = Append(events, [leg |-> l, kind |-> broker[l]])
    <3> DEFINE e == [leg |-> l, kind |-> broker[l]]
    <3>1. e \in Event /\ e.leg = l /\ e.kind = broker[l]
      BY <2>2 DEF Event
    <3>2. /\ Len(events') = Len(events) + 1 /\ Len(events) \in Nat
          /\ \A i \in 1..Len(events) : events'[i] = events[i]
          /\ events'[Len(events) + 1] = e
      BY <1>1, <2>2, <3>1, AppendProperties, LenProperties
    <3> HIDE DEF e
    <3>3. ASSUME NEW i \in 1..Len(events') PROVE events'[i].kind = broker[events'[i].leg]
      <4>1. CASE i = Len(events) + 1
        BY <3>1, <3>2, <4>1
      <4>2. CASE i \in 1..Len(events)
        BY <1>1, <3>2, <4>2 DEF EventsAreCurrent
      <4> QED BY <3>2, <4>1, <4>2
    <3> QED BY <1>1, <3>3 DEF EventsAreCurrent
  <2> QED BY <2>1, <2>2 DEF PollLeg, Reportable
<1> QED BY <1>1, <1>2, LegsKept, StaysCalm DEF LegFacts, Quantities, Stored

LEMMA WorkerSkipsLegs ==
    ASSUME LegInv,
           \/ StartPoll \/ FetchPending \/ FetchNew \/ FinishPoll \/ FinishOrder \/ FindPlayground
           \/ \E l \in Legs : LookAtLeg(l)
           \/ \E o \in Orders : ReadTrades(o)
    PROVE  LegFacts'
<1>1. /\ UNCHANGED <<dStatus, mStatus, mTrade, pos, legQty, broker, budget, events>>
      /\ ControlTypeOK /\ Calm /\ Quantities
  BY DEF StartPoll, FetchPending, FetchNew, FinishPoll, FinishOrder, FindPlayground, LookAtLeg,
         ReadTrades, dbVars, memVars, brokerVars, LegInv, LegFacts, ListInv, Inv
<1> QED BY <1>1, LegsKept, StaysCalm, EventsKept DEF LegFacts, Quantities, Stored

LEMMA CloseOrderLegs ==
    ASSUME LegInv, CloseRow \/ CloseRecord PROVE LegFacts'
<1>1. /\ dStatus \in [Items -> Status] /\ mStatus \in [Items -> Status] /\ cur \in Orders
      /\ UNCHANGED <<mTrade, pos, legQty, broker, events>>
      /\ ControlTypeOK /\ Calm /\ Quantities
  BY DEF CloseRow, CloseRecord, memVars, brokerVars, LegInv, LegFacts, ListInv, Inv, FillProvenance,
         WorkerHolds, AtOrder, ControlTypeOK, DbTypeOK, MemTypeOK
<1>2. \A l \in Legs : dStatus'[l] = dStatus[l] /\ mStatus'[l] = mStatus[l]
  BY <1>1, ItemKinds DEF CloseRow, CloseRecord, ReplaceRecord, dbVars, memVars
<1>3. Calm'
  BY <1>1, StaysCalm DEF CloseRow, CloseRecord
<1> QED BY <1>1, <1>2, <1>3, LegsKept, EventsKept DEF LegFacts, Quantities, Stored

LEMMA ApplyTradeLegs ==
    ASSUME LegInv, NEW t \in Legs, ApplyTrade(t) PROVE LegFacts'
<1>1. /\ cur \in Orders /\ mStatus \in [Items -> Status]
      /\ UNCHANGED <<dStatus, mTrade, legQty, broker, budget, events>>
      /\ ControlTypeOK /\ Calm /\ Quantities
  BY DEF ApplyTrade, dbVars, brokerVars, LegInv, LegFacts, ListInv, Inv, FillProvenance,
         WorkerHolds, AtOrder, ControlTypeOK, MemTypeOK
<1>2. \A l \in Legs : mStatus'[l] = mStatus[l]
  BY <1>1, ItemKinds DEF ApplyTrade, Accept, Refuse
<1>3. pos' \in [Accounts -> Int]
  <2>1. pos \in [Accounts -> Int] /\ PgOf(cur) \in Accounts /\ legQty[t] \in Int
    BY <1>1, ConstantsAssumption DEF Quantities, Accounts, PgOf
  <2>2. pos' = pos \/ pos' = [pos EXCEPT ![PgOf(cur)] = @ + legQty[t]]
    BY DEF ApplyTrade, Accept, Refuse
  <2> QED BY <2>1, <2>2
<1> QED BY <1>1, <1>2, <1>3, LegsKept, StaysCalm, EventsKept DEF LegFacts, Quantities, Stored

LEMMA SaveAppliedLegs ==
    ASSUME LegInv, SaveApplied PROVE LegFacts'
<1>1. /\ cur \in Orders /\ dStatus \in [Items -> Status]
      /\ UNCHANGED <<mStatus, mTrade, pos, legQty, broker, events>>
      /\ ControlTypeOK /\ Calm /\ Quantities
  BY DEF SaveApplied, memVars, brokerVars, LegInv, LegFacts, ListInv, Inv, FillProvenance,
         WorkerHolds, AtOrder, ControlTypeOK, DbTypeOK
<1>2. \A l \in Legs : dStatus'[l] = dStatus[l]
  BY <1>1, ItemKinds DEF SaveApplied
<1>3. Calm'
  BY <1>1, StaysCalm DEF SaveApplied
<1> QED BY <1>1, <1>2, <1>3, LegsKept, EventsKept DEF LegFacts, Quantities, Stored

LEMMA OutsideLegs ==
    ASSUME LegInv,
           (\E l \in Legs : BrokerDecides(l)) \/ \E p \in Playgrounds : DeletePlayground(p)
    PROVE  LegFacts'
<1>1. /\ UNCHANGED <<dStatus, mStatus, mTrade, pos, legQty, budget, events>>
      /\ ControlTypeOK /\ Calm /\ Quantities /\ LegsAgree /\ Sized
  BY DEF BrokerDecides, DeletePlayground, dbVars, memVars, brokerVars, LegInv, LegFacts, ListInv, Inv
<1>2. \A l \in Legs : broker[l] \in Ended => broker'[l] = broker[l]
  BY <1>1 DEF BrokerDecides, DeletePlayground, brokerVars, ControlTypeOK, BrokerTypeOK, Ended
<1>3. LegsAgree'
  BY <1>1, <1>2, LegKept DEF LegsAgree, LegAgrees, Stored
<1> QED BY <1>1, <1>2, <1>3, StaysCalm, EventsKept DEF LegFacts, Quantities, Sized

LEMMA NoDrainReset == NoReset => ~ResetRow /\ ~ResetRecords /\ ~FillAfterReset
BY DEF NoReset, ResetRow, ResetRecords, FillAfterReset

LEMMA NoResetStep == LegInv /\ [Next]_vars => NoReset'
<1> SUFFICES ASSUME LegInv, [Next]_vars PROVE NoReset'
  OBVIOUS
<1>1. NoReset
  BY DEF LegInv
<1>2. CASE Drain
  <2>1. CASE DrainFill
    BY <1>1, <2>1, FillOfPendingLeg DEF NoReset
  <2>2. CASE DrainClose
    BY <1>1, <2>2, ClosedOrResaved DEF NoReset
  <2>3. CASE DrainSkip \/ DrainSave
    BY <1>1, <2>3 DEF DrainSkip, DrainSave, drainVars, NoReset
  <2> QED BY <1>1, <1>2, <2>1, <2>2, <2>3, NoDrainReset DEF Drain
<1>3. ~Crash
  BY NoCrash DEF LegInv, LegFacts
<1>4. CASE Worker
  BY <1>1, <1>4
     DEF Worker, StartPoll, FetchPending, FinishOrder, SaveApplied, FetchNew, FinishPoll,
         FindPlayground, CloseRow, CloseRecord, PollLeg, LookAtLeg, ApplyTrade, ReadTrades, PlaceNew,
         drainVars, NoReset
<1>5. ASSUME NEW c \in Callers, Placement(c) \/ SendFails(c) PROVE NoReset'
  BY <1>1, <1>5 DEF Placement, SendLeg, CommitPlaced, CommitQueued, SendFails, drainVars, NoReset
<1>6. ASSUME NEW o \in Orders, PlaceOrder(o) PROVE NoReset'
  BY <1>1, <1>6 DEF PlaceOrder, drainVars, NoReset
<1>7. CASE \/ \E l \in Legs : BrokerDecides(l) \/ BrokerFillsLate(l)
           \/ \E p \in Playgrounds : DeletePlayground(p)
  BY <1>1, <1>7 DEF BrokerDecides, BrokerFillsLate, DeletePlayground, drainVars, NoReset
<1>8. CASE UNCHANGED vars
  BY <1>1, <1>8 DEF vars, drainVars, NoReset
<1> QED BY <1>2, <1>3, <1>4, <1>5, <1>6, <1>7, <1>8 DEF Next, Faults

(* A leg that has ended otherwise than filled stays as it is in memory.      *)
Refused == {"rejected", "canceled"}
RefusedStay == \A l \in Legs : mStatus[l] \in Refused => mStatus'[l] = mStatus[l]

LEMMA RefusedLegsStay == LegInv /\ [Next]_vars => RefusedStay
<1> SUFFICES ASSUME LegInv, [Next]_vars PROVE RefusedStay
  OBVIOUS
<1>1. /\ mStatus \in [Items -> Status] /\ \A l \in Legs : l \in Items /\ l \notin Orders
      /\ wpc \in AtOrder => cur \in Orders
  BY ItemKinds DEF LegInv, ListInv, Inv, ControlTypeOK, MemTypeOK, FillProvenance, WorkerHolds
<1>2. ASSUME NEW o \in Orders, mStatus' = mStatus \/ \E s \in Status : mStatus' = [mStatus EXCEPT ![o] = s]
      PROVE  RefusedStay
  BY <1>1, <1>2 DEF RefusedStay
<1>3. CASE UNCHANGED mStatus
  BY <1>3 DEF RefusedStay
<1>4. CASE Drain
  <2>1. CASE DrainFill
    <3>1. /\ mStatus[Head(events).leg] = "pending"
          /\ \/ mStatus' = [mStatus EXCEPT ![Head(events).leg] = "filled"]
             \/ UNCHANGED mStatus
      BY <2>1, FillOfPendingLeg
    <3> QED BY <1>1, <3>1 DEF RefusedStay, Refused
  <2>2. CASE DrainClose
    <3> DEFINE l == Head(events).leg
    <3>1. /\ l[1] \in Orders
          /\ \/ /\ mStatus[l] = "pending"
                /\ CloseRecords(l, Head(events).kind, {l, l[1]})
             \/ UNCHANGED mStatus
      BY <2>2, ClosedOrResaved, CurrentEvent DEF DrainClose
    <3> HIDE DEF l
    <3> QED BY <1>1, <3>1 DEF CloseRecords, Set, RefusedStay, Refused
  <2>3. CASE DrainSkip \/ DrainSave
    BY <1>3, <2>3 DEF DrainSkip, DrainSave, memVars
  <2> QED BY <1>4, <2>1, <2>2, <2>3, NoDrainReset DEF Drain, LegInv
<1>5. ~Crash
  BY NoCrash DEF LegInv, LegFacts
<1>6. CASE Worker
  <2>1. CASE \/ StartPoll \/ FetchPending \/ FinishOrder \/ SaveApplied \/ FetchNew \/ FinishPoll
             \/ FindPlayground \/ CloseRow
             \/ \E l \in Legs : PollLeg(l) \/ LookAtLeg(l)
             \/ \E o \in Orders : ReadTrades(o)
    BY <1>3, <2>1
       DEF StartPoll, FetchPending, FinishOrder, SaveApplied, FetchNew, FinishPoll, FindPlayground,
           CloseRow, PollLeg, LookAtLeg, ReadTrades, memVars
  <2>2. CASE CloseRecord
    <3>1. cur \in Orders /\ verdict \in Status
      BY <1>1, <2>2 DEF CloseRecord, AtOrder, LegInv, ListInv, Inv, ControlTypeOK, WorkerTypeOK,
                        FillProvenance, WorkerHolds, Status, Ended
    <3> QED BY <1>2, <2>2, <3>1 DEF CloseRecord, ReplaceRecord
  <2>3. ASSUME NEW t \in Legs, ApplyTrade(t) PROVE RefusedStay
    BY <1>1, <1>2, <2>3 DEF ApplyTrade, Accept, Refuse, AtOrder, Status, Ended
  <2>4. ASSUME NEW o \in Orders, PlaceNew(o) PROVE RefusedStay
    BY <1>2, <2>4 DEF PlaceNew, RejectNew, memVars, Status, Ended
  <2> QED BY <1>6, <2>1, <2>2, <2>3, <2>4 DEF Worker
<1>7. ASSUME NEW c \in Callers, Placement(c) \/ SendFails(c) PROVE RefusedStay
  <2>1. CASE SendLeg(c)
    BY <1>3, <2>1 DEF SendLeg, memVars
  <2>2. CASE CommitPlaced(c)
    <3>1. /\ pord[c] \in Orders
          /\ \A l \in LegsOf(pord[c]) : mStatus[l] = "absent"
          /\ mStatus' = Set(mStatus, {pord[c]} \cup {l \in LegsOf(pord[c]) : legQty[l] # 0}, "pending")
      BY <2>2, PlacedNow DEF CommitPlaced
    <3> QED BY <1>1, <3>1 DEF Set, RefusedStay, Refused
  <2>3. CASE CommitQueued(c)
    <3>1. pord[c] \in Orders
      BY <2>3, PlacedNow DEF CommitQueued
    <3> QED BY <1>2, <2>3, <3>1 DEF CommitQueued, Status
  <2>4. CASE SendFails(c)
    <3>1. pord[c] \in Orders
      BY <2>4, PlacedNow DEF SendFails
    <3> QED BY <1>2, <2>4, <3>1 DEF SendFails, RejectNew, memVars, Status, Ended
  <2> QED BY <1>7, <2>1, <2>2, <2>3, <2>4 DEF Placement
<1>8. ASSUME NEW o \in Orders, PlaceOrder(o) PROVE RefusedStay
  BY <1>3, <1>8 DEF PlaceOrder, memVars
<1>9. CASE \/ \E l \in Legs : BrokerDecides(l) \/ BrokerFillsLate(l)
           \/ \E p \in Playgrounds : DeletePlayground(p)
  BY <1>3, <1>9 DEF BrokerDecides, BrokerFillsLate, DeletePlayground, memVars
<1>10. CASE UNCHANGED vars
  BY <1>3, <1>10 DEF vars, memVars
<1> QED BY <1>4, <1>5, <1>6, <1>7, <1>8, <1>9, <1>10 DEF Next, Faults

LEMMA LookingStep == LegInv /\ [Next]_vars => Looking'
<1> SUFFICES ASSUME LegInv, [Next]_vars PROVE Looking'
  OBVIOUS
<1>1. Looking /\ RefusedStay
  BY RefusedLegsStay DEF LegInv
<1>2. /\ wpc \in AtOrder => cur \in Orders
      /\ wpc \in {"close", "closing"} => verdict \in Refused
  BY DEF LegInv, ListInv, Inv, ControlTypeOK, WorkerTypeOK, FillProvenance, WorkerHolds, Refused
<1>3. wpc \in {"close", "closing"} => \E l \in LegsOf(cur) : mStatus'[l] = verdict
  BY <1>1, <1>2, LegsOfType DEF Looking, RefusedStay, AtOrder
<1>4. ASSUME UNCHANGED <<unseen, cur, verdict>>,
             wpc' = wpc \/ (wpc = "close" /\ wpc' = "closing")
                        \/ {wpc, wpc'} \subseteq {"fill", "save"}
                        \/ (unseen = {} /\ wpc' \notin {"close", "closing"})
      PROVE  Looking'
  BY <1>1, <1>3, <1>4 DEF Looking
<1>5. CASE EndPoll
  BY <1>5 DEF EndPoll, Looking
<1>6. CASE UNCHANGED workerVars
  BY <1>4, <1>6 DEF workerVars, lookVars
<1>7. CASE Worker
  <2>1. CASE StartPoll \/ FetchPending \/ FetchNew \/ SaveApplied
    BY <1>1, <1>4, <2>1 DEF StartPoll, FetchPending, FetchNew, SaveApplied, lookVars, Looking
  <2>2. CASE FinishPoll
    BY <1>5, <2>2 DEF FinishPoll
  <2>3. CASE FinishOrder
    BY <2>3 DEF FinishOrder, lookVars, Looking
  <2>4. CASE FindPlayground
    BY <1>1, <2>4 DEF FindPlayground, Looking
  <2>5. CASE CloseRow
    BY <1>1, <1>3, <2>5 DEF CloseRow, Looking
  <2>6. CASE CloseRecord
    BY <1>1, <2>6 DEF CloseRecord, Looking
  <2>7. ASSUME NEW l \in Legs, PollLeg(l) PROVE Looking'
    BY <1>4, <2>7 DEF PollLeg, lookVars
  <2>8. ASSUME NEW l \in Legs, LookAtLeg(l) PROVE Looking'
    BY <1>1, <2>8 DEF LookAtLeg, Verdict, memVars, Looking
  <2>9. ASSUME NEW t \in Legs, ApplyTrade(t) PROVE Looking'
    BY <1>1, <1>4, <2>9 DEF ApplyTrade, lookVars
  <2>10. ASSUME NEW o \in Orders, ReadTrades(o) PROVE Looking'
    BY <1>1, <2>10 DEF ReadTrades, lookVars, Looking
  <2>11. ASSUME NEW o \in Orders, PlaceNew(o) PROVE Looking'
    BY <1>4, <1>5, <2>11 DEF PlaceNew, RejectNew, lookVars
  <2> QED BY <1>7, <2>1, <2>2, <2>3, <2>4, <2>5, <2>6, <2>7, <2>8, <2>9, <2>10, <2>11 DEF Worker
<1>8. CASE Drain
  BY <1>6, <1>8, NoDrainReset
     DEF Drain, LegInv, DrainFill, DrainSkip, DrainClose, DrainSave
<1>9. ASSUME NEW c \in Callers, Placement(c) \/ SendFails(c) PROVE Looking'
  BY <1>5, <1>6, <1>9 DEF Placement, SendLeg, CommitPlaced, CommitQueued, CommitSaved, SendFails, RejectNew
<1>10. ASSUME NEW o \in Orders, PlaceOrder(o) PROVE Looking'
  BY <1>6, <1>10 DEF PlaceOrder
<1>11. CASE \/ \E l \in Legs : BrokerDecides(l) \/ BrokerFillsLate(l)
            \/ \E p \in Playgrounds : DeletePlayground(p)
  BY <1>6, <1>11 DEF BrokerDecides, BrokerFillsLate, DeletePlayground
<1>12. CASE UNCHANGED vars
  BY <1>6, <1>12 DEF vars
<1>13. ~Crash
  BY NoCrash DEF LegInv, LegFacts
<1> QED BY <1>7, <1>8, <1>9, <1>10, <1>11, <1>12, <1>13 DEF Next, Faults

LEMMA LegInvStep == LegInv /\ [Next]_vars => LegInv'
<1> SUFFICES ASSUME LegInv, [Next]_vars PROVE LegFacts'
  BY ListInvStep, NoResetStep, LookingStep DEF LegInv
<1>1. ASSUME NEW o \in Orders, PlaceOrder(o) PROVE LegFacts'
  BY <1>1, PlaceOrderLegs
<1>2. ASSUME NEW c \in Callers, Placement(c) PROVE LegFacts'
  BY <1>2, SendLegLegs, CommitPlacedLegs, CommitQueuedLegs DEF Placement
<1>3. CASE Drain
  BY <1>3, DrainFillLegs, DrainSkipLegs, DrainCloseLegs, DrainSaveLegs, NoDrainReset DEF Drain, LegInv
<1>4. CASE Worker
  BY <1>4, WorkerSkipsLegs, PollLegLegs, CloseOrderLegs, ApplyTradeLegs, SaveAppliedLegs, PlaceNewLegs
     DEF Worker
<1>5. CASE Faults
  BY <1>5, NoCrash, SendFailsLegs DEF Faults, LegInv, LegFacts
<1>6. CASE \/ \E l \in Legs : BrokerDecides(l) \/ BrokerFillsLate(l)
           \/ \E p \in Playgrounds : DeletePlayground(p)
  BY <1>6, NoCrash, OutsideLegs DEF LegInv, LegFacts
<1>7. CASE UNCHANGED vars
  BY <1>7, LegsKept, EventsKept, StaysCalm
     DEF vars, dbVars, memVars, brokerVars, LegInv, LegFacts, ListInv, Inv, Quantities, Stored
<1> QED BY <1>1, <1>2, <1>3, <1>4, <1>5, <1>6, <1>7 DEF Next

-----------------------------------------------------------------------------
(* One order of a playground at a time *)

(* Orders of a playground are pending one at a time, and the one on its way  *)
(* to the broker finds no other pending.                                     *)
OnePending ==
    /\ \A x, y \in pendingQ \cap Orders : PgOf(x) = PgOf(y) => x = y
    /\ \A c \in Callers : ppc[c] \in {"send", "commit"} => ~OtherPending(pord[c])

LEMMA PendingShrinks ==
    ASSUME OnePending, pendingQ' \cap Orders \subseteq pendingQ,
           \A c \in Callers : ppc'[c] \in {"send", "commit"} =>
               /\ ppc[c] \in {"send", "commit"} /\ pord'[c] = pord[c]
    PROVE  OnePending'
BY DEF OnePending, OtherPending

(* A placement begins only when no other order of the playground is pending. *)
LEMMA StartPending ==
    ASSUME OnePending, PlaceTypeOK, pendingQ' \cap Orders \subseteq pendingQ,
           NEW o \in Orders, NEW c \in Callers, StartPlacement(c, o)
    PROVE  OnePending'
<1>1. /\ pord' = [pord EXCEPT ![c] = o]
      /\ \/ ppc' = [ppc EXCEPT ![c] = "queue"]
         \/ ~OtherPending(o) /\ ppc' = [ppc EXCEPT ![c] = "send"]
  BY DEF StartPlacement
<1>2. ASSUME NEW d \in Callers, ppc'[d] \in {"send", "commit"}
      PROVE  \A x \in (pendingQ' \cap Orders) \ {pord'[d]} : PgOf(x) # PgOf(pord'[d])
  <2>1. CASE d = c
    BY <1>1, <1>2, <2>1 DEF PlaceTypeOK, OtherPending
  <2>2. CASE d # c
    BY <1>1, <1>2, <2>2 DEF PlaceTypeOK, OnePending, OtherPending
  <2> QED BY <2>1, <2>2
<1> QED BY <1>2 DEF OnePending, OtherPending

LEMMA CommitPlacedPending ==
    ASSUME LegInv, OnePending, Apart, NEW c \in Callers, CommitPlaced(c) PROVE OnePending'
<1> DEFINE o == pord[c]
<1>1. /\ o \in Orders /\ ~OtherPending(o) /\ ppc[c] # "idle" /\ PlaceTypeOK
      /\ ppc' = [ppc EXCEPT ![c] = "idle"] /\ pord' = [pord EXCEPT ![c] = None]
  BY PlacedNow DEF CommitPlaced, Idle, OnePending, LegInv, ListInv, Inv, ControlTypeOK
<1>2. pendingQ' \cap Orders = (pendingQ \cap Orders) \cup {o}
  BY <1>1, PlacedNow, ItemKinds DEF CommitPlaced
<1> HIDE DEF o
<1>3. ASSUME NEW x \in pendingQ' \cap Orders, NEW y \in pendingQ' \cap Orders, PgOf(x) = PgOf(y)
      PROVE  x = y
  BY <1>1, <1>2, <1>3 DEF OnePending, OtherPending
<1>4. ASSUME NEW d \in Callers, ppc'[d] \in {"send", "commit"}
      PROVE  \A x \in (pendingQ' \cap Orders) \ {pord'[d]} : PgOf(x) # PgOf(pord'[d])
  <2>1. d # c /\ ppc[d] \in {"send", "commit"} /\ pord'[d] = pord[d] /\ ~OtherPending(pord[d])
    BY <1>1, <1>4 DEF PlaceTypeOK, OnePending
  <2>2. PgOf(o) # PgOf(pord[d])
    BY <1>1, <2>1 DEF Apart, Callers, o
  <2> QED BY <1>2, <2>1, <2>2 DEF OtherPending
<1> QED BY <1>3, <1>4 DEF OnePending, OtherPending

LEMMA OnePendingStep == LegInv /\ OnePending /\ Apart /\ [Next]_vars => OnePending'
<1> SUFFICES ASSUME LegInv, OnePending, Apart, [Next]_vars PROVE OnePending'
  OBVIOUS
<1>1. PlaceTypeOK /\ ControlTypeOK
  BY DEF LegInv, ListInv, Inv, ControlTypeOK
<1>2. ASSUME NEW o \in Orders, PlaceOrder(o) PROVE OnePending'
  BY <1>1, <1>2, StartPending, PendingShrinks DEF PlaceOrder, memVars, queueVars, placeVars, Callers
<1>3. ASSUME NEW c \in Callers, SendLeg(c) PROVE OnePending'
  BY <1>1, <1>3, PendingShrinks DEF SendLeg, memVars, queueVars, PlaceTypeOK
<1>4. ASSUME NEW c \in Callers, CommitQueued(c) \/ SendFails(c) PROVE OnePending'
  <2>1. /\ pendingQ' \subseteq pendingQ
        /\ ppc' = [ppc EXCEPT ![c] = "idle"] /\ pord' = [pord EXCEPT ![c] = None]
    BY <1>4 DEF CommitQueued, SendFails, Idle, RejectNew, AddToOrderQueue, memVars, queueVars
  <2> QED BY <1>1, <2>1, PendingShrinks DEF PlaceTypeOK
<1>5. CASE Drain
  <2>1. UNCHANGED placeVars /\ ~ResetRow /\ ~ResetRecords /\ ~FillAfterReset
    BY <1>5, NoDrainReset DEF Drain, DrainFill, DrainSkip, DrainClose, DrainSave, LegInv
  <2>2. pendingQ' \subseteq pendingQ
    <3>1. CASE DrainFill
      BY <3>1, FillOfPendingLeg DEF AddToOrderQueue, queueVars
    <3>2. CASE DrainSkip \/ DrainClose \/ DrainSave
      BY <3>2 DEF DrainSkip, DrainClose, DrainSave, CloseRecords, AddToOrderQueue, memVars, queueVars
    <3> QED BY <1>5, <2>1, <3>1, <3>2 DEF Drain
  <2> QED BY <2>1, <2>2, PendingShrinks DEF placeVars
<1>6. ASSUME NEW o \in Orders, PlaceNew(o) PROVE OnePending'
  <2>1. pendingQ' \subseteq pendingQ /\ (StartPlacement("worker", o) \/ UNCHANGED placeVars)
    BY <1>6 DEF PlaceNew, RejectNew, AddToOrderQueue, memVars, queueVars
  <2> QED BY <1>1, <2>1, StartPending, PendingShrinks DEF placeVars, Callers
<1>7. ASSUME UNCHANGED placeVars, pendingQ' \subseteq pendingQ PROVE OnePending'
  BY <1>7, PendingShrinks DEF placeVars
<1>8. CASE \/ StartPoll \/ FetchPending \/ FetchNew \/ FinishPoll \/ FinishOrder \/ SaveApplied
           \/ FindPlayground \/ CloseRow
           \/ \E l \in Legs : PollLeg(l) \/ LookAtLeg(l)
           \/ \E o \in Orders : ReadTrades(o)
  BY <1>7, <1>8 DEF StartPoll, FetchPending, FetchNew, FinishPoll, FinishOrder, SaveApplied, PollLeg,
         FindPlayground, CloseRow, LookAtLeg, ReadTrades, memVars, queueVars
<1>9. CASE CloseRecord
  BY <1>7, <1>9 DEF CloseRecord, AddToOrderQueue, queueVars
<1>10. ASSUME NEW t \in Legs, ApplyTrade(t) PROVE OnePending'
  BY <1>7, <1>10 DEF ApplyTrade, Accept, Refuse, AddToOrderQueue, queueVars
<1>11. CASE \/ \E l \in Legs : BrokerDecides(l) \/ BrokerFillsLate(l)
            \/ \E p \in Playgrounds : DeletePlayground(p)
  BY <1>7, <1>11 DEF BrokerDecides, BrokerFillsLate, DeletePlayground, memVars, queueVars
<1>12. CASE UNCHANGED vars
  BY <1>7, <1>12 DEF vars, memVars, queueVars
<1>13. ~Crash
  BY NoCrash DEF LegInv, LegFacts
<1>14. CASE Worker
  BY <1>6, <1>8, <1>9, <1>10, <1>14 DEF Worker
<1>15. ASSUME NEW c \in Callers, Placement(c) \/ SendFails(c) PROVE OnePending'
  BY <1>3, <1>4, <1>15, CommitPlacedPending DEF Placement
<1> QED BY <1>2, <1>5, <1>11, <1>12, <1>13, <1>14, <1>15 DEF Next, Faults

LEMMA InitLegInv ==
    ASSUME MaxCrashes = 0, MaxLateFills = 0, MaxDbFailures = 0 PROVE Init => LegInv
<1>1. Init => NoReset /\ Looking
  BY DEF Init, NoReset, Looking
<1> QED BY <1>1, InitInv, InitLists, InitLegs DEF LegInv, ListInv

LEMMA InitOnePending == Init => OnePending
BY DEF Init, OnePending, Callers

(* While nothing crashes, fails to be saved or is filled late, and client    *)
(* and worker do not place orders of one playground at the same time, no two *)
(* orders of a playground are pending together.                              *)
THEOREM OneInFlightHolds ==
    ASSUME MaxCrashes = 0, MaxLateFills = 0, MaxDbFailures = 0
    PROVE  Spec /\ []Apart => []OneInFlight
<1>1. Init => LegInv /\ OnePending
  BY InitLegInv, InitOnePending
<1>2. LegInv /\ OnePending /\ Apart /\ [Next]_vars => (LegInv /\ OnePending)'
  BY LegInvStep, OnePendingStep
<1>3. OnePending => OneInFlight
  <2> SUFFICES ASSUME OnePending, NEW p \in Playgrounds
               PROVE  Cardinality({o \in pendingQ \cap Orders : PgOf(o) = p}) <= 1
    BY DEF OneInFlight
  <2> DEFINE P == {o \in pendingQ \cap Orders : PgOf(o) = p}
  <2>1. CASE P = {}
    BY <2>1, FS_EmptySet
  <2>2. CASE P # {}
    <3>1. PICK o \in P : TRUE
      BY <2>2
    <3>2. P = {o}
      BY <3>1 DEF OnePending
    <3> HIDE DEF P
    <3>3. Cardinality(P) = 1
      BY <3>2, FS_Singleton
    <3> QED BY <3>3 DEF P
  <2> QED BY <2>1, <2>2
<1> QED BY <1>1, <1>2, <1>3, PTL DEF Spec

-----------------------------------------------------------------------------
(* The live orders *)

Within(o) ==
    IF Quantity[o] > 0 THEN FilledVolume(o) \in 0..Quantity[o]
                       ELSE FilledVolume(o) \in Quantity[o]..0

(* An order in memory: in the list of pending orders while its status says   *)
(* so, behind its row until it is accepted, filled when its trades add up to *)
(* its quantity, and not ended while its one leg is pending.                 *)
Agrees(o) ==
    /\ mStatus[o] = "pending" <=> o \in pendingQ
    /\ dStatus[o] \in {"absent", "blank"} => mStatus[o] = "absent"
    /\ dStatus[o] = "new" => mStatus[o] = "new"
    /\ Within(o)
    /\ mStatus[o] = "filled" <=> FilledVolume(o) = Quantity[o]
    /\ legQty[<<o, 2>>] = 0 /\ mStatus[<<o, 1>>] = "pending" => mStatus[o] = "pending"
OrdersAgree == \A o \in Orders : Agrees(o)

(* What a step may do to the orders and the positions of the playgrounds. *)
VolumesKept ==
    /\ \A x \in Orders : FilledVolume(x)' = FilledVolume(x)
    /\ \A p \in Playgrounds : pos'[p] = pos[p]
OthersKept(o) == \A x \in Orders : x # o => mStatus'[x] = mStatus[x]
Turns(o, from, to) ==
    mStatus[o] \in from /\ mStatus'[o] \in to /\ OthersKept(o) /\ VolumesKept
Fills(o, n) ==
    /\ mStatus[o] = "pending" /\ OthersKept(o)
    /\ n # 0 /\ (n > 0 <=> Quantity[o] > 0)
    /\ FilledVolume(o)' = FilledVolume(o) + n
    /\ \A x \in Orders : x # o => FilledVolume(x)' = FilledVolume(x)
    /\ \A p \in Playgrounds : pos'[p] = IF p = PgOf(o) THEN pos[p] + n ELSE pos[p]
    /\ mStatus'[o] = IF FilledVolume(o)' = Quantity[o] THEN "filled" ELSE "pending"

Still == VolumesKept /\ \A x \in Orders : mStatus'[x] = mStatus[x]
OrderStep ==
    \/ Still
    \/ \E o \in Orders :
          \/ Turns(o, {"absent"}, {"new"})
          \/ /\ Turns(o, {"absent", "new"}, {"pending"})
             /\ \E c \in Callers : ppc[c] = "commit" /\ pord[c] = o
          \/ Turns(o, {"new", "pending"}, {"rejected", "canceled"})
          \/ \E n \in Int : Fills(o, n)

-----------------------------------------------------------------------------
LEMMA PairLegs == \A o \in Orders : /\ <<o, 1>> \in Legs /\ <<o, 2>> \in Legs
                                    /\ <<o, 1>>[1] = o /\ <<o, 2>>[1] = o
                                    /\ <<o, 1>> \in Items
BY DEF Legs, Items

LEMMA LegsInPairs == \A l \in Legs : l = <<l[1], 1>> \/ l = <<l[1], 2>>
BY DEF Legs

LEMMA InitOrders == Init => OrdersAgree
<1> SUFFICES ASSUME Init, NEW o \in Orders PROVE Agrees(o)
  BY DEF OrdersAgree
<1>1. FilledVolume(o) = 0
  BY PairLegs DEF Init, FilledVolume
<1>2. Quantity[o] \in Int /\ Quantity[o] # 0
  BY ConstantsAssumption
<1>3. /\ o \in Items /\ mStatus = [x \in Items |-> "absent"] /\ dStatus = [x \in Items |-> "absent"]
      /\ pendingQ = {}
  BY ItemKinds DEF Init
<1> QED BY <1>1, <1>2, <1>3, PairLegs DEF Agrees, Within

LEMMA VolumeType == ASSUME LegInv, NEW o \in Orders PROVE FilledVolume(o) \in Int
<1>1. applied \in [Legs -> Nat] /\ legQty \in [Legs -> Int]
  BY DEF LegInv, LegFacts, ListInv, Inv, ControlTypeOK, MemTypeOK, Quantities
<1>2. /\ applied[<<o, 1>>] \in Int /\ legQty[<<o, 1>>] \in Int
      /\ applied[<<o, 2>>] \in Int /\ legQty[<<o, 2>>] \in Int
  BY <1>1, PairLegs
<1> QED BY <1>2 DEF FilledVolume

(* An order no leg of which is stored has filled nothing, whatever its size. *)
LEMMA NoVolume ==
    ASSUME LegInv, NEW o \in Orders, dStatus[o] \notin Accepted, UNCHANGED applied,
           legQty' \in [Legs -> Int]
    PROVE  FilledVolume(o) = 0 /\ FilledVolume(o)' = 0
<1>1. applied[<<o, 1>>] = 0 /\ applied[<<o, 2>>] = 0
  BY UnstoredLegs, PairLegs
<1>2. /\ legQty[<<o, 1>>] \in Int /\ legQty[<<o, 2>>] \in Int
      /\ legQty'[<<o, 1>>] \in Int /\ legQty'[<<o, 2>>] \in Int
  BY PairLegs DEF LegInv, LegFacts, Quantities
<1> QED BY <1>1, <1>2 DEF FilledVolume

(* An order a step does not touch agrees still. *)
LEMMA AgreeKept ==
    ASSUME NEW o \in Orders, Agrees(o), mStatus'[o] = mStatus[o],
           o \in pendingQ' <=> o \in pendingQ,
           dStatus'[o] = dStatus[o] \/ dStatus'[o] \in Accepted,
           UNCHANGED applied, \A l \in Legs : l[1] = o => legQty'[l] = legQty[l],
           mStatus'[<<o, 1>>] = mStatus[<<o, 1>>] \/ mStatus'[<<o, 1>>] # "pending"
    PROVE  Agrees(o)' /\ FilledVolume(o)' = FilledVolume(o)
<1>1. FilledVolume(o)' = FilledVolume(o) /\ legQty'[<<o, 2>>] = legQty[<<o, 2>>]
  BY PairLegs DEF FilledVolume
<1>2. Within(o)'
  BY <1>1 DEF Agrees, Within
<1> QED BY <1>1, <1>2 DEF Agrees, Accepted, Ended

(* A step that moves no order. *)
LEMMA QuietStep ==
    ASSUME OrdersAgree,
           \A o \in Orders : /\ mStatus'[o] = mStatus[o]
                             /\ o \in pendingQ' <=> o \in pendingQ
                             /\ dStatus'[o] = dStatus[o] \/ dStatus'[o] \in Accepted,
           UNCHANGED <<applied, legQty>>,
           \A l \in Legs : mStatus'[l] = mStatus[l] \/ mStatus'[l] # "pending",
           \A p \in Playgrounds : pos'[p] = pos[p]
    PROVE  OrdersAgree' /\ Still
BY AgreeKept, PairLegs DEF OrdersAgree, Still, VolumesKept

(* A step on an order that is not accepted. *)
LEMMA UnacceptedOrder ==
    ASSUME LegInv, OrdersAgree, NEW o \in Orders, dStatus[o] \notin Accepted,
           UNCHANGED <<applied, pos>>, legQty' \in [Legs -> Int],
           \A l \in Legs : l[1] # o => legQty'[l] = legQty[l] /\ mStatus'[l] = mStatus[l],
           mStatus'[<<o, 1>>] = "absent" \/ mStatus'[o] = "pending",
           \A x \in Orders : x # o => /\ mStatus'[x] = mStatus[x] /\ dStatus'[x] = dStatus[x]
                                      /\ x \in pendingQ' <=> x \in pendingQ,
           mStatus'[o] = "pending" <=> o \in pendingQ',
           mStatus'[o] # "filled",
           dStatus'[o] \in {"absent", "blank"} => mStatus'[o] = "absent",
           dStatus'[o] = "new" => mStatus'[o] = "new"
    PROVE  OrdersAgree' /\ OthersKept(o) /\ VolumesKept
<1>1. FilledVolume(o) = 0 /\ FilledVolume(o)' = 0
  BY NoVolume
<1>2. Quantity[o] \in Int /\ Quantity[o] # 0
  BY ConstantsAssumption
<1>3. Within(o)' /\ FilledVolume(o)' # Quantity[o]
  BY <1>1, <1>2 DEF Within
<1>4. Agrees(o)'
  BY <1>1, <1>3 DEF Agrees
<1>5. ASSUME NEW x \in Orders, x # o PROVE Agrees(x)' /\ FilledVolume(x)' = FilledVolume(x)
  <2>1. mStatus'[<<x, 1>>] = mStatus[<<x, 1>>] /\ \A l \in Legs : l[1] = x => legQty'[l] = legQty[l]
    BY <1>5, PairLegs
  <2> QED BY <1>5, <2>1, AgreeKept DEF OrdersAgree
<1> QED BY <1>1, <1>4, <1>5 DEF OrdersAgree, OthersKept, VolumesKept

(* A pending order that is closed, its leg being closed or filled already.   *)
LEMMA ClosedStep ==
    ASSUME LegInv, OrdersAgree, NEW o \in Orders, dStatus'[o] \in Accepted,
           UNCHANGED <<applied, legQty>>,
           mStatus[o] = "pending", mStatus'[o] \in {"rejected", "canceled"}, o \notin pendingQ',
           legQty[<<o, 2>>] = 0 => mStatus'[<<o, 1>>] # "pending",
           \A l \in Legs : mStatus'[l] = mStatus[l] \/ mStatus'[l] # "pending",
           \A x \in Orders : x # o => /\ mStatus'[x] = mStatus[x] /\ dStatus'[x] = dStatus[x]
                                      /\ x \in pendingQ' <=> x \in pendingQ,
           \A p \in Playgrounds : pos'[p] = pos[p]
    PROVE  OrdersAgree' /\ Turns(o, {"new", "pending"}, {"rejected", "canceled"})
<1>1. \A x \in Orders : FilledVolume(x)' = FilledVolume(x)
  BY DEF FilledVolume
<1>2. Agrees(o)'
  <2>1. Within(o)' /\ FilledVolume(o)' # Quantity[o]
    BY <1>1 DEF OrdersAgree, Agrees, Within
  <2> QED BY <2>1 DEF Agrees, Accepted, Ended
<1>3. ASSUME NEW x \in Orders, x # o PROVE Agrees(x)'
  BY <1>3, AgreeKept, PairLegs DEF OrdersAgree
<1> QED BY <1>1, <1>2, <1>3 DEF OrdersAgree, Turns, OthersKept, VolumesKept

-----------------------------------------------------------------------------
(* What each step does to the orders. *)

LEMMA PlaceOrderOrders ==
    ASSUME LegInv, OrdersAgree, NEW o \in Orders, PlaceOrder(o) PROVE OrdersAgree' /\ OrderStep
<1>1. /\ dStatus \in [Items -> Status] /\ dStatus[o] = "absent" /\ o \in Items
      /\ dStatus' = [dStatus EXCEPT ![o] = "blank"]
      /\ UNCHANGED <<mStatus, pendingQ, applied, pos>>
  BY ItemKinds DEF LegInv, ListInv, Inv, ControlTypeOK, DbTypeOK, PlaceOrder, memVars, queueVars
<1>2. /\ legQty' \in [Legs -> Int]
      /\ \A l \in Legs : l[1] # o => legQty'[l] = legQty[l]
  BY StartedQuantities DEF PlaceOrder, Callers
<1>3. dStatus[o] \notin Accepted /\ mStatus[o] = "absent" /\ o \notin pendingQ
  BY <1>1 DEF OrdersAgree, Agrees, Accepted, Ended
<1>4. mStatus[<<o, 1>>] = "absent"
  BY <1>3, UnstoredLegs, PairLegs
<1>5. OrdersAgree' /\ OthersKept(o) /\ VolumesKept
  BY <1>1, <1>2, <1>3, <1>4, UnacceptedOrder
<1> QED BY <1>1, <1>5 DEF OrderStep, Still

(* The worker's rejection of a waiting order. *)
LEMMA RejectNewOrders ==
    ASSUME LegInv, OrdersAgree, NEW o \in Orders, dStatus[o] = "new", RejectNew(o),
           dStatus' = [dStatus EXCEPT ![o] = "rejected"], legQty' \in [Legs -> Int],
           \A l \in Legs : l[1] # o => legQty'[l] = legQty[l]
    PROVE  OrdersAgree' /\ OrderStep
<1>1. /\ dStatus \in [Items -> Status] /\ mStatus \in [Items -> Status] /\ o \in Items
      /\ mStatus[o] = "new"
      /\ mStatus' = [mStatus EXCEPT ![o] = "rejected"] /\ pendingQ' = pendingQ \ {o}
      /\ UNCHANGED <<applied, pos>>
  BY ItemKinds DEF LegInv, ListInv, Inv, ControlTypeOK, DbTypeOK, MemTypeOK, RejectNew, AddToOrderQueue,
                   OrdersAgree, Agrees
<1>2. /\ dStatus[o] \notin Accepted
      /\ \A l \in Legs : l # o /\ mStatus'[l] = mStatus[l]
  BY <1>1, ItemKinds DEF Accepted, Ended
<1>3. mStatus'[<<o, 1>>] = "absent"
  BY <1>2, UnstoredLegs, PairLegs
<1>4. OrdersAgree' /\ OthersKept(o) /\ VolumesKept
  <2>1. \A x \in Orders : x # o => /\ mStatus'[x] = mStatus[x] /\ dStatus'[x] = dStatus[x]
                                   /\ x \in pendingQ' <=> x \in pendingQ
    BY <1>1
  <2>2. mStatus'[o] = "rejected" /\ dStatus'[o] = "rejected" /\ o \notin pendingQ'
    BY <1>1
  <2> QED BY <1>1, <1>2, <1>3, <2>1, <2>2, UnacceptedOrder
<1> QED BY <1>1, <1>4 DEF OrderStep, Turns

LEMMA PlaceNewOrders ==
    ASSUME LegInv, OrdersAgree, NEW o \in Orders, PlaceNew(o) PROVE OrdersAgree' /\ OrderStep
<1>1. /\ dStatus[o] = "new" /\ mStatus[o] = "new" /\ o \notin pendingQ /\ dStatus[o] \notin Accepted
      /\ ~Spend("db")
  BY NoDbFailure
     DEF LegInv, ListInv, Inv, FillProvenance, WorkerHolds, PlaceNew, OrdersAgree, Agrees,
         Accepted, Ended
<1>2. /\ legQty' \in [Legs -> Int]
      /\ \A l \in Legs : l[1] # o => legQty'[l] = legQty[l]
  BY StartedQuantities DEF PlaceNew, Callers
<1>3. CASE UNCHANGED <<dStatus, memVars>>
  <2>1. UNCHANGED <<dStatus, mStatus, pendingQ, applied, pos>>
    BY <1>3 DEF memVars, queueVars
  <2>2. mStatus[<<o, 1>>] = "absent"
    BY <1>1, UnstoredLegs, PairLegs
  <2>3. OrdersAgree' /\ OthersKept(o) /\ VolumesKept
    BY <1>1, <1>2, <2>1, <2>2, UnacceptedOrder
  <2> QED BY <2>1, <2>3 DEF OrderStep, Still
<1>4. CASE RejectNew(o) /\ dStatus' = [dStatus EXCEPT ![o] = "rejected"]
  BY <1>1, <1>2, <1>4, RejectNewOrders
<1> QED BY <1>1, <1>3, <1>4 DEF PlaceNew

LEMMA SendFailsOrders ==
    ASSUME LegInv, OrdersAgree, NEW c \in Callers, SendFails(c) PROVE OrdersAgree' /\ OrderStep
<1> DEFINE o == pord[c]
<1>1. /\ o \in Orders /\ dStatus[o] \notin Accepted /\ (c = "worker" => dStatus[o] = "new")
      /\ ~SpendBoth("send", "db")
      /\ \A l \in Legs : l \in LegsOf(o) <=> l[1] = o
      /\ \A l \in Legs : l[1] = o => mStatus[l] = "absent"
  BY PlacedNow, UnstoredLegs, NoDbFailure DEF SendFails, LegInv, ListInv, Inv, FillProvenance, PlacedOnce
<1>2. /\ legQty' \in [Legs -> Int]
      /\ \A l \in Legs : l[1] # o => legQty'[l] = legQty[l]
  BY <1>1 DEF SendFails, Forget, Set, LegInv, LegFacts, Quantities
<1>3. CASE UNCHANGED <<dbVars, memVars>>
  <2>1. UNCHANGED <<dStatus, mStatus, pendingQ, applied, pos>>
    BY <1>3 DEF dbVars, memVars, queueVars
  <2>2. Agrees(o) /\ mStatus[<<o, 1>>] = "absent"
    BY <1>1, PairLegs DEF OrdersAgree
  <2>3. mStatus[o] # "filled"
    <3>1. FilledVolume(o) = 0 /\ Quantity[o] # 0
      BY <1>1, <1>2, <2>1, NoVolume, ConstantsAssumption
    <3> QED BY <2>2, <3>1 DEF Agrees
  <2> HIDE DEF o
  <2>4. OrdersAgree' /\ OthersKept(o) /\ VolumesKept
    BY <1>1, <1>2, <2>1, <2>2, <2>3, UnacceptedOrder DEF Agrees
  <2> QED BY <2>1, <2>4 DEF OrderStep, Still
<1>4. CASE c = "worker" /\ RejectNew(o) /\ dStatus' = [dStatus EXCEPT ![o] = "rejected"]
  BY <1>1, <1>2, <1>4, RejectNewOrders
<1> QED BY <1>1, <1>3, <1>4 DEF SendFails

LEMMA CommitPlacedOrders ==
    ASSUME LegInv, OrdersAgree, NEW c \in Callers, CommitPlaced(c) PROVE OrdersAgree' /\ OrderStep
<1> DEFINE o == pord[c]
           S == {o} \cup {l \in LegsOf(o) : legQty[l] # 0}
<1>1. /\ o \in Orders /\ o \in Items /\ dStatus[o] \in {"blank", "new"} /\ ~Spend("db")
      /\ ppc[c] = "commit" /\ \A l \in LegsOf(o) : l \in Legs /\ l[1] = o
      /\ dStatus \in [Items -> Status] /\ mStatus \in [Items -> Status]
  BY PlacedNow, PlacedIsUnlisted, NoDbFailure
     DEF CommitPlaced, LegInv, ListInv, Inv, ControlTypeOK, DbTypeOK, MemTypeOK
<1>2. /\ UNCHANGED <<applied, pos, legQty>> /\ pendingQ' = pendingQ \cup S
      /\ mStatus' = Set(mStatus, S, "pending") /\ dStatus' = Set(dStatus, S, "pending")
  BY <1>1 DEF CommitPlaced, CommitSaved, brokerVars
<1>3. o \in S /\ \A x \in Orders : x # o => x \notin S
  BY <1>1, ItemKinds
<1>4. \A l \in Legs : l[1] # o => l \notin S
  BY <1>1, ItemKinds
<1> HIDE DEF S
<1>5. /\ mStatus'[o] = "pending" /\ dStatus'[o] = "pending" /\ o \in pendingQ'
      /\ \A x \in Orders : x # o => /\ mStatus'[x] = mStatus[x] /\ dStatus'[x] = dStatus[x]
                                    /\ x \in pendingQ' <=> x \in pendingQ
      /\ \A l \in Legs : l[1] # o => legQty'[l] = legQty[l] /\ mStatus'[l] = mStatus[l]
  BY <1>1, <1>2, <1>3, <1>4, ItemKinds DEF Set
<1>6. dStatus[o] \notin Accepted /\ mStatus[o] \in {"absent", "new"} /\ legQty' \in [Legs -> Int]
  BY <1>1, <1>2 DEF OrdersAgree, Agrees, Accepted, Ended, LegInv, LegFacts, Quantities
<1>7. OrdersAgree' /\ OthersKept(o) /\ VolumesKept
  BY <1>1, <1>2, <1>5, <1>6, UnacceptedOrder
<1>8. Turns(o, {"absent", "new"}, {"pending"})
  BY <1>5, <1>6, <1>7 DEF Turns
<1> QED BY <1>1, <1>7, <1>8 DEF OrderStep

LEMMA CommitQueuedOrders ==
    ASSUME LegInv, OrdersAgree, NEW c \in Callers, CommitQueued(c) PROVE OrdersAgree' /\ OrderStep
<1> DEFINE o == pord[c]
<1>1. /\ o \in Orders /\ o \in Items /\ dStatus[o] \in {"blank", "new"} /\ ~Spend("db")
      /\ o \notin pendingQ
      /\ dStatus \in [Items -> Status] /\ mStatus \in [Items -> Status]
      /\ newQ \subseteq Items /\ \A x \in newQ : mStatus[x] = "new"
  BY PlacedNow, PlacedIsUnlisted, NoDbFailure
     DEF CommitQueued, LegInv, ListInv, Inv, ControlTypeOK, DbTypeOK, MemTypeOK, Lists, OneQueue
<1>2. /\ UNCHANGED <<applied, pos, legQty, pendingQ>>
      /\ mStatus' = [mStatus EXCEPT ![o] = "new"] /\ dStatus' = Set(dStatus, {o}, mStatus'[o])
  BY <1>1 DEF CommitQueued, CommitSaved, brokerVars
<1> HIDE DEF o
<1>3. /\ mStatus'[o] = "new" /\ dStatus'[o] = "new"
      /\ \A x \in Items : x # o => mStatus'[x] = mStatus[x] /\ dStatus'[x] = dStatus[x]
  BY <1>1, <1>2 DEF Set
<1>4. dStatus[o] \notin Accepted /\ mStatus[o] \in {"absent", "new"} /\ legQty' \in [Legs -> Int]
  BY <1>1, <1>2 DEF OrdersAgree, Agrees, Accepted, Ended, LegInv, LegFacts, Quantities
<1>5. \A l \in Legs : mStatus'[l] = mStatus[l]
  BY <1>1, <1>3, ItemKinds
<1>6. mStatus'[<<o, 1>>] = "absent"
  <2>1. <<o, 1>> \in Legs /\ <<o, 1>>[1] = o
    BY <1>1, PairLegs
  <2>2. mStatus[<<o, 1>>] = "absent"
    BY <1>1, <1>4, <2>1, UnstoredLegs
  <2> QED BY <1>5, <2>1, <2>2
<1>7. OrdersAgree' /\ OthersKept(o) /\ VolumesKept
  BY <1>1, <1>2, <1>3, <1>4, <1>5, <1>6, UnacceptedOrder, ItemKinds
<1>8. CASE mStatus[o] = "absent"
  BY <1>1, <1>3, <1>7, <1>8 DEF OrderStep, Turns
<1>9. CASE mStatus[o] = "new"
  BY <1>1, <1>3, <1>7, <1>9 DEF OrderStep, Still, OthersKept
<1> QED BY <1>4, <1>7, <1>8, <1>9

(* A closed leg is the one leg of its order, which is pending as long as the *)
(* leg is and is closed with it.                                             *)
LEMMA OneClosedLeg ==
    ASSUME LegInv, SplitsFill, NEW l \in Legs, legQty[l] # 0, broker[l] \in {"rejected", "canceled"}
    PROVE  l = <<l[1], 1>> /\ legQty[<<l[1], 2>>] = 0
BY LegsInPairs, LegOrder DEF SplitsFill

LEMMA CloseLegOrders ==
    ASSUME LegInv, OrdersAgree, SplitsFill, NEW l \in Legs, NEW kind \in {"rejected", "canceled"},
           legQty[l] # 0, broker[l] = kind, mStatus[l] = "pending", dStatus[l[1]] \in Accepted,
           CloseRecords(l, kind, {l, l[1]}), CloseRows(l), UNCHANGED <<applied, legQty, pos>>
    PROVE  OrdersAgree' /\ OrderStep
<1> DEFINE o == l[1]
<1>1. /\ o \in Orders /\ o \in Items /\ l \in Items /\ o # l
      /\ l = <<o, 1>> /\ legQty[<<o, 2>>] = 0
      /\ dStatus \in [Items -> Status] /\ mStatus \in [Items -> Status]
  BY OneClosedLeg, ItemKinds DEF LegInv, ListInv, Inv, ControlTypeOK, DbTypeOK, MemTypeOK
<1>2. mStatus[o] = "pending" /\ o \in pendingQ
  BY <1>1 DEF OrdersAgree, Agrees
<1>3. /\ mStatus' = Set(mStatus, {l, o}, kind) /\ pendingQ' = pendingQ \ {l, o}
      /\ dStatus' = dStatus \/ dStatus' = [dStatus EXCEPT ![o] = "pending"]
  BY <1>2 DEF CloseRecords, CloseRows, AddToOrderQueue
<1> HIDE DEF o
<1>4. /\ mStatus'[o] = kind /\ mStatus'[<<o, 1>>] = kind /\ o \notin pendingQ'
      /\ \A x \in Orders : x # o => /\ mStatus'[x] = mStatus[x] /\ dStatus'[x] = dStatus[x]
                                    /\ x \in pendingQ' <=> x \in pendingQ
      /\ \A k \in Legs : mStatus'[k] = mStatus[k] \/ mStatus'[k] # "pending"
  BY <1>1, <1>3, ItemKinds DEF Set
<1>5. dStatus'[o] \in Accepted
  BY <1>1, <1>3 DEF o, Accepted
<1>6. OrdersAgree' /\ Turns(o, {"new", "pending"}, {"rejected", "canceled"})
  BY <1>1, <1>2, <1>4, <1>5, ClosedStep
<1> QED BY <1>1, <1>6 DEF OrderStep

LEMMA DrainOrders ==
    ASSUME LegInv, OrdersAgree, SplitsFill, Drain PROVE OrdersAgree' /\ OrderStep
<1>1. CASE DrainFill
  <2> DEFINE l == Head(events).leg
  <2>1. /\ l \in Legs /\ mStatus \in [Items -> Status] /\ UNCHANGED dStatus
        /\ UNCHANGED <<applied, legQty>>
        /\ pos \in [Accounts -> Int]
        /\ \/ /\ mStatus' = [mStatus EXCEPT ![l] = "filled"] /\ AddToOrderQueue({l})
              /\ pos' = [pos EXCEPT ![Recon] = @ + legQty[l]]
           \/ UNCHANGED <<mStatus, queueVars, pos>>
    BY <1>1, CurrentEvent, FillOfPendingLeg
       DEF DrainFill, brokerVars, LegInv, LegFacts, Quantities
  <2> HIDE DEF l
  <2>2. /\ \A x \in Items : mStatus'[x] = mStatus[x] \/ (x = l /\ mStatus'[x] = "filled")
        /\ \A x \in Orders : x \in pendingQ' <=> x \in pendingQ
    BY <2>1, ItemKinds DEF AddToOrderQueue, queueVars
  <2>3. \A p \in Playgrounds : pos'[p] = pos[p]
    BY <2>1, ConstantsAssumption DEF Accounts
  <2>4. /\ \A x \in Orders : mStatus'[x] = mStatus[x]
        /\ \A k \in Legs : mStatus'[k] = mStatus[k] \/ mStatus'[k] # "pending"
    BY <2>1, <2>2, ItemKinds
  <2>5. OrdersAgree' /\ Still
    BY <2>1, <2>2, <2>3, <2>4, QuietStep
  <2> QED BY <2>5 DEF OrderStep
<1>2. CASE DrainSkip
  BY <1>2, QuietStep DEF DrainSkip, dbVars, memVars, queueVars, brokerVars, OrderStep
<1>3. CASE DrainClose
  <2> DEFINE l == Head(events).leg
             kind == Head(events).kind
  <2>1. /\ l \in Legs /\ legQty[l] # 0 /\ broker[l] = kind /\ dStatus[l[1]] \in Accepted
        /\ kind \in {"rejected", "canceled"} /\ UNCHANGED <<applied, legQty, pos>>
    BY <1>3, CurrentEvent DEF DrainClose, brokerVars
  <2>2. \/ mStatus[l] = "pending" /\ CloseRecords(l, kind, {l, l[1]}) /\ CloseRows(l)
        \/ UNCHANGED <<dStatus, mStatus, queueVars>>
    BY <1>3, ClosedOrResaved
  <2> HIDE DEF l, kind
  <2>3. CASE mStatus[l] = "pending" /\ CloseRecords(l, kind, {l, l[1]}) /\ CloseRows(l)
    BY <2>1, <2>3, CloseLegOrders
  <2>4. CASE UNCHANGED <<dStatus, mStatus, queueVars>>
    BY <2>1, <2>4, QuietStep DEF queueVars, OrderStep
  <2> QED BY <2>2, <2>3, <2>4
<1>4. CASE DrainSave
  <2>1. /\ dleg \in Legs /\ dStatus \in [Items -> Status]
        /\ UNCHANGED <<mStatus, pendingQ, applied, pos, legQty>>
        /\ UNCHANGED dStatus \/ dStatus' = [dStatus EXCEPT ![dleg] = mStatus[dleg]]
    BY <1>4 DEF DrainSave, queueVars, brokerVars, LegInv, ListInv, Inv, FillProvenance, OnlyStoredLegsMove,
           ControlTypeOK, DbTypeOK
  <2>2. \A x \in Orders : dStatus'[x] = dStatus[x]
    BY <2>1, ItemKinds
  <2>3. OrdersAgree' /\ Still
    BY <2>1, <2>2, QuietStep
  <2> QED BY <2>3 DEF OrderStep
<1> QED BY <1>1, <1>2, <1>3, <1>4, NoDrainReset DEF Drain, LegInv

-----------------------------------------------------------------------------
(* The worker *)

(* The order the worker is closing, because of its one leg.                  *)
LEMMA ClosedOrder ==
    ASSUME LegInv, SplitsFill, wpc \in {"close", "closing"}
    PROVE  /\ cur \in Orders /\ cur \in Items /\ cur \notin newQ /\ dStatus[cur] \in Accepted
           /\ verdict \in {"rejected", "canceled"} /\ verdict \in Accepted
           /\ mStatus[<<cur, 1>>] = verdict /\ <<cur, 1>> # cur
           /\ dStatus \in [Items -> Status] /\ mStatus \in [Items -> Status]
<1>1. /\ cur \in Orders /\ dStatus[cur] \in Accepted
      /\ verdict \in {"rejected", "canceled"} /\ verdict \in Accepted /\ verdict \in Ended
      /\ verdict # "absent"
      /\ dStatus \in [Items -> Status] /\ mStatus \in [Items -> Status]
  BY DEF LegInv, ListInv, Inv, ControlTypeOK, DbTypeOK, MemTypeOK, WorkerTypeOK, FillProvenance,
         WorkerHolds, AtOrder, Ended, Accepted
<1>2. PICK l \in LegsOf(cur) : mStatus[l] = verdict
  BY DEF LegInv, Looking
<1>3. /\ l \in Legs /\ l[1] = cur /\ Stored(l) /\ legQty[l] # 0 /\ broker[l] = verdict
  BY <1>1, <1>2, LegsOfType DEF LegInv, LegFacts, LegsAgree, LegAgrees
<1>4. l = <<cur, 1>>
  BY <1>1, <1>3, OneClosedLeg
<1>5. cur \notin newQ
  BY <1>1, <1>3, ItemKinds
     DEF LegInv, ListInv, Inv, FillProvenance, LegsComeAfterOrders, Lists, OneQueue, Accepted, Ended
<1> QED BY <1>1, <1>2, <1>3, <1>4, <1>5, ItemKinds

LEMMA CloseRowOrders ==
    ASSUME LegInv, OrdersAgree, SplitsFill, CloseRow PROVE OrdersAgree' /\ OrderStep
<1>1. /\ cur \in Orders /\ cur \in Items /\ verdict \in Accepted /\ dStatus \in [Items -> Status]
  BY ClosedOrder DEF CloseRow
<1>2. /\ dStatus' = dStatus \/ dStatus' = [dStatus EXCEPT ![cur] = verdict]
      /\ UNCHANGED <<mStatus, pendingQ, applied, legQty, pos>>
  BY DEF CloseRow, memVars, queueVars, brokerVars
<1>3. \A x \in Orders : dStatus'[x] = dStatus[x] \/ dStatus'[x] \in Accepted
  BY <1>1, <1>2, ItemKinds
<1>4. OrdersAgree' /\ Still
  BY <1>2, <1>3, QuietStep
<1> QED BY <1>4 DEF OrderStep

LEMMA CloseRecordOrders ==
    ASSUME LegInv, OrdersAgree, SplitsFill, CloseRecord PROVE OrdersAgree' /\ OrderStep
<1>1. /\ cur \in Orders /\ cur \in Items /\ cur \notin newQ /\ dStatus[cur] \in Accepted
      /\ verdict \in {"rejected", "canceled"}
      /\ mStatus[<<cur, 1>>] = verdict /\ <<cur, 1>> # cur /\ mStatus \in [Items -> Status]
  BY ClosedOrder DEF CloseRecord
<1>2. ~Spend("db")
  BY NoDbFailure DEF LegInv, ListInv, Inv
<1>3. /\ pendingQ' = pendingQ \ {cur} /\ UNCHANGED <<dStatus, applied, legQty, pos>>
      /\ IF cur \in pendingQ THEN mStatus' = [mStatus EXCEPT ![cur] = verdict]
                             ELSE UNCHANGED mStatus
  BY <1>1, <1>2 DEF CloseRecord, ReplaceRecord, AddToOrderQueue, dbVars, brokerVars
<1>4. /\ \A x \in Orders : x # cur => /\ mStatus'[x] = mStatus[x] /\ dStatus'[x] = dStatus[x]
                                      /\ x \in pendingQ' <=> x \in pendingQ
      /\ \A k \in Legs : mStatus'[k] = mStatus[k]
  BY <1>1, <1>3, ItemKinds
<1>5. CASE cur \in pendingQ
  <2>1. /\ mStatus[cur] = "pending" /\ mStatus'[cur] = verdict /\ cur \notin pendingQ'
        /\ mStatus'[<<cur, 1>>] # "pending"
    BY <1>1, <1>3, <1>4, <1>5, PairLegs DEF OrdersAgree, Agrees
  <2>2. OrdersAgree' /\ Turns(cur, {"new", "pending"}, {"rejected", "canceled"})
    BY <1>1, <1>3, <1>4, <2>1, ClosedStep
  <2> QED BY <1>1, <2>2 DEF OrderStep
<1>6. CASE cur \notin pendingQ
  <2>1. OrdersAgree' /\ Still
    BY <1>1, <1>3, <1>4, <1>6, QuietStep
  <2> QED BY <2>1 DEF OrderStep
<1> QED BY <1>5, <1>6

(* The trade being applied is that of a filled leg. *)
LEMMA AppliedTrade ==
    ASSUME LegInv, NEW t \in Legs, (wpc = "fill" /\ t \in trades) \/ (wpc = "save" /\ t = trade)
    PROVE  /\ cur \in Orders /\ t \in LegsOf(cur) /\ t[1] = cur
           /\ dStatus[cur] \in Accepted /\ mStatus[cur] \in Accepted \cup {"absent"}
           /\ mStatus[t] = "filled" /\ legQty[t] # 0 /\ legQty[t] \in Int
           /\ legQty[t] > 0 <=> Quantity[cur] > 0
           /\ legQty[<<cur, 2>>] = 0 => mStatus[<<cur, 1>>] # "pending"
<1>1. cur \in Orders /\ t \in dTrade /\ t \in LegsOf(cur)
  BY DEF LegInv, ListInv, Inv, FillProvenance, WorkerHolds, AtOrder
<1>2. t[1] = cur /\ t \in mTrade /\ Stored(t)
  BY <1>1, LegsOfType DEF LegInv, ListInv, Inv, FillProvenance, FillsAreBacked, OnlyStoredLegsMove
<1>3. LegAgrees(t)
  BY DEF LegInv, LegFacts, LegsAgree
<1>4. mStatus[t] = "filled" /\ legQty[t] # 0 /\ legQty[t] \in Int /\ (legQty[t] > 0 <=> Quantity[cur] > 0)
  BY <1>2, <1>3 DEF LegAgrees, LegInv, LegFacts, Quantities
<1>5. dStatus[cur] \in Accepted /\ mStatus[cur] \in Accepted \cup {"absent"}
  BY <1>2 DEF LegInv, ListInv, Inv, FillProvenance, LegsComeAfterOrders
<1>6. legQty[<<cur, 2>>] = 0 => t = <<cur, 1>>
  BY <1>2, <1>4, LegsInPairs
<1> QED BY <1>1, <1>2, <1>4, <1>5, <1>6

LEMMA AppliedVolume ==
    ASSUME LegInv, NEW o \in Orders, NEW t \in LegsOf(o),
           applied' = [applied EXCEPT ![t] = @ + 1], UNCHANGED legQty
    PROVE  /\ FilledVolume(o)' = FilledVolume(o) + legQty[t]
           /\ \A x \in Orders : x # o => FilledVolume(x)' = FilledVolume(x)
<1>1. applied \in [Legs -> Nat] /\ legQty \in [Legs -> Int]
  BY DEF LegInv, LegFacts, ListInv, Inv, ControlTypeOK, MemTypeOK, Quantities
<1>2. /\ <<o, 1>> \in Legs /\ <<o, 2>> \in Legs /\ <<o, 1>> # <<o, 2>>
      /\ applied[<<o, 1>>] \in Int /\ legQty[<<o, 1>>] \in Int
      /\ applied[<<o, 2>>] \in Int /\ legQty[<<o, 2>>] \in Int
  BY <1>1, PairLegs
<1>3. t = <<o, 1>> \/ t = <<o, 2>>
  BY DEF LegsOf
<1>4. \A a, b \in Int : (a + 1) * b = a * b + b
  OBVIOUS
<1>5. CASE t = <<o, 1>>
  <2>1. applied'[<<o, 1>>] = applied[<<o, 1>>] + 1 /\ applied'[<<o, 2>>] = applied[<<o, 2>>]
    BY <1>1, <1>2, <1>5
  <2> QED BY <1>2, <1>4, <1>5, <2>1 DEF FilledVolume
<1>6. CASE t = <<o, 2>>
  <2>1. applied'[<<o, 2>>] = applied[<<o, 2>>] + 1 /\ applied'[<<o, 1>>] = applied[<<o, 1>>]
    BY <1>1, <1>2, <1>6
  <2> QED BY <1>2, <1>4, <1>6, <2>1 DEF FilledVolume
<1>7. \A x \in Orders : x # o => FilledVolume(x)' = FilledVolume(x)
  <2>1. ASSUME NEW x \in Orders, x # o, NEW i \in {1, 2} PROVE applied'[<<x, i>>] = applied[<<x, i>>]
    BY <1>1, <1>3, <2>1, PairLegs
  <2> QED BY <2>1 DEF FilledVolume
<1> QED BY <1>3, <1>5, <1>6, <1>7

(* A trade that does not exceed what is left of a pending order fills it in  *)
(* part or to the end.                                                       *)
LEMMA AcceptOrders ==
    ASSUME LegInv, OrdersAgree, NEW o \in Orders, o \in pendingQ,
           NEW t \in LegsOf(o), t \in Legs, legQty[t] # 0, legQty[t] > 0 <=> Quantity[o] > 0,
           legQty[<<o, 2>>] = 0 => mStatus[<<o, 1>>] # "pending",
           ~Exceeds(o, t), Accept(o, t), dStatus[o] \in Accepted,
           UNCHANGED <<legQty, dStatus>>
    PROVE  OrdersAgree' /\ OrderStep
<1> DEFINE n == legQty[t]
           V == FilledVolume(o)
           Q == Quantity[o]
<1>1. /\ n \in Int /\ V \in Int /\ Q \in Int /\ Q # 0 /\ mStatus[o] = "pending" /\ V # Q /\ Within(o)
      /\ o \in Items /\ mStatus \in [Items -> Status] /\ pos \in [Accounts -> Int]
  BY VolumeType, ConstantsAssumption, ItemKinds
     DEF LegInv, LegFacts, Quantities, OrdersAgree, Agrees, ListInv, Inv, ControlTypeOK, MemTypeOK
<1>2. ~Full(o) /\ AbsVal(V + n) <= AbsVal(Q)
  <2>1. ~Full(o)
    BY <1>1 DEF Full, Within, AbsVal
  <2>2. AbsVal(V + n) \in Int /\ AbsVal(Q) \in Int
    BY <1>1 DEF AbsVal
  <2> QED BY <2>1, <2>2 DEF Exceeds
<1>3. /\ applied' = [applied EXCEPT ![t] = @ + 1]
      /\ pos' = [pos EXCEPT ![PgOf(o)] = @ + n]
      /\ IF V + n = Q
         THEN mStatus' = [mStatus EXCEPT ![o] = "filled"] /\ AddToOrderQueue({o})
         ELSE UNCHANGED <<mStatus, queueVars>>
  BY <1>2 DEF Accept
<1>4. /\ FilledVolume(o)' = V + n
      /\ \A x \in Orders : x # o => FilledVolume(x)' = FilledVolume(x)
  BY <1>3, AppliedVolume
<1> HIDE DEF V
<1>5. /\ \A x \in Items : x # o => mStatus'[x] = mStatus[x]
      /\ \A x \in Orders : x # o => (x \in pendingQ' <=> x \in pendingQ)
      /\ mStatus'[o] = IF V + n = Q THEN "filled" ELSE "pending"
      /\ o \in pendingQ' <=> V + n # Q
  BY <1>1, <1>3 DEF AddToOrderQueue, queueVars
<1>6. Fills(o, n)
  <2>1. \A p \in Playgrounds : pos'[p] = IF p = PgOf(o) THEN pos[p] + n ELSE pos[p]
    BY <1>1, <1>3 DEF Accounts
  <2> QED BY <1>1, <1>4, <1>5, <2>1, ItemKinds DEF Fills, OthersKept, V
<1>7. Agrees(o)'
  <2>1. Within(o)'
    BY <1>1, <1>2, <1>4 DEF Within, AbsVal, V
  <2>2. mStatus'[<<o, 1>>] = mStatus[<<o, 1>>]
    BY <1>5, PairLegs, ItemKinds
  <2> QED BY <1>1, <1>4, <1>5, <2>1, <2>2 DEF Agrees, Accepted, Ended
<1>8. ASSUME NEW x \in Orders, x # o PROVE Agrees(x)'
  <2>1. /\ mStatus'[x] = mStatus[x] /\ mStatus'[<<x, 1>>] = mStatus[<<x, 1>>]
        /\ FilledVolume(x)' = FilledVolume(x) /\ (x \in pendingQ' <=> x \in pendingQ)
    <3>1. x \in Items /\ <<x, 1>> \in Items /\ <<x, 1>> # o
      BY PairLegs, ItemKinds
    <3> QED BY <1>4, <1>5, <1>8, <3>1
  <2>2. Agrees(x)
    BY DEF OrdersAgree
  <2> QED BY <2>1, <2>2 DEF Agrees, Within
<1> QED BY <1>1, <1>6, <1>7, <1>8 DEF OrdersAgree, OrderStep

LEMMA ApplyTradeOrders ==
    ASSUME LegInv, OrdersAgree, NEW t \in Legs, ApplyTrade(t) PROVE OrdersAgree' /\ OrderStep
<1>1. /\ cur \in Orders /\ t \in LegsOf(cur) /\ dStatus[cur] \in Accepted
      /\ legQty[t] # 0 /\ (legQty[t] > 0 <=> Quantity[cur] > 0)
      /\ legQty[<<cur, 2>>] = 0 => mStatus[<<cur, 1>>] # "pending"
      /\ UNCHANGED <<dStatus, legQty>>
  <2>1. wpc = "fill" /\ t \in trades /\ UNCHANGED <<dStatus, legQty>>
    BY DEF ApplyTrade, dbVars, brokerVars
  <2> QED BY <2>1, AppliedTrade
<1>2. CASE cur \in pendingQ /\ ~Exceeds(cur, t) /\ Accept(cur, t)
  BY <1>1, <1>2, AcceptOrders
<1>3. CASE cur \in pendingQ /\ Refuse(cur)
  <2>1. /\ mStatus \in [Items -> Status] /\ cur \in Items /\ mStatus[cur] = "pending"
        /\ mStatus' = [mStatus EXCEPT ![cur] = "rejected"] /\ pendingQ' = pendingQ \ {cur}
        /\ UNCHANGED <<applied, pos>>
    BY <1>1, <1>3, ItemKinds DEF Refuse, AddToOrderQueue, LegInv, ListInv, Inv, ControlTypeOK, MemTypeOK,
                                 OrdersAgree, Agrees
  <2>2. /\ mStatus'[cur] = "rejected" /\ cur \notin pendingQ'
        /\ \A x \in Items : x # cur => mStatus'[x] = mStatus[x] /\ (x \in pendingQ' <=> x \in pendingQ)
    BY <2>1
  <2>3. \A k \in Legs : mStatus'[k] = mStatus[k]
    BY <1>1, <2>2, ItemKinds
  <2>4. mStatus'[<<cur, 1>>] = mStatus[<<cur, 1>>]
    BY <1>1, <2>3, PairLegs
  <2>5. OrdersAgree' /\ Turns(cur, {"new", "pending"}, {"rejected", "canceled"})
    BY <1>1, <2>1, <2>2, <2>3, <2>4, ClosedStep, ItemKinds
  <2> QED BY <1>1, <2>5 DEF OrderStep
<1>4. CASE UNCHANGED <<mStatus, queueVars, applied, pos>>
  BY <1>1, <1>4, QuietStep DEF queueVars, OrderStep
<1>5. cur \in pendingQ => Tradable(mStatus[cur])
  BY <1>1 DEF OrdersAgree, Agrees, Tradable
<1> QED BY <1>2, <1>3, <1>4, <1>5 DEF ApplyTrade

LEMMA SaveAppliedOrders ==
    ASSUME LegInv, OrdersAgree, SaveApplied PROVE OrdersAgree' /\ OrderStep
<1>1. wpc = "save" /\ trade \in Legs /\ mStatus[cur] # "absent"
  BY DEF SaveApplied, LegInv, ListInv, Inv, FillProvenance, WorkerHolds, ControlTypeOK, DbTypeOK
<1>2. cur \in Orders /\ cur \in Items /\ mStatus[cur] \in Accepted
  BY <1>1, AppliedTrade, ItemKinds
<1>3. /\ dStatus \in [Items -> Status]
      /\ UNCHANGED <<mStatus, pendingQ, applied, pos, legQty>>
      /\ \/ UNCHANGED dStatus
         \/ \E s \in Accepted : dStatus' = [dStatus EXCEPT ![cur] = s]
  BY <1>2 DEF SaveApplied, memVars, queueVars, brokerVars, LegInv, ListInv, Inv, ControlTypeOK, DbTypeOK,
              Accepted
<1>4. \A x \in Orders : dStatus'[x] = dStatus[x] \/ dStatus'[x] \in Accepted
  BY <1>2, <1>3, ItemKinds
<1>5. OrdersAgree' /\ Still
  BY <1>3, <1>4, QuietStep
<1> QED BY <1>5 DEF OrderStep

LEMMA QuietOrders ==
    ASSUME LegInv, OrdersAgree,
           UNCHANGED <<dStatus, mStatus, pendingQ, applied, legQty, pos>>
    PROVE  OrdersAgree' /\ OrderStep
BY QuietStep DEF OrderStep

LEMMA OrdersStep ==
    LegInv /\ OrdersAgree /\ SplitsFill /\ [Next]_vars => OrdersAgree' /\ OrderStep
<1> SUFFICES ASSUME LegInv, OrdersAgree, SplitsFill, [Next]_vars PROVE OrdersAgree' /\ OrderStep
  OBVIOUS
<1>1. ASSUME NEW o \in Orders, PlaceOrder(o) PROVE OrdersAgree' /\ OrderStep
  BY <1>1, PlaceOrderOrders
<1>2. ASSUME NEW c \in Callers, Placement(c) PROVE OrdersAgree' /\ OrderStep
  <2>1. CASE SendLeg(c)
    BY <2>1, QuietOrders DEF SendLeg, dbVars, memVars, queueVars
  <2> QED BY <1>2, <2>1, CommitPlacedOrders, CommitQueuedOrders DEF Placement
<1>3. CASE Drain
  BY <1>3, DrainOrders
<1>4. CASE Worker
  <2>1. CASE \/ StartPoll \/ FetchPending \/ FetchNew \/ FinishPoll \/ FinishOrder \/ FindPlayground
             \/ \E l \in Legs : PollLeg(l) \/ LookAtLeg(l)
             \/ \E o \in Orders : ReadTrades(o)
    BY <2>1, QuietOrders
       DEF StartPoll, FetchPending, FetchNew, FinishPoll, FinishOrder, PollLeg, FindPlayground,
           LookAtLeg, ReadTrades, dbVars, memVars, queueVars, brokerVars
  <2> QED BY <1>4, <2>1, CloseRowOrders, CloseRecordOrders, ApplyTradeOrders, SaveAppliedOrders, PlaceNewOrders
          DEF Worker
<1>5. CASE Faults
  BY <1>5, NoCrash, SendFailsOrders DEF Faults, LegInv, LegFacts
<1>6. CASE \/ \E l \in Legs : BrokerDecides(l) \/ BrokerFillsLate(l)
           \/ \E p \in Playgrounds : DeletePlayground(p)
  BY <1>6, QuietOrders
     DEF BrokerDecides, BrokerFillsLate, DeletePlayground, dbVars, memVars, queueVars, brokerVars
<1>7. CASE UNCHANGED vars
  BY <1>7, QuietOrders DEF vars, dbVars, memVars, queueVars, brokerVars
<1> QED BY <1>1, <1>2, <1>3, <1>4, <1>5, <1>6, <1>7 DEF Next

(* While nothing crashes, fails to be saved or is filled late, no step turns *)
(* a filled live order into anything else, if the legs of split orders fill. *)
THEOREM FilledIsFinalHolds ==
    ASSUME MaxCrashes = 0, MaxLateFills = 0, MaxDbFailures = 0
    PROVE  Spec /\ []SplitsFill => FilledIsFinal
<1> DEFINE Kept == \A o \in Orders : mStatus[o] = "filled" => mStatus'[o] = "filled"
<1>1. Init => LegInv /\ OrdersAgree
  BY InitLegInv, InitOrders
<1>2. LegInv /\ OrdersAgree /\ SplitsFill /\ [Next]_vars => (LegInv /\ OrdersAgree)'
  BY LegInvStep, OrdersStep
<1>3. LegInv /\ OrdersAgree /\ SplitsFill /\ [Next]_vars => [Kept]_vars
  <2>1. OrderStep => Kept
    BY DEF OrderStep, Still, Turns, Fills, OthersKept
  <2> QED BY <2>1, OrdersStep
<1> QED BY <1>1, <1>2, <1>3, PTL DEF Spec, FilledIsFinal

-----------------------------------------------------------------------------
(* The refinement: each step of an order is a step of the book. *)

LEMMA BookInit == Init => Book!Init
<1> SUFFICES ASSUME Init PROVE Book!Init
  OBVIOUS
<1>1. \A o \in Orders : mStatus[o] = "absent"
  BY ItemKinds DEF Init
<1>2. \A o \in Orders : FilledVolume(o) = 0
  <2>1. \A l \in Legs : applied[l] = 0 /\ legQty[l] = 0
    BY DEF Init
  <2>2. ASSUME NEW o \in Orders PROVE FilledVolume(o) = 0
    <3>1. /\ applied[<<o, 1>>] = 0 /\ legQty[<<o, 1>>] = 0
          /\ applied[<<o, 2>>] = 0 /\ legQty[<<o, 2>>] = 0
      BY <2>1, PairLegs
    <3> QED BY <3>1 DEF FilledVolume
  <2> QED BY <2>2
<1>3. \A p \in Playgrounds : pos[p] = 0
  BY DEF Init, Accounts
<1> QED BY <1>1, <1>2, <1>3 DEF Book!Init, BookStatus

LEMMA BookIdle ==
    /\ VolumesKept => UNCHANGED <<[o \in Orders |-> FilledVolume(o)], [p \in Playgrounds |-> pos[p]]>>
    /\ Still => UNCHANGED Book!vars
<1>1. ASSUME VolumesKept
      PROVE  UNCHANGED <<[o \in Orders |-> FilledVolume(o)], [p \in Playgrounds |-> pos[p]]>>
  BY <1>1 DEF VolumesKept
<1>2. Still => UNCHANGED [o \in Orders |-> BookStatus(mStatus[o])]
  BY DEF Still
<1> QED BY <1>1, <1>2 DEF Still, Book!vars

LEMMA BookMove ==
    ASSUME NEW o \in Orders, OthersKept(o), NEW from, NEW to,
           BookStatus(mStatus[o]) = from, BookStatus(mStatus'[o]) = to
    PROVE  Book!Moves(o, from, to)
BY DEF OthersKept, Book!Moves

LEMMA BookWork ==
    ASSUME LegInv, OrdersAgree, OnePending,
           NEW o \in Orders, Turns(o, {"absent", "new"}, {"pending"}),
           NEW c \in Callers, ppc[c] = "commit", pord[c] = o
    PROVE  Book!Work(o)
<1>1. \A x \in Orders : x # o /\ PgOf(x) = PgOf(o) => BookStatus(mStatus[x]) # "working"
  <2>1. SUFFICES ASSUME NEW x \in Orders, x # o, PgOf(x) = PgOf(o)
                 PROVE  BookStatus(mStatus[x]) # "working"
    OBVIOUS
  <2>2. ~OtherPending(o)
    BY DEF OnePending
  <2>3. mStatus[x] # "pending"
    BY <2>1, <2>2 DEF OtherPending, OrdersAgree, Agrees
  <2>4. mStatus[x] \in Status
    BY ItemKinds DEF LegInv, ListInv, Inv, ControlTypeOK, MemTypeOK
  <2> QED BY <2>3, <2>4 DEF BookStatus, Status, Ended
<1>2. Book!Moves(o, "none", "working") \/ Book!Moves(o, "waiting", "working")
  BY BookMove DEF Turns, BookStatus
<1>3. Book!Alone(o)
  BY <1>1 DEF Book!Alone, PgOf
<1>4. VolumesKept
  BY DEF Turns
<1> QED BY <1>2, <1>3, <1>4, BookIdle DEF Book!Work

LEMMA BookQueue ==
    ASSUME NEW o \in Orders, Turns(o, {"absent"}, {"new"}) PROVE Book!Queue(o)
<1>1. Book!Moves(o, "none", "waiting")
  BY BookMove DEF Turns, BookStatus
<1> QED BY <1>1, BookIdle DEF Turns, Book!Queue

LEMMA BookClose ==
    ASSUME NEW o \in Orders, Turns(o, {"new", "pending"}, {"rejected", "canceled"})
    PROVE  Book!Close(o)
<1>1. /\ BookStatus(mStatus[o]) \in {"waiting", "working"}
      /\ BookStatus(mStatus'[o]) \in {"rejected", "canceled"}
  BY DEF Turns, BookStatus
<1>2. Book!Moves(o, BookStatus(mStatus[o]), BookStatus(mStatus'[o]))
  BY BookMove DEF Turns
<1> QED BY <1>1, <1>2, BookIdle DEF Turns, Book!Close

LEMMA BookFill ==
    ASSUME LegInv, NEW o \in Orders, Within(o), Within(o)', NEW n \in Int, Fills(o, n)
    PROVE  Book!Fill(o)
<1>1. FilledVolume(o) \in Int /\ Quantity[o] \in Int
  BY VolumeType, ConstantsAssumption DEF LegInv, LegFacts, Quantities, ListInv, Inv
<1>2. /\ n # 0 /\ (n > 0 <=> Quantity[o] > 0) /\ FilledVolume(o)' = FilledVolume(o) + n
      /\ mStatus[o] = "pending" /\ OthersKept(o)
      /\ \A x \in Orders : x # o => FilledVolume(x)' = FilledVolume(x)
      /\ \A p \in Playgrounds : pos'[p] = IF p = PgOf(o) THEN pos[p] + n ELSE pos[p]
      /\ mStatus'[o] = IF FilledVolume(o)' = Quantity[o] THEN "filled" ELSE "pending"
  BY DEF Fills
<1> DEFINE V == FilledVolume(o)
           left == Quantity[o] - V
<1>3. Book!Left(o) = left
  BY DEF Book!Left
<1>4. n \in Book!Parts(o)
  <2>1. V + n \in (IF Quantity[o] > 0 THEN 0..Quantity[o] ELSE Quantity[o]..0)
    BY <1>2 DEF Within
  <2> QED BY <1>1, <1>2, <1>3, <2>1 DEF Book!Parts
<1>5. [x \in Orders |-> FilledVolume(x)]' = [[x \in Orders |-> FilledVolume(x)] EXCEPT ![o] = @ + n]
  BY <1>2
<1>6. [p \in Playgrounds |-> pos[p]]'
        = [[p \in Playgrounds |-> pos[p]] EXCEPT ![PlaygroundOf[o]] = @ + n]
  BY <1>2 DEF PgOf
<1>7. [x \in Orders |-> BookStatus(mStatus[x])]'
        = IF n = Book!Left(o) THEN [[x \in Orders |-> BookStatus(mStatus[x])] EXCEPT ![o] = "filled"]
                              ELSE [x \in Orders |-> BookStatus(mStatus[x])]
  <2>1. n = Book!Left(o) <=> FilledVolume(o)' = Quantity[o]
    BY <1>1, <1>2, <1>3
  <2>2. \A x \in Orders : x # o => BookStatus(mStatus'[x]) = BookStatus(mStatus[x])
    BY <1>2 DEF OthersKept
  <2>3. BookStatus(mStatus'[o])
          = IF n = Book!Left(o) THEN "filled" ELSE BookStatus(mStatus[o])
    BY <1>2, <2>1 DEF BookStatus
  <2> QED BY <2>2, <2>3
<1>8. [x \in Orders |-> BookStatus(mStatus[x])][o] = "working"
  BY <1>2 DEF BookStatus
<1> QED BY <1>4, <1>5, <1>6, <1>7, <1>8 DEF Book!Fill

LEMMA BookStep ==
    ASSUME LegInv, OrdersAgree, OrdersAgree', OnePending, OrderStep
    PROVE  [Book!Next]_(Book!vars)
<1>1. CASE Still
  BY <1>1, BookIdle
<1>2. ASSUME NEW o \in Orders, Turns(o, {"absent"}, {"new"}) PROVE Book!Next
  BY <1>2, BookQueue DEF Book!Next
<1>3. ASSUME NEW o \in Orders, Turns(o, {"absent", "new"}, {"pending"}),
             NEW c \in Callers, ppc[c] = "commit", pord[c] = o
      PROVE  Book!Next
  BY <1>3, BookWork DEF Book!Next
<1>4. ASSUME NEW o \in Orders, Turns(o, {"new", "pending"}, {"rejected", "canceled"}) PROVE Book!Next
  BY <1>4, BookClose DEF Book!Next
<1>5. ASSUME NEW o \in Orders, NEW n \in Int, Fills(o, n) PROVE Book!Next
  BY <1>5, BookFill DEF Book!Next, OrdersAgree, Agrees
<1> QED BY <1>1, <1>2, <1>3, <1>4, <1>5 DEF OrderStep

(* While nothing crashes, fails to be saved or is filled late, client and    *)
(* worker do not place orders of one playground at the same time, and the    *)
(* legs of split orders fill, the live playground keeps the order book it    *)
(* promises: orders worked one at a time, each part of a fill entering its   *)
(* order and the position of its playground together, never beyond the       *)
(* quantity.                                                                 *)
THEOREM KeepsTheBookHolds ==
    ASSUME MaxCrashes = 0, MaxLateFills = 0, MaxDbFailures = 0
    PROVE  Spec /\ []SplitsFill /\ []Apart => KeepsTheBook
<1> DEFINE IInv == LegInv /\ OrdersAgree /\ OnePending
<1>1. Init => IInv /\ Book!Init
  BY InitLegInv, InitOrders, InitOnePending, BookInit
<1>2. IInv /\ SplitsFill /\ Apart /\ [Next]_vars => IInv'
  BY LegInvStep, OrdersStep, OnePendingStep
<1>3. IInv /\ SplitsFill /\ Apart /\ [Next]_vars => [Book!Next]_(Book!vars)
  BY OrdersStep, BookStep
<1> QED BY <1>1, <1>2, <1>3, PTL DEF Spec, KeepsTheBook, Book!Spec

-----------------------------------------------------------------------------
(* Orders that are not split *)

LEMMA OneLegFills ==
    (\A o \in Orders : legQty[<<o, 2>>] = 0) => SplitsFill
BY DEF SplitsFill

(* Orders of one side are never split, so that nothing is asked of them; the *)
(* order book still needs placements apart.                                  *)
THEOREM OneSidedBook ==
    ASSUME OneSided, MaxCrashes = 0, MaxLateFills = 0, MaxDbFailures = 0
    PROVE  Spec => FilledIsFinal /\ ([]Apart => KeepsTheBook)
<1>1. OneLeg => SplitsFill
  BY OneLegFills DEF OneLeg
<1> QED BY <1>1, OneSideIsNeverSplit, FilledIsFinalHolds, KeepsTheBookHolds, PTL
=============================================================================
