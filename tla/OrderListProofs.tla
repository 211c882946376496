-------------------------- MODULE OrderListProofs --------------------------
(* An order is in one list of its account at most, for any playgrounds,     *)
(* orders, crashes, late fills and refused legs, as long as the database    *)
(* takes what it is given: after a failed transaction memory and database   *)
(* disagree on an order, and the worker may place one that is pending.      *)
EXTENDS LiveTradingProofs

(* The lists and the rows they are loaded from and saved to: a placement or  *)
(* the worker takes an order up because of its row, and then finds it in no  *)
(* list but the one its row names.                                           *)
Lists ==
    /\ OneQueue
    /\ newQ \subseteq Orders
    /\ \A l \in Legs : {dStatus[l], mStatus[l]} \subseteq Accepted \cup {"absent"}
    /\ \A x \in Items : dStatus[x] \in {"absent", "blank"} => x \notin pendingQ \cup newQ
    /\ \A x \in Items : dStatus[x] \in {"absent", "new"} => x \notin pendingQ \cup doneQ
    /\ ppc["api"] # "idle" => pord["api"] \notin doneQ

ListInv == Inv /\ Lists /\ budget["db"] = 0

-----------------------------------------------------------------------------
LEMMA InitLists == MaxDbFailures = 0 /\ Init => Lists /\ budget["db"] = 0
BY DEF Init, Lists, OneQueue, Accepted, Items

LEMMA ItemKinds ==
    /\ \A o \in Orders : o \in Items /\ o \notin Legs
    /\ \A l \in Legs : l \in Items /\ l \notin Orders /\ l[1] \in Orders
BY LegOrder, ConstantsAssumption DEF Items

(* No fault spends what there is none of. *)
LEMMA NoDbFailure ==
    ASSUME ControlTypeOK, budget["db"] = 0
    PROVE  /\ ~Spend("db") /\ \A k : ~SpendBoth(k, "db")
           /\ \A k \in {"crash", "send", "late"} : Spend(k) => budget'["db"] = 0
<1>1. ~Spend("db") /\ \A k : ~SpendBoth(k, "db")
  BY DEF Spend, SpendBoth
<1>2. ASSUME NEW k \in {"crash", "send", "late"}, Spend(k) PROVE budget'["db"] = 0
  <2>1. budget \in [{"crash", "db", "send", "late"} -> Nat] /\ k # "db"
    BY DEF ControlTypeOK, OtherTypeOK
  <2>2. budget' = [budget EXCEPT ![k] = budget[k] - 1]
    BY <1>2 DEF Spend
  <2> QED BY <2>1, <2>2
<1> QED BY <1>1, <1>2

(* A step that moves no order and accepts none. *)
LEMMA ListsKept ==
    ASSUME Lists, UNCHANGED <<dStatus, mStatus, queueVars>>,
           ppc'["api"] # "idle" => ppc["api"] # "idle" /\ pord'["api"] = pord["api"]
    PROVE  Lists'
BY DEF Lists, OneQueue, queueVars

(* Orders that end leave the two lists they wait in; those that end and are  *)
(* in no list stay out.                                                      *)
LEMMA ListsEnd ==
    ASSUME ListInv, NEW S \in SUBSET Items, AddToOrderQueue(S),
           mStatus' \in [Items -> Status],
           \A x \in Items : mStatus'[x] = mStatus[x] \/ (x \in S /\ mStatus'[x] \in Ended),
           \A x \in S : x \in pendingQ \cup newQ => mStatus'[x] \in Ended,
           \A x \in Items : dStatus'[x] = dStatus[x] \/ (x \in S /\ dStatus'[x] \in Accepted),
           \A x \in S : dStatus'[x] \in {"absent", "new"} => x \notin newQ,
           ppc'["api"] # "idle" =>
               ppc["api"] # "idle" /\ pord'["api"] = pord["api"]
    PROVE  Lists'
<1>1. /\ pendingQ' = pendingQ \ S /\ newQ' = newQ \ (S \ pendingQ)
      /\ doneQ' = doneQ \cup (S \cap (pendingQ \cup newQ))
      /\ Lists /\ OneQueue /\ pendingQ \subseteq Items /\ newQ \subseteq Items /\ doneQ \subseteq Items
      /\ pendingQ \cap newQ = {}
  BY DEF ListInv, Inv, AddToOrderQueue, Lists, OneQueue, ControlTypeOK, MemTypeOK
<1>2. newQ' = newQ \ S
  BY <1>1
<1>3. OneQueue'
  BY <1>1, <1>2 DEF OneQueue, Ended
<1>4. newQ' \subseteq Orders /\ \A l \in Legs : {dStatus'[l], mStatus'[l]} \subseteq Accepted \cup {"absent"}
  BY <1>1, ItemKinds DEF Lists, Accepted
<1>5. \A x \in Items : dStatus'[x] \in {"absent", "blank"} => x \notin pendingQ' \cup newQ'
  BY <1>1, <1>2 DEF Lists, Accepted, Ended
<1>6. \A x \in Items : dStatus'[x] \in {"absent", "new"} => x \notin pendingQ' \cup doneQ'
  BY <1>1 DEF Lists, Accepted, Ended
<1>7. ppc'["api"] # "idle" => pord'["api"] \notin doneQ'
  <2>1. SUFFICES ASSUME ppc'["api"] # "idle" PROVE pord["api"] \notin doneQ'
    OBVIOUS
  <2>2. pord["api"] \in Items /\ dStatus[pord["api"]] = "blank" /\ pord["api"] \notin doneQ
    BY <1>1, <2>1, ItemKinds DEF ListInv, Inv, FillProvenance, PlacedOnce, Lists, Callers
  <2> QED BY <1>1, <2>2 DEF Lists
<1> QED BY <1>3, <1>4, <1>5, <1>6, <1>7 DEF Lists

-----------------------------------------------------------------------------
(* Placing an order. *)

LEMMA PlaceOrderLists ==
    ASSUME ListInv, NEW o \in Orders, PlaceOrder(o) PROVE Lists' /\ budget'["db"] = 0
<1>1. /\ Lists /\ budget["db"] = 0 /\ o \in Items /\ dStatus \in [Items -> Status]
      /\ ppc["api"] = "idle" /\ dStatus[o] = "absent"
      /\ dStatus' = [dStatus EXCEPT ![o] = "blank"]
      /\ UNCHANGED <<mStatus, pendingQ, newQ, doneQ, budget>>
  BY ItemKinds DEF ListInv, Inv, ControlTypeOK, DbTypeOK, PlaceOrder, MuFree, memVars, queueVars
<1>2. ppc'["api"] # "idle" => pord'["api"] = o
  BY <1>1 DEF PlaceOrder, StartPlacement, placeVars, ListInv, Inv, ControlTypeOK, PlaceTypeOK, Callers
<1>3. \A l \in Legs : dStatus'[l] = dStatus[l]
  BY <1>1, ItemKinds
<1> QED BY <1>1, <1>2, <1>3 DEF Lists, OneQueue

LEMMA SendLegLists ==
    ASSUME ListInv, NEW c \in Callers, SendLeg(c) PROVE Lists' /\ budget'["db"] = 0
<1>1. /\ Lists /\ budget["db"] = 0 /\ ppc[c] = "send"
      /\ UNCHANGED <<dStatus, mStatus, queueVars, pord, budget>>
      /\ c = "worker" => ppc'["api"] = ppc["api"]
  BY DEF ListInv, SendLeg, dbVars, memVars, Inv, ControlTypeOK, PlaceTypeOK, Callers
<1> QED BY <1>1, ListsKept DEF Callers

(* What is being placed is in no list an accepted order is in. *)
LEMMA PlacedIsUnlisted ==
    ASSUME ListInv, NEW c \in Callers, ppc[c] # "idle"
    PROVE  /\ pord[c] \in Orders /\ dStatus[pord[c]] \in {"blank", "new"}
           /\ dStatus[pord[c]] = "blank" <=> c = "api"
           /\ pord[c] \notin pendingQ \cup doneQ
           /\ \A l \in LegsOf(pord[c]) : l \in Legs /\ dStatus[l] = "absent"
<1>1. ControlTypeOK /\ FillProvenance /\ PlacedOnce /\ Lists
  BY DEF ListInv, Inv, FillProvenance
<1>2. pord[c] \in Orders /\ dStatus[pord[c]] = (IF c = "api" THEN "blank" ELSE "new")
  BY <1>1 DEF PlacedOnce, Callers
<1>3. \A l \in LegsOf(pord[c]) : l \in Legs /\ dStatus[l] = "absent"
  BY <1>1, <1>2, LegsOfType, NotAccepted DEF Stored, Accepted, Ended
<1> QED BY <1>1, <1>2, <1>3, ItemKinds DEF Lists, Callers

LEMMA CommitPlacedLists ==
    ASSUME ListInv, NEW c \in Callers, CommitPlaced(c) PROVE Lists' /\ budget'["db"] = 0
<1> DEFINE o == pord[c]
           S == {o} \cup {l \in LegsOf(o) : legQty[l] # 0}
<1>1. /\ Lists /\ OneQueue /\ budget["db"] = 0 /\ ~Spend("db") /\ ppc[c] # "idle"
      /\ dStatus \in [Items -> Status] /\ mStatus \in [Items -> Status]
      /\ pendingQ \subseteq Items /\ newQ \subseteq Items /\ doneQ \subseteq Items
  BY NoDbFailure DEF ListInv, Inv, ControlTypeOK, DbTypeOK, MemTypeOK, CommitPlaced, Lists
<1>2. o \in Orders /\ S \subseteq Items /\ S \cap doneQ = {} /\ S \cap newQ \subseteq {o}
  BY <1>1, PlacedIsUnlisted, ItemKinds DEF Lists
<1>3. /\ newQ' = newQ \ {o} /\ pendingQ' = pendingQ \cup S /\ doneQ' = doneQ
      /\ dStatus' = Set(dStatus, S, "pending") /\ mStatus' = Set(mStatus, S, "pending")
      /\ UNCHANGED budget
  BY <1>1 DEF CommitPlaced, CommitSaved
<1>4. \A x \in Items : /\ dStatus'[x] = IF x \in S THEN "pending" ELSE dStatus[x]
                       /\ mStatus'[x] = IF x \in S THEN "pending" ELSE mStatus[x]
  BY <1>1, <1>3 DEF Set
<1> HIDE DEF S
<1>5. OneQueue'
  BY <1>1, <1>2, <1>3, <1>4 DEF OneQueue
<1>6. ppc'["api"] # "idle" => pord'["api"] \notin doneQ'
  <2>1. c = "worker" => ppc'["api"] = ppc["api"] /\ pord'["api"] = pord["api"]
    BY DEF CommitPlaced, Idle, ListInv, Inv, ControlTypeOK, PlaceTypeOK, Callers
  <2>2. c = "api" => ppc'["api"] = "idle"
    BY DEF CommitPlaced, Idle, ListInv, Inv, ControlTypeOK, PlaceTypeOK, Callers
  <2> QED BY <1>1, <1>3, <2>1, <2>2 DEF Lists, Callers
<1>7. /\ newQ' \subseteq Orders
      /\ \A l \in Legs : {dStatus'[l], mStatus'[l]} \subseteq Accepted \cup {"absent"}
  BY <1>1, <1>3, <1>4, ItemKinds DEF Lists, Accepted
<1>8. \A x \in Items :
         /\ dStatus'[x] \in {"absent", "blank"} => x \notin pendingQ' \cup newQ'
         /\ dStatus'[x] \in {"absent", "new"} => x \notin pendingQ' \cup doneQ'
  BY <1>1, <1>3, <1>4 DEF Lists
<1> QED BY <1>1, <1>3, <1>5, <1>6, <1>7, <1>8 DEF Lists

LEMMA CommitQueuedLists ==
    ASSUME ListInv, NEW c \in Callers, CommitQueued(c) PROVE Lists' /\ budget'["db"] = 0
<1> DEFINE o == pord[c]
<1>1. /\ Lists /\ OneQueue /\ budget["db"] = 0 /\ ~Spend("db") /\ ppc[c] # "idle"
      /\ dStatus \in [Items -> Status] /\ mStatus \in [Items -> Status]
      /\ pendingQ \subseteq Items /\ newQ \subseteq Items /\ doneQ \subseteq Items
  BY NoDbFailure DEF ListInv, Inv, ControlTypeOK, DbTypeOK, MemTypeOK, CommitQueued, Lists
<1>2. o \in Orders /\ o \in Items /\ o \notin pendingQ \cup doneQ
  BY <1>1, PlacedIsUnlisted, ItemKinds
<1>3. /\ newQ' = newQ \cup {o} /\ pendingQ' = pendingQ /\ doneQ' = doneQ
      /\ mStatus' = [mStatus EXCEPT ![o] = "new"]
      /\ UNCHANGED budget
  BY <1>1, <1>2 DEF CommitQueued, CommitSaved, OneQueue
<1>4. dStatus' = Set(dStatus, {o}, "new")
  BY <1>1, <1>2, <1>3 DEF CommitQueued, CommitSaved
<1>5. \A x \in Items : /\ dStatus'[x] = IF x = o THEN "new" ELSE dStatus[x]
                       /\ mStatus'[x] = IF x = o THEN "new" ELSE mStatus[x]
  BY <1>1, <1>3, <1>4 DEF Set
<1>6. OneQueue'
  BY <1>1, <1>2, <1>3, <1>5 DEF OneQueue
<1>7. ppc'["api"] # "idle" => pord'["api"] \notin doneQ'
  <2>1. c = "worker" => ppc'["api"] = ppc["api"] /\ pord'["api"] = pord["api"]
    BY DEF CommitQueued, Idle, ListInv, Inv, ControlTypeOK, PlaceTypeOK, Callers
  <2>2. c = "api" => ppc'["api"] = "idle"
    BY DEF CommitQueued, Idle, ListInv, Inv, ControlTypeOK, PlaceTypeOK, Callers
  <2> QED BY <1>1, <1>3, <2>1, <2>2 DEF Lists, Callers
<1>8. /\ newQ' \subseteq Orders
      /\ \A l \in Legs : {dStatus'[l], mStatus'[l]} \subseteq Accepted \cup {"absent"}
  BY <1>1, <1>2, <1>3, <1>5, ItemKinds DEF Lists
<1>9. \A x \in Items :
         /\ dStatus'[x] \in {"absent", "blank"} => x \notin pendingQ' \cup newQ'
         /\ dStatus'[x] \in {"absent", "new"} => x \notin pendingQ' \cup doneQ'
  BY <1>1, <1>2, <1>3, <1>5 DEF Lists
<1> QED BY <1>1, <1>3, <1>6, <1>7, <1>8, <1>9 DEF Lists

LEMMA SendFailsLists ==
    ASSUME ListInv, NEW c \in Callers, SendFails(c) PROVE Lists' /\ budget'["db"] = 0
<1> DEFINE o == pord[c]
<1>1. /\ Lists /\ ControlTypeOK /\ ppc[c] # "idle" /\ Spend("send")
      /\ ~SpendBoth("send", "db")
      /\ ppc' = [ppc EXCEPT ![c] = "idle"] /\ pord' = [pord EXCEPT ![c] = None]
  BY NoDbFailure DEF ListInv, Inv, ControlTypeOK, PlaceTypeOK, SendFails, Idle
<1>2. budget'["db"] = 0
  BY <1>1, NoDbFailure DEF ListInv
<1>3. ppc'["api"] # "idle" => ppc["api"] # "idle" /\ pord'["api"] = pord["api"]
  BY <1>1 DEF ControlTypeOK, PlaceTypeOK, Callers
<1>4. CASE UNCHANGED <<dbVars, memVars>>
  BY <1>1, <1>2, <1>3, <1>4, ListsKept DEF dbVars, memVars
<1>5. CASE RejectNew(o) /\ dStatus' = [dStatus EXCEPT ![o] = "rejected"]
  <2>1. /\ o \in Items /\ dStatus \in [Items -> Status] /\ mStatus \in [Items -> Status]
        /\ AddToOrderQueue({o}) /\ mStatus' = [mStatus EXCEPT ![o] = "rejected"]
    BY <1>1, <1>5, PlacedIsUnlisted, ItemKinds DEF RejectNew, ControlTypeOK, DbTypeOK, MemTypeOK
  <2>2. mStatus' \in [Items -> Status]
    BY <2>1 DEF Status, Ended
  <2>3. Lists'
    BY <1>3, <1>5, <2>1, <2>2, ListsEnd DEF Ended, Accepted
  <2> QED BY <1>2, <2>3
<1> QED BY <1>1, <1>4, <1>5 DEF SendFails

-----------------------------------------------------------------------------
(* The drain *)

LEMMA DrainedLeg ==
    ASSUME ListInv, events # <<>>, NEW l, l = Head(events).leg
    PROVE  /\ l \in Legs /\ l[1] \in Orders /\ {l, l[1]} \subseteq Items /\ l \notin newQ
           /\ dStatus[l] \in Accepted /\ dStatus[l[1]] \in Accepted
           /\ mStatus[l[1]] \in Accepted \cup {"absent"}
           /\ dStatus \in [Items -> Status] /\ mStatus \in [Items -> Status]
<1>1. ControlTypeOK /\ OnlyStoredLegsMove /\ LegsComeAfterOrders /\ Lists
  BY DEF ListInv, Inv, FillProvenance
<1>2. l \in Legs /\ Stored(l)
  BY <1>1, Dequeued
<1> QED BY <1>1, <1>2, ItemKinds
        DEF LegsComeAfterOrders, Lists, Stored, ControlTypeOK, DbTypeOK, MemTypeOK

(* The fill of a leg, which is in no other list than its own. *)
LEMMA CommitFillLists ==
    ASSUME ListInv, NEW l \in Legs, l \notin newQ, dStatus[l] \in Accepted, CommitFill(l),
           UNCHANGED <<dStatus, placeVars, budget>>
    PROVE  Lists' /\ budget'["db"] = 0
<1>1. /\ l \in Items /\ mStatus \in [Items -> Status] /\ Lists /\ budget["db"] = 0
      /\ mStatus' = [mStatus EXCEPT ![l] = "filled"] /\ AddToOrderQueue({l})
  BY ItemKinds DEF ListInv, Inv, ControlTypeOK, MemTypeOK, CommitFill
<1>2. mStatus' \in [Items -> Status]
  BY <1>1 DEF Status, Ended
<1>3. Lists'
  BY <1>1, <1>2, ListsEnd DEF Ended, placeVars
<1> QED BY <1>1, <1>3

LEMMA DrainFillLists ==
    ASSUME ListInv, DrainFill PROVE Lists' /\ budget'["db"] = 0
<1>1. /\ Head(events).leg \in Legs /\ Head(events).leg \notin newQ
      /\ dStatus[Head(events).leg] \in Accepted
  BY DrainedLeg DEF DrainFill
<1>2. /\ UNCHANGED <<dStatus, placeVars, budget>>
      /\ CommitFill(Head(events).leg) \/ UNCHANGED <<mStatus, queueVars>>
  BY DEF DrainFill, dbVars
<1>3. CASE UNCHANGED <<mStatus, queueVars>>
  BY <1>2, <1>3, ListsKept DEF ListInv, placeVars
<1> QED BY <1>1, <1>2, <1>3, CommitFillLists

(* The leg whose fill is being worked on, and its order. *)
LEMMA WorkedLeg ==
    ASSUME ListInv, dpc # "idle"
    PROVE  /\ dleg \in Legs /\ dleg[1] \in Orders /\ {dleg, dleg[1]} \subseteq Items
           /\ dleg \notin newQ /\ dleg[1] \notin newQ
           /\ dStatus[dleg] \in Accepted /\ dStatus[dleg[1]] \in Accepted
<1>1. OnlyStoredLegsMove /\ LegsComeAfterOrders /\ Lists
  BY DEF ListInv, Inv, FillProvenance
<1>2. dleg \in Legs /\ Stored(dleg)
  BY <1>1 DEF OnlyStoredLegsMove
<1>3. mStatus[dleg[1]] # "new"
  BY <1>1, <1>2 DEF LegsComeAfterOrders, Accepted, Ended
<1> QED BY <1>1, <1>2, <1>3, ItemKinds DEF LegsComeAfterOrders, Lists, OneQueue, Stored

LEMMA FillAfterResetLists ==
    ASSUME ListInv, FillAfterReset PROVE Lists' /\ budget'["db"] = 0
<1>1. dleg \in Legs /\ dleg \notin newQ /\ dStatus[dleg] \in Accepted
  BY WorkedLeg DEF FillAfterReset
<1>2. CommitFill(dleg) /\ UNCHANGED <<dStatus, placeVars, budget>>
  BY DEF FillAfterReset, dbVars
<1> QED BY <1>1, <1>2, CommitFillLists

LEMMA ResetRecordsLists ==
    ASSUME ListInv, ResetRecords PROVE Lists' /\ budget'["db"] = 0
<1> DEFINE both == {dleg, dleg[1]}
<1>1. /\ both \subseteq Items /\ both \cap newQ = {} /\ both \subseteq Items
      /\ \A x \in both : dStatus[x] \in Accepted
  BY WorkedLeg DEF ResetRecords
<1>2. /\ Lists /\ OneQueue /\ mStatus \in [Items -> Status]
      /\ pendingQ \subseteq Items /\ newQ \subseteq Items /\ doneQ \subseteq Items
  BY DEF ListInv, Inv, ControlTypeOK, MemTypeOK, Lists
<1>3. /\ pendingQ' = pendingQ \cup both /\ doneQ' = doneQ \ both
      /\ mStatus' = Set(mStatus, both, "pending")
      /\ UNCHANGED <<dStatus, newQ, placeVars, budget>>
  BY DEF ResetRecords, dbVars
<1> HIDE DEF both
<1>4. \A x \in Items : mStatus'[x] = IF x \in both THEN "pending" ELSE mStatus[x]
  BY <1>2, <1>3 DEF Set
<1>5. OneQueue'
  BY <1>1, <1>2, <1>3, <1>4 DEF OneQueue
<1>6. \A l \in Legs : {dStatus'[l], mStatus'[l]} \subseteq Accepted \cup {"absent"}
  BY <1>2, <1>3, <1>4, ItemKinds DEF Lists, Accepted
<1>7. \A x \in Items :
         /\ dStatus'[x] \in {"absent", "blank"} => x \notin pendingQ' \cup newQ'
         /\ dStatus'[x] \in {"absent", "new"} => x \notin pendingQ' \cup doneQ'
  BY <1>1, <1>2, <1>3 DEF Lists, Accepted, Ended
<1> QED BY <1>2, <1>3, <1>5, <1>6, <1>7 DEF Lists, ListInv, placeVars

LEMMA DrainSkipLists ==
    ASSUME ListInv, DrainSkip PROVE Lists' /\ budget'["db"] = 0
BY ListsKept DEF ListInv, DrainSkip, dbVars, memVars, placeVars

LEMMA DrainCloseLists ==
    ASSUME ListInv, DrainClose PROVE Lists' /\ budget'["db"] = 0
<1> DEFINE l == Head(events).leg
           o == l[1]
           kind == Head(events).kind
<1>1. /\ l \in Legs /\ o \in Orders /\ {l, o} \subseteq Items /\ l \notin newQ
      /\ dStatus[l] \in Accepted /\ dStatus[o] \in Accepted
      /\ mStatus[o] \in Accepted \cup {"absent"} /\ l # o
      /\ dStatus \in [Items -> Status] /\ mStatus \in [Items -> Status]
  BY DrainedLeg, ItemKinds DEF DrainClose
<1>2. Lists /\ budget'["db"] = 0 /\ UNCHANGED placeVars /\ kind \in Ended
  BY NoDbFailure DEF DrainClose, ListInv, Inv, Ended
<1>3. l \in linked => mStatus[o] # "absent"
  BY DEF ListInv, Inv, FillProvenance, OnlyStoredLegsMove
<1>4. \/ CloseRecords(l, kind, {l, o}) /\ CloseRows(l)
      \/ UNCHANGED <<dStatus, mStatus, queueVars>>
  BY NoDbFailure DEF DrainClose, ListInv, Inv
<1> HIDE DEF l, o, kind
<1>5. CASE CloseRecords(l, kind, {l, o}) /\ CloseRows(l)
  <2>1. /\ AddToOrderQueue({l, o})
        /\ \A x \in Items : mStatus'[x] = mStatus[x] \/ (x \in {l, o} /\ mStatus'[x] = kind)
        /\ mStatus'[l] = kind /\ (o \in pendingQ \cup newQ => mStatus'[o] = kind)
        /\ mStatus' \in [Items -> Status]
    BY <1>1, <1>2, <1>5 DEF CloseRecords, Set, Status, o
  <2>2. \A x \in Items : dStatus'[x] = dStatus[x] \/ (x = o /\ dStatus'[x] \in Accepted)
    BY <1>1, <1>3, <1>5 DEF CloseRows, o
  <2>3. \A x \in {l, o} : dStatus'[x] \in {"absent", "new"} => x \notin newQ
    BY <1>1, <2>2 DEF Accepted, Ended
  <2>4. Lists'
    BY <1>1, <1>2, <2>1, <2>2, <2>3, ListsEnd DEF placeVars
  <2> QED BY <1>2, <2>4
<1>6. CASE UNCHANGED <<dStatus, mStatus, queueVars>>
  BY <1>2, <1>6, ListsKept DEF placeVars
<1> QED BY <1>4, <1>5, <1>6

(* A row rewritten with an accepted status moves nothing. *)
LEMMA RowRewritten ==
    ASSUME ListInv, NEW x \in Items, NEW s \in Accepted, dStatus' = [dStatus EXCEPT ![x] = s],
           UNCHANGED <<mStatus, queueVars, placeVars>>
    PROVE  Lists'
<1>1. /\ Lists /\ UNCHANGED <<pendingQ, newQ, doneQ, mStatus, ppc, pord>>
      /\ \A y \in Items : dStatus'[y] = IF y = x THEN s ELSE dStatus[y]
  BY DEF ListInv, Inv, ControlTypeOK, DbTypeOK, queueVars, placeVars
<1>2. \A l \in Legs : {dStatus'[l], mStatus'[l]} \subseteq Accepted \cup {"absent"}
  BY <1>1, ItemKinds DEF Lists
<1>3. s \notin {"absent", "blank", "new"}
  BY DEF Accepted, Ended
<1> QED BY <1>1, <1>2, <1>3 DEF Lists, OneQueue

LEMMA DrainSaveLists ==
    ASSUME ListInv, DrainSave PROVE Lists' /\ budget'["db"] = 0
<1>1. /\ ~Spend("db") /\ budget["db"] = 0
      /\ dleg \in Legs /\ mStatus[dleg] # "absent" /\ Lists
  BY NoDbFailure DEF ListInv, Inv, FillProvenance, OnlyStoredLegsMove, DrainSave
<1>2. dleg \in Items /\ mStatus[dleg] \in Accepted
  BY <1>1, ItemKinds DEF Lists
<1>3. /\ dStatus' = [dStatus EXCEPT ![dleg] = mStatus[dleg]] /\ UNCHANGED budget
      /\ UNCHANGED <<mStatus, queueVars, placeVars>>
  BY <1>1 DEF DrainSave
<1> QED BY <1>1, <1>2, <1>3, RowRewritten

LEMMA ResetRowLists ==
    ASSUME ListInv, ResetRow PROVE Lists' /\ budget'["db"] = 0
<1>1. ~Spend("db") /\ budget["db"] = 0 /\ {dleg, dleg[1]} \subseteq Items /\ "pending" \in Accepted
  BY NoDbFailure, WorkedLeg DEF ListInv, Inv, ResetRow, Accepted
<1>2. PICK x \in {dleg, dleg[1]} : dStatus' = [dStatus EXCEPT ![x] = "pending"]
  BY <1>1 DEF ResetRow
<1>3. UNCHANGED <<mStatus, queueVars, placeVars>> /\ UNCHANGED budget
  BY <1>1 DEF ResetRow
<1> QED BY <1>1, <1>2, <1>3, RowRewritten

-----------------------------------------------------------------------------
(* The worker *)

LEMMA WorkerSkipsLists ==
    ASSUME ListInv,
           \/ StartPoll \/ FetchPending \/ FetchNew \/ FinishPoll \/ FinishOrder \/ FindPlayground
           \/ \E l \in Legs : PollLeg(l) \/ LookAtLeg(l)
           \/ \E o \in Orders : ReadTrades(o)
    PROVE  Lists' /\ budget'["db"] = 0
<1>1. UNCHANGED <<dStatus, mStatus, queueVars, ppc, pord, budget>>
  BY DEF StartPoll, FetchPending, FetchNew, FinishPoll, FinishOrder, FindPlayground, PollLeg, LookAtLeg, ReadTrades,
         dbVars, memVars, placeVars
<1> QED BY <1>1, ListsKept DEF ListInv

LEMMA CloseOrderLists ==
    ASSUME ListInv, CloseRow \/ CloseRecord PROVE Lists' /\ budget'["db"] = 0
<1>1. /\ Lists /\ ~Spend("db") /\ budget["db"] = 0 /\ UNCHANGED placeVars
      /\ cur \in Orders /\ cur \in Items /\ dStatus[cur] \in Accepted
      /\ verdict \in Ended /\ verdict \in Accepted
      /\ dStatus \in [Items -> Status] /\ mStatus \in [Items -> Status]
  BY NoDbFailure, ItemKinds
     DEF ListInv, Inv, FillProvenance, WorkerHolds, AtOrder, ControlTypeOK, DbTypeOK, MemTypeOK,
         WorkerTypeOK, CloseRow, CloseRecord, Accepted, Ended
<1>2. CASE CloseRow
  <2>1. UNCHANGED <<mStatus, queueVars>> /\ UNCHANGED budget
    BY <1>1, <1>2 DEF CloseRow, memVars
  <2>2. dStatus' = [dStatus EXCEPT ![cur] = verdict] \/ UNCHANGED dStatus
    BY <1>2 DEF CloseRow
  <2> QED BY <1>1, <2>1, <2>2, RowRewritten, ListsKept DEF placeVars
<1>3. CASE CloseRecord
  <2>1. AddToOrderQueue({cur}) /\ ReplaceRecord(cur, verdict) /\ UNCHANGED <<dStatus, budget>>
    BY <1>1, <1>3 DEF CloseRecord, dbVars
  <2>2. /\ mStatus' \in [Items -> Status]
        /\ \A x \in Items : mStatus'[x] = mStatus[x] \/ (x = cur /\ mStatus'[x] \in Ended)
        /\ cur \in pendingQ \cup newQ => mStatus'[cur] \in Ended
    BY <1>1, <2>1 DEF ReplaceRecord, Status
  <2>3. dStatus[cur] \notin {"absent", "new"}
    BY <1>1 DEF Accepted, Ended
  <2> QED BY <1>1, <2>1, <2>2, <2>3, ListsEnd DEF placeVars
<1> QED BY <1>2, <1>3

LEMMA ApplyTradeLists ==
    ASSUME ListInv, NEW t \in Legs, ApplyTrade(t) PROVE Lists' /\ budget'["db"] = 0
<1>1. /\ Lists /\ budget'["db"] = 0 /\ UNCHANGED placeVars /\ UNCHANGED dStatus /\ cur \in Items
      /\ mStatus \in [Items -> Status]
  BY ItemKinds DEF ListInv, Inv, FillProvenance, WorkerHolds, AtOrder, ControlTypeOK, MemTypeOK,
                   ApplyTrade, dbVars
<1>2. ASSUME cur \in pendingQ, AddToOrderQueue({cur}), NEW s \in Ended,
             mStatus' = [mStatus EXCEPT ![cur] = s]
      PROVE  Lists'
  <2>1. cur \notin newQ /\ mStatus' \in [Items -> Status]
    BY <1>1, <1>2 DEF Lists, OneQueue, Status
  <2> QED BY <1>1, <1>2, <2>1, ListsEnd DEF placeVars
<1>3. CASE UNCHANGED <<mStatus, queueVars>>
  BY <1>1, <1>3, ListsKept DEF placeVars
<1> QED BY <1>1, <1>2, <1>3 DEF ApplyTrade, Accept, Refuse, Ended

LEMMA SaveAppliedLists ==
    ASSUME ListInv, SaveApplied PROVE Lists' /\ budget'["db"] = 0
<1>1. /\ ~Spend("db") /\ budget["db"] = 0 /\ cur \in Items /\ cur \in Orders
      /\ mStatus[cur] # "absent" /\ trade \in dTrade \cap LegsOf(cur)
      /\ FillsAreBacked /\ OnlyStoredLegsMove /\ LegsComeAfterOrders
  BY NoDbFailure, ItemKinds
     DEF ListInv, Inv, FillProvenance, WorkerHolds, AtOrder, SaveApplied
<1>2. trade \in Legs /\ trade[1] = cur /\ Stored(trade)
  BY <1>1, LegsOfType DEF FillsAreBacked, OnlyStoredLegsMove
<1>3. mStatus[cur] \in Accepted /\ "pending" \in Accepted
  BY <1>1, <1>2 DEF LegsComeAfterOrders, Accepted
<1>4. PICK s \in Accepted : dStatus' = [dStatus EXCEPT ![cur] = s]
  BY <1>1, <1>3 DEF SaveApplied
<1>5. UNCHANGED <<mStatus, queueVars, placeVars>> /\ budget' = budget
  BY <1>1 DEF SaveApplied, memVars
<1> QED BY <1>1, <1>4, <1>5, RowRewritten

LEMMA PlaceNewLists ==
    ASSUME ListInv, NEW o \in Orders, PlaceNew(o) PROVE Lists' /\ budget'["db"] = 0
<1>1. /\ Lists /\ ~Spend("db") /\ budget["db"] = 0 /\ o \in Items
      /\ dStatus \in [Items -> Status] /\ mStatus \in [Items -> Status]
      /\ ppc \in [Callers -> {"idle", "queue", "send", "commit"}]
      /\ pord \in [Callers -> Orders \cup {None}]
  BY NoDbFailure, ItemKinds DEF ListInv, Inv, ControlTypeOK, DbTypeOK, MemTypeOK, PlaceTypeOK
<1>2. UNCHANGED budget
  BY <1>1 DEF PlaceNew
<1>3. ppc'["api"] = ppc["api"] /\ pord'["api"] = pord["api"]
  BY <1>1 DEF PlaceNew, StartPlacement, placeVars, Callers
<1>4. CASE UNCHANGED <<dStatus, memVars>>
  BY <1>1, <1>2, <1>3, <1>4, ListsKept DEF memVars
<1>5. CASE RejectNew(o) /\ dStatus' = [dStatus EXCEPT ![o] = "rejected"]
  <2>1. AddToOrderQueue({o}) /\ mStatus' = [mStatus EXCEPT ![o] = "rejected"]
    BY <1>5 DEF RejectNew
  <2>2. mStatus' \in [Items -> Status]
    BY <1>1, <2>1 DEF Status, Ended
  <2>3. Lists'
    BY <1>1, <1>3, <1>5, <2>1, <2>2, ListsEnd DEF Ended, Accepted
  <2> QED BY <1>1, <1>2, <2>3
<1> QED BY <1>1, <1>4, <1>5 DEF PlaceNew

-----------------------------------------------------------------------------
(* The rest of the world *)

LEMMA OutsideLists ==
    ASSUME ListInv,
           \/ \E l \in Legs : BrokerDecides(l) \/ BrokerFillsLate(l)
           \/ \E p \in Playgrounds : DeletePlayground(p)
    PROVE  Lists' /\ budget'["db"] = 0
<1>1. UNCHANGED <<dStatus, mStatus, queueVars, ppc, pord>>
  BY DEF BrokerDecides, BrokerFillsLate, DeletePlayground, dbVars, memVars, placeVars
<1>2. budget'["db"] = 0
  BY NoDbFailure DEF ListInv, Inv, BrokerDecides, BrokerFillsLate, DeletePlayground
<1> QED BY <1>1, <1>2, ListsKept DEF ListInv

(* A restart sorts the rows it loads, each by its status.                    *)
LEMMA CrashLists ==
    ASSUME ListInv, Crash PROVE Lists' /\ budget'["db"] = 0
<1>1. /\ Lists /\ budget'["db"] = 0 /\ UNCHANGED dStatus
      /\ mStatus' = [x \in Items |-> IF Loaded(x) THEN dStatus[x] ELSE "absent"]
      /\ pendingQ' = InDb("pending") /\ newQ' = InDb("new")
      /\ doneQ' = InDb("blank") \cup UNION {InDb(s) : s \in Ended}
      /\ ppc'["api"] = "idle"
  BY NoDbFailure DEF ListInv, Inv, Crash, dbVars, Callers
<1>2. /\ \A x \in pendingQ' : x \in Items /\ dStatus[x] = "pending" /\ mStatus'[x] = "pending"
      /\ \A x \in newQ' : x \in Items /\ dStatus[x] = "new" /\ mStatus'[x] = "new"
      /\ \A x \in doneQ' : /\ x \in Items /\ dStatus[x] \in Ended \cup {"blank"}
                           /\ mStatus'[x] = dStatus[x]
  BY <1>1 DEF InDb
<1>3. OneQueue'
  BY <1>2 DEF OneQueue, Ended
<1>4. \A l \in Legs : {dStatus'[l], mStatus'[l]} \subseteq Accepted \cup {"absent"}
  BY <1>1, ItemKinds DEF Lists
<1>5. newQ' \subseteq Orders
  BY <1>1, <1>2 DEF Lists, Items, Accepted, Ended
<1>6. \A x \in Items :
         /\ dStatus'[x] \in {"absent", "blank"} => x \notin pendingQ' \cup newQ'
         /\ dStatus'[x] \in {"absent", "new"} => x \notin pendingQ' \cup doneQ'
  BY <1>1, <1>2 DEF Ended
<1> QED BY <1>1, <1>3, <1>4, <1>5, <1>6 DEF Lists

-----------------------------------------------------------------------------
LEMMA ListInvStep == ListInv /\ [Next]_vars => ListInv'
<1> SUFFICES ASSUME ListInv, [Next]_vars PROVE Lists' /\ budget'["db"] = 0
  BY InvStep DEF ListInv
<1>1. ASSUME NEW o \in Orders, PlaceOrder(o) PROVE Lists' /\ budget'["db"] = 0
  BY <1>1, PlaceOrderLists
<1>2. ASSUME NEW c \in Callers, Placement(c) PROVE Lists' /\ budget'["db"] = 0
  BY <1>2, SendLegLists, CommitPlacedLists, CommitQueuedLists DEF Placement
<1>3. CASE Drain
  BY <1>3, DrainFillLists, DrainSkipLists, DrainCloseLists, DrainSaveLists, ResetRowLists,
     ResetRecordsLists, FillAfterResetLists DEF Drain
<1>4. CASE Worker
  BY <1>4, WorkerSkipsLists, CloseOrderLists, ApplyTradeLists, SaveAppliedLists, PlaceNewLists
     DEF Worker
<1>5. CASE Faults
  BY <1>5, CrashLists, SendFailsLists DEF Faults
<1>6. CASE \/ \E l \in Legs : BrokerDecides(l) \/ BrokerFillsLate(l)
           \/ \E p \in Playgrounds : DeletePlayground(p)
  BY <1>6, OutsideLists
<1>7. CASE UNCHANGED vars
  BY <1>7, ListsKept DEF ListInv, vars, dbVars, memVars, placeVars
<1> QED BY <1>1, <1>2, <1>3, <1>4, <1>5, <1>6, <1>7 DEF Next

(* While every transaction succeeds, each order is in one of its account's   *)
(* lists at most, the one its status stands for, through crashes, refused    *)
(* legs, late fills and deleted playgrounds.                                 *)
THEOREM OneQueueHolds ==
    ASSUME MaxDbFailures = 0 PROVE Spec => []OneQueue
<1>1. Init => ListInv
  BY InitInv, InitLists DEF ListInv
<1>2. ListInv => OneQueue
  BY DEF ListInv, Lists
<1> QED BY <1>1, <1>2, ListInvStep, PTL DEF Spec
=============================================================================
