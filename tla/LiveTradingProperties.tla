----------------------- MODULE LiveTradingProperties -----------------------
(* What LiveTrading promises: what TLC checks and LiveTradingProofs proves. *)
EXTENDS LiveTrading

(* Every variable holds a value of its kind.  The quantities, which a       *)
(* restart recomputes as sums over the stored orders, are kept apart.       *)
DbTypeOK ==
    dStatus \in [Items -> Status] /\ dTrade \subseteq Legs /\ dApplied \subseteq Legs
MemTypeOK ==
    /\ mStatus \in [Items -> Status]
    /\ pendingQ \subseteq Items /\ newQ \subseteq Items /\ doneQ \subseteq Items
    /\ mTrade \subseteq Legs /\ linked \subseteq Legs /\ cached \subseteq Legs
    /\ applied \in [Legs -> Nat]
BrokerTypeOK ==
    broker \in [Legs -> {"none", "pending"} \cup Ended] /\ orphans \subseteq Legs
Event == [leg : Legs, kind : Ended]
DrainTypeOK ==
    /\ events \in Seq(Event)
    /\ dpc \in {"idle", "resetLeg", "resetOrder", "reset", "fill",
                "saveFill", "saveClose"}
    /\ dleg \in Legs \cup {None}
WorkerTypeOK ==
    /\ wpc \in {"idle", "legs", "orders", "find", "fill", "close", "closing",
                "save", "new"}
    /\ unseen \subseteq Legs /\ verdict \in {"none", "rejected", "canceled"}
    /\ todo \subseteq Items /\ cur \in Orders \cup {None}
    /\ trades \subseteq Legs /\ trade \in Legs \cup {None}
    /\ save \in {"order", "copy"} /\ news \subseteq Legs
PlaceTypeOK ==
    /\ ppc \in [Callers -> {"idle", "queue", "send", "commit"}]
    /\ pord \in [Callers -> Orders \cup {None}] /\ psend \in [Callers -> SUBSET Legs]
OtherTypeOK ==
    /\ alive \in [Playgrounds -> {"live", "row deleted", "deleted"}]
    /\ delivered \in [Playgrounds -> SUBSET Legs]
    /\ budget \in [{"crash", "db", "send", "late"} -> Nat]

ControlTypeOK ==
    /\ DbTypeOK /\ MemTypeOK /\ BrokerTypeOK /\ DrainTypeOK
    /\ WorkerTypeOK /\ PlaceTypeOK /\ OtherTypeOK

TypeOK ==
    /\ ControlTypeOK
    /\ legQty \in [Legs -> Int] /\ pos \in [Accounts -> Int]

-----------------------------------------------------------------------------
(* A fill is never invented on its way through event queue, reconcile order, *)
(* database, live order and notification: each copy has the one before it,   *)
(* and the first the broker's execution, across crashes and failed saves.    *)
FillsAreBacked ==
    /\ \A l \in mTrade : broker[l] = "filled"
    /\ dTrade \subseteq mTrade
    /\ \A l \in Legs : applied[l] > 0 => l \in dTrade
    /\ dApplied \subseteq dTrade
    /\ \A p \in Playgrounds : delivered[p] \subseteq dTrade

(* FillsAreBacked is not inductive: it rests on a leg being on the books, in *)
(* the database, before anything can happen to it, on no leg being sent      *)
(* twice, and so on where each order stands while it is placed or polled.    *)
Accepted == {"pending"} \cup Ended
Stored(l) == dStatus[l] # "absent"

(* An order with a stored leg was accepted, and memory (unless its deleted   *)
(* playground was not loaded) knows it as accepted.                          *)
LegsComeAfterOrders ==
    \A l \in Legs : Stored(l) =>
        /\ dStatus[l[1]] \in Accepted
        /\ mStatus[l[1]] \in Accepted \cup {"absent"}

(* Whatever happens to a leg happens to a stored one. *)
OnlyStoredLegsMove ==
    /\ \A l \in mTrade : Stored(l)
    /\ \A l \in linked : mStatus[l[1]] # "absent"
    /\ \A i \in 1..Len(events) :
          /\ Stored(events[i].leg)
          /\ events[i].kind = "filled" => broker[events[i].leg] = "filled"
    /\ dpc # "idle" => dleg \in Legs /\ Stored(dleg)
    /\ dpc \in {"saveFill", "saveClose"} => mStatus[dleg] # "absent"
    /\ dpc \in {"resetLeg", "resetOrder", "reset", "fill"} => broker[dleg] = "filled"

(* An order being placed is not accepted yet, so none of its legs is stored. *)
PlacedOnce ==
    /\ \A p \in Callers : ppc[p] # "idle" => pord[p] \in Orders
    /\ ppc["api"] # "idle" => dStatus[pord["api"]] = "blank"
    /\ ppc["worker"] # "idle" =>
          wpc = "new" /\ dStatus[pord["worker"]] = "new" /\ pord["worker"] \notin todo
    /\ \A p \in Callers : psend[p] # {} =>
          ppc[p] = "send" /\ psend[p] \subseteq LegsOf(pord[p])

(* What the worker still has to do is what it fetched. *)
AtOrder == {"find", "fill", "close", "closing", "save"}
WorkerHolds ==
    /\ wpc = "legs" => todo \subseteq {l \in Legs : Stored(l)}
    /\ wpc \in {"orders"} \cup AtOrder =>
          todo \subseteq {o \in Orders : dStatus[o] \in Accepted}
    /\ wpc = "new" => todo \subseteq {o \in Orders : dStatus[o] = "new"}
    /\ wpc \in AtOrder => cur \in todo
    /\ wpc \in {"close", "closing"} => verdict # "none"
    /\ trades \subseteq dTrade /\ news \subseteq dTrade
    /\ \A l \in trades : l \in LegsOf(cur)
    /\ wpc = "save" =>
          trade \in dTrade \cap LegsOf(cur) /\ mStatus[cur] # "absent"

FillProvenance ==
    /\ FillsAreBacked /\ LegsComeAfterOrders /\ OnlyStoredLegsMove
    /\ PlacedOnce /\ WorkerHolds

(* An order is in one of the account's three lists at most, and its status   *)
(* is the one that list stands for.                                          *)
OneQueue ==
    /\ pendingQ \cap newQ = {} /\ pendingQ \cap doneQ = {} /\ newQ \cap doneQ = {}
    /\ \A x \in pendingQ : mStatus[x] = "pending"
    /\ \A x \in newQ : mStatus[x] = "new"
    /\ \A x \in doneQ : mStatus[x] \in Ended \cup {"blank"}

(* Nothing is waiting, in the database or on the way to it. *)
Settled ==
    /\ \A x \in Items : dStatus[x] \notin {"new", "pending"}
    /\ dpc = "idle" /\ \A c \in Callers : ppc[c] = "idle"

PositionSum == MapThenSumSet(LAMBDA p : pos[p], Playgrounds)

(* Once everything is settled the reconcile playground holds exactly what    *)
(* the live playgrounds hold together.                                       *)
BooksAgree == Settled => pos[Recon] = PositionSum

(* At every moment, through crashes and late fills, the reconcile playground *)
(* is ahead of the live playgrounds by exactly the fills of legs in memory   *)
(* that no live order in memory has taken: no fill is counted twice, or      *)
(* half, or lost from one of the two books by a restart.                     *)
MissedFills == {l \in mTrade : applied[l] = 0}
BooksDifferByMissedFills ==
    pos[Recon] = PositionSum + MapThenSumSet(LAMBDA l : legQty[l], MissedFills)

(* Once everything is settled a live order is filled exactly when each of    *)
(* its legs is, with the trade of each leg counted once.                     *)
FilledByItsLegs ==
    Settled => \A o \in Orders :
        mStatus[o] = "filled" =>
            \A l \in LegsOf(o) : applied[l] = IF legQty[l] = 0 THEN 0 ELSE 1

(* A filled live order stays filled: no later event of one of its legs, and  *)
(* no later poll, rejects it, cancels it or makes it pending again.          *)
FilledIsFinal ==
    [][\A o \in Orders : mStatus[o] = "filled" => mStatus'[o] = "filled"]_vars

(* What the database calls filled stays filled there, through crashes and    *)
(* failed saves.                                                             *)
StoredFillIsFinal ==
    [][\A x \in Items : dStatus[x] = "filled" => dStatus'[x] = "filled"]_vars

(* Memory never holds another end than the one the database holds for a leg, *)
(* or for an order of a playground in memory, and no stored end of a leg and *)
(* no stored fill is unknown to it.  A live order the worker has rejected or *)
(* canceled in the database may still be pending in memory: between the two  *)
(* updates, when the second fails, and when a late fill set it back.         *)
StoredEndIsRemembered ==
    /\ \A l \in Legs : dStatus[l] \in Ended => mStatus[l] = dStatus[l]
    /\ \A o \in Orders : dStatus[o] \in Ended /\ Known(o) =>
          \/ mStatus[o] = dStatus[o]
          \/ dStatus[o] # "filled" /\ mStatus[o] = "pending"

(* placeLiveOrder sends an order only when no other order of its playground  *)
(* is pending ("no pending orders, place the order").                        *)
OneInFlight ==
    \A p \in Playgrounds :
        Cardinality({o \in pendingQ \cap Orders : PgOf(o) = p}) <= 1

(* A playground's newTradesQueue carries the trades of its own orders only.  *)
OwnTradesOnly ==
    \A p \in Playgrounds : \A l \in delivered[p] : PgOf(l[1]) = p

(* While nothing crashes, memory's orders and positions are an OrderBook: the *)
(* path through legs, broker, event queue, drain and poll adds up to orders   *)
(* worked one at a time, each part of a fill entering its order and the       *)
(* position of its playground together, once, and never beyond the quantity.  *)
BookStatus(s) == CASE s \in {"absent", "blank"} -> "none"
                   [] s = "new" -> "waiting" [] s = "pending" -> "working" [] OTHER -> s
Book == INSTANCE OrderBook
            WITH status <- [o \in Orders |-> BookStatus(mStatus[o])],
                 filled <- [o \in Orders |-> FilledVolume(o)],
                 position <- [p \in Playgrounds |-> pos[p]]
KeepsTheBook == Book!Spec

-----------------------------------------------------------------------------
(* Every order accepted, at once or behind another one, is one day filled,   *)
(* rejected or canceled, in the database and in memory.                      *)
OrdersSettle ==
    \A o \in Orders :
        dStatus[o] \in {"new", "pending"}
            ~> (dStatus[o] \in Ended /\ mStatus[o] = dStatus[o])

(* An execution of a leg on the books reaches its live order and is put on   *)
(* the playground's queue.                                                   *)
FillIsDelivered ==
    \A l \in Legs :
        broker[l] = "filled" /\ dStatus[l] = "pending"
            ~> l \in delivered[PgOf(l[1])]
=============================================================================
