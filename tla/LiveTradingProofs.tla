------------------------- MODULE LiveTradingProofs -------------------------
(* FillsAreBacked and the types of LiveTrading, proved for any number of    *)
(* playgrounds, orders and faults.                                          *)
EXTENDS LiveTradingProperties, SumTheorems, SequenceTheorems, TLAPS

LEMMA LegsOfType ==
    \A o \in Orders : LegsOf(o) \subseteq Legs /\ \A l \in LegsOf(o) : l[1] = o
BY DEF LegsOf, Legs

LEMMA LegOrder == \A l \in Legs : l[1] \in Orders /\ l \in LegsOf(l[1])
BY DEF LegsOf, Legs

LEMMA InitType == Init => ControlTypeOK
<1> SUFFICES ASSUME Init PROVE ControlTypeOK
  OBVIOUS
<1>1. DbTypeOK BY DEF Init, DbTypeOK, Status
<1>2. MemTypeOK BY DEF Init, MemTypeOK, Status
<1>3. BrokerTypeOK BY DEF Init, BrokerTypeOK
<1>4. DrainTypeOK BY DEF Init, DrainTypeOK
<1>5. WorkerTypeOK BY DEF Init, WorkerTypeOK
<1>6. PlaceTypeOK BY DEF Init, PlaceTypeOK
<1>7. OtherTypeOK BY ConstantsAssumption DEF Init, OtherTypeOK
<1> QED BY <1>1, <1>2, <1>3, <1>4, <1>5, <1>6, <1>7 DEF ControlTypeOK

(* What a step leaves alone keeps its type. *)
LEMMA Unchanged ==
    /\ DbTypeOK /\ UNCHANGED dbVars => DbTypeOK'
    /\ MemTypeOK /\ UNCHANGED memVars => MemTypeOK'
    /\ BrokerTypeOK /\ UNCHANGED <<broker, orphans>> => BrokerTypeOK'
    /\ DrainTypeOK /\ UNCHANGED <<events, drainVars>> => DrainTypeOK'
    /\ WorkerTypeOK /\ UNCHANGED workerVars => WorkerTypeOK'
    /\ PlaceTypeOK /\ UNCHANGED placeVars => PlaceTypeOK'
    /\ OtherTypeOK /\ UNCHANGED <<pgVars, budget>> => OtherTypeOK'
BY DEF dbVars, memVars, queueVars, drainVars, workerVars, lookVars, placeVars, pgVars,
       DbTypeOK, MemTypeOK, BrokerTypeOK, DrainTypeOK, WorkerTypeOK, PlaceTypeOK, OtherTypeOK

LEMMA PlaceOrderType ==
    ASSUME ControlTypeOK, NEW o \in Orders, PlaceOrder(o) PROVE ControlTypeOK'
<1> USE DEF ControlTypeOK
<1>1. DbTypeOK' BY DEF PlaceOrder, DbTypeOK, Items, Status
<1>2. MemTypeOK' /\ DrainTypeOK' /\ WorkerTypeOK' /\ OtherTypeOK' /\ BrokerTypeOK'
  BY Unchanged DEF PlaceOrder
<1>3. PlaceTypeOK'
  BY LegsOfType DEF PlaceOrder, StartPlacement, PlaceTypeOK, placeVars, Callers
<1> QED BY <1>1, <1>2, <1>3

LEMMA SendLegType ==
    ASSUME ControlTypeOK, NEW c \in Callers, SendLeg(c) PROVE ControlTypeOK'
<1> USE DEF ControlTypeOK
<1>1. DbTypeOK' /\ MemTypeOK' /\ DrainTypeOK' /\ WorkerTypeOK' /\ OtherTypeOK'
  BY Unchanged DEF SendLeg
<1>2. BrokerTypeOK' BY DEF SendLeg, BrokerTypeOK
<1>3. PlaceTypeOK' BY DEF SendLeg, PlaceTypeOK
<1> QED BY <1>1, <1>2, <1>3

(* The shared parts of the steps keep the types. *)
LEMMA PartTypes ==
    /\ EndPoll => WorkerTypeOK'
    /\ \A S : MemTypeOK /\ AddToOrderQueue(S) =>
          pendingQ' \subseteq Items /\ newQ' \subseteq Items /\ doneQ' \subseteq Items
    /\ \A S \in SUBSET Legs : BrokerTypeOK /\ Forget(S) => BrokerTypeOK'
    /\ \A c \in Callers : PlaceTypeOK /\ Idle(c) /\ UNCHANGED psend => PlaceTypeOK'
    /\ \A k \in {"crash", "db", "send", "late"} :
          OtherTypeOK /\ Spend(k) /\ UNCHANGED pgVars => OtherTypeOK'
    /\ OtherTypeOK /\ SpendBoth("send", "db") /\ UNCHANGED pgVars => OtherTypeOK'
<1>1. EndPoll => WorkerTypeOK' BY DEF EndPoll, WorkerTypeOK
<1>2. \A S : MemTypeOK /\ AddToOrderQueue(S) =>
          pendingQ' \subseteq Items /\ newQ' \subseteq Items /\ doneQ' \subseteq Items
  BY DEF MemTypeOK, AddToOrderQueue
<1>3. \A S \in SUBSET Legs : BrokerTypeOK /\ Forget(S) => BrokerTypeOK'
  BY DEF BrokerTypeOK, Forget, Set
<1>4. \A c \in Callers : PlaceTypeOK /\ Idle(c) /\ UNCHANGED psend => PlaceTypeOK'
  BY DEF PlaceTypeOK, Idle
<1>5. \A k \in {"crash", "db", "send", "late"} :
          OtherTypeOK /\ Spend(k) /\ UNCHANGED pgVars => OtherTypeOK'
  <2> TAKE k \in {"crash", "db", "send", "late"}
  <2> HAVE OtherTypeOK /\ Spend(k) /\ UNCHANGED pgVars
  <2>1. budget[k] \in Nat /\ budget[k] > 0 BY DEF OtherTypeOK, Spend
  <2>2. budget' = [budget EXCEPT ![k] = budget[k] - 1] BY DEF Spend
  <2>3. budget[k] - 1 \in Nat BY <2>1
  <2> QED BY <2>2, <2>3 DEF OtherTypeOK, pgVars
<1>6. OtherTypeOK /\ SpendBoth("send", "db") /\ UNCHANGED pgVars => OtherTypeOK'
  <2> HAVE OtherTypeOK /\ SpendBoth("send", "db") /\ UNCHANGED pgVars
  <2>1. /\ budget["send"] \in Nat /\ budget["send"] > 0
        /\ budget["db"] \in Nat /\ budget["db"] > 0
    BY DEF OtherTypeOK, SpendBoth
  <2>2. budget' = [budget EXCEPT !["send"] = budget["send"] - 1, !["db"] = budget["db"] - 1]
    BY DEF SpendBoth
  <2>3. budget["send"] - 1 \in Nat /\ budget["db"] - 1 \in Nat BY <2>1
  <2> QED BY <2>2, <2>3 DEF OtherTypeOK, pgVars
<1> QED BY <1>1, <1>2, <1>3, <1>4, <1>5, <1>6

LEMMA RejectNewType ==
    ASSUME ControlTypeOK, NEW o \in Orders, RejectNew(o)
    PROVE  MemTypeOK' /\ WorkerTypeOK' /\ dTrade' \subseteq Legs /\ dApplied' \subseteq Legs
BY PartTypes DEF ControlTypeOK, RejectNew, MemTypeOK, DbTypeOK, Status, Ended

LEMMA SendFailsType ==
    ASSUME ControlTypeOK, PlacedOnce, NEW c \in Callers, SendFails(c) PROVE ControlTypeOK'
<1> USE DEF ControlTypeOK
<1>1. pord[c] \in Orders BY DEF SendFails, PlacedOnce
<1>2. DrainTypeOK' BY Unchanged DEF SendFails
<1>3. MemTypeOK' /\ WorkerTypeOK' BY <1>1, Unchanged, RejectNewType DEF SendFails
<1>4. DbTypeOK'
  BY <1>1, RejectNewType DEF SendFails, DbTypeOK, Items, Status, Ended, dbVars
<1>5. BrokerTypeOK' BY <1>1, LegsOfType, PartTypes DEF SendFails
<1>6. PlaceTypeOK' BY DEF SendFails, Idle, PlaceTypeOK
<1>7. OtherTypeOK' BY PartTypes DEF SendFails
<1> QED BY <1>2, <1>3, <1>4, <1>5, <1>6, <1>7

LEMMA CommitPlacedType ==
    ASSUME ControlTypeOK, PlacedOnce, NEW c \in Callers, CommitPlaced(c) PROVE ControlTypeOK'
<1> USE DEF ControlTypeOK
<1> DEFINE legs == {l \in LegsOf(pord[c]) : legQty[l] # 0}
<1>1. {pord[c]} \cup legs \subseteq Items /\ legs \subseteq Legs
  BY LegsOfType DEF CommitPlaced, PlacedOnce, Items
<1> HIDE DEF legs
<1>2. CommitSaved(c, {pord[c]} \cup legs, "pending") BY DEF CommitPlaced, legs
<1>3. DbTypeOK'
  BY <1>2 DEF CommitPlaced, CommitSaved, DbTypeOK, Status, Set
<1>4. MemTypeOK'
  BY <1>1 DEF CommitPlaced, legs, MemTypeOK, Status, Set
<1>5. WorkerTypeOK' /\ OtherTypeOK'
  BY <1>2, PartTypes, Unchanged DEF CommitPlaced, CommitSaved, OtherTypeOK, pgVars
<1>6. BrokerTypeOK' /\ DrainTypeOK' BY Unchanged DEF CommitPlaced, brokerVars
<1>7. PlaceTypeOK' BY PartTypes DEF CommitPlaced
<1> QED BY <1>3, <1>4, <1>5, <1>6, <1>7

LEMMA CommitQueuedType ==
    ASSUME ControlTypeOK, PlacedOnce, NEW c \in Callers, CommitQueued(c) PROVE ControlTypeOK'
<1> USE DEF ControlTypeOK
<1>1. pord[c] \in Items BY DEF CommitQueued, PlacedOnce, Items
<1>2. CommitSaved(c, {pord[c]}, mStatus'[pord[c]]) BY DEF CommitQueued
<1>3. MemTypeOK' BY <1>1 DEF CommitQueued, MemTypeOK, Status
<1>4. mStatus'[pord[c]] \in Status BY <1>1, <1>3 DEF MemTypeOK
<1>5. DbTypeOK'
  BY <1>2, <1>4 DEF CommitQueued, CommitSaved, DbTypeOK, Set
<1>6. WorkerTypeOK' /\ OtherTypeOK'
  BY <1>2, PartTypes, Unchanged DEF CommitQueued, CommitSaved, OtherTypeOK, pgVars
<1>7. BrokerTypeOK' /\ DrainTypeOK' BY Unchanged DEF CommitQueued, brokerVars
<1>8. PlaceTypeOK' BY PartTypes DEF CommitQueued
<1> QED BY <1>3, <1>5, <1>6, <1>7, <1>8

(* The broker poll and the two fetches touch the worker's variables (PollLeg *)
(* the queue as well).                                                       *)
LEMMA FetchType ==
    ASSUME ControlTypeOK, StartPoll \/ FetchPending \/ FetchNew \/ FinishPoll
    PROVE  ControlTypeOK'
<1> USE DEF ControlTypeOK
<1>1. DbTypeOK' /\ MemTypeOK' /\ BrokerTypeOK' /\ DrainTypeOK' /\ PlaceTypeOK' /\ OtherTypeOK'
  BY Unchanged DEF StartPoll, FetchPending, FetchNew, FinishPoll, brokerVars
<1>2. WorkerTypeOK'
  BY PartTypes DEF StartPoll, FetchPending, FetchNew, FinishPoll, WorkerTypeOK, lookVars, Items
<1> QED BY <1>1, <1>2

LEMMA PollLegType ==
    ASSUME ControlTypeOK, NEW l \in Legs, PollLeg(l) PROVE ControlTypeOK'
<1> USE DEF ControlTypeOK
<1>1. DbTypeOK' /\ MemTypeOK' /\ BrokerTypeOK' /\ PlaceTypeOK' /\ OtherTypeOK'
  BY Unchanged DEF PollLeg, brokerVars
<1>2. WorkerTypeOK' BY DEF PollLeg, WorkerTypeOK, lookVars
<1>3. events' \in Seq(Event)
  <2>1. CASE UNCHANGED events BY <2>1 DEF DrainTypeOK
  <2>2. CASE broker[l] \in Ended /\ events' = Append(events, [leg |-> l, kind |-> broker[l]])
    <3>1. [leg |-> l, kind |-> broker[l]] \in Event BY <2>2 DEF Event
    <3> QED BY <2>2, <3>1, AppendProperties DEF DrainTypeOK
  <2> QED BY <2>1, <2>2 DEF PollLeg, Reportable
<1>4. DrainTypeOK' BY <1>3 DEF PollLeg, DrainTypeOK, drainVars
<1> QED BY <1>1, <1>2, <1>4

LEMMA EventType ==
    ASSUME DrainTypeOK, events # <<>>
    PROVE  /\ Head(events).leg \in Legs /\ Head(events).kind \in Ended
           /\ Tail(events) \in Seq(Event)
           /\ 1 \in 1..Len(events) /\ Head(events) = events[1]
           /\ \A i \in 1..Len(Tail(events)) :
                 i + 1 \in 1..Len(events) /\ Tail(events)[i] = events[i + 1]
<1>1. events \in Seq(Event) BY DEF DrainTypeOK
<1>2. /\ Head(events) \in Event /\ Tail(events) \in Seq(Event)
      /\ Len(Tail(events)) = Len(events) - 1
      /\ \A i \in 1..Len(Tail(events)) : Tail(events)[i] = events[i + 1]
  BY <1>1, HeadTailProperties
<1>3. Len(events) \in Nat /\ Len(events) > 0 /\ Head(events) = events[1]
  BY <1>1, EmptySeq
<1>4. Head(events).leg \in Legs /\ Head(events).kind \in Ended BY <1>2 DEF Event
<1> QED BY <1>2, <1>3, <1>4

LEMMA EventsType ==
    ASSUME DrainTypeOK, NEW i \in 1..Len(events)
    PROVE  events[i].leg \in Legs /\ events[i].kind \in Ended
<1>1. events[i] \in Event BY ElementOfSeq DEF DrainTypeOK
<1> QED BY <1>1 DEF Event

LEMMA CommitFillType ==
    ASSUME ControlTypeOK, NEW l \in Legs, CommitFill(l)
    PROVE  /\ mStatus' \in [Items -> Status] /\ mTrade' \subseteq Legs
           /\ pendingQ' \subseteq Items /\ newQ' \subseteq Items /\ doneQ' \subseteq Items
           /\ dpc' = "saveFill" /\ dleg' = l
<1> USE DEF ControlTypeOK
<1>1. mStatus' \in [Items -> Status] BY DEF CommitFill, MemTypeOK, Status, Ended
<1>2. mTrade' \subseteq Legs BY DEF CommitFill, FillLeg, MemTypeOK
<1>3. pendingQ' \subseteq Items /\ newQ' \subseteq Items /\ doneQ' \subseteq Items
  BY PartTypes DEF CommitFill
<1> QED BY <1>1, <1>2, <1>3 DEF CommitFill

LEMMA DrainFillType ==
    ASSUME ControlTypeOK, DrainFill PROVE ControlTypeOK'
<1> USE DEF ControlTypeOK
<1>1. Head(events).leg \in Legs BY EventType DEF DrainFill
<1>2. DbTypeOK' /\ BrokerTypeOK' /\ WorkerTypeOK' /\ PlaceTypeOK' /\ OtherTypeOK'
  BY Unchanged DEF DrainFill, brokerVars
<1>3. MemTypeOK' BY <1>1, CommitFillType DEF DrainFill, MemTypeOK, queueVars
<1>4. DrainTypeOK'
  BY <1>1, EventType, CommitFillType DEF DrainFill, DrainTypeOK, drainVars
<1> QED BY <1>2, <1>3, <1>4

LEMMA ResetRowType ==
    ASSUME ControlTypeOK, OnlyStoredLegsMove, ResetRow PROVE ControlTypeOK'
<1> USE DEF ControlTypeOK
<1>1. dleg \in Legs /\ dleg \in Items /\ dleg[1] \in Items
  BY LegOrder DEF ResetRow, OnlyStoredLegsMove, Items
<1>2. DbTypeOK' BY <1>1 DEF ResetRow, DbTypeOK, Status
<1>3. MemTypeOK' BY DEF ResetRow, MemTypeOK, queueVars
<1>4. BrokerTypeOK' /\ WorkerTypeOK' /\ PlaceTypeOK' BY Unchanged DEF ResetRow, brokerVars
<1>5. OtherTypeOK' BY PartTypes, Unchanged DEF ResetRow
<1>6. DrainTypeOK' BY <1>1 DEF ResetRow, DrainTypeOK
<1> QED BY <1>2, <1>3, <1>4, <1>5, <1>6

LEMMA ResetRecordsType ==
    ASSUME ControlTypeOK, OnlyStoredLegsMove, ResetRecords PROVE ControlTypeOK'
<1> USE DEF ControlTypeOK
<1>1. dleg \in Legs /\ dleg \in Items /\ dleg[1] \in Items
  BY LegOrder DEF ResetRecords, OnlyStoredLegsMove, Items
<1>2. DbTypeOK' /\ BrokerTypeOK' /\ WorkerTypeOK' /\ PlaceTypeOK' /\ OtherTypeOK'
  BY Unchanged DEF ResetRecords, brokerVars
<1>3. mStatus' \in [Items -> Status] BY DEF ResetRecords, MemTypeOK, Status, Set
<1>4. /\ pendingQ' \subseteq Items /\ doneQ' \subseteq Items /\ linked' \subseteq Legs
      /\ UNCHANGED <<newQ, mTrade, cached, applied>>
  BY <1>1 DEF ResetRecords, MemTypeOK
<1>5. MemTypeOK' BY <1>3, <1>4 DEF MemTypeOK
<1>6. DrainTypeOK' BY DEF ResetRecords, DrainTypeOK
<1> QED BY <1>2, <1>5, <1>6

LEMMA FillAfterResetType ==
    ASSUME ControlTypeOK, OnlyStoredLegsMove, FillAfterReset PROVE ControlTypeOK'
<1> USE DEF ControlTypeOK
<1>1. dleg \in Legs BY DEF FillAfterReset, OnlyStoredLegsMove
<1>2. DbTypeOK' /\ BrokerTypeOK' /\ WorkerTypeOK' /\ PlaceTypeOK' /\ OtherTypeOK'
  BY Unchanged DEF FillAfterReset, brokerVars
<1>3. MemTypeOK' BY <1>1, CommitFillType DEF FillAfterReset, MemTypeOK
<1>4. DrainTypeOK' BY <1>1, CommitFillType DEF FillAfterReset, DrainTypeOK
<1> QED BY <1>2, <1>3, <1>4

LEMMA DrainSkipType == ControlTypeOK /\ DrainSkip => ControlTypeOK'
<1> SUFFICES ASSUME ControlTypeOK, DrainSkip PROVE ControlTypeOK'
  OBVIOUS
<1> USE DEF ControlTypeOK
<1>1. DbTypeOK' /\ MemTypeOK' /\ BrokerTypeOK' /\ WorkerTypeOK' /\ PlaceTypeOK' /\ OtherTypeOK'
  BY Unchanged DEF DrainSkip, brokerVars
<1>2. DrainTypeOK' BY EventType DEF DrainSkip, DrainTypeOK, drainVars
<1> QED BY <1>1, <1>2

LEMMA CloseRecordsType ==
    ASSUME ControlTypeOK, NEW l \in Legs, NEW kind \in Ended, NEW S, CloseRecords(l, kind, S)
    PROVE  /\ mStatus' \in [Items -> Status] /\ linked' \subseteq Legs
           /\ pendingQ' \subseteq Items /\ newQ' \subseteq Items /\ doneQ' \subseteq Items
<1> USE DEF ControlTypeOK
<1>1. kind \in Status BY DEF Status
<1>2. mStatus' \in [Items -> Status] BY <1>1 DEF CloseRecords, MemTypeOK, Set
<1>3. linked' \subseteq Legs BY DEF CloseRecords, MemTypeOK
<1>4. pendingQ' \subseteq Items /\ newQ' \subseteq Items /\ doneQ' \subseteq Items
  BY PartTypes DEF CloseRecords
<1> QED BY <1>2, <1>3, <1>4

LEMMA CloseRowsType ==
    ASSUME ControlTypeOK, NEW l \in Legs, CloseRows(l)
    PROVE  dStatus' \in [Items -> Status] /\ dApplied' \subseteq Legs
<1> USE DEF ControlTypeOK
<1>1. l[1] \in Items /\ LegsOf(l[1]) \subseteq Legs BY LegOrder, LegsOfType DEF Items
<1> QED BY <1>1 DEF CloseRows, DbTypeOK, MemTypeOK

LEMMA DrainCloseType ==
    ASSUME ControlTypeOK, DrainClose PROVE ControlTypeOK'
<1> USE DEF ControlTypeOK
<1> DEFINE l == Head(events).leg
           kind == Head(events).kind
<1>1. l \in Legs /\ kind \in Ended BY EventType DEF DrainClose
<1>2. \/ \E S : CloseRecords(l, kind, S)
      \/ UNCHANGED <<mStatus, queueVars, linked>>
  BY DEF DrainClose
<1>3. CloseRows(l) \/ UNCHANGED <<dStatus, dApplied>>
  BY DEF DrainClose
<1>4. /\ UNCHANGED <<dTrade, mTrade, applied, cached>>
      /\ Spend("db") \/ UNCHANGED budget
      /\ (UNCHANGED drainVars) \/ (dpc' = "saveClose" /\ dleg' = l)
  BY DEF DrainClose
<1>5. BrokerTypeOK' /\ WorkerTypeOK' /\ PlaceTypeOK'
  BY Unchanged DEF DrainClose, brokerVars
<1>6. OtherTypeOK' BY <1>4, PartTypes, Unchanged DEF DrainClose
<1>7. DrainTypeOK' BY <1>1, <1>4, EventType DEF DrainClose, DrainTypeOK, drainVars
<1> HIDE DEF l, kind
<1>8. DbTypeOK' BY <1>1, <1>3, <1>4, CloseRowsType DEF DbTypeOK
<1>9. MemTypeOK' BY <1>1, <1>2, <1>4, CloseRecordsType DEF MemTypeOK, queueVars
<1> QED BY <1>5, <1>6, <1>7, <1>8, <1>9

LEMMA DrainSaveType ==
    ASSUME ControlTypeOK, OnlyStoredLegsMove, DrainSave PROVE ControlTypeOK'
<1> USE DEF ControlTypeOK
<1>1. dleg \in Legs /\ dleg \in Items BY DEF DrainSave, OnlyStoredLegsMove, Items
<1>2. DbTypeOK' BY <1>1 DEF DrainSave, DbTypeOK, MemTypeOK
<1>3. MemTypeOK' BY <1>1 DEF DrainSave, MemTypeOK, queueVars
<1>4. BrokerTypeOK' /\ WorkerTypeOK' /\ PlaceTypeOK' BY Unchanged DEF DrainSave, brokerVars
<1>5. OtherTypeOK' BY PartTypes, Unchanged DEF DrainSave
<1>6. DrainTypeOK' BY DEF DrainSave, DrainTypeOK
<1> QED BY <1>2, <1>3, <1>4, <1>5, <1>6

LEMMA DeliverType ==
    ASSUME ControlTypeOK, NEW p, Deliver(p), UNCHANGED <<alive, budget>>
    PROVE  OtherTypeOK'
BY DEF ControlTypeOK, Deliver, OtherTypeOK, WorkerTypeOK

(* Looking at an order and its legs touches the worker's variables only.     *)
LEMMA LookType ==
    ASSUME ControlTypeOK,
           FindPlayground \/ (\E o \in Orders : ReadTrades(o)) \/ (\E l \in Legs : LookAtLeg(l))
    PROVE  ControlTypeOK'
<1> USE DEF ControlTypeOK
<1>1. DbTypeOK' /\ MemTypeOK' /\ BrokerTypeOK' /\ DrainTypeOK' /\ PlaceTypeOK' /\ OtherTypeOK'
  BY Unchanged DEF FindPlayground, ReadTrades, LookAtLeg, brokerVars
<1>2. CASE FindPlayground
  BY <1>1, <1>2 DEF FindPlayground, WorkerTypeOK, MemTypeOK
<1>3. ASSUME NEW o \in Orders, ReadTrades(o) PROVE ControlTypeOK'
  BY <1>1, <1>3 DEF ReadTrades, TradesOf, WorkerTypeOK, DbTypeOK, lookVars
<1>4. ASSUME NEW l \in Legs, LookAtLeg(l) PROVE ControlTypeOK'
  BY <1>1, <1>4 DEF LookAtLeg, Verdict, WorkerTypeOK
<1> QED BY <1>2, <1>3, <1>4

LEMMA CloseRowType ==
    ASSUME ControlTypeOK, WorkerHolds, CloseRow PROVE ControlTypeOK'
<1> USE DEF ControlTypeOK
<1>1. MemTypeOK' /\ BrokerTypeOK' /\ DrainTypeOK' /\ PlaceTypeOK'
  BY Unchanged DEF CloseRow, brokerVars
<1>2. verdict \in Status BY DEF CloseRow, WorkerHolds, WorkerTypeOK, Status, Ended
<1>3. DbTypeOK' BY <1>2 DEF CloseRow, DbTypeOK
<1>4. WorkerTypeOK' BY DEF CloseRow, WorkerTypeOK
<1>5. OtherTypeOK' BY PartTypes, Unchanged DEF CloseRow
<1> QED BY <1>1, <1>3, <1>4, <1>5

LEMMA CloseRecordType ==
    ASSUME ControlTypeOK, WorkerHolds, CloseRecord PROVE ControlTypeOK'
<1> USE DEF ControlTypeOK
<1>1. DbTypeOK' /\ BrokerTypeOK' /\ DrainTypeOK' /\ PlaceTypeOK'
  BY Unchanged DEF CloseRecord, brokerVars
<1>2. verdict \in Status BY DEF CloseRecord, WorkerHolds, WorkerTypeOK, Status, Ended
<1>3. mStatus' \in [Items -> Status] /\ linked' \subseteq Legs
  BY <1>2 DEF CloseRecord, ReplaceRecord, MemTypeOK
<1>4. pendingQ' \subseteq Items /\ newQ' \subseteq Items /\ doneQ' \subseteq Items
  BY PartTypes DEF CloseRecord, MemTypeOK, queueVars
<1>5. MemTypeOK' BY <1>3, <1>4 DEF CloseRecord, MemTypeOK
<1>6. WorkerTypeOK' BY DEF CloseRecord, WorkerTypeOK
<1>7. OtherTypeOK' BY PartTypes, Unchanged DEF CloseRecord
<1> QED BY <1>1, <1>5, <1>6, <1>7

LEMMA ApplyTradeType ==
    ASSUME ControlTypeOK, WorkerHolds, NEW t \in Legs, ApplyTrade(t) PROVE ControlTypeOK'
<1> USE DEF ControlTypeOK
<1>1. DbTypeOK' /\ BrokerTypeOK' /\ DrainTypeOK' /\ PlaceTypeOK' /\ OtherTypeOK'
  BY Unchanged DEF ApplyTrade, brokerVars
<1>2. cur \in Items BY DEF ApplyTrade, WorkerHolds, AtOrder, Items
<1>3. mStatus' \in [Items -> Status]
  BY <1>2 DEF ApplyTrade, Accept, Refuse, MemTypeOK, Status, Ended
<1>4. pendingQ' \subseteq Items /\ newQ' \subseteq Items /\ doneQ' \subseteq Items
  BY PartTypes DEF ApplyTrade, Accept, Refuse, MemTypeOK, queueVars
<1>5. applied' \in [Legs -> Nat]
  <2>1. CASE UNCHANGED applied BY <2>1 DEF MemTypeOK
  <2>2. CASE applied' = [applied EXCEPT ![t] = @ + 1] BY <2>2 DEF MemTypeOK
  <2> QED BY <2>1, <2>2 DEF ApplyTrade, Accept, Refuse
<1>6. MemTypeOK' BY <1>3, <1>4, <1>5 DEF ApplyTrade, MemTypeOK
<1>7. WorkerTypeOK' BY DEF ApplyTrade, Accept, Refuse, WorkerTypeOK, lookVars
<1> QED BY <1>1, <1>6, <1>7

LEMMA SaveAppliedType ==
    ASSUME ControlTypeOK, WorkerHolds, SaveApplied PROVE ControlTypeOK'
<1> USE DEF ControlTypeOK
<1>1. MemTypeOK' /\ BrokerTypeOK' /\ DrainTypeOK' /\ PlaceTypeOK'
  BY Unchanged DEF SaveApplied, brokerVars
<1>2. cur \in Items /\ LegsOf(cur) \subseteq Legs /\ trade \in Legs
  BY LegsOfType DEF SaveApplied, WorkerHolds, AtOrder, DbTypeOK, Items
<1>3. DbTypeOK' BY <1>2 DEF SaveApplied, DbTypeOK, MemTypeOK, Status
<1>4. WorkerTypeOK' BY <1>2 DEF SaveApplied, WorkerTypeOK, lookVars
<1>5. OtherTypeOK' BY PartTypes, Unchanged DEF SaveApplied
<1> QED BY <1>1, <1>3, <1>4, <1>5

LEMMA FinishOrderType ==
    ASSUME ControlTypeOK, FinishOrder PROVE ControlTypeOK'
<1> USE DEF ControlTypeOK
<1>1. DbTypeOK' /\ MemTypeOK' /\ BrokerTypeOK' /\ DrainTypeOK' /\ PlaceTypeOK'
  BY Unchanged DEF FinishOrder, brokerVars
<1>2. WorkerTypeOK' BY DEF FinishOrder, WorkerTypeOK, lookVars
<1>3. OtherTypeOK' BY DeliverType DEF FinishOrder
<1> QED BY <1>1, <1>2, <1>3

LEMMA PlaceNewType ==
    ASSUME ControlTypeOK, NEW o \in Orders, PlaceNew(o) PROVE ControlTypeOK'
<1> USE DEF ControlTypeOK
<1>1. DbTypeOK'
  BY DEF PlaceNew, DbTypeOK, RejectNew, Status, Ended
<1>2. MemTypeOK' BY RejectNewType, Unchanged DEF PlaceNew
<1>3. DrainTypeOK' BY Unchanged DEF PlaceNew
<1>4. BrokerTypeOK' BY Unchanged DEF PlaceNew
<1>5. WorkerTypeOK'
  BY RejectNewType, PartTypes DEF PlaceNew, WorkerTypeOK, lookVars
<1>6. PlaceTypeOK'
  <2>1. CASE StartPlacement("worker", o)
    BY <2>1, LegsOfType DEF StartPlacement, PlaceTypeOK, Callers
  <2>2. CASE UNCHANGED placeVars BY <2>2, Unchanged
  <2> QED BY <2>1, <2>2 DEF PlaceNew
<1>7. OtherTypeOK' BY PartTypes, Unchanged DEF PlaceNew
<1> QED BY <1>1, <1>2, <1>3, <1>4, <1>5, <1>6, <1>7

LEMMA BrokerStepType ==
    ASSUME ControlTypeOK, NEW l \in Legs, BrokerDecides(l) \/ BrokerFillsLate(l)
    PROVE  ControlTypeOK'
<1> USE DEF ControlTypeOK
<1>1. DbTypeOK' /\ MemTypeOK' /\ DrainTypeOK' /\ WorkerTypeOK' /\ PlaceTypeOK'
  BY Unchanged DEF BrokerDecides, BrokerFillsLate
<1>2. BrokerTypeOK'
  BY ConstantsAssumption DEF BrokerDecides, BrokerFillsLate, BrokerTypeOK, Ended
<1>3. OtherTypeOK' BY PartTypes, Unchanged DEF BrokerDecides, BrokerFillsLate
<1> QED BY <1>1, <1>2, <1>3

LEMMA DeletePlaygroundType ==
    ASSUME ControlTypeOK, NEW p \in Playgrounds, DeletePlayground(p) PROVE ControlTypeOK'
<1> USE DEF ControlTypeOK
<1>1. DbTypeOK' /\ MemTypeOK' /\ BrokerTypeOK' /\ DrainTypeOK' /\ WorkerTypeOK' /\ PlaceTypeOK'
  BY Unchanged DEF DeletePlayground, brokerVars
<1>2. OtherTypeOK' BY DEF DeletePlayground, OtherTypeOK
<1> QED BY <1>1, <1>2

LEMMA CrashType ==
    ASSUME ControlTypeOK, Crash PROVE ControlTypeOK'
<1> USE DEF ControlTypeOK
<1>1. DbTypeOK' BY Unchanged DEF Crash
<1>2. MemTypeOK'
  <2>1. mStatus' \in [Items -> Status] BY DEF Crash, DbTypeOK, Status
  <2>2. pendingQ' \subseteq Items /\ newQ' \subseteq Items /\ doneQ' \subseteq Items
    BY DEF Crash, InDb, Ended
  <2>3. mTrade' \subseteq Legs /\ linked' \subseteq Legs /\ cached' \subseteq Legs
    BY DEF Crash, DbTypeOK
  <2>4. applied' \in [Legs -> Nat] BY DEF Crash
  <2> QED BY <2>1, <2>2, <2>3, <2>4 DEF MemTypeOK
<1>3. BrokerTypeOK' BY PartTypes DEF Crash
<1>4. DrainTypeOK' BY DEF Crash, DrainTypeOK
<1>5. WorkerTypeOK' BY PartTypes DEF Crash
<1>6. PlaceTypeOK' BY DEF Crash, PlaceTypeOK
<1>7. OtherTypeOK'
  <2>1. budget' \in [{"crash", "db", "send", "late"} -> Nat]
    <3>1. budget["crash"] \in Nat /\ budget["crash"] > 0 BY DEF OtherTypeOK, Crash, Spend
    <3>2. budget' = [budget EXCEPT !["crash"] = budget["crash"] - 1] BY DEF Crash, Spend
    <3>3. budget["crash"] - 1 \in Nat BY <3>1
    <3> QED BY <3>2, <3>3 DEF OtherTypeOK
  <2> QED BY <2>1 DEF Crash, OtherTypeOK
<1> QED BY <1>1, <1>2, <1>3, <1>4, <1>5, <1>6, <1>7

-----------------------------------------------------------------------------
(* FillProvenance, action by action.                                        *)

Inv == ControlTypeOK /\ FillProvenance

LEMMA InitProvenance == Init => FillProvenance
BY DEF Init, FillProvenance, FillsAreBacked, LegsComeAfterOrders, OnlyStoredLegsMove,
       PlacedOnce, WorkerHolds, AtOrder, lookVars, Stored, Items, Callers

(* What a step must touch to disturb each part. *)
LEMMA Undisturbed ==
    /\ FillsAreBacked /\ UNCHANGED <<mTrade, broker, dTrade, applied, dApplied, delivered>>
          => FillsAreBacked'
    /\ LegsComeAfterOrders /\ UNCHANGED <<dStatus, mStatus>> => LegsComeAfterOrders'
    /\ OnlyStoredLegsMove
       /\ UNCHANGED <<mTrade, linked, mStatus, events, broker, dpc, dleg, dStatus>>
          => OnlyStoredLegsMove'
    /\ PlacedOnce /\ UNCHANGED <<ppc, pord, dStatus, wpc, psend, todo>> => PlacedOnce'
    /\ WorkerHolds
       /\ UNCHANGED <<wpc, todo, dStatus, cur, trades, verdict, news, dTrade, trade, mStatus>>
          => WorkerHolds'
BY DEF FillsAreBacked, LegsComeAfterOrders, OnlyStoredLegsMove, PlacedOnce, WorkerHolds, Stored

(* An order that is not accepted yet has no stored leg, so no leg of it is   *)
(* filled, queued or being saved.                                            *)
LEMMA NotAccepted ==
    ASSUME ControlTypeOK, FillProvenance, NEW o \in Orders, dStatus[o] \notin Accepted,
           NEW l \in Legs, l[1] = o
    PROVE  /\ ~Stored(l) /\ l \notin mTrade /\ l \notin dTrade
           /\ \A i \in 1..Len(events) : events[i].leg # l
           /\ dpc # "idle" => dleg # l
BY DEF FillProvenance, FillsAreBacked, LegsComeAfterOrders, OnlyStoredLegsMove

LEMMA PlaceOrderProvenance ==
    ASSUME Inv, NEW o \in Orders, PlaceOrder(o) PROVE FillProvenance'
<1> USE DEF Inv, FillProvenance
<1>1. /\ dStatus \in [Items -> Status] /\ o \in Items /\ dStatus[o] = "absent"
      /\ dStatus' = [dStatus EXCEPT ![o] = "blank"]
  BY DEF PlaceOrder, ControlTypeOK, DbTypeOK, Items
<1>2. \A l \in Legs : l \in Items /\ l # o /\ l[1] \in Items
  BY LegOrder, ConstantsAssumption DEF Items
<1>3. FillsAreBacked' BY Undisturbed DEF PlaceOrder, memVars, pgVars
<1>4. LegsComeAfterOrders'
  BY <1>1, <1>2 DEF PlaceOrder, memVars, LegsComeAfterOrders, Accepted, Ended, Stored
<1>5. OnlyStoredLegsMove'
  BY <1>1, <1>2 DEF PlaceOrder, memVars, drainVars, OnlyStoredLegsMove, Stored, ControlTypeOK, MemTypeOK, DrainTypeOK, Event
<1>6. PlacedOnce'
  BY <1>1, LegsOfType DEF PlaceOrder, MuFree, StartPlacement, PlacedOnce, placeVars, workerVars, lookVars,
     ControlTypeOK, PlaceTypeOK, Callers, Items
<1>7. WorkerHolds'
  BY <1>1, <1>2 DEF PlaceOrder, memVars, workerVars, lookVars, WorkerHolds, AtOrder, Stored, Accepted, Ended
<1> QED BY <1>3, <1>4, <1>5, <1>6, <1>7

LEMMA SendLegProvenance ==
    ASSUME Inv, NEW c \in Callers, SendLeg(c) PROVE FillProvenance'
<1> USE DEF Inv, FillProvenance
<1>1. pord[c] \in Orders /\ dStatus[pord[c]] \notin Accepted
  BY DEF SendLeg, PlacedOnce, Callers, Accepted, Ended
<1>2. PICK l \in psend[c] :
          /\ broker' = [broker EXCEPT ![l] = "pending"]
          /\ psend' = [psend EXCEPT ![c] = @ \ {l}]
          /\ ppc' = IF psend[c] = {l} THEN [ppc EXCEPT ![c] = "commit"] ELSE ppc
  BY DEF SendLeg
<1>3. l \in Legs /\ l[1] = pord[c]
  BY <1>1, LegsOfType DEF PlacedOnce
<1>4. FillsAreBacked'
  BY <1>1, <1>2, <1>3, NotAccepted DEF SendLeg, FillsAreBacked, memVars, dbVars, pgVars,
     ControlTypeOK, BrokerTypeOK, MemTypeOK
<1>5. LegsComeAfterOrders' BY Undisturbed DEF SendLeg, memVars, dbVars
<1>6. OnlyStoredLegsMove'
  BY <1>1, <1>2, <1>3, NotAccepted, Undisturbed DEF SendLeg, OnlyStoredLegsMove, Stored, memVars, dbVars,
     drainVars, ControlTypeOK, BrokerTypeOK
<1>7. PlacedOnce'
  BY <1>2 DEF SendLeg, PlacedOnce, dbVars, workerVars, lookVars, ControlTypeOK, PlaceTypeOK, Callers
<1>8. WorkerHolds' BY Undisturbed DEF SendLeg, memVars, dbVars, workerVars, lookVars
<1> QED BY <1>4, <1>5, <1>6, <1>7, <1>8

LEMMA RejectNewProvenance ==
    ASSUME Inv, NEW o \in Orders, dStatus[o] \notin Accepted, RejectNew(o),
           dStatus' \in {dStatus, [dStatus EXCEPT ![o] = "rejected"]}
    PROVE  /\ LegsComeAfterOrders' /\ WorkerHolds'
           /\ \A l \in Legs : Stored(l) => dStatus'[l] # "absent"
           /\ \A x \in Items : mStatus[x] # "absent" => mStatus'[x] # "absent"
<1> USE DEF Inv, FillProvenance
<1>1. /\ dStatus \in [Items -> Status] /\ mStatus \in [Items -> Status] /\ o \in Items
      /\ mStatus' = [mStatus EXCEPT ![o] = "rejected"]
  BY DEF RejectNew, ControlTypeOK, DbTypeOK, MemTypeOK, Items
<1>2. \A l \in Legs : l \in Items /\ l # o /\ l[1] \in Items
  BY LegOrder, ConstantsAssumption DEF Items
<1>3. \A l \in Legs : dStatus'[l] = dStatus[l] BY <1>1, <1>2
<1>4. LegsComeAfterOrders'
  BY <1>1, <1>2, <1>3 DEF LegsComeAfterOrders, Accepted, Ended, Stored
<1>5. WorkerHolds' BY DEF RejectNew, EndPoll, WorkerHolds, AtOrder, lookVars
<1> QED BY <1>1, <1>3, <1>4, <1>5 DEF Stored

LEMMA SendFailsProvenance ==
    ASSUME Inv, NEW c \in Callers, SendFails(c) PROVE FillProvenance'
<1> USE DEF Inv, FillProvenance
<1> DEFINE o == pord[c]
<1>1. o \in Orders /\ dStatus[o] \notin Accepted
  BY DEF SendFails, PlacedOnce, Callers, Accepted, Ended
<1>2. \A l \in Legs : l \in mTrade => broker'[l] = "filled"
  BY <1>1, LegsOfType, NotAccepted DEF SendFails, Forget, Set, FillsAreBacked, ControlTypeOK, BrokerTypeOK
<1>3. \A l \in Legs : Stored(l) => broker'[l] = broker[l]
  BY <1>1, LegsOfType, NotAccepted DEF SendFails, Forget, Set, ControlTypeOK, BrokerTypeOK
<1>4. UNCHANGED <<mTrade, dTrade, dApplied, applied, linked, delivered, events, dpc, dleg>>
  BY DEF SendFails, RejectNew, memVars, dbVars, pgVars, drainVars
<1>5. FillsAreBacked'
  BY <1>2, <1>4 DEF FillsAreBacked, ControlTypeOK, MemTypeOK
<1>6. /\ LegsComeAfterOrders' /\ WorkerHolds'
      /\ \A l \in Legs : Stored(l) => dStatus'[l] # "absent"
      /\ \A x \in Items : mStatus[x] # "absent" => mStatus'[x] # "absent"
  <2>1. CASE UNCHANGED <<dbVars, memVars, workerVars>>
    BY <2>1, Undisturbed DEF dbVars, memVars, workerVars, lookVars, Stored
  <2>2. CASE /\ c = "worker" /\ RejectNew(o)
             /\ dStatus' \in {dStatus, [dStatus EXCEPT ![o] = "rejected"]}
    BY <2>2, <1>1, RejectNewProvenance
  <2> QED BY <2>1, <2>2 DEF SendFails
<1>7. OnlyStoredLegsMove'
  <2>1. \A l \in mTrade : dStatus'[l] # "absent"
    BY <1>6 DEF OnlyStoredLegsMove, ControlTypeOK, MemTypeOK
  <2>2. \A l \in linked : mStatus'[l[1]] # "absent"
    BY <1>6, LegOrder DEF OnlyStoredLegsMove, ControlTypeOK, MemTypeOK, Items
  <2>3. ASSUME NEW i \in 1..Len(events)
        PROVE  /\ dStatus'[events[i].leg] # "absent"
               /\ events[i].kind = "filled" => broker'[events[i].leg] = "filled"
    <3>1. events[i].leg \in Legs BY EventsType DEF ControlTypeOK
    <3>2. Stored(events[i].leg) BY DEF OnlyStoredLegsMove
    <3>3. events[i].kind = "filled" => broker[events[i].leg] = "filled"
      BY DEF OnlyStoredLegsMove
    <3> QED BY <3>1, <3>2, <3>3, <1>3, <1>6
  <2>4. dpc # "idle" => /\ dleg \in Legs /\ dStatus'[dleg] # "absent"
                        /\ broker'[dleg] = broker[dleg]
    BY <1>3, <1>6 DEF OnlyStoredLegsMove
  <2>5. dpc \in {"saveFill", "saveClose"} => mStatus'[dleg] # "absent"
    BY <1>6, <2>4 DEF OnlyStoredLegsMove, Items
  <2> QED BY <1>4, <2>1, <2>2, <2>3, <2>4, <2>5 DEF OnlyStoredLegsMove, Stored
<1>8. PlacedOnce'
  <2>1. \A p \in Callers : ppc'[p] # "idle" =>
          p # c /\ ppc'[p] = ppc[p] /\ pord'[p] = pord[p] /\ psend'[p] = psend[p]
    BY DEF SendFails, Idle, ControlTypeOK, PlaceTypeOK
  <2>2. \A p \in Callers : psend'[p] # {} => psend'[p] = psend[p] /\ p # c
    BY DEF SendFails, ControlTypeOK, PlaceTypeOK
  <2>3. ppc'["api"] # "idle" => dStatus'[pord["api"]] = "blank"
    <3>1. SUFFICES ASSUME ppc'["api"] # "idle" PROVE dStatus'[pord["api"]] = "blank"
      OBVIOUS
    <3>2. c = "worker" /\ pord["api"] \in Orders /\ dStatus[pord["api"]] = "blank"
      BY <2>1, <3>1 DEF PlacedOnce, Callers
    <3>3. dStatus[pord["worker"]] = "new" BY <3>2 DEF SendFails, PlacedOnce
    <3>4. dStatus' \in {dStatus, [dStatus EXCEPT ![pord["worker"]] = "rejected"]}
      BY <3>2 DEF SendFails
    <3> QED BY <3>2, <3>3, <3>4 DEF ControlTypeOK, DbTypeOK, Items
  <2>4. ppc'["worker"] # "idle" => UNCHANGED <<dbVars, workerVars>>
    BY <2>1 DEF SendFails, Callers
  <2>5. \A p \in Callers : psend'[p] # {} => ppc'[p] = ppc[p] /\ pord'[p] = pord[p]
    BY <2>2 DEF SendFails, Idle, ControlTypeOK, PlaceTypeOK
  <2> QED BY <2>1, <2>2, <2>3, <2>4, <2>5 DEF PlacedOnce, Callers, dbVars, workerVars, lookVars
<1> QED BY <1>5, <1>6, <1>7, <1>8

(* A placement that ends writes rows of its own order only, so that the      *)
(* other caller's order and what the worker has fetched stand as they were.  *)
LEMMA EndOfPlacement ==
    ASSUME Inv, NEW c \in Callers, ppc[c] # "idle", psend[c] = {}, Idle(c), UNCHANGED psend,
           dStatus' \in [Items -> Status],
           \A x \in Orders : x # pord[c] => dStatus'[x] = dStatus[x],
           \A l \in Legs : Stored(l) => dStatus'[l] # "absent",
           UNCHANGED workerVars \/ (c = "worker" /\ EndPoll),
           \A x \in Items : mStatus[x] # "absent" => mStatus'[x] # "absent",
           UNCHANGED dTrade
    PROVE  PlacedOnce' /\ WorkerHolds'
<1> USE DEF Inv, FillProvenance
<1> DEFINE o == pord[c]
<1>1. o \in Orders /\ dStatus[o] \notin Accepted
  BY DEF PlacedOnce, Callers, Accepted, Ended
<1>2. \A p \in Callers : ppc'[p] # "idle" => p # c /\ ppc'[p] = ppc[p]
  BY DEF Idle, ControlTypeOK, PlaceTypeOK
<1>3. \A p \in Callers : p # c => ppc'[p] = ppc[p] /\ pord'[p] = pord[p]
  BY DEF Idle, ControlTypeOK, PlaceTypeOK
<1>4. PlacedOnce'
  <2>1. \A p \in Callers : ppc'[p] # "idle" => pord'[p] \in Orders BY <1>2, <1>3 DEF PlacedOnce
  <2>2. ppc'["api"] # "idle" => dStatus'[pord'["api"]] = "blank"
    BY <1>2, <1>3 DEF PlacedOnce, Callers
  <2>3. ppc'["worker"] # "idle" =>
          wpc' = "new" /\ dStatus'[pord'["worker"]] = "new" /\ pord'["worker"] \notin todo'
    BY <1>2, <1>3 DEF PlacedOnce, Callers, workerVars, lookVars
  <2>4. \A p \in Callers : psend'[p] # {} =>
          ppc'[p] = "send" /\ psend'[p] \subseteq LegsOf(pord'[p])
    BY <1>3 DEF PlacedOnce
  <2> QED BY <2>1, <2>2, <2>3, <2>4 DEF PlacedOnce
<1>5. WorkerHolds'
  <2>1. CASE EndPoll BY <2>1 DEF EndPoll, WorkerHolds, AtOrder
  <2>2. CASE UNCHANGED workerVars
    <3>1. wpc = "legs" => todo \subseteq {l \in Legs : dStatus'[l] # "absent"}
      BY DEF WorkerHolds
    <3>2. wpc \in {"orders"} \cup AtOrder =>
            todo \subseteq {x \in Orders : dStatus'[x] \in Accepted}
      BY <1>1 DEF WorkerHolds
    <3>3. wpc = "new" => todo \subseteq {x \in Orders : dStatus'[x] = "new"}
      BY <1>1 DEF WorkerHolds, PlacedOnce, Callers
    <3>4. wpc = "save" => mStatus'[cur] # "absent" BY DEF WorkerHolds, AtOrder, Items
    <3> QED BY <2>2, <3>1, <3>2, <3>3, <3>4 DEF WorkerHolds, Stored, workerVars, lookVars
  <2> QED BY <2>1, <2>2
<1> QED BY <1>4, <1>5

LEMMA CommitPlacedProvenance ==
    ASSUME Inv, NEW c \in Callers, CommitPlaced(c) PROVE FillProvenance'
<1> USE DEF Inv, FillProvenance
<1> DEFINE o == pord[c]
           legs == {l \in LegsOf(o) : legQty[l] # 0}
<1>1. o \in Orders /\ o \in Items /\ dStatus[o] \notin Accepted
  BY DEF CommitPlaced, PlacedOnce, Callers, Accepted, Ended, Items
<1>2. legs \subseteq Legs /\ \A l \in legs : l[1] = o BY <1>1, LegsOfType
<1>3. /\ dStatus \in [Items -> Status] /\ mStatus \in [Items -> Status]
      /\ mStatus' = Set(mStatus, {o} \cup legs, "pending")
      /\ dStatus' \in {dStatus, Set(dStatus, {o} \cup legs, "pending")}
      /\ linked' = linked \cup legs
  BY DEF CommitPlaced, CommitSaved, ControlTypeOK, DbTypeOK, MemTypeOK
<1> HIDE DEF legs
<1>4. UNCHANGED <<mTrade, broker, dTrade, applied, dApplied, delivered, events, dpc, dleg>>
  BY DEF CommitPlaced, brokerVars, drainVars, pgVars
<1>5. \A l \in Legs : l \in Items /\ l \notin Orders /\ l[1] \in Items
  BY LegOrder, ConstantsAssumption DEF Items
<1>6. /\ \A x \in Items : mStatus'[x] = IF x \in {o} \cup legs THEN "pending" ELSE mStatus[x]
      /\ \A x \in Items : dStatus'[x] # dStatus[x] =>
              x \in {o} \cup legs /\ dStatus'[x] = "pending" /\ dStatus'[o] = "pending"
  BY <1>1, <1>2, <1>3 DEF Set
<1>7. FillsAreBacked' BY <1>4, Undisturbed
<1>8. LegsComeAfterOrders'
  <2> SUFFICES ASSUME NEW l \in Legs, dStatus'[l] # "absent"
               PROVE  dStatus'[l[1]] \in Accepted /\ mStatus'[l[1]] \in Accepted \cup {"absent"}
    BY DEF LegsComeAfterOrders, Stored
  <2>1. CASE Stored(l)
    BY <2>1, <1>5, <1>6 DEF LegsComeAfterOrders, Accepted
  <2>2. CASE ~Stored(l)
    BY <2>2, <1>2, <1>5, <1>6, <1>1 DEF Stored, Accepted
  <2> QED BY <2>1, <2>2
<1>9. OnlyStoredLegsMove'
  <2>1. \A l \in Legs : Stored(l) => dStatus'[l] # "absent" BY <1>5, <1>6 DEF Stored
  <2>2. \A l \in linked' : mStatus'[l[1]] # "absent"
    BY <1>2, <1>3, <1>5, <1>6, <1>1 DEF OnlyStoredLegsMove, ControlTypeOK, MemTypeOK
  <2>3. \A i \in 1..Len(events) : events[i].leg \in Legs BY EventsType DEF ControlTypeOK
  <2>4. dpc \in {"saveFill", "saveClose"} => mStatus'[dleg] # "absent"
    BY <1>5, <1>6 DEF OnlyStoredLegsMove
  <2> QED BY <1>4, <2>1, <2>2, <2>3, <2>4 DEF OnlyStoredLegsMove, Stored, ControlTypeOK, MemTypeOK
<1>10. PlacedOnce' /\ WorkerHolds'
  <2>1. \A l \in Legs : Stored(l) => dStatus'[l] # "absent" BY <1>5, <1>6 DEF Stored
  <2>2. \A x \in Orders : x # o => dStatus'[x] = dStatus[x]
    BY <1>2, <1>5, <1>6 DEF Items
  <2>3. \A x \in Items : mStatus[x] # "absent" => mStatus'[x] # "absent" BY <1>6
  <2>4. dStatus' \in [Items -> Status] BY CommitPlacedType DEF ControlTypeOK, DbTypeOK
  <2>5. ppc[c] # "idle" /\ psend[c] = {} BY DEF CommitPlaced, PlacedOnce
  <2>6. /\ Idle(c) /\ UNCHANGED psend /\ UNCHANGED dTrade
        /\ UNCHANGED workerVars \/ (c = "worker" /\ EndPoll)
    BY DEF CommitPlaced, CommitSaved
  <2> QED BY <2>1, <2>2, <2>3, <2>4, <2>5, <2>6, EndOfPlacement
<1> QED BY <1>7, <1>8, <1>9, <1>10

LEMMA CommitQueuedProvenance ==
    ASSUME Inv, NEW c \in Callers, CommitQueued(c) PROVE FillProvenance'
<1> USE DEF Inv, FillProvenance
<1> DEFINE o == pord[c]
<1>1. o \in Orders /\ o \in Items /\ dStatus[o] \notin Accepted
  BY DEF CommitQueued, PlacedOnce, Callers, Accepted, Ended, Items
<1>2. \A l \in Legs : l \in Items /\ l # o /\ l[1] \in Items
  BY <1>1, LegOrder, ConstantsAssumption DEF Items
<1>3. /\ \A x \in Items : x # o => mStatus'[x] = mStatus[x] /\ dStatus'[x] = dStatus[x]
      /\ mStatus'[o] \in {mStatus[o], "new"}
  BY <1>1 DEF CommitQueued, CommitSaved, Set, ControlTypeOK, DbTypeOK, MemTypeOK
<1>4. UNCHANGED <<mTrade, broker, dTrade, applied, dApplied, delivered, linked, events, dpc, dleg>>
  BY DEF CommitQueued, brokerVars, drainVars, pgVars
<1>5. \A x \in Items : mStatus[x] # "absent" => mStatus'[x] # "absent" BY <1>3
<1>6. FillsAreBacked' BY <1>4, Undisturbed
<1>7. LegsComeAfterOrders'
  BY <1>1, <1>2, <1>3 DEF LegsComeAfterOrders, Stored
<1>8. OnlyStoredLegsMove'
  <2>1. \A l \in linked : mStatus'[l[1]] # "absent"
    BY <1>2, <1>5 DEF OnlyStoredLegsMove, ControlTypeOK, MemTypeOK
  <2>2. \A i \in 1..Len(events) : events[i].leg \in Legs BY EventsType DEF ControlTypeOK
  <2> QED BY <1>2, <1>3, <1>4, <2>1, <2>2 DEF OnlyStoredLegsMove, Stored, ControlTypeOK, MemTypeOK
<1>9. PlacedOnce' /\ WorkerHolds'
  <2>1. \A l \in Legs : Stored(l) => dStatus'[l] # "absent" BY <1>2, <1>3 DEF Stored
  <2>2. \A x \in Orders : x # o => dStatus'[x] = dStatus[x] BY <1>3 DEF Items
  <2>3. dStatus' \in [Items -> Status] BY CommitQueuedType DEF ControlTypeOK, DbTypeOK
  <2>4. ppc[c] # "idle" /\ psend[c] = {} BY DEF CommitQueued, PlacedOnce
  <2>5. /\ Idle(c) /\ UNCHANGED psend /\ UNCHANGED dTrade
        /\ UNCHANGED workerVars \/ (c = "worker" /\ EndPoll)
    BY DEF CommitQueued, CommitSaved
  <2> QED BY <1>5, <2>1, <2>2, <2>3, <2>4, <2>5, EndOfPlacement
<1> QED BY <1>6, <1>7, <1>8, <1>9

LEMMA FetchProvenance ==
    ASSUME Inv, StartPoll \/ FetchPending \/ FetchNew \/ FinishPoll
    PROVE  FillProvenance'
<1> USE DEF Inv, FillProvenance
<1>1. FillsAreBacked' /\ LegsComeAfterOrders' /\ OnlyStoredLegsMove'
  BY Undisturbed DEF StartPoll, FetchPending, FetchNew, FinishPoll, dbVars, memVars, brokerVars, drainVars, pgVars
<1>2. PlacedOnce'
  BY DEF StartPoll, FetchPending, FetchNew, FinishPoll, PlacedOnce, dbVars, placeVars, Callers
<1>3. WorkerHolds'
  BY DEF StartPoll, FetchPending, FetchNew, FinishPoll, EndPoll, WorkerHolds, AtOrder, lookVars, dbVars, memVars,
         Stored, Accepted
<1> QED BY <1>1, <1>2, <1>3

LEMMA PollLegProvenance ==
    ASSUME Inv, NEW l \in Legs, PollLeg(l) PROVE FillProvenance'
<1> USE DEF Inv, FillProvenance
<1>1. FillsAreBacked' /\ LegsComeAfterOrders'
  BY Undisturbed DEF PollLeg, dbVars, memVars, brokerVars, pgVars
<1>2. PlacedOnce' BY DEF PollLeg, PlacedOnce, dbVars, placeVars
<1>3. WorkerHolds' BY DEF PollLeg, WorkerHolds, AtOrder, lookVars, Stored, dbVars, memVars
<1>4. OnlyStoredLegsMove'
  <2>1. UNCHANGED <<mTrade, linked, mStatus, broker, dpc, dleg, dStatus>>
    BY DEF PollLeg, dbVars, memVars, brokerVars, drainVars
  <2>2. CASE UNCHANGED events BY <2>1, <2>2, Undisturbed
  <2>3. CASE broker[l] \in Ended /\ events' = Append(events, [leg |-> l, kind |-> broker[l]])
    <3> DEFINE e == [leg |-> l, kind |-> broker[l]]
    <3>1. e \in Event /\ e.leg = l /\ e.kind = broker[l] BY <2>3 DEF Event
    <3>2. Stored(l) BY DEF PollLeg, WorkerHolds, AtOrder, lookVars
    <3>3. /\ Len(events') = Len(events) + 1 /\ Len(events) \in Nat
          /\ \A i \in 1..Len(events) : events'[i] = events[i]
          /\ events'[Len(events) + 1] = e
      BY <2>3, <3>1, AppendProperties, LenProperties DEF ControlTypeOK, DrainTypeOK
    <3> HIDE DEF e
    <3>4. ASSUME NEW i \in 1..Len(events')
          PROVE  /\ dStatus[events'[i].leg] # "absent"
                 /\ events'[i].kind = "filled" => broker[events'[i].leg] = "filled"
      <4>1. CASE i = Len(events) + 1 BY <4>1, <3>1, <3>2, <3>3 DEF Stored
      <4>2. CASE i \in 1..Len(events) BY <4>2, <3>3 DEF OnlyStoredLegsMove, Stored
      <4> QED BY <4>1, <4>2, <3>3
    <3> QED BY <2>1, <3>4 DEF OnlyStoredLegsMove, Stored
  <2> QED BY <2>2, <2>3 DEF PollLeg, Reportable
<1> QED BY <1>1, <1>2, <1>3, <1>4

(* Taking the first event leaves a queue of events that were there before.   *)
LEMMA Dequeued ==
    ASSUME ControlTypeOK, OnlyStoredLegsMove, events # <<>>
    PROVE  /\ Head(events).leg \in Legs /\ Stored(Head(events).leg)
           /\ Head(events).kind = "filled" => broker[Head(events).leg] = "filled"
           /\ \A i \in 1..Len(Tail(events)) :
                 /\ Tail(events)[i].leg \in Legs /\ dStatus[Tail(events)[i].leg] # "absent"
                 /\ Tail(events)[i].kind = "filled" => broker[Tail(events)[i].leg] = "filled"
<1>1. DrainTypeOK BY DEF ControlTypeOK
<1>2. \A i \in 1..Len(Tail(events)) :
        i + 1 \in 1..Len(events) /\ Tail(events)[i] = events[i + 1]
  BY <1>1, EventType
<1>3. Head(events).leg \in Legs /\ 1 \in 1..Len(events) /\ Head(events) = events[1]
  BY <1>1, EventType
<1>4. \A i \in 1..Len(events) :
        /\ events[i].leg \in Legs /\ dStatus[events[i].leg] # "absent"
        /\ events[i].kind = "filled" => broker[events[i].leg] = "filled"
  BY <1>1, EventsType DEF OnlyStoredLegsMove, Stored
<1> QED BY <1>2, <1>3, <1>4 DEF Stored

(* Rows of accepted orders and of legs may be rewritten with an accepted     *)
(* status without disturbing a placement or what the worker has fetched.     *)
LEMMA AcceptedRewrite ==
    ASSUME Inv, UNCHANGED <<wpc, todo, cur, trades, verdict, news, dTrade, trade, ppc, pord, psend>>,
           \A x \in Orders : dStatus'[x] = dStatus[x]
                              \/ (dStatus[x] \in Accepted /\ dStatus'[x] \in Accepted),
           \A l \in Legs : Stored(l) => dStatus'[l] # "absent",
           \A x \in Items : mStatus[x] # "absent" => mStatus'[x] # "absent"
    PROVE  PlacedOnce' /\ WorkerHolds'
<1> USE DEF Inv, FillProvenance
<1>1. PlacedOnce' BY DEF PlacedOnce, Callers, Accepted, Ended
<1>2. wpc = "legs" => todo \subseteq {l \in Legs : dStatus'[l] # "absent"} BY DEF WorkerHolds
<1>3. wpc \in {"orders"} \cup AtOrder => todo \subseteq {x \in Orders : dStatus'[x] \in Accepted}
  BY DEF WorkerHolds
<1>4. wpc = "new" => todo \subseteq {x \in Orders : dStatus'[x] = "new"}
  BY DEF WorkerHolds, Accepted, Ended
<1>5. wpc = "save" => mStatus'[cur] # "absent" BY DEF WorkerHolds, AtOrder, Items
<1>6. WorkerHolds' BY <1>2, <1>3, <1>4, <1>5 DEF WorkerHolds, Stored
<1> QED BY <1>1, <1>6

(* The fill of a stored leg the broker has filled, at once or after a reset. *)
LEMMA CommitFillProvenance ==
    ASSUME Inv, NEW l \in Legs, Stored(l), broker[l] = "filled", CommitFill(l),
           UNCHANGED <<dStatus, dTrade, dApplied, applied, linked, broker, delivered,
                       wpc, todo, cur, trades, verdict, news, trade, ppc, pord, psend>>,
           \A i \in 1..Len(events') :
              /\ Stored(events'[i].leg)
              /\ events'[i].kind = "filled" => broker[events'[i].leg] = "filled"
    PROVE  FillProvenance'
<1> USE DEF Inv, FillProvenance
<1>1. /\ l \in Items /\ mStatus \in [Items -> Status] /\ Orders \cap Legs = {}
      /\ \A k \in Legs : k \in Items /\ k[1] \in Items /\ k[1] \in Orders
  BY LegOrder, ConstantsAssumption DEF Items, ControlTypeOK, MemTypeOK
<1>2. /\ mTrade' = mTrade \cup {l} /\ dpc' = "saveFill" /\ dleg' = l
      /\ mStatus' = [mStatus EXCEPT ![l] = "filled"]
  BY DEF CommitFill, FillLeg
<1>3. FillsAreBacked' BY <1>2 DEF FillsAreBacked
<1>4. /\ \A x \in Items : mStatus[x] # "absent" => mStatus'[x] # "absent"
      /\ \A k \in Legs : mStatus'[k[1]] = mStatus[k[1]]
  BY <1>1, <1>2
<1>5. LegsComeAfterOrders' BY <1>4 DEF LegsComeAfterOrders, Stored
<1>6. OnlyStoredLegsMove'
  <2>1. \A k \in mTrade' : dStatus[k] # "absent" BY <1>2 DEF OnlyStoredLegsMove, Stored
  <2>2. \A k \in linked : mStatus'[k[1]] # "absent"
    BY <1>4 DEF OnlyStoredLegsMove, ControlTypeOK, MemTypeOK
  <2>3. mStatus'[l] # "absent" BY <1>1, <1>2
  <2> QED BY <1>2, <2>1, <2>2, <2>3 DEF OnlyStoredLegsMove, Stored
<1>7. PlacedOnce' /\ WorkerHolds'
  BY <1>4, AcceptedRewrite, Zenon DEF Stored
<1> QED BY <1>3, <1>5, <1>6, <1>7

LEMMA DrainFillProvenance ==
    ASSUME Inv, DrainFill PROVE FillProvenance'
<1> USE DEF Inv, FillProvenance
<1> DEFINE l == Head(events).leg
           q == Tail(events)
<1>1. events # <<>> /\ Head(events).kind = "filled" /\ events' = q
  BY DEF DrainFill
<1>2. l \in Legs /\ Stored(l) /\ broker[l] = "filled" BY <1>1, Dequeued
<1>3. \A i \in 1..Len(q) :
        /\ q[i].leg \in Legs /\ Stored(q[i].leg)
        /\ q[i].kind = "filled" => broker[q[i].leg] = "filled"
  BY <1>1, Dequeued DEF Stored
<1>4. UNCHANGED <<dStatus, dTrade, dApplied, applied, linked, broker, delivered,
                  wpc, todo, cur, trades, verdict, news, trade, ppc, pord, psend>>
  BY DEF DrainFill, dbVars, brokerVars, workerVars, lookVars, placeVars, pgVars
<1>5. \/ CommitFill(l)
      \/ /\ UNCHANGED <<mStatus, mTrade>>
         /\ (UNCHANGED <<dpc, dleg>>) \/ (dpc' = "resetLeg" /\ dleg' = l)
  BY DEF DrainFill, drainVars
<1> HIDE DEF l, q
<1>6. CASE CommitFill(l) BY <1>1, <1>2, <1>3, <1>4, <1>6, CommitFillProvenance
<1>7. CASE /\ UNCHANGED <<mStatus, mTrade>>
           /\ (UNCHANGED <<dpc, dleg>>) \/ (dpc' = "resetLeg" /\ dleg' = l)
  <2>1. FillsAreBacked' /\ LegsComeAfterOrders' /\ PlacedOnce' /\ WorkerHolds'
    BY <1>4, <1>7, Undisturbed
  <2>2. OnlyStoredLegsMove'
    BY <1>1, <1>2, <1>3, <1>4, <1>7 DEF OnlyStoredLegsMove, Stored
  <2> QED BY <2>1, <2>2
<1> QED BY <1>5, <1>6, <1>7

LEMMA ResetRowProvenance ==
    ASSUME Inv, ResetRow PROVE FillProvenance'
<1> USE DEF Inv, FillProvenance
<1>1. /\ dleg \in Legs /\ Stored(dleg) /\ broker[dleg] = "filled"
      /\ dleg \in Items /\ dleg[1] \in Items /\ dStatus[dleg[1]] \in Accepted
      /\ dStatus \in [Items -> Status] /\ Orders \cap Legs = {}
      /\ \A k \in Legs : k \in Items /\ k[1] \in Items /\ k[1] \in Orders
  BY LegOrder, ConstantsAssumption DEF ResetRow, OnlyStoredLegsMove, LegsComeAfterOrders,
     Items, ControlTypeOK, DbTypeOK
<1>2. UNCHANGED <<dTrade, dApplied, mStatus, mTrade, applied, linked, broker, delivered, events,
                  wpc, todo, cur, trades, verdict, news, trade, ppc, pord, psend>>
  BY DEF ResetRow, brokerVars, workerVars, lookVars, placeVars, pgVars
<1>3. \A x \in Items : \/ dStatus'[x] = dStatus[x]
                       \/ x \in {dleg, dleg[1]} /\ dStatus'[x] = "pending"
  BY <1>1 DEF ResetRow
<1>4. dpc' = "idle" \/ (dpc' \in {"resetOrder", "reset"} /\ dleg' = dleg)
  BY DEF ResetRow
<1>5. FillsAreBacked' BY <1>2, Undisturbed
<1>6. \A k \in Legs : dStatus'[k] # "absent" <=> Stored(k)
  BY <1>1, <1>3 DEF Stored
<1>7. LegsComeAfterOrders'
  BY <1>1, <1>2, <1>3, <1>6 DEF LegsComeAfterOrders, Stored, Accepted
<1>8. OnlyStoredLegsMove'
  <2>1. \A k \in mTrade : dStatus'[k] # "absent"
    BY <1>6 DEF OnlyStoredLegsMove, ControlTypeOK, MemTypeOK
  <2>2. \A i \in 1..Len(events) : dStatus'[events[i].leg] # "absent"
    BY <1>6, EventsType DEF OnlyStoredLegsMove, ControlTypeOK
  <2> QED BY <1>1, <1>2, <1>4, <1>6, <2>1, <2>2 DEF OnlyStoredLegsMove, Stored
<1>9. PlacedOnce' /\ WorkerHolds'
  <2>1. \A x \in Orders : dStatus'[x] = dStatus[x]
                            \/ (dStatus[x] \in Accepted /\ dStatus'[x] \in Accepted)
    BY <1>1, <1>3 DEF Accepted, Items
  <2> QED BY <1>2, <1>6, <2>1, AcceptedRewrite
<1> QED BY <1>5, <1>7, <1>8, <1>9

LEMMA ResetRecordsProvenance ==
    ASSUME Inv, ResetRecords PROVE FillProvenance'
<1> USE DEF Inv, FillProvenance
<1>1. /\ dleg \in Legs /\ Stored(dleg) /\ broker[dleg] = "filled"
      /\ dleg \in Items /\ dleg[1] \in Items /\ mStatus \in [Items -> Status]
      /\ \A k \in Legs : k \in Items /\ k[1] \in Items
  BY LegOrder DEF ResetRecords, OnlyStoredLegsMove, Items, ControlTypeOK, MemTypeOK
<1>2. UNCHANGED <<dStatus, dTrade, dApplied, mTrade, applied, broker, delivered, events, dleg,
                  wpc, todo, cur, trades, verdict, news, trade, ppc, pord, psend>>
  BY DEF ResetRecords, dbVars, brokerVars, workerVars, lookVars, placeVars, pgVars
<1>3. \A x \in Items : mStatus'[x] = IF x \in {dleg, dleg[1]} THEN "pending" ELSE mStatus[x]
  BY <1>1 DEF ResetRecords, Set
<1>4. \A k \in linked' : k = dleg \/ k \in linked BY DEF ResetRecords
<1>5. FillsAreBacked' BY <1>2, Undisturbed
<1>6. LegsComeAfterOrders'
  BY <1>1, <1>2, <1>3 DEF LegsComeAfterOrders, Stored, Accepted
<1>7. OnlyStoredLegsMove'
  <2>1. \A k \in linked' : mStatus'[k[1]] # "absent"
    BY <1>1, <1>3, <1>4 DEF OnlyStoredLegsMove, ControlTypeOK, MemTypeOK
  <2>2. dpc' = "fill" BY DEF ResetRecords
  <2> QED BY <1>1, <1>2, <2>1, <2>2 DEF OnlyStoredLegsMove, Stored
<1>8. PlacedOnce' /\ WorkerHolds'
  <2>1. \A x \in Items : mStatus[x] # "absent" => mStatus'[x] # "absent" BY <1>3
  <2> QED BY <1>2, <2>1, AcceptedRewrite DEF Stored
<1> QED BY <1>5, <1>6, <1>7, <1>8

LEMMA FillAfterResetProvenance ==
    ASSUME Inv, FillAfterReset PROVE FillProvenance'
<1>1. dleg \in Legs /\ Stored(dleg) /\ broker[dleg] = "filled"
  BY DEF FillAfterReset, Inv, FillProvenance, OnlyStoredLegsMove
<1>2. /\ CommitFill(dleg) /\ UNCHANGED events
      /\ UNCHANGED <<dStatus, dTrade, dApplied, applied, linked, broker, delivered,
                     wpc, todo, cur, trades, verdict, news, trade, ppc, pord, psend>>
  BY DEF FillAfterReset, dbVars, brokerVars, workerVars, lookVars, placeVars, pgVars
<1>3. \A i \in 1..Len(events') :
         /\ Stored(events'[i].leg)
         /\ events'[i].kind = "filled" => broker[events'[i].leg] = "filled"
  BY <1>2 DEF Inv, FillProvenance, OnlyStoredLegsMove
<1> QED BY <1>1, <1>2, <1>3, CommitFillProvenance

LEMMA DrainSkipProvenance == Inv /\ DrainSkip => FillProvenance'
<1> SUFFICES ASSUME Inv, DrainSkip PROVE FillProvenance'
  OBVIOUS
<1> USE DEF Inv, FillProvenance
<1>1. FillsAreBacked' /\ LegsComeAfterOrders' /\ PlacedOnce' /\ WorkerHolds'
  BY Undisturbed DEF DrainSkip, dbVars, memVars, brokerVars, workerVars, lookVars, placeVars, pgVars
<1>2. OnlyStoredLegsMove'
  BY Dequeued DEF DrainSkip, OnlyStoredLegsMove, Stored, dbVars, memVars, brokerVars, drainVars
<1> QED BY <1>1, <1>2

LEMMA DrainCloseProvenance ==
    ASSUME Inv, DrainClose PROVE FillProvenance'
<1> USE DEF Inv, FillProvenance
<1> DEFINE l == Head(events).leg
           o == l[1]
           kind == Head(events).kind
           q == Tail(events)
<1>1. /\ events # <<>> /\ kind \in {"rejected", "canceled"} /\ events' = q
      /\ UNCHANGED <<dTrade, mTrade, applied, broker, delivered,
                     wpc, todo, cur, trades, verdict, news, trade, ppc, pord, psend>>
  BY DEF DrainClose, brokerVars, workerVars, lookVars, placeVars, pgVars
<1>2. l \in Legs /\ Stored(l) BY <1>1, Dequeued
<1>3. \A i \in 1..Len(q) :
        /\ q[i].leg \in Legs /\ dStatus[q[i].leg] # "absent"
        /\ q[i].kind = "filled" => broker[q[i].leg] = "filled"
  BY <1>1, Dequeued
<1>4. /\ o \in Orders /\ o \in Items /\ l \in Items /\ dStatus[o] \in Accepted
      /\ mStatus[o] \in Accepted \cup {"absent"} /\ Orders \cap Legs = {}
      /\ \A k \in Legs : k \in Items /\ k[1] \in Items /\ k[1] \in Orders
  BY <1>2, LegOrder, ConstantsAssumption DEF LegsComeAfterOrders, Items
<1>5. dStatus \in [Items -> Status] /\ mStatus \in [Items -> Status]
  BY DEF ControlTypeOK, DbTypeOK, MemTypeOK
<1>6. \A k \in linked : mStatus[k[1]] # "absent" BY DEF OnlyStoredLegsMove
<1>7. /\ \A x \in Items : dStatus'[x] = dStatus[x] \/ (x = o /\ dStatus'[x] \in Accepted)
      /\ \A x \in Items : mStatus'[x] = mStatus[x] \/ (x \in {l, o} /\ mStatus'[x] = kind)
      /\ \A k \in linked' : k \in linked \/ (k = l /\ mStatus'[o] = kind)
      /\ dApplied' \subseteq dApplied \cup {t \in Legs : applied[t] > 0}
      /\ (UNCHANGED <<dpc, dleg>>) \/ (dpc' = "saveClose" /\ dleg' = l /\ mStatus'[l] = kind)
  <2>1. dStatus' = dStatus \/ (l \in linked /\ dStatus' = [dStatus EXCEPT ![o] = mStatus[o]])
    BY DEF DrainClose, CloseRows
  <2>2. \A x \in Items : dStatus'[x] = dStatus[x] \/ (x = o /\ dStatus'[x] \in Accepted)
    BY <2>1, <1>4, <1>5, <1>6
  <2>3. dApplied' \subseteq dApplied \cup {t \in Legs : applied[t] > 0}
    BY <1>4, LegsOfType DEF DrainClose, CloseRows
  <2>4. ASSUME NEW S \in SUBSET {l, o}, CloseRecords(l, kind, S)
        PROVE  /\ \A x \in Items : mStatus'[x] = mStatus[x] \/ (x \in {l, o} /\ mStatus'[x] = kind)
               /\ \A k \in linked' : k \in linked \/ (k = l /\ mStatus'[o] = kind)
               /\ l \in S => mStatus'[l] = kind
    <3>1. l # o BY <1>2, <1>4
    <3>2. PICK C \in SUBSET S : /\ mStatus' = Set(mStatus, C, kind)
                                /\ linked' = IF l \notin linked /\ o \in C
                                             THEN (linked \ LegsOf(o)) \cup {l} ELSE linked
                                /\ l \in S => l \in C
      BY <2>4, <3>1 DEF CloseRecords
    <3> QED BY <3>2, <1>4, <1>5 DEF Set
  <2>5. \/ /\ CloseRecords(l, kind, {l, o}) /\ dpc' = "saveClose" /\ dleg' = l
        \/ /\ \E S \in SUBSET {l, o} : CloseRecords(l, kind, S)
           /\ UNCHANGED <<dpc, dleg>>
        \/ /\ UNCHANGED <<mStatus, linked>>
           /\ (UNCHANGED <<dpc, dleg>>) \/ (mStatus[l] = kind /\ dpc' = "saveClose" /\ dleg' = l)
    <3>1. {{}, {o}, {l, o}} \subseteq SUBSET {l, o} OBVIOUS
    <3> QED BY <3>1 DEF DrainClose, drainVars
  <2> QED BY <2>2, <2>3, <2>4, <2>5
<1> HIDE DEF l, o, kind, q
<1>8. FillsAreBacked' BY <1>1, <1>7 DEF FillsAreBacked
<1>9. \A k \in Legs : dStatus'[k] # "absent" <=> Stored(k)
  BY <1>4, <1>7 DEF Stored
<1>10. \A x \in Items : mStatus[x] # "absent" => mStatus'[x] # "absent" BY <1>1, <1>7
<1>11. LegsComeAfterOrders'
  BY <1>1, <1>4, <1>7, <1>9 DEF LegsComeAfterOrders, Stored, Accepted, Ended
<1>12. OnlyStoredLegsMove'
  <2>1. \A k \in mTrade' : dStatus'[k] # "absent"
    BY <1>1, <1>9 DEF OnlyStoredLegsMove, ControlTypeOK, MemTypeOK
  <2>2. \A k \in linked' : mStatus'[k[1]] # "absent"
    <3>1. l[1] = o BY DEF o
    <3> QED BY <1>1, <1>4, <1>6, <1>7, <1>10, <3>1 DEF ControlTypeOK, MemTypeOK
  <2>3. \A i \in 1..Len(q) : dStatus'[q[i].leg] # "absent" BY <1>3, <1>9 DEF Stored
  <2>4. dpc' # "idle" => dleg' \in Legs /\ dStatus'[dleg'] # "absent"
    BY <1>1, <1>2, <1>4, <1>7, <1>9 DEF OnlyStoredLegsMove
  <2>5. dpc' \in {"saveFill", "saveClose"} => mStatus'[dleg'] # "absent"
    <3>1. kind # "absent" BY <1>1
    <3>2. dpc # "idle" => dleg \in Items BY DEF OnlyStoredLegsMove, Items
    <3> QED BY <1>7, <1>10, <3>1, <3>2 DEF OnlyStoredLegsMove
  <2>6. dpc' \in {"resetLeg", "resetOrder", "reset", "fill"} => broker[dleg'] = "filled"
    BY <1>7 DEF OnlyStoredLegsMove
  <2> QED BY <1>1, <1>3, <2>1, <2>2, <2>3, <2>4, <2>5, <2>6 DEF OnlyStoredLegsMove, Stored
<1>13. PlacedOnce' /\ WorkerHolds'
  <2>1. \A x \in Orders : dStatus'[x] = dStatus[x]
                            \/ (dStatus[x] \in Accepted /\ dStatus'[x] \in Accepted)
    BY <1>4, <1>7 DEF Items
  <2>2. \A k \in Legs : Stored(k) => dStatus'[k] # "absent" BY <1>9
  <2> QED BY <1>1, <1>10, <2>1, <2>2, AcceptedRewrite
<1> QED BY <1>8, <1>11, <1>12, <1>13

LEMMA DrainSaveProvenance ==
    ASSUME Inv, DrainSave PROVE FillProvenance'
<1> USE DEF Inv, FillProvenance
<1>1. /\ dleg \in Legs /\ dleg \in Items /\ mStatus[dleg] # "absent" /\ Stored(dleg)
      /\ dStatus \in [Items -> Status] /\ Orders \cap Legs = {}
      /\ \A k \in Legs : k[1] \in Orders /\ k \in Items
  BY LegOrder, ConstantsAssumption DEF DrainSave, OnlyStoredLegsMove, Items, ControlTypeOK, DbTypeOK
<1>2. /\ UNCHANGED <<mTrade, applied, dApplied, delivered, broker, mStatus, linked, events,
                     wpc, todo, cur, trades, verdict, news, trade, ppc, pord, psend>>
      /\ dpc' = "idle"
      /\ dTrade \subseteq dTrade' /\ dTrade' \subseteq dTrade \cup mTrade
      /\ \A x \in Items : dStatus'[x] = dStatus[x] \/ (x = dleg /\ dStatus'[x] # "absent")
  BY <1>1 DEF DrainSave, brokerVars, workerVars, lookVars, placeVars, pgVars
<1>3. FillsAreBacked' BY <1>2 DEF FillsAreBacked
<1>4. /\ \A k \in Legs : dStatus'[k] # "absent" <=> Stored(k)
      /\ \A x \in Orders : dStatus'[x] = dStatus[x]
  BY <1>1, <1>2 DEF Stored, Items
<1>5. LegsComeAfterOrders' BY <1>1, <1>2, <1>4 DEF LegsComeAfterOrders, Stored
<1>6. OnlyStoredLegsMove'
  <2>1. \A k \in mTrade : dStatus'[k] # "absent"
    BY <1>4 DEF OnlyStoredLegsMove, ControlTypeOK, MemTypeOK
  <2>2. \A i \in 1..Len(events) : events[i].leg \in Legs /\ dStatus'[events[i].leg] # "absent"
    BY <1>4, EventsType DEF OnlyStoredLegsMove, ControlTypeOK
  <2> QED BY <1>2, <2>1, <2>2 DEF OnlyStoredLegsMove, Stored
<1>7. PlacedOnce' BY <1>2, <1>4 DEF PlacedOnce, Callers
<1>8. WorkerHolds'
  <2>1. wpc = "legs" => todo \subseteq {k \in Legs : dStatus'[k] # "absent"}
    BY <1>4 DEF WorkerHolds, AtOrder, lookVars
  <2> QED BY <1>2, <1>4, <2>1 DEF WorkerHolds, AtOrder, lookVars, Stored
<1> QED BY <1>3, <1>5, <1>6, <1>7, <1>8

LEMMA LookProvenance ==
    ASSUME Inv,
           FindPlayground \/ (\E o \in Orders : ReadTrades(o)) \/ (\E l \in Legs : LookAtLeg(l))
    PROVE  FillProvenance'
<1> USE DEF Inv, FillProvenance
<1>1. FillsAreBacked' /\ LegsComeAfterOrders' /\ OnlyStoredLegsMove'
  BY Undisturbed DEF FindPlayground, ReadTrades, LookAtLeg, dbVars, memVars, brokerVars, drainVars, pgVars
<1>2. PlacedOnce'
  BY DEF FindPlayground, ReadTrades, LookAtLeg, PlacedOnce, dbVars, placeVars, Callers
<1>3. CASE FindPlayground
  <2>1. WorkerHolds' BY <1>3 DEF FindPlayground, WorkerHolds, AtOrder, dbVars, memVars
  <2> QED BY <1>1, <1>2, <2>1
<1>4. ASSUME NEW o \in Orders, ReadTrades(o) PROVE FillProvenance'
  <2>1. WorkerHolds'
    BY <1>4 DEF ReadTrades, TradesOf, WorkerHolds, AtOrder, dbVars, memVars, lookVars
  <2> QED BY <1>1, <1>2, <2>1
<1>5. ASSUME NEW l \in Legs, LookAtLeg(l) PROVE FillProvenance'
  <2>1. WorkerHolds' BY <1>5 DEF LookAtLeg, WorkerHolds, AtOrder, dbVars, memVars
  <2> QED BY <1>1, <1>2, <2>1
<1> QED BY <1>3, <1>4, <1>5

(* The worker rewrites the row of an accepted order, and later its record.   *)
LEMMA CloseRowProvenance ==
    ASSUME Inv, CloseRow PROVE FillProvenance'
<1> USE DEF Inv, FillProvenance
<1>1. /\ wpc = "close" /\ cur \in todo /\ cur \in Orders /\ dStatus[cur] \in Accepted
      /\ verdict \in {"rejected", "canceled"}
      /\ UNCHANGED <<dTrade, dApplied, mStatus, mTrade, applied, linked, broker, delivered, events,
                     dpc, dleg, todo, cur, trades, news, trade, ppc, pord, psend>>
  BY DEF CloseRow, WorkerHolds, AtOrder, ControlTypeOK, WorkerTypeOK, memVars, brokerVars,
         drainVars, placeVars, pgVars
<1>2. /\ cur \in Items /\ dStatus \in [Items -> Status]
      /\ \A k \in Legs : k \in Items /\ k[1] \in Items /\ k # cur
  BY <1>1, LegOrder, ConstantsAssumption DEF ControlTypeOK, DbTypeOK, Items
<1>3. \A x \in Items : dStatus'[x] = dStatus[x] \/ (x = cur /\ dStatus'[x] \in Accepted)
  BY <1>1, <1>2 DEF CloseRow, Accepted, Ended
<1>4. FillsAreBacked' BY <1>1, Undisturbed
<1>5. LegsComeAfterOrders' BY <1>1, <1>2, <1>3 DEF LegsComeAfterOrders, Stored
<1>6. OnlyStoredLegsMove'
  <2>1. \A k \in Legs : dStatus'[k] = dStatus[k] BY <1>2, <1>3
  <2>2. \A i \in 1..Len(events) : events[i].leg \in Legs BY EventsType DEF ControlTypeOK
  <2> QED BY <1>1, <2>1, <2>2 DEF OnlyStoredLegsMove, Stored, ControlTypeOK, MemTypeOK
<1>7. PlacedOnce'
  BY <1>1, <1>3 DEF PlacedOnce, Callers, Accepted, Ended, Items
<1>8. WorkerHolds'
  <2>1. todo \subseteq {x \in Orders : dStatus'[x] \in Accepted}
    BY <1>1, <1>3 DEF WorkerHolds, AtOrder, Items
  <2>2. (wpc' = "closing" /\ verdict' = verdict) \/ wpc' = "fill" BY DEF CloseRow
  <2> QED BY <1>1, <2>1, <2>2 DEF WorkerHolds, AtOrder
<1> QED BY <1>4, <1>5, <1>6, <1>7, <1>8

LEMMA CloseRecordProvenance ==
    ASSUME Inv, CloseRecord PROVE FillProvenance'
<1> USE DEF Inv, FillProvenance
<1>1. /\ wpc = "closing" /\ wpc' = "fill" /\ cur \in todo /\ cur \in Orders
      /\ verdict \in {"rejected", "canceled"}
      /\ UNCHANGED <<dStatus, dTrade, dApplied, mTrade, applied, broker, delivered, events,
                     dpc, dleg, todo, cur, trades, news, trade, ppc, pord, psend>>
  BY DEF CloseRecord, WorkerHolds, AtOrder, ControlTypeOK, WorkerTypeOK, dbVars, brokerVars,
         drainVars, placeVars, pgVars
<1>2. /\ cur \in Items /\ mStatus \in [Items -> Status]
      /\ \A k \in Legs : k \in Items /\ k[1] \in Items /\ k # cur
  BY <1>1, LegOrder, ConstantsAssumption DEF ControlTypeOK, MemTypeOK, Items
<1>3. /\ \A x \in Items : mStatus'[x] = mStatus[x] \/ (x = cur /\ mStatus'[x] \in Accepted)
      /\ linked' \subseteq linked
  BY <1>1, <1>2 DEF CloseRecord, ReplaceRecord, Accepted, Ended
<1>4. FillsAreBacked' BY <1>1, Undisturbed
<1>5. LegsComeAfterOrders' BY <1>1, <1>2, <1>3 DEF LegsComeAfterOrders, Stored
<1>6. OnlyStoredLegsMove'
  <2>1. \A x \in Items : mStatus[x] # "absent" => mStatus'[x] # "absent"
    BY <1>3 DEF Accepted, Ended
  <2>2. \A k \in linked' : mStatus'[k[1]] # "absent"
    BY <1>2, <1>3, <2>1 DEF OnlyStoredLegsMove, ControlTypeOK, MemTypeOK
  <2>3. dpc # "idle" => dleg \in Items BY DEF OnlyStoredLegsMove, Items
  <2> QED BY <1>1, <2>1, <2>2, <2>3 DEF OnlyStoredLegsMove, Stored
<1>7. PlacedOnce' BY <1>1 DEF PlacedOnce, Callers
<1>8. WorkerHolds' BY <1>1 DEF WorkerHolds, AtOrder
<1> QED BY <1>4, <1>5, <1>6, <1>7, <1>8

LEMMA ApplyTradeProvenance ==
    ASSUME Inv, NEW t \in Legs, ApplyTrade(t) PROVE FillProvenance'
<1> USE DEF Inv, FillProvenance
<1>1. /\ wpc = "fill" /\ t \in trades /\ t \in dTrade /\ t \in LegsOf(cur) /\ cur \in Orders
      /\ trades' \subseteq trades /\ dTrade \subseteq Legs
      /\ UNCHANGED <<dStatus, dTrade, dApplied, mTrade, linked, broker, events, dpc, dleg,
                     todo, cur, news, ppc, pord, psend, delivered>>
  BY DEF ApplyTrade, WorkerHolds, AtOrder, lookVars, dbVars, brokerVars, drainVars, placeVars, pgVars,
         ControlTypeOK, DbTypeOK
<1>2. /\ cur \in Items /\ mStatus \in [Items -> Status]
      /\ \A k \in Legs : k \in Items /\ k[1] \in Items /\ k # cur
  BY <1>1, LegOrder, ConstantsAssumption DEF ControlTypeOK, MemTypeOK, Items
<1>3. /\ \A x \in Items : mStatus'[x] = mStatus[x] \/ (x = cur /\ mStatus'[x] \in Ended)
      /\ wpc' = "save" => mStatus'[cur] # "absent"
      /\ wpc' \in {"fill", "save"} /\ (wpc' = "save" => trade' = t)
  BY <1>1, <1>2 DEF ApplyTrade, Accept, Refuse, Tradable, Ended
<1>4. FillsAreBacked'
  <2>1. \A l \in Legs : applied'[l] = applied[l] \/ l = t
    BY DEF ApplyTrade, Accept, Refuse, ControlTypeOK, MemTypeOK
  <2> QED BY <1>1, <2>1 DEF FillsAreBacked
<1>5. LegsComeAfterOrders'
  BY <1>1, <1>2, <1>3 DEF LegsComeAfterOrders, Stored, Accepted
<1>6. OnlyStoredLegsMove'
  BY <1>1, <1>2, <1>3 DEF OnlyStoredLegsMove, Stored, ControlTypeOK, MemTypeOK, Ended
<1>7. PlacedOnce' BY <1>1 DEF PlacedOnce, Callers
<1>8. WorkerHolds' BY <1>1, <1>3 DEF WorkerHolds, AtOrder, lookVars
<1> QED BY <1>4, <1>5, <1>6, <1>7, <1>8

LEMMA SaveAppliedProvenance ==
    ASSUME Inv, SaveApplied PROVE FillProvenance'
<1> USE DEF Inv, FillProvenance
<1>1. /\ wpc = "save" /\ cur \in Orders /\ trade \in dTrade \cap LegsOf(cur)
      /\ mStatus[cur] # "absent" /\ trades' \subseteq trades /\ wpc' = "fill"
      /\ UNCHANGED <<dTrade, mTrade, applied, mStatus, linked, broker, events, dpc, dleg,
                     todo, cur, ppc, pord, psend, delivered>>
  BY DEF SaveApplied, WorkerHolds, AtOrder, lookVars, memVars, brokerVars, drainVars, placeVars, pgVars
<1>2. /\ cur \in Items /\ dStatus \in [Items -> Status] /\ trade \in Legs
      /\ LegsOf(cur) \subseteq Legs /\ trade[1] = cur
      /\ \A k \in Legs : k \in Items /\ k[1] \in Items /\ k # cur
  BY <1>1, LegsOfType, LegOrder, ConstantsAssumption DEF ControlTypeOK, DbTypeOK, Items
<1>3. dStatus[cur] \in Accepted /\ mStatus[cur] \in Accepted
  BY <1>1, <1>2 DEF LegsComeAfterOrders, OnlyStoredLegsMove, FillsAreBacked
<1>4. /\ \A x \in Items : dStatus'[x] = dStatus[x] \/ (x = cur /\ dStatus'[x] \in Accepted)
      /\ dApplied' \subseteq dApplied \cup {l \in Legs : applied[l] > 0}
      /\ news' \subseteq news \cup {trade}
  BY <1>2, <1>3 DEF SaveApplied, Accepted
<1>5. FillsAreBacked' BY <1>1, <1>4 DEF FillsAreBacked
<1>6. LegsComeAfterOrders' BY <1>1, <1>2, <1>4 DEF LegsComeAfterOrders, Stored
<1>7. OnlyStoredLegsMove'
  <2>1. \A k \in Legs : dStatus'[k] = dStatus[k] BY <1>2, <1>4
  <2>2. \A i \in 1..Len(events) : events[i].leg \in Legs BY EventsType DEF ControlTypeOK
  <2> QED BY <1>1, <2>1, <2>2 DEF OnlyStoredLegsMove, Stored, ControlTypeOK, MemTypeOK
<1>8. PlacedOnce'
  BY <1>1, <1>3, <1>4 DEF PlacedOnce, Callers, Accepted, Ended, Items
<1>9. WorkerHolds' BY <1>1, <1>4 DEF WorkerHolds, AtOrder, lookVars, Items
<1> QED BY <1>5, <1>6, <1>7, <1>8, <1>9

LEMMA FinishOrderProvenance ==
    ASSUME Inv, FinishOrder PROVE FillProvenance'
<1> USE DEF Inv, FillProvenance
<1>1. LegsComeAfterOrders' /\ OnlyStoredLegsMove'
  BY Undisturbed DEF FinishOrder, dbVars, memVars, brokerVars, drainVars
<1>2. FillsAreBacked'
  <2>1. \A p \in Playgrounds : delivered'[p] \subseteq delivered[p] \cup news
    BY DEF FinishOrder, Deliver, ControlTypeOK, OtherTypeOK
  <2> QED BY <2>1 DEF FinishOrder, FillsAreBacked, WorkerHolds, AtOrder, lookVars, dbVars, memVars, brokerVars
<1>3. PlacedOnce' BY DEF FinishOrder, PlacedOnce, dbVars, placeVars, Callers
<1>4. WorkerHolds' BY DEF FinishOrder, WorkerHolds, AtOrder, lookVars, dbVars, memVars
<1> QED BY <1>1, <1>2, <1>3, <1>4

LEMMA PlaceNewProvenance ==
    ASSUME Inv, NEW o \in Orders, PlaceNew(o) PROVE FillProvenance'
<1> USE DEF Inv, FillProvenance
<1>1. /\ wpc = "new" /\ ppc["worker"] = "idle" /\ o \in todo /\ dStatus[o] = "new"
      /\ dStatus[o] \notin Accepted
      /\ UNCHANGED <<dTrade, dApplied, broker, events, dpc, dleg, delivered>>
  BY DEF PlaceNew, WorkerHolds, AtOrder, lookVars, Accepted, Ended, drainVars, pgVars
<1>2. CASE StartPlacement("worker", o) /\ todo' = todo \ {o}
           /\ UNCHANGED <<dStatus, memVars, wpc, cur, trades, lookVars, trade, save, news>>
  <2>1. FillsAreBacked' /\ LegsComeAfterOrders' /\ OnlyStoredLegsMove'
    BY <1>1, <1>2, Undisturbed DEF memVars
  <2>2. PlacedOnce'
    BY <1>1, <1>2, LegsOfType DEF StartPlacement, PlacedOnce, Callers, ControlTypeOK, PlaceTypeOK
  <2>3. WorkerHolds' BY <1>1, <1>2 DEF WorkerHolds, AtOrder, lookVars, memVars
  <2> QED BY <2>1, <2>2, <2>3
<1>3. CASE RejectNew(o) /\ dStatus' \in {dStatus, [dStatus EXCEPT ![o] = "rejected"]}
           /\ UNCHANGED placeVars
  <2>1. /\ LegsComeAfterOrders' /\ WorkerHolds'
        /\ \A l \in Legs : Stored(l) => dStatus'[l] # "absent"
        /\ \A x \in Items : mStatus[x] # "absent" => mStatus'[x] # "absent"
    BY <1>1, <1>3, RejectNewProvenance
  <2>2. UNCHANGED <<mTrade, applied, linked>> BY <1>3 DEF RejectNew
  <2>3. FillsAreBacked' BY <1>1, <2>2, Undisturbed
  <2>4. OnlyStoredLegsMove'
    <3>1. \A i \in 1..Len(events) : events[i].leg \in Legs BY EventsType DEF ControlTypeOK
    <3>2. \A k \in linked : k[1] \in Items BY LegOrder DEF ControlTypeOK, MemTypeOK, Items
    <3> QED BY <1>1, <2>1, <2>2, <3>1, <3>2
            DEF OnlyStoredLegsMove, Stored, ControlTypeOK, MemTypeOK, Items
  <2>5. PlacedOnce'
    BY <1>1, <1>3 DEF PlacedOnce, Callers, placeVars, ControlTypeOK, DbTypeOK, Items
  <2> QED BY <2>1, <2>3, <2>4, <2>5
<1>4. CASE EndPoll /\ UNCHANGED <<dStatus, memVars, placeVars>>
  <2>1. FillsAreBacked' /\ LegsComeAfterOrders' /\ OnlyStoredLegsMove'
    BY <1>1, <1>4, Undisturbed DEF memVars
  <2>2. PlacedOnce' BY <1>1, <1>4 DEF PlacedOnce, placeVars, Callers
  <2>3. WorkerHolds' BY <1>4 DEF EndPoll, WorkerHolds, AtOrder, lookVars
  <2> QED BY <2>1, <2>2, <2>3
<1> QED BY <1>2, <1>3, <1>4 DEF PlaceNew

LEMMA BrokerStepProvenance ==
    ASSUME Inv, NEW l \in Legs, BrokerDecides(l) \/ BrokerFillsLate(l)
    PROVE  FillProvenance'
<1> USE DEF Inv, FillProvenance
<1>1. /\ broker[l] # "filled" /\ broker \in [Legs -> {"none", "pending"} \cup Ended]
      /\ \A k \in Legs : k # l => broker'[k] = broker[k]
      /\ UNCHANGED <<dbVars, memVars, events, drainVars, workerVars, placeVars, pgVars>>
  BY DEF BrokerDecides, BrokerFillsLate, ControlTypeOK, BrokerTypeOK
<1>2. FillsAreBacked'
  BY <1>1 DEF FillsAreBacked, dbVars, memVars, pgVars, ControlTypeOK, MemTypeOK
<1>3. OnlyStoredLegsMove'
  <2>1. \A i \in 1..Len(events) : events[i].leg \in Legs BY EventsType DEF ControlTypeOK
  <2> QED BY <1>1, <2>1 DEF OnlyStoredLegsMove, Stored, dbVars, memVars, drainVars
<1>4. LegsComeAfterOrders' /\ PlacedOnce' /\ WorkerHolds'
  BY <1>1, Undisturbed DEF dbVars, memVars, placeVars, workerVars, lookVars
<1> QED BY <1>2, <1>3, <1>4

LEMMA DeletePlaygroundProvenance ==
    ASSUME Inv, NEW p \in Playgrounds, DeletePlayground(p) PROVE FillProvenance'
BY Undisturbed DEF Inv, FillProvenance, DeletePlayground, dbVars, memVars, brokerVars,
   drainVars, workerVars, lookVars, placeVars

LEMMA CrashProvenance ==
    ASSUME Inv, Crash PROVE FillProvenance'
<1> USE DEF Inv, FillProvenance
<1>1. /\ UNCHANGED <<dStatus, dTrade, dApplied, delivered>> /\ mTrade' = dTrade /\ linked' = {}
      /\ dTrade \subseteq mTrade /\ dTrade \subseteq Legs /\ dApplied \subseteq Legs
      /\ \A l \in mTrade : l \in Legs /\ Stored(l) /\ broker[l] = "filled"
  BY DEF Crash, dbVars, FillsAreBacked, OnlyStoredLegsMove, ControlTypeOK, DbTypeOK, MemTypeOK
<1>2. \A l \in Legs : Stored(l) => broker'[l] = broker[l]
  BY DEF Crash, Forget, Set, Stored, ControlTypeOK, BrokerTypeOK
<1>3. FillsAreBacked'
  <2>1. \A l \in mTrade' : broker'[l] = "filled" BY <1>1, <1>2
  <2>2. \A l \in Legs : applied'[l] > 0 => l \in dTrade BY DEF Crash, FillsAreBacked
  <2> QED BY <1>1, <2>1, <2>2 DEF FillsAreBacked
<1>4. LegsComeAfterOrders'
  <2>1. \A x \in Items : mStatus'[x] \in {dStatus[x], "absent"} BY DEF Crash
  <2>2. \A l \in Legs : l[1] \in Items BY LegOrder DEF Items
  <2> QED BY <1>1, <2>1, <2>2 DEF LegsComeAfterOrders, Stored
<1>5. OnlyStoredLegsMove'
  <2>1. events' = <<>> /\ dpc' = "idle" BY DEF Crash
  <2>2. Len(events') = 0 BY <2>1
  <2> QED BY <1>1, <2>1, <2>2 DEF OnlyStoredLegsMove, Stored
<1>6. PlacedOnce' BY DEF Crash, PlacedOnce, Callers
<1>7. WorkerHolds' BY DEF Crash, EndPoll, WorkerHolds, AtOrder, lookVars
<1> QED BY <1>3, <1>4, <1>5, <1>6, <1>7

-----------------------------------------------------------------------------
LEMMA InitInv == Init => Inv
BY InitType, InitProvenance DEF Inv

LEMMA InvStep == Inv /\ [Next]_vars => Inv'
<1> SUFFICES ASSUME Inv, [Next]_vars PROVE Inv'
  OBVIOUS
<1>0. ControlTypeOK /\ FillProvenance /\ PlacedOnce /\ OnlyStoredLegsMove /\ WorkerHolds
  BY DEF Inv, FillProvenance
<1>1. ASSUME NEW o \in Orders, PlaceOrder(o) PROVE Inv'
  BY <1>0, <1>1, PlaceOrderType, PlaceOrderProvenance DEF Inv
<1>2. ASSUME NEW c \in Callers, Placement(c) PROVE Inv'
  <2>1. CASE SendLeg(c) BY <1>0, <2>1, SendLegType, SendLegProvenance DEF Inv
  <2>2. CASE CommitPlaced(c) BY <1>0, <2>2, CommitPlacedType, CommitPlacedProvenance DEF Inv
  <2>3. CASE CommitQueued(c) BY <1>0, <2>3, CommitQueuedType, CommitQueuedProvenance DEF Inv
  <2> QED BY <1>2, <2>1, <2>2, <2>3 DEF Placement
<1>3. CASE Drain
  <2>1. CASE DrainFill BY <1>0, <2>1, DrainFillType, DrainFillProvenance DEF Inv
  <2>2. CASE DrainSkip BY <1>0, <2>2, DrainSkipType, DrainSkipProvenance DEF Inv
  <2>3. CASE DrainClose BY <1>0, <2>3, DrainCloseType, DrainCloseProvenance DEF Inv
  <2>4. CASE DrainSave BY <1>0, <2>4, DrainSaveType, DrainSaveProvenance DEF Inv
  <2>5. CASE ResetRow BY <1>0, <2>5, ResetRowType, ResetRowProvenance DEF Inv
  <2>6. CASE ResetRecords BY <1>0, <2>6, ResetRecordsType, ResetRecordsProvenance DEF Inv
  <2>7. CASE FillAfterReset BY <1>0, <2>7, FillAfterResetType, FillAfterResetProvenance DEF Inv
  <2> QED BY <1>3, <2>1, <2>2, <2>3, <2>4, <2>5, <2>6, <2>7 DEF Drain
<1>4. CASE Worker
  <2>1. CASE StartPoll \/ FetchPending \/ FetchNew \/ FinishPoll
    BY <1>0, <2>1, FetchType, FetchProvenance DEF Inv
  <2>2. CASE FinishOrder BY <1>0, <2>2, FinishOrderType, FinishOrderProvenance DEF Inv
  <2>3. CASE SaveApplied BY <1>0, <2>3, SaveAppliedType, SaveAppliedProvenance DEF Inv
  <2>4. ASSUME NEW l \in Legs, PollLeg(l) PROVE Inv'
    BY <1>0, <2>4, PollLegType, PollLegProvenance DEF Inv
  <2>5. ASSUME NEW l \in Legs, ApplyTrade(l) PROVE Inv'
    BY <1>0, <2>5, ApplyTradeType, ApplyTradeProvenance DEF Inv
  <2>6. CASE \/ FindPlayground
             \/ \E o \in Orders : ReadTrades(o)
             \/ \E l \in Legs : LookAtLeg(l)
    BY <1>0, <2>6, LookType, LookProvenance DEF Inv
  <2>8. CASE CloseRow BY <1>0, <2>8, CloseRowType, CloseRowProvenance DEF Inv
  <2>9. CASE CloseRecord BY <1>0, <2>9, CloseRecordType, CloseRecordProvenance DEF Inv
  <2>7. ASSUME NEW o \in Orders, PlaceNew(o) PROVE Inv'
    BY <1>0, <2>7, PlaceNewType, PlaceNewProvenance DEF Inv
  <2> QED BY <1>4, <2>1, <2>2, <2>3, <2>4, <2>5, <2>6, <2>7, <2>8, <2>9 DEF Worker
<1>5. CASE Crash BY <1>0, <1>5, CrashType, CrashProvenance DEF Inv
<1>6. ASSUME NEW c \in Callers, SendFails(c) PROVE Inv'
  BY <1>0, <1>6, SendFailsType, SendFailsProvenance DEF Inv
<1>7. ASSUME NEW l \in Legs, BrokerDecides(l) \/ BrokerFillsLate(l) PROVE Inv'
  BY <1>0, <1>7, BrokerStepType, BrokerStepProvenance DEF Inv
<1>8. ASSUME NEW p \in Playgrounds, DeletePlayground(p) PROVE Inv'
  BY <1>0, <1>8, DeletePlaygroundType, DeletePlaygroundProvenance DEF Inv
<1>9. CASE UNCHANGED vars
  <2>1. ControlTypeOK' BY <1>0, <1>9, Unchanged DEF vars, ControlTypeOK, brokerVars
  <2>2. FillProvenance'
    BY <1>0, <1>9, Undisturbed DEF vars, FillProvenance, dbVars, memVars, brokerVars, drainVars,
       workerVars, lookVars, placeVars, pgVars
  <2> QED BY <2>1, <2>2 DEF Inv
<1> QED BY <1>1, <1>2, <1>3, <1>4, <1>5, <1>6, <1>7, <1>8, <1>9 DEF Next, Faults

LEMMA InvHolds == Spec => []Inv
BY InitInv, InvStep, PTL DEF Spec

(* The control state and both copies of the order book keep their types.     *)
THEOREM TypesHold == Spec => []ControlTypeOK
<1>1. Inv => ControlTypeOK BY DEF Inv
<1> QED BY <1>1, InvHolds, PTL

(* Every stage of a fill is backed by the one before it and the first by the *)
(* broker, whatever is placed, crashes, fails to be saved or comes late.     *)
THEOREM FillsAreBackedHolds == Spec => []FillsAreBacked
<1>1. Inv => FillsAreBacked BY DEF Inv, FillProvenance
<1> QED BY <1>1, InvHolds, PTL

(* The strengthening itself: among others, a leg is stored only once its     *)
(* order is accepted, so that no stored leg is sent or forgotten again.      *)
THEOREM FillProvenanceHolds == Spec => []FillProvenance
<1>1. Inv => FillProvenance BY DEF Inv
<1> QED BY <1>1, InvHolds, PTL

-----------------------------------------------------------------------------
(* Sizes and positions: they change by one order or one fill at a time, and  *)
(* a restart counts the positions again, as sums over what is stored.        *)

(* No order has been split so far. *)
OneLeg == \A o \in Orders : legQty[<<o, 2>>] = 0

(* All orders have one side. *)
OneSided == \A o, x \in Orders : Quantity[o] > 0 <=> Quantity[x] > 0

Quantities == legQty \in [Legs -> Int] /\ pos \in [Accounts -> Int]

(* An order that is not split has one leg of its own size. *)
Sized == \A o \in Orders : legQty[<<o, 2>>] = 0 => legQty[<<o, 1>>] \in {0, Quantity[o]}

(* How an order is split: legs on its side that add up to it. *)
LEMMA Splitting ==
    ASSUME NEW p \in Int, NEW q \in Int, q # 0
    PROVE  /\ LegQuantity(p, q, 1) \in Int /\ LegQuantity(p, q, 2) \in Int
           /\ LegQuantity(p, q, 1) # 0 => (LegQuantity(p, q, 1) > 0 <=> q > 0)
           /\ LegQuantity(p, q, 2) # 0 => (LegQuantity(p, q, 2) > 0 <=> q > 0)
           /\ LegQuantity(p, q, 2) = 0 => LegQuantity(p, q, 1) = q
<1>1. p * q < 0 => (p > 0 /\ q < 0) \/ (p < 0 /\ q > 0)
  OBVIOUS
<1>2. CASE p * q < 0
  BY <1>1, <1>2 DEF LegQuantity, ClosingPart
<1>3. CASE ~(p * q < 0)
  BY <1>3 DEF LegQuantity
<1> QED BY <1>2, <1>3

(* What a step does to sizes and positions: nothing, or it sizes the legs of *)
(* an order, takes sizes back, or adds a fill to one position.               *)
Sizes(o) ==
    legQty' = [l \in Legs |-> IF l[1] = o THEN LegQuantity(pos[Recon], Quantity[o], l[2])
                                          ELSE legQty[l]]
SizeStep ==
    \/ UNCHANGED <<legQty, pos>>
    \/ UNCHANGED pos /\ \E o \in Orders : Sizes(o)
    \/ UNCHANGED pos /\ \E S \in SUBSET Legs : legQty' = Set(legQty, S, 0)
    \/ /\ UNCHANGED legQty
       /\ \E a \in Accounts, l \in Legs : pos' = [pos EXCEPT ![a] = @ + legQty[l]]
    \/ Crash

LEMMA PlacementSizes ==
    ASSUME NEW c \in Callers, NEW o \in Orders, StartPlacement(c, o) \/ UNCHANGED legQty,
           UNCHANGED pos
    PROVE  SizeStep
BY DEF StartPlacement, SizeStep, Sizes

LEMMA DrainSizes ==
    ASSUME Inv, Drain PROVE SizeStep
<1>1. CASE DrainFill
  <2>1. Head(events).leg \in Legs
    BY <1>1, EventType DEF DrainFill, Inv, ControlTypeOK
  <2>2. UNCHANGED legQty /\ (FillLeg(Head(events).leg) \/ UNCHANGED pos)
    BY <1>1 DEF DrainFill, CommitFill, brokerVars
  <2> QED BY <2>1, <2>2 DEF SizeStep, FillLeg, Accounts
<1>2. CASE DrainSkip \/ DrainClose
  BY <1>2 DEF DrainSkip, DrainClose, SizeStep, memVars, brokerVars
<1>3. CASE DrainSave \/ ResetRow \/ ResetRecords
  BY <1>3 DEF DrainSave, ResetRow, ResetRecords, SizeStep, brokerVars
<1>4. CASE FillAfterReset
  <2>1. dleg \in Legs
    BY <1>4 DEF FillAfterReset, Inv, FillProvenance, OnlyStoredLegsMove
  <2>2. UNCHANGED legQty /\ FillLeg(dleg)
    BY <1>4 DEF FillAfterReset, CommitFill, brokerVars
  <2> QED BY <2>1, <2>2 DEF SizeStep, FillLeg, Accounts
<1> QED BY <1>1, <1>2, <1>3, <1>4 DEF Drain

LEMMA ApplySizes ==
    ASSUME Inv, NEW t \in Legs, ApplyTrade(t) PROVE SizeStep
<1>1. cur \in Orders /\ PgOf(cur) \in Accounts
  BY ConstantsAssumption DEF ApplyTrade, Inv, FillProvenance, WorkerHolds, AtOrder, PgOf, Accounts
<1>2. /\ UNCHANGED legQty
      /\ UNCHANGED pos \/ pos' = [pos EXCEPT ![PgOf(cur)] = @ + legQty[t]]
  BY DEF ApplyTrade, Accept, Refuse, brokerVars
<1> QED BY <1>1, <1>2 DEF SizeStep

LEMMA WorkerSizes ==
    ASSUME Inv, Worker PROVE SizeStep
<1>1. CASE StartPoll \/ FetchPending \/ FetchNew \/ FinishPoll \/ FinishOrder \/ SaveApplied
  BY <1>1 DEF StartPoll, FetchPending, FetchNew, FinishPoll, FinishOrder, SaveApplied, SizeStep,
              memVars, brokerVars
<1>2. ASSUME NEW l \in Legs, PollLeg(l) PROVE SizeStep
  BY <1>2 DEF PollLeg, SizeStep, memVars, brokerVars
<1>3. CASE \/ FindPlayground \/ CloseRow \/ CloseRecord
           \/ \E o \in Orders : ReadTrades(o)
           \/ \E l \in Legs : LookAtLeg(l)
  BY <1>3 DEF FindPlayground, CloseRow, CloseRecord, ReadTrades, LookAtLeg, SizeStep,
              memVars, brokerVars
<1>4. ASSUME NEW o \in Orders, PlaceNew(o) PROVE SizeStep
  BY <1>4, PlacementSizes DEF PlaceNew, RejectNew, memVars, Callers
<1> QED BY <1>1, <1>2, <1>3, <1>4, ApplySizes DEF Worker

LEMMA SizesStep ==
    ASSUME Inv, [Next]_vars PROVE SizeStep
<1>1. ASSUME NEW o \in Orders, PlaceOrder(o) PROVE SizeStep
  BY <1>1, PlacementSizes DEF PlaceOrder, memVars, Callers
<1>2. ASSUME NEW c \in Callers, Placement(c) PROVE SizeStep
  BY <1>2 DEF Placement, SendLeg, CommitPlaced, CommitQueued, CommitSaved, SizeStep, memVars, brokerVars
<1>3. ASSUME NEW c \in Callers, SendFails(c) PROVE SizeStep
  <2>1. LegsOf(pord[c]) \subseteq Legs
    BY <1>3, LegsOfType DEF SendFails, Inv, FillProvenance, PlacedOnce
  <2>2. UNCHANGED pos /\ legQty' = Set(legQty, LegsOf(pord[c]), 0)
    BY <1>3 DEF SendFails, Forget, RejectNew, memVars
  <2> QED BY <2>1, <2>2 DEF SizeStep
<1>4. CASE Crash
  BY <1>4 DEF SizeStep
<1>5. CASE \/ \E l \in Legs : BrokerDecides(l) \/ BrokerFillsLate(l)
           \/ \E p \in Playgrounds : DeletePlayground(p)
  BY <1>5 DEF BrokerDecides, BrokerFillsLate, DeletePlayground, SizeStep, memVars, brokerVars
<1>6. CASE UNCHANGED vars
  BY <1>6 DEF vars, SizeStep, memVars, brokerVars
<1> QED BY <1>1, <1>2, <1>3, <1>4, <1>5, <1>6, DrainSizes, WorkerSizes DEF Next, Faults

-----------------------------------------------------------------------------
(* What a restart counts. *)

LEMMA LegsFinite == IsFiniteSet(Legs)
<1>1. IsFiniteSet({1} \cup {2})
  BY FS_Singleton, FS_AddElement, Zenon
<1>2. {1} \cup {2} = {1, 2}
  OBVIOUS
<1> QED BY <1>1, <1>2, FS_Product, ConstantsAssumption DEF Legs

Volumes == [o \in Orders |-> DbVolume(o)]

\* A sum over orders of what the database holds of them, as a sum of Volumes.
VolumeStep(g, s) == IF s = {} THEN 0 ELSE DbVolume(Pick(s)) + g[s \ {Pick(s)}]
LEMMA VolumeSum ==
    ASSUME NEW S \in SUBSET Orders
    PROVE  MapThenSumSet(DbVolume, S) = SumFunctionOnSet(Volumes, S)
<1> DEFINE F == CHOOSE g : g = [s \in SUBSET S |-> VolumeStep(g, s)]
<1>1. MapThenSumSet(DbVolume, S) = F[S]
  BY DEF MapThenSumSet, MapThenFoldSet, VolumeStep, Pick
<1>2. \A g : [s \in SUBSET S |-> VolumeStep(g, s)] = [s \in SUBSET S |-> Take(Volumes, g, s)]
  <2>1. ASSUME NEW g, NEW s \in SUBSET S, s # {} PROVE Volumes[Pick(s)] = DbVolume(Pick(s))
    BY <2>1, PickIn DEF Volumes
  <2>2. ASSUME NEW g, NEW s \in SUBSET S PROVE VolumeStep(g, s) = Take(Volumes, g, s)
    BY <2>1 DEF VolumeStep, Take
  <2> QED BY <2>2
<1>3. \A g : g = [s \in SUBSET S |-> VolumeStep(g, s)] <=> g = [s \in SUBSET S |-> Take(Volumes, g, s)]
  BY <1>2
<1>4. F = Fold(Volumes, S)
  BY ONLY <1>3, Zenon DEF Fold
<1> QED BY <1>1, <1>4, SumIsFold

LEMMA DbVolumeType ==
    ASSUME Quantities PROVE \A o \in Orders : DbVolume(o) \in Int
<1> SUFFICES ASSUME NEW o \in Orders PROVE DbVolume(o) \in Int
  OBVIOUS
<1> DEFINE S == LegsOf(o) \cap dApplied
<1>1. S \in SUBSET Legs /\ IsFiniteSet(S)
  BY LegsOfType, LegsFinite, FS_Subset
<1>2. DbVolume(o) = SumFunctionOnSet(legQty, S)
  BY DEF DbVolume, MapThenSumSet, MapThenFoldSet, SumFunctionOnSet, FoldFunctionOnSet
<1>3. \A l \in S : legQty[l] \in Int
  BY <1>1 DEF Quantities
<1> QED BY <1>1, <1>2, <1>3, SumType

LEMMA RestartSizes ==
    ASSUME Inv, Quantities, Crash
    PROVE  /\ \E F \in SUBSET Legs : pos'[Recon] = SumFunctionOnSet(legQty, F)
           /\ \E S \in SUBSET Legs : legQty' = Set(legQty, S, 0)
           /\ pos' \in [Accounts -> Int]
<1> DEFINE F == {l \in dTrade : dStatus[l] = "filled"}
           D(a) == {o \in Orders : PgOf(o) = a /\ o \in InDb("filled")}
<1>1. pos' = [a \in Accounts |-> IF a = Recon THEN MapThenSumSet(LAMBDA l : legQty[l], F)
                                 ELSE MapThenSumSet(DbVolume, D(a))]
  BY DEF Crash
<1>2. F \in SUBSET Legs /\ IsFiniteSet(F)
  BY LegsFinite, FS_Subset DEF Inv, ControlTypeOK, DbTypeOK
<1>3. MapThenSumSet(LAMBDA l : legQty[l], F) = SumFunctionOnSet(legQty, F)
  BY DEF MapThenSumSet, MapThenFoldSet, SumFunctionOnSet, FoldFunctionOnSet
<1> HIDE DEF F, D
<1>4. SumFunctionOnSet(legQty, F) \in Int
  BY <1>2, SumType DEF Quantities
<1>5. ASSUME NEW a \in Playgrounds
      PROVE  MapThenSumSet(DbVolume, D(a)) \in Int
  <2>1. D(a) \in SUBSET Orders /\ IsFiniteSet(D(a))
    BY ConstantsAssumption, FS_Subset DEF D
  <2>2. MapThenSumSet(DbVolume, D(a)) = SumFunctionOnSet(Volumes, D(a))
    BY <2>1, VolumeSum
  <2>3. \A o \in D(a) : Volumes[o] \in Int
    BY <2>1, DbVolumeType DEF Volumes
  <2> QED BY <2>1, <2>2, <2>3, SumType
<1>6. Recon \in Accounts /\ \A a \in Accounts : a # Recon => a \in Playgrounds
  BY DEF Accounts
<1>7. pos'[Recon] = SumFunctionOnSet(legQty, F)
  BY <1>1, <1>3, <1>6
<1>8. pos' \in [Accounts -> Int]
  BY <1>1, <1>3, <1>4, <1>5, <1>6
<1>9. \E S \in SUBSET Legs : legQty' = Set(legQty, S, 0)
  BY DEF Crash, Forget
<1> QED BY <1>2, <1>7, <1>8, <1>9

-----------------------------------------------------------------------------
(* Types of the sizes *)

TypeInv == Inv /\ Quantities

LEMMA InitTypes == Init => TypeInv
BY InitInv DEF Init, TypeInv, Quantities

LEMMA SizedType ==
    ASSUME Quantities, NEW o \in Orders, NEW l \in Legs
    PROVE  LegQuantity(pos[Recon], Quantity[o], l[2]) \in Int
<1>1. pos[Recon] \in Int /\ Quantity[o] \in Int /\ Quantity[o] # 0 /\ l[2] \in {1, 2}
  BY ConstantsAssumption DEF Quantities, Accounts, Legs
<1> QED BY <1>1, Splitting

LEMMA TypesStep == TypeInv /\ [Next]_vars => TypeInv'
<1> SUFFICES ASSUME TypeInv, [Next]_vars PROVE TypeInv'
  OBVIOUS
<1>1. Inv /\ Quantities /\ Inv'
  BY InvStep DEF TypeInv
<1>2. CASE UNCHANGED <<legQty, pos>>
  BY <1>1, <1>2 DEF Quantities, TypeInv
<1>3. ASSUME UNCHANGED pos, NEW o \in Orders, Sizes(o) PROVE Quantities'
  BY <1>1, <1>3, SizedType DEF Quantities, Sizes
<1>4. ASSUME pos' \in [Accounts -> Int], NEW S \in SUBSET Legs, legQty' = Set(legQty, S, 0)
      PROVE  Quantities'
  BY <1>1, <1>4 DEF Quantities, Set
<1>5. ASSUME UNCHANGED legQty, NEW a \in Accounts, NEW l \in Legs,
             pos' = [pos EXCEPT ![a] = @ + legQty[l]]
      PROVE  Quantities'
  BY <1>1, <1>5 DEF Quantities
<1>6. CASE Crash
  <2>1. Quantities'
    BY <1>1, <1>4, <1>6, RestartSizes
  <2> QED BY <1>1, <2>1 DEF TypeInv
<1>7. pos \in [Accounts -> Int]
  BY <1>1 DEF Quantities
<1> QED BY <1>1, <1>2, <1>3, <1>4, <1>5, <1>6, <1>7, SizesStep DEF SizeStep, TypeInv

(* Every variable, the sizes of the legs and the positions included, keeps   *)
(* its type, through restarts too, which count the positions again.          *)
THEOREM AllTypesHold == Spec => []TypeOK
<1>1. TypeInv => TypeOK
  BY DEF TypeInv, Quantities, Inv, TypeOK
<1> QED BY <1>1, InitTypes, TypesStep, PTL DEF Spec

-----------------------------------------------------------------------------
(* When orders are split *)

(* The reconcile position and the legs are on the one side of the orders.    *)
OnSide ==
    /\ OneLeg
    /\ \A l \in Legs : legQty[l] # 0 => (legQty[l] > 0 <=> Quantity[l[1]] > 0)
    /\ \A o \in Orders : IF Quantity[o] > 0 THEN pos[Recon] >= 0 ELSE pos[Recon] <= 0

(* Legs of one side add up on that side. *)
LEMMA SidesAddUp ==
    ASSUME OneSided, TypeInv, OnSide, NEW F \in SUBSET Legs, NEW o \in Orders
    PROVE  IF Quantity[o] > 0 THEN SumFunctionOnSet(legQty, F) >= 0
                              ELSE SumFunctionOnSet(legQty, F) <= 0
<1>1. IsFiniteSet(F) /\ \A l \in F : legQty[l] \in Int /\ l[1] \in Orders
  BY LegsFinite, FS_Subset DEF TypeInv, Quantities, Legs
<1>2. \A l \in F : legQty[l] # 0 => (legQty[l] > 0 <=> Quantity[o] > 0)
  BY <1>1 DEF OnSide, OneSided
<1>3. CASE Quantity[o] > 0
  <2>1. \A l \in F : legQty[l] \in Nat
    BY <1>1, <1>2, <1>3
  <2> QED BY <1>1, <1>3, <2>1, SumSign
<1>4. CASE ~(Quantity[o] > 0)
  <2>1. \A l \in F : legQty[l] \in Int /\ legQty[l] <= 0
    BY <1>1, <1>2, <1>4
  <2> QED BY <1>1, <1>4, <2>1, SumNegative
<1> QED BY <1>3, <1>4

LEMMA OnSideStep ==
    ASSUME OneSided, TypeInv, OnSide, [Next]_vars PROVE OnSide'
<1>1. /\ SizeStep /\ legQty \in [Legs -> Int] /\ pos \in [Accounts -> Int] /\ pos[Recon] \in Int
      /\ \A o \in Orders : Quantity[o] \in Int /\ Quantity[o] # 0
      /\ \A o \in Orders : <<o, 1>> \in Legs /\ <<o, 2>> \in Legs
      /\ \A l \in Legs : l[1] \in Orders /\ l[2] \in {1, 2}
  BY SizesStep, ConstantsAssumption DEF TypeInv, Quantities, Accounts, Legs
<1>2. CASE UNCHANGED <<legQty, pos>>
  BY <1>2 DEF OnSide, OneLeg
<1>3. ASSUME UNCHANGED pos, NEW o \in Orders, Sizes(o) PROVE OnSide'
  <2>1. \A p, q \in Int : ~(p > 0 /\ q < 0) /\ ~(p < 0 /\ q > 0) => ~(p * q < 0)
    OBVIOUS
  <2>2. ~(pos[Recon] * Quantity[o] < 0)
    BY <1>1, <2>1 DEF OnSide
  <2>3. \A l \in Legs : legQty'[l] = IF l[1] = o THEN (IF l[2] = 1 THEN Quantity[o] ELSE 0)
                                                 ELSE legQty[l]
    BY <1>1, <1>3, <2>2 DEF Sizes, LegQuantity
  <2>4. ASSUME NEW x \in Orders PROVE legQty'[<<x, 2>>] = 0
    <3>1. <<x, 2>> \in Legs /\ <<x, 2>>[1] = x /\ <<x, 2>>[2] = 2 /\ legQty[<<x, 2>>] = 0
      BY <1>1 DEF OnSide, OneLeg
    <3> QED BY <2>3, <3>1
  <2> QED BY <1>1, <1>3, <2>3, <2>4 DEF OnSide, OneLeg
<1>4. ASSUME NEW S \in SUBSET Legs, legQty' = Set(legQty, S, 0),
             \A o \in Orders : IF Quantity[o] > 0 THEN pos'[Recon] >= 0 ELSE pos'[Recon] <= 0
      PROVE  OnSide'
  <2>1. \A l \in Legs : legQty'[l] = IF l \in S THEN 0 ELSE legQty[l]
    BY <1>1, <1>4 DEF Set
  <2> QED BY <1>1, <1>4, <2>1 DEF OnSide, OneLeg
<1>5. ASSUME UNCHANGED legQty, NEW a \in Accounts, NEW l \in Legs,
             pos' = [pos EXCEPT ![a] = @ + legQty[l]]
      PROVE  OnSide'
  <2>1. pos'[Recon] = pos[Recon] + (IF a = Recon THEN legQty[l] ELSE 0)
    BY <1>1, <1>5 DEF Accounts
  <2>2. \A o \in Orders : legQty[l] # 0 => (legQty[l] > 0 <=> Quantity[o] > 0)
    BY <1>1 DEF OnSide, OneSided
  <2>3. \A o \in Orders : IF Quantity[o] > 0 THEN pos'[Recon] >= 0 ELSE pos'[Recon] <= 0
    <3>1. legQty[l] \in Int
      BY <1>1
    <3> QED BY <1>1, <2>1, <2>2, <3>1 DEF OnSide
  <2> QED BY <1>5, <2>3 DEF OnSide, OneLeg
<1>6. ASSUME UNCHANGED pos, NEW S \in SUBSET Legs, legQty' = Set(legQty, S, 0) PROVE OnSide'
  BY <1>4, <1>6 DEF OnSide
<1>7. CASE Crash
  <2>1. /\ \E F \in SUBSET Legs : pos'[Recon] = SumFunctionOnSet(legQty, F)
        /\ \E S \in SUBSET Legs : legQty' = Set(legQty, S, 0)
    BY <1>7, RestartSizes DEF TypeInv
  <2> QED BY <1>4, <2>1, SidesAddUp
<1> QED BY <1>1, <1>2, <1>3, <1>5, <1>6, <1>7 DEF SizeStep

(* Orders of one side are never split: the reconcile position stays on their *)
(* side, whatever crashes, fails or is filled late.                          *)
THEOREM OneSideIsNeverSplit ==
    ASSUME OneSided PROVE Spec => []OneLeg
<1>1. Init => TypeInv /\ OnSide
  <2>1. Init => OnSide
    BY DEF Init, OnSide, OneLeg, Accounts, Legs
  <2> QED BY <2>1, InitTypes
<1>2. TypeInv /\ OnSide /\ [Next]_vars => (TypeInv /\ OnSide)'
  BY TypesStep, OnSideStep
<1>3. OnSide => OneLeg
  BY DEF OnSide
<1> QED BY <1>1, <1>2, <1>3, PTL DEF Spec
=============================================================================
