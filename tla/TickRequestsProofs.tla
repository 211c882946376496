------------------------- MODULE TickRequestsProofs -------------------------
(* TickRequests is safe for any number of calls, ids and failures, while no  *)
(* entry expires under a call that uses it.                                  *)
EXTENDS TickRequests, TLAPS

LEMMA CallIds == \A c \in Calls : IdOf[c] \in Ids
BY DEF Ids

LEMMA InitTick == Init => TickInv
BY CallIds, TickAssumption
   DEF Init, TickInv, TypeOK, Places, EntriesAreHeld, EntriesKeepResults, Early, Looking, Using,
       Holding, CachedById, EnteredById, UsedIsCached, HeldIsLocked, OneHolder, OneLooker,
       InsertIsNew, EarlyIsBlank

LEMMA ArriveTick ==
    ASSUME TickInv, NEW c \in Calls, Arrive(c) PROVE TickInv'
<1>1. /\ TypeOK /\ EntriesKeepResults
      /\ CachedById /\ EnteredById /\ UsedIsCached /\ HeldIsLocked
      /\ OneHolder /\ OneLooker /\ InsertIsNew /\ EarlyIsBlank
  BY DEF TickInv, EntriesAreHeld
<1>2. /\ pc[c] = "none" /\ pc' = [pc EXCEPT ![c] = "look up"]
      /\ \A d \in Calls : SameId(c, d) => pc[d] \notin {"look up", "insert"}
      /\ UNCHANGED <<entry, result, cache, locked, data, panicked, failures, expiries>>
  BY DEF Arrive, Goes
<1>3. TypeOK'
  BY <1>1, <1>2 DEF TypeOK, Places
<1>4. CachedById'
  BY <1>1, <1>2 DEF TypeOK, CachedById, Early
<1>5. EnteredById'
  BY <1>1, <1>2 DEF TypeOK, EnteredById, Early, SameId
<1>6. UsedIsCached'
  BY <1>1, <1>2 DEF TypeOK, UsedIsCached, Using, Entry
<1>7. HeldIsLocked'
  BY <1>1, <1>2 DEF TypeOK, HeldIsLocked, Holding
<1>8. OneHolder'
  BY <1>1, <1>2 DEF TypeOK, OneHolder, Holding, SameId
<1>9. OneLooker'
  BY <1>1, <1>2 DEF TypeOK, OneLooker, Looking, SameId
<1>10. InsertIsNew'
  BY <1>1, <1>2 DEF TypeOK, InsertIsNew, Entry
<1>11. EarlyIsBlank'
  BY <1>1, <1>2 DEF TypeOK, EarlyIsBlank, Early
<1>12. EntriesKeepResults'
  BY <1>1, <1>2 DEF TypeOK, EntriesKeepResults, EnteredById, Early
<1> QED
  BY <1>3, <1>4, <1>5, <1>6, <1>7, <1>8, <1>9, <1>10, <1>11, <1>12 DEF TickInv, EntriesAreHeld

LEMMA MissTick ==
    ASSUME TickInv, NEW c \in Calls, LookUp(c), Entry(c) = None PROVE TickInv'
<1>1. /\ TypeOK /\ EntriesKeepResults
      /\ CachedById /\ EnteredById /\ UsedIsCached /\ HeldIsLocked
      /\ OneHolder /\ OneLooker /\ InsertIsNew /\ EarlyIsBlank
  BY DEF TickInv, EntriesAreHeld
<1>2. /\ pc[c] = "look up" /\ cache[IdOf[c]] = None
      /\ pc' = [pc EXCEPT ![c] = "insert"]
      /\ UNCHANGED <<entry, result, cache, locked, data, panicked, failures, expiries>>
  BY DEF LookUp, Goes, Entry
<1>3. TypeOK'
  BY <1>1, <1>2 DEF TypeOK, Places
<1>4. CachedById'
  BY <1>1, <1>2 DEF TypeOK, CachedById, Early
<1>5. EnteredById'
  BY <1>1, <1>2 DEF TypeOK, EnteredById, Early, SameId
<1>6. UsedIsCached'
  BY <1>1, <1>2 DEF TypeOK, UsedIsCached, Using, Entry
<1>7. HeldIsLocked'
  BY <1>1, <1>2 DEF TypeOK, HeldIsLocked, Holding
<1>8. OneHolder'
  BY <1>1, <1>2 DEF TypeOK, OneHolder, Holding, SameId
<1>9. OneLooker'
  BY <1>1, <1>2 DEF TypeOK, OneLooker, Looking, SameId
<1>10. InsertIsNew'
  BY <1>1, <1>2 DEF TypeOK, InsertIsNew, Entry
<1>11. EarlyIsBlank'
  BY <1>1, <1>2 DEF TypeOK, EarlyIsBlank, Early
<1>12. EntriesKeepResults'
  BY <1>1, <1>2 DEF TypeOK, EntriesKeepResults, EnteredById, Early, EarlyIsBlank
<1> QED
  BY <1>3, <1>4, <1>5, <1>6, <1>7, <1>8, <1>9, <1>10, <1>11, <1>12 DEF TickInv, EntriesAreHeld

LEMMA HitTick ==
    ASSUME TickInv, NEW c \in Calls, LookUp(c), Entry(c) # None PROVE TickInv'
<1>1. /\ TypeOK /\ EntriesKeepResults
      /\ CachedById /\ EnteredById /\ UsedIsCached /\ HeldIsLocked
      /\ OneHolder /\ OneLooker /\ InsertIsNew /\ EarlyIsBlank
  BY DEF TickInv, EntriesAreHeld
<1>2. /\ pc[c] = "look up" /\ cache[IdOf[c]] # None
      /\ pc' = [pc EXCEPT ![c] = "wait"] /\ entry' = [entry EXCEPT ![c] = cache[IdOf[c]]]
      /\ UNCHANGED <<result, cache, locked, data, panicked, failures, expiries>>
  BY DEF LookUp, Goes, Entry
<1>3. TypeOK'
  BY <1>1, <1>2, CallIds DEF TypeOK, Places
<1>4. CachedById'
  BY <1>1, <1>2 DEF TypeOK, CachedById, Early
<1>5. EnteredById'
  <2>1. cache[IdOf[c]] \in Calls /\ cache[IdOf[c]] # c /\ IdOf[cache[IdOf[c]]] = IdOf[c]
        /\ pc[cache[IdOf[c]]] \notin Early
    BY <1>1, <1>2, CallIds DEF TypeOK, CachedById, Early
  <2>2. entry'[c] = cache[IdOf[c]] /\ pc'[c] \notin Early
        /\ pc'[cache[IdOf[c]]] \notin Early
    BY <1>1, <1>2, <2>1 DEF TypeOK, Early
  <2>3. ASSUME NEW d \in Calls, d # c, entry'[d] # None
        PROVE  SameId(entry'[d], d) /\ pc'[d] \notin Early /\ pc'[entry'[d]] \notin Early
    BY <1>1, <1>2, <2>3 DEF TypeOK, EnteredById, Early
  <2> QED BY <2>1, <2>2, <2>3 DEF EnteredById, SameId
<1>6. UsedIsCached'
  BY <1>1, <1>2 DEF TypeOK, UsedIsCached, Using, Entry
<1>7. HeldIsLocked'
  BY <1>1, <1>2 DEF TypeOK, HeldIsLocked, Holding
<1>8. OneHolder'
  BY <1>1, <1>2 DEF TypeOK, OneHolder, Holding, SameId
<1>9. OneLooker'
  BY <1>1, <1>2 DEF TypeOK, OneLooker, Looking, SameId
<1>10. InsertIsNew'
  BY <1>1, <1>2 DEF TypeOK, InsertIsNew, Entry
<1>11. EarlyIsBlank'
  BY <1>1, <1>2 DEF TypeOK, EarlyIsBlank, Early
<1>12. EntriesKeepResults'
  BY <1>1, <1>2 DEF TypeOK, EntriesKeepResults, EnteredById, Early, EarlyIsBlank
<1> QED
  BY <1>3, <1>4, <1>5, <1>6, <1>7, <1>8, <1>9, <1>10, <1>11, <1>12 DEF TickInv, EntriesAreHeld

LEMMA LookUpTick ==
    ASSUME TickInv, NEW c \in Calls, LookUp(c) PROVE TickInv'
BY MissTick, HitTick

LEMMA InsertTick ==
    ASSUME TickInv, NEW c \in Calls, Insert(c) PROVE TickInv'
<1>1. /\ TypeOK /\ EntriesKeepResults
      /\ CachedById /\ EnteredById /\ UsedIsCached /\ HeldIsLocked
      /\ OneHolder /\ OneLooker /\ InsertIsNew /\ EarlyIsBlank
  BY DEF TickInv, EntriesAreHeld
<1>2. /\ pc[c] = "insert" /\ pc' = [pc EXCEPT ![c] = "tick"]
      /\ entry' = [entry EXCEPT ![c] = c] /\ locked' = locked \cup {c}
      /\ cache' = [cache EXCEPT ![IdOf[c]] = c]
      /\ UNCHANGED <<result, data, panicked, failures, expiries>>
  BY DEF Insert, Goes
<1>3. TypeOK'
  BY <1>1, <1>2 DEF TypeOK, Places
<1>4. CachedById'
  BY <1>1, <1>2 DEF TypeOK, CachedById, Early
<1>5. EnteredById'
  BY <1>1, <1>2 DEF TypeOK, EnteredById, Early, SameId
<1>6. UsedIsCached'
  BY <1>1, <1>2, CallIds, TickAssumption DEF TypeOK, UsedIsCached, Using, Entry, InsertIsNew
<1>7. HeldIsLocked'
  BY <1>1, <1>2 DEF TypeOK, HeldIsLocked, Holding
<1>8. OneHolder'
  BY <1>1, <1>2 DEF TypeOK, OneHolder, Holding, SameId, UsedIsCached, InsertIsNew, Using, Entry
<1>9. OneLooker'
  BY <1>1, <1>2 DEF TypeOK, OneLooker, Looking, SameId
<1>10. InsertIsNew'
  BY <1>1, <1>2, CallIds DEF TypeOK, InsertIsNew, Entry, OneLooker, Looking, SameId
<1>11. EarlyIsBlank'
  BY <1>1, <1>2 DEF TypeOK, EarlyIsBlank, Early
<1>12. EntriesKeepResults'
  BY <1>1, <1>2 DEF TypeOK, EntriesKeepResults, EnteredById, Early, EarlyIsBlank
<1> QED
  BY <1>3, <1>4, <1>5, <1>6, <1>7, <1>8, <1>9, <1>10, <1>11, <1>12 DEF TickInv, EntriesAreHeld

LEMMA LockTick ==
    ASSUME TickInv, NEW c \in Calls, Lock(c) PROVE TickInv'
<1>1. /\ TypeOK /\ EntriesKeepResults
      /\ CachedById /\ EnteredById /\ UsedIsCached /\ HeldIsLocked
      /\ OneHolder /\ OneLooker /\ InsertIsNew /\ EarlyIsBlank
  BY DEF TickInv, EntriesAreHeld
<1>2. /\ pc[c] = "wait" /\ entry[c] \notin locked
      /\ pc' = [pc EXCEPT ![c] = IF data[entry[c]] = None THEN "tick" ELSE "store"]
      /\ locked' = locked \cup {entry[c]} /\ result' = [result EXCEPT ![c] = data[entry[c]]]
      /\ UNCHANGED <<entry, cache, data, panicked, failures, expiries>>
  BY DEF Lock, Goes, Free
<1>3. TypeOK'
  BY <1>1, <1>2 DEF TypeOK, Places, UsedIsCached, Using
<1>4. CachedById'
  BY <1>1, <1>2 DEF TypeOK, CachedById, Early
<1>5. EnteredById'
  BY <1>1, <1>2 DEF TypeOK, EnteredById, Early, SameId
<1>6. UsedIsCached'
  BY <1>1, <1>2 DEF TypeOK, UsedIsCached, Using, Entry
<1>7. HeldIsLocked'
  BY <1>1, <1>2 DEF TypeOK, HeldIsLocked, Holding
<1>8. OneHolder'
  BY <1>1, <1>2 DEF TypeOK, OneHolder, Holding, SameId, UsedIsCached, HeldIsLocked, Using, Entry
<1>9. OneLooker'
  BY <1>1, <1>2 DEF TypeOK, OneLooker, Looking, SameId
<1>10. InsertIsNew'
  BY <1>1, <1>2 DEF TypeOK, InsertIsNew, Entry
<1>11. EarlyIsBlank'
  BY <1>1, <1>2 DEF TypeOK, EarlyIsBlank, Early
<1>12. EntriesKeepResults'
  BY <1>1, <1>2 DEF TypeOK, EntriesKeepResults, EnteredById, Early
<1> QED
  BY <1>3, <1>4, <1>5, <1>6, <1>7, <1>8, <1>9, <1>10, <1>11, <1>12 DEF TickInv, EntriesAreHeld

LEMMA TickTick ==
    ASSUME TickInv, NEW c \in Calls, Tick(c) PROVE TickInv'
<1>1. /\ TypeOK /\ EntriesKeepResults
      /\ CachedById /\ EnteredById /\ UsedIsCached /\ HeldIsLocked
      /\ OneHolder /\ OneLooker /\ InsertIsNew /\ EarlyIsBlank
  BY DEF TickInv, EntriesAreHeld
<1>2. /\ pc[c] = "tick" /\ pc' = [pc EXCEPT ![c] = "store"]
      /\ \/ result' = [result EXCEPT ![c] = c] /\ failures' = failures
         \/ failures > 0 /\ failures' = failures - 1 /\ result' = result
      /\ UNCHANGED <<entry, cache, locked, data, panicked, expiries>>
  BY DEF Tick, Goes
<1>3. TypeOK'
  <2>1. failures' \in Nat
    BY <1>1, <1>2 DEF TypeOK
  <2>2. result' \in [Calls -> Calls \cup {None}]
    BY <1>1, <1>2 DEF TypeOK
  <2> QED BY <1>1, <1>2, <2>1, <2>2 DEF TypeOK, Places
<1>4. CachedById'
  BY <1>1, <1>2 DEF TypeOK, CachedById, Early
<1>5. EnteredById'
  BY <1>1, <1>2 DEF TypeOK, EnteredById, Early, SameId
<1>6. UsedIsCached'
  BY <1>1, <1>2 DEF TypeOK, UsedIsCached, Using, Entry
<1>7. HeldIsLocked'
  BY <1>1, <1>2 DEF TypeOK, HeldIsLocked, Holding
<1>8. OneHolder'
  BY <1>1, <1>2 DEF TypeOK, OneHolder, Holding, SameId
<1>9. OneLooker'
  BY <1>1, <1>2 DEF TypeOK, OneLooker, Looking, SameId
<1>10. InsertIsNew'
  BY <1>1, <1>2 DEF TypeOK, InsertIsNew, Entry
<1>11. EarlyIsBlank'
  BY <1>1, <1>2 DEF TypeOK, EarlyIsBlank, Early
<1>12. EntriesKeepResults'
  BY <1>1, <1>2 DEF TypeOK, EntriesKeepResults, EnteredById, Early
<1> QED
  BY <1>3, <1>4, <1>5, <1>6, <1>7, <1>8, <1>9, <1>10, <1>11, <1>12 DEF TickInv, EntriesAreHeld

(* The id still has the entry the call locked, and it is still locked. *)
LEMMA StoreHolds ==
    ASSUME TickInv, NEW c \in Calls, Store(c)
    PROVE  /\ pc[c] = "store" /\ pc' = [pc EXCEPT ![c] = "done"]
           /\ cache[IdOf[c]] = entry[c] /\ entry[c] \in Calls /\ entry[c] \in locked
           /\ data' = [data EXCEPT ![entry[c]] = result[c]]
           /\ locked' = locked \ {entry[c]}
           /\ UNCHANGED <<entry, result, cache, panicked, failures, expiries>>
<1>1. TypeOK /\ UsedIsCached /\ HeldIsLocked
  BY DEF TickInv, EntriesAreHeld
<1>2. /\ pc[c] = "store" /\ pc' = [pc EXCEPT ![c] = "done"]
      /\ UNCHANGED <<entry, result, cache, failures, expiries>>
  BY DEF Store, Goes
<1>3. Entry(c) = entry[c] /\ entry[c] # None /\ entry[c] \in Calls /\ entry[c] \in locked
  BY <1>1, <1>2 DEF TypeOK, UsedIsCached, HeldIsLocked, Using, Holding
<1>4. Kept(c) /\ Unlock(Entry(c))
  BY <1>3 DEF Store
<1>5. data' = [data EXCEPT ![entry[c]] = result[c]] /\ locked' = locked \ {entry[c]}
  BY <1>3, <1>4 DEF Kept, Unlock
<1>6. panicked' = panicked
  BY <1>1, <1>3, <1>4 DEF Unlock, TypeOK
<1> QED BY <1>2, <1>3, <1>5, <1>6 DEF Entry

LEMMA StoreTick ==
    ASSUME TickInv, NEW c \in Calls, Store(c) PROVE TickInv'
<1>1. /\ TypeOK /\ EntriesKeepResults
      /\ CachedById /\ EnteredById /\ UsedIsCached /\ HeldIsLocked
      /\ OneHolder /\ OneLooker /\ InsertIsNew /\ EarlyIsBlank
  BY DEF TickInv, EntriesAreHeld
<1>2. /\ pc[c] = "store" /\ pc' = [pc EXCEPT ![c] = "done"]
      /\ cache[IdOf[c]] = entry[c] /\ entry[c] \in Calls /\ entry[c] \in locked
      /\ data' = [data EXCEPT ![entry[c]] = result[c]]
      /\ locked' = locked \ {entry[c]}
      /\ UNCHANGED <<entry, result, cache, panicked, failures, expiries>>
  BY StoreHolds
<1>3. TypeOK'
  BY <1>1, <1>2 DEF TypeOK, Places
<1>4. CachedById'
  BY <1>1, <1>2 DEF TypeOK, CachedById, Early
<1>5. EnteredById'
  BY <1>1, <1>2 DEF TypeOK, EnteredById, Early, SameId
<1>6. UsedIsCached'
  BY <1>1, <1>2 DEF TypeOK, UsedIsCached, Using, Entry
<1>7. HeldIsLocked'
  BY <1>1, <1>2, TickAssumption DEF TypeOK, HeldIsLocked, Holding, OneHolder, EnteredById, SameId
<1>8. OneHolder'
  BY <1>1, <1>2 DEF TypeOK, OneHolder, Holding, SameId
<1>9. OneLooker'
  BY <1>1, <1>2 DEF TypeOK, OneLooker, Looking, SameId
<1>10. InsertIsNew'
  BY <1>1, <1>2 DEF TypeOK, InsertIsNew, Entry
<1>11. EarlyIsBlank'
  BY <1>1, <1>2, TickAssumption DEF TypeOK, EarlyIsBlank, Early, EnteredById
<1>12. EntriesKeepResults'
  <2>1. \A d \in Calls : pc[d] \in Holding /\ d # c => entry[d] # entry[c]
    BY <1>1, <1>2 DEF EnteredById, OneHolder, Holding, UsedIsCached, Using, SameId
  <2>2. \A d \in Calls : pc'[d] \in Holding => d # c /\ pc[d] = pc'[d] /\ entry[d] # entry[c]
    BY <1>1, <1>2, <2>1 DEF TypeOK, Holding
  <2>3. \A d \in Calls : pc'[d] = "tick" => data'[entry'[d]] = None
    BY <1>1, <1>2, <2>2 DEF TypeOK, EntriesKeepResults, Holding
  <2>4. \A d \in Calls : pc'[d] = "store" => data'[entry'[d]] \in {None, result'[d]}
    BY <1>1, <1>2, <2>2 DEF TypeOK, EntriesKeepResults, Holding
  <2>5. \A d \in Calls : pc'[d] = "done" /\ result'[d] # None => data'[entry'[d]] = result'[d]
    <3> SUFFICES ASSUME NEW d \in Calls, pc'[d] = "done", result[d] # None
                 PROVE  data'[entry[d]] = result[d]
      BY <1>2
    <3>1. CASE d = c
      BY <1>1, <1>2, <3>1 DEF TypeOK
    <3>2. CASE d # c
      <4>1. pc[d] = "done" /\ data[entry[d]] = result[d]
        BY <1>1, <1>2, <3>2 DEF TypeOK, EntriesKeepResults
      <4>2. CASE entry[d] = entry[c]
        BY <1>1, <1>2, <4>1, <4>2 DEF TypeOK, EntriesKeepResults
      <4>3. CASE entry[d] # entry[c]
        BY <1>1, <1>2, <4>1, <4>3 DEF TypeOK
      <4> QED BY <4>2, <4>3
    <3> QED BY <3>1, <3>2
  <2> QED BY <2>3, <2>4, <2>5 DEF EntriesKeepResults
<1> QED
  BY <1>3, <1>4, <1>5, <1>6, <1>7, <1>8, <1>9, <1>10, <1>11, <1>12 DEF TickInv, EntriesAreHeld

LEMMA ExpireTick ==
    ASSUME ~SlowTicks, TickInv, NEW i \in Ids, Expire(i) PROVE TickInv'
<1>1. /\ TypeOK /\ EntriesKeepResults
      /\ CachedById /\ EnteredById /\ UsedIsCached /\ HeldIsLocked
      /\ OneHolder /\ OneLooker /\ InsertIsNew /\ EarlyIsBlank
  BY DEF TickInv, EntriesAreHeld
<1>2. /\ cache[i] # None /\ expiries > 0
      /\ \A c \in Calls : ~(entry[c] = cache[i] /\ pc[c] \in Using)
      /\ cache' = [cache EXCEPT ![i] = None] /\ expiries' = expiries - 1
      /\ UNCHANGED <<pc, entry, result, locked, data, panicked, failures>>
  BY DEF Expire, InUse, Using
<1>3. TypeOK'
  <2>1. expiries' \in Nat
    BY <1>1, <1>2 DEF TypeOK
  <2> QED BY <1>1, <1>2, <2>1, TickAssumption DEF TypeOK, Places
<1>4. CachedById'
  BY <1>1, <1>2 DEF TypeOK, CachedById, Early
<1>5. EnteredById'
  BY <1>1, <1>2 DEF TypeOK, EnteredById, Early, SameId
<1>6. UsedIsCached'
  BY <1>1, <1>2 DEF TypeOK, UsedIsCached, Using, Entry
<1>7. HeldIsLocked'
  BY <1>1, <1>2 DEF TypeOK, HeldIsLocked, Holding
<1>8. OneHolder'
  BY <1>1, <1>2 DEF TypeOK, OneHolder, Holding, SameId
<1>9. OneLooker'
  BY <1>1, <1>2 DEF TypeOK, OneLooker, Looking, SameId
<1>10. InsertIsNew'
  BY <1>1, <1>2 DEF TypeOK, InsertIsNew, Entry
<1>11. EarlyIsBlank'
  BY <1>1, <1>2 DEF TypeOK, EarlyIsBlank, Early
<1>12. EntriesKeepResults'
  BY <1>1, <1>2 DEF TypeOK, EntriesKeepResults, EnteredById, Early
<1> QED
  BY <1>3, <1>4, <1>5, <1>6, <1>7, <1>8, <1>9, <1>10, <1>11, <1>12 DEF TickInv, EntriesAreHeld

LEMMA StepTick == ASSUME ~SlowTicks, TickInv, [Next]_vars PROVE TickInv'
<1>1. ASSUME NEW c \in Calls, Arrive(c) \/ Handle(c) PROVE TickInv'
  BY <1>1, ArriveTick, LookUpTick, InsertTick, LockTick, TickTick, StoreTick DEF Handle
<1>2. ASSUME NEW i \in Ids, Expire(i) PROVE TickInv'
  BY <1>2, ExpireTick
<1>3. CASE UNCHANGED vars
  BY <1>3
  DEF vars, TickInv, TypeOK, EntriesAreHeld, EntriesKeepResults, CachedById, EnteredById,
      UsedIsCached, HeldIsLocked, OneHolder, OneLooker, InsertIsNew, EarlyIsBlank, Entry, SameId
<1> QED BY <1>1, <1>2, <1>3 DEF Next

(* The invariant holds of every NextTick call, retried at any moment. *)
THEOREM TickInvHolds == ASSUME ~SlowTicks PROVE Spec => []TickInv
<1>1. TickInv /\ [Next]_vars => TickInv' BY StepTick
<1> QED BY <1>1, InitTick, PTL DEF Spec

(* One tick at a time, whoever retries. *)
THEOREM OneTickHolds == ASSUME ~SlowTicks PROVE Spec => []OneTickAtATime
<1>1. TickInv => OneTickAtATime
  BY DEF TickInv, EntriesAreHeld, OneHolder, Holding, OneTickAtATime
<1> QED BY <1>1, TickInvHolds, PTL

(* All calls answered from one entry are answered alike. *)
THEOREM SameResultHolds == ASSUME ~SlowTicks PROVE Spec => []SameResult
<1>1. TickInv => SameResult
  <2> SUFFICES ASSUME TickInv, NEW c \in Calls, NEW d \in Calls,
                      entry[c] = entry[d], entry[c] # None,
                      result[c] # None, result[d] # None
               PROVE  result[c] = result[d]
    BY DEF SameResult
  <2>1. pc[c] \in {"store", "done"} /\ pc[d] \in {"store", "done"}
    BY DEF TickInv, TypeOK, Places, EntriesAreHeld, EarlyIsBlank, Early
  <2>2. SameId(c, d)
    BY DEF TickInv, EntriesAreHeld, EnteredById, SameId
  <2>3. CASE pc[c] = "store" /\ pc[d] = "store"
    BY <2>2, <2>3 DEF TickInv, EntriesAreHeld, OneHolder, Holding
  <2>4. CASE pc[c] = "done" \/ pc[d] = "done"
    BY <2>1, <2>4 DEF TickInv, EntriesKeepResults
  <2> QED BY <2>1, <2>3, <2>4
<1> QED BY <1>1, TickInvHolds, PTL

(* StoreData finds the mutex it unlocks locked. *)
THEOREM NeverPanicsHolds == ASSUME ~SlowTicks PROVE Spec => []NeverPanics
<1>1. Init => NeverPanics BY DEF Init, NeverPanics
<1>2. ASSUME TickInv, NeverPanics, [Next]_vars PROVE NeverPanics'
  <2>1. ASSUME NEW c \in Calls, Store(c) PROVE NeverPanics'
    BY <1>2, <2>1, StoreHolds DEF NeverPanics
  <2> QED BY <1>2, <2>1
      DEF NeverPanics, Next, Handle, Arrive, LookUp, Insert, Lock, Tick, Expire, vars
<1> QED BY <1>1, <1>2, TickInvHolds, PTL DEF Spec
=============================================================================
