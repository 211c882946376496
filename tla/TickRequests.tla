---------------------------- MODULE TickRequests ----------------------------
(***************************************************************************)
(* NextTick and its RequestCache: a client repeats a NextTick that failed  *)
(* or timed out with the same request id, possibly while the server still  *)
(* works on the first one.  The first call of an id finds no entry in the  *)
(* cache, inserts one with a locked mutex and runs the tick; later calls   *)
(* wait for the mutex and take the result, or, if there is none because    *)
(* the tick failed, run it themselves.  An entry is named after the call   *)
(* that made it, a result after the call whose tick it is.                 *)
(***************************************************************************)
EXTENDS Naturals

CONSTANTS
    Calls,        \* NextTick calls the server may receive
    IdOf,         \* [Calls -> request ids]
    SlowTicks,    \* may an entry expire (5 minutes) under a call that uses it?
    None,         \* no entry, no result
    MaxFailures,  \* ticks that may fail
    MaxExpiries   \* entries that may expire

Ids == {IdOf[c] : c \in Calls}
SameId(c, d) == IdOf[c] = IdOf[d]

ASSUME TickAssumption ==
    /\ None \notin Calls
    /\ SlowTicks \in BOOLEAN
    /\ MaxFailures \in Nat /\ MaxExpiries \in Nat

VARIABLES
    pc,        \* [Calls -> where the call is]
    entry,     \* [Calls -> the entry the call made or found]
    result,    \* [Calls -> tickDelta, the call's result so far]
    cache,     \* [Ids -> the id's entry]
    locked,    \* entries whose mutex is locked
    data,      \* [Calls -> the result an entry holds]
    panicked,  \* a mutex was unlocked twice: the server is gone
    failures, expiries

vars == <<pc, entry, result, cache, locked, data, panicked, failures, expiries>>

Init ==
    /\ pc = [c \in Calls |-> "none"]
    /\ entry = [c \in Calls |-> None] /\ result = [c \in Calls |-> None]
    /\ cache = [i \in Ids |-> None]
    /\ locked = {} /\ data = [c \in Calls |-> None]
    /\ panicked = FALSE
    /\ failures = MaxFailures /\ expiries = MaxExpiries

Goes(c, from, to) == pc[c] = from /\ pc' = [pc EXCEPT ![c] = to]
Entry(c) == cache[IdOf[c]]

(* Slips: one programming mistake each, not used by the specification. *)
SlipFree(e)      == TRUE                                \* no mutex
SlipKept(c)      == UNCHANGED data                      \* the result is not kept
SlipUnlock(e)    == UNCHANGED <<locked, panicked>>      \* the mutex stays locked

\* The client waits for an error or a time-out, and backs off, before it
\* repeats an id, so that two look-ups of an id never overlap.
Arrive(c) ==
    /\ Goes(c, "none", "look up")
    /\ \A d \in Calls : SameId(c, d) => pc[d] \notin {"look up", "insert"}
    /\ UNCHANGED <<entry, result, cache, locked, data, panicked, failures, expiries>>

\* RequestCache.GetData: look the id up ...
LookUp(c) ==
    /\ \/ /\ Entry(c) = None
          /\ Goes(c, "look up", "insert") /\ UNCHANGED entry
       \/ /\ Entry(c) # None
          /\ Goes(c, "look up", "wait") /\ entry' = [entry EXCEPT ![c] = Entry(c)]
    /\ UNCHANGED <<result, cache, locked, data, panicked, failures, expiries>>

\* ... and, in a later step, insert a locked entry ...
Insert(c) ==
    /\ Goes(c, "insert", "tick")
    /\ entry' = [entry EXCEPT ![c] = c]
    /\ locked' = locked \cup {c}
    /\ cache' = [cache EXCEPT ![IdOf[c]] = c]
    /\ UNCHANGED <<result, data, panicked, failures, expiries>>

\* ... or lock the one that was found and read it.
Free(e) == e \notin locked
Lock(c) ==
    /\ Goes(c, "wait", IF data[entry[c]] = None THEN "tick" ELSE "store")
    /\ Free(entry[c])
    /\ locked' = locked \cup {entry[c]}
    /\ result' = [result EXCEPT ![c] = data[entry[c]]]
    /\ UNCHANGED <<entry, cache, data, panicked, failures, expiries>>

\* Server.nextTick: the playground's tick and, in a live one, the equity record.
Tick(c) ==
    /\ Goes(c, "tick", "store")
    /\ \/ result' = [result EXCEPT ![c] = c] /\ UNCHANGED failures
       \/ failures > 0 /\ failures' = failures - 1 /\ UNCHANGED result
    /\ UNCHANGED <<entry, cache, locked, data, panicked, expiries>>

\* RequestCache.StoreData, on every way out of NextTick: the id is looked up
\* again, and whatever entry it has now gets the result and is unlocked.
Kept(c) == data' = [data EXCEPT ![Entry(c)] = result[c]]
Unlock(e) ==
    /\ locked' = locked \ {e}
    /\ panicked' = (panicked \/ e \notin locked)
Store(c) ==
    /\ Goes(c, "store", "done")
    /\ \/ Entry(c) = None /\ UNCHANGED <<data, locked, panicked>>
       \/ Entry(c) # None /\ Kept(c) /\ Unlock(Entry(c))
    /\ UNCHANGED <<entry, result, cache, failures, expiries>>

\* go-cache drops an entry five minutes after it was inserted.
InUse(e) == \E c \in Calls : entry[c] = e /\ pc[c] \in {"wait", "tick", "store"}
Expire(i) ==
    /\ cache[i] # None /\ expiries > 0
    /\ SlowTicks \/ ~InUse(cache[i])
    /\ cache' = [cache EXCEPT ![i] = None]
    /\ expiries' = expiries - 1
    /\ UNCHANGED <<pc, entry, result, locked, data, panicked, failures>>

Handle(c) == LookUp(c) \/ Insert(c) \/ Lock(c) \/ Tick(c) \/ Store(c)

Next ==
    /\ ~panicked
    /\ \/ \E c \in Calls : Arrive(c) \/ Handle(c)
       \/ \E i \in Ids : Expire(i)

Spec == Init /\ [][Next]_vars

\* Every call is a goroutine that runs on.  There are finitely many, so a
\* waiter is not passed over for ever.
FairSpec == Spec /\ \A c \in Calls : WF_vars(~panicked /\ Handle(c))

-----------------------------------------------------------------------------
(* Every variable holds a value of its kind. *)
Places == {"none", "look up", "insert", "wait", "tick", "store", "done"}
TypeOK ==
    /\ pc \in [Calls -> Places]
    /\ entry \in [Calls -> Calls \cup {None}] /\ result \in [Calls -> Calls \cup {None}]
    /\ cache \in [Ids -> Calls \cup {None}] /\ data \in [Calls -> Calls \cup {None}]
    /\ locked \subseteq Calls /\ panicked \in BOOLEAN
    /\ failures \in Nat /\ expiries \in Nat

(* Two calls with one request id never run the playground's tick at once. *)
OneTickAtATime ==
    \A c, d \in Calls :
        c # d /\ SameId(c, d) => ~(pc[c] = "tick" /\ pc[d] = "tick")

(* However often a request is repeated while its entry lives, its tick        *)
(* succeeds once: all calls that get a result from one entry get the same.    *)
SameResult ==
    \A c, d \in Calls :
        /\ entry[c] = entry[d] /\ entry[c] # None
        /\ result[c] # None /\ result[d] # None
        => result[c] = result[d]

(* StoreData never unlocks a mutex that is not locked, which ends the server. *)
NeverPanics == ~panicked

(* Why the above holds: a call that runs the tick or stores its result holds  *)
(* the mutex of the entry its id has now, alone, and the entry keeps the       *)
(* result of every call that is over.                                          *)
Early   == {"none", "look up", "insert"}
Looking == {"look up", "insert"}
Using   == {"wait", "tick", "store"}
Holding == {"tick", "store"}
CachedById ==
    \A i \in Ids : cache[i] # None => IdOf[cache[i]] = i /\ pc[cache[i]] \notin Early
EnteredById ==
    \A c \in Calls : entry[c] # None =>
        SameId(entry[c], c) /\ pc[c] \notin Early /\ pc[entry[c]] \notin Early
UsedIsCached ==
    \A c \in Calls : pc[c] \in Using => entry[c] = Entry(c) /\ entry[c] # None
HeldIsLocked == \A c \in Calls : pc[c] \in Holding => entry[c] \in locked
OneHolder ==
    \A c, d \in Calls : c # d /\ SameId(c, d) => ~(pc[c] \in Holding /\ pc[d] \in Holding)
OneLooker ==
    \A c, d \in Calls : c # d /\ SameId(c, d) => ~(pc[c] \in Looking /\ pc[d] \in Looking)
InsertIsNew == \A c \in Calls : pc[c] = "insert" => Entry(c) = None
EarlyIsBlank ==
    \A c \in Calls : /\ pc[c] \in Early => data[c] = None
                     /\ pc[c] \in Early \cup {"wait", "tick"} => result[c] = None
EntriesAreHeld ==
    /\ CachedById /\ EnteredById /\ UsedIsCached /\ HeldIsLocked
    /\ OneHolder /\ OneLooker /\ InsertIsNew /\ EarlyIsBlank
EntriesKeepResults ==
    /\ \A c \in Calls : pc[c] = "tick" => data[entry[c]] = None
    /\ \A c \in Calls : pc[c] = "store" => data[entry[c]] \in {None, result[c]}
    /\ \A c \in Calls : pc[c] = "done" /\ result[c] # None => data[entry[c]] = result[c]
TickInv == TypeOK /\ EntriesAreHeld /\ EntriesKeepResults

(* Every NextTick call returns. *)
EveryCallReturns == \A c \in Calls : pc[c] # "none" ~> pc[c] = "done"
=============================================================================
