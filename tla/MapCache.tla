------------------------------ MODULE MapCache ------------------------------
(***************************************************************************)
(* The road router of the API server, map/map.service.ts: a bounded cache  *)
(* in memory in front of OSRM, which is asked up to three times.           *)
(*                                                                         *)
(* JavaScript runs a handler up to its next await without interruption:    *)
(* looking a key up, and evicting and storing, are each one action; what   *)
(* OSRM answers and when is nondeterministic.  A hit changes nothing and   *)
(* is not an action.  Left out: what a road looks like.                    *)
(***************************************************************************)
EXTENDS Domain, Naturals, Sequences

CONSTANTS
    Pair,            \* "from|to", the key of an entry
    MaxCacheEntries, \* MAX_CACHE_ENTRIES
    CacheTtl,        \* CACHE_TTL_MS
    MaxAttempts,     \* MAX_ATTEMPTS
    MapHorizon,      \* bound: the clock
    MaxLookUps       \* bound: calls that miss

ASSUME MapCacheAssumption ==
    /\ MaxCacheEntries \in Nat \ {0} /\ MaxAttempts \in Nat \ {0}
    /\ {CacheTtl, MapHorizon, MaxLookUps} \subseteq Nat /\ Nil \notin Pair

VARIABLES
    cache,      \* entries in the order their keys were inserted
    clock,
    fetch,      \* what each call of getRoute waits for
    lookUps     \* history: misses so far

mapVars == <<cache, clock, fetch, lookUps>>

Entry == [pair : Pair, expiresAt : Nat]
Fetch == [at : {"idle", "asked", "delayed"}, pair : Pair \cup {Nil}, attempt : 0..MaxAttempts]

NoFetch == [at |-> "idle", pair |-> Nil, attempt |-> 0]

MapTypeOK ==
    /\ cache \in Seq(Entry) /\ clock \in Nat /\ lookUps \in Nat
    /\ fetch \in [Request -> Fetch]

MapInit ==
    /\ cache = <<>> /\ clock = 0 /\ lookUps = 0
    /\ fetch = [r \in Request |-> NoFetch]

-----------------------------------------------------------------------------
Cached(pair) == {i \in 1..Len(cache) : cache[i].pair = pair}
Fresh(pair)  == {i \in Cached(pair) : cache[i].expiresAt > clock}

\* Concurrent misses of one key each ask on their own.
Miss(r, pair) ==
    /\ fetch[r].at = "idle" /\ Fresh(pair) = {}
    /\ lookUps < MaxLookUps /\ lookUps' = lookUps + 1
    /\ fetch' = [fetch EXCEPT ![r] = [at |-> "asked", pair |-> pair, attempt |-> 1]]
    /\ UNCHANGED <<cache, clock>>

\* Map.set keeps the place of a key it already holds.
Put(entries, e) ==
    IF \E i \in 1..Len(entries) : entries[i].pair = e.pair
    THEN [i \in 1..Len(entries) |-> IF entries[i].pair = e.pair THEN e ELSE entries[i]]
    ELSE Append(entries, e)

\* Mutant: the budget is passed by one before anything is dropped.
LateRoom(entries) == IF Len(entries) > MaxCacheEntries THEN Tail(entries) ELSE entries

\* A full cache loses its oldest entry first, also when the key is in it already.
Room(entries) == IF Len(entries) >= MaxCacheEntries THEN Tail(entries) ELSE entries

Answer(r) ==
    /\ fetch[r].at = "asked"
    /\ cache' = Put(Room(cache), [pair |-> fetch[r].pair, expiresAt |-> clock + CacheTtl])
    /\ fetch' = [fetch EXCEPT ![r] = NoFetch]
    /\ UNCHANGED <<clock, lookUps>>

\* Mutant: the last attempt waits for another one, which the loop does not make.
StuckRefusal(r) ==
    /\ fetch[r].at = "asked"
    /\ fetch' = [fetch EXCEPT ![r] = IF @.attempt < MaxAttempts THEN [@ EXCEPT !.at = "delayed"]
                                     ELSE [@ EXCEPT !.attempt = 1]]
    /\ UNCHANGED <<cache, clock, lookUps>>

\* An error, an empty answer or the abort timer: any of them is tried again.
Refusal(r) ==
    /\ fetch[r].at = "asked"
    /\ fetch' = [fetch EXCEPT ![r] = IF @.attempt < MaxAttempts THEN [@ EXCEPT !.at = "delayed"]
                                     ELSE NoFetch]
    /\ UNCHANGED <<cache, clock, lookUps>>

TryAgain(r) ==
    /\ fetch[r].at = "delayed"
    /\ fetch' = [fetch EXCEPT ![r].at = "asked", ![r].attempt = @ + 1]
    /\ UNCHANGED <<cache, clock, lookUps>>

Elapse ==
    /\ clock < MapHorizon /\ clock' = clock + 1
    /\ UNCHANGED <<cache, fetch, lookUps>>

-----------------------------------------------------------------------------
MapNext ==
    \/ \E r \in Request : (\E pair \in Pair : Miss(r, pair)) \/ Answer(r) \/ Refusal(r) \/ TryAgain(r)
    \/ Elapse

\* The abort timer ends every attempt that OSRM does not, and the delay ends.
MapFairness == \A r \in Request : WF_mapVars(Answer(r) \/ Refusal(r) \/ TryAgain(r))

MapSpec == MapInit /\ [][MapNext]_mapVars /\ MapFairness

-----------------------------------------------------------------------------
(* Properties *)

\* The cache keeps its budget and one entry per key, whatever calls are under
\* way at once: each evicts and stores only after its own answer.
CacheWithinBudget ==
    /\ Len(cache) <= MaxCacheEntries
    /\ \A i, j \in 1..Len(cache) : cache[i].pair = cache[j].pair => i = j

\* Every caller gets an answer or a refusal, however OSRM behaves.
EveryCallEnds == \A r \in Request : fetch[r].at # "idle" ~> fetch[r].at = "idle"
=============================================================================
