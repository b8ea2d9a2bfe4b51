---------------------------- MODULE ResponseCache ----------------------------
(***************************************************************************)
(* CachedClient and MemoryResponseCache of caching_middleware.go: calls     *)
(* look their request up, and store what the provider answered if it was    *)
(* not there; entries expire, and the cache has a limited size.             *)
(*                                                                         *)
(* A response is an object with an identity, since its receiver may change  *)
(* it; objects are numbered as they are made.                               *)
(***************************************************************************)
EXTENDS Integers, Sequences, FiniteSets

CONSTANTS
    Callers,            \* calls of GenerateContent, one each
    Keys,               \* cache keys of requests
    TTL,                \* ttl of the cache that has one
    MaxEntries,
    MaxClock            \* bound: when time stops

ASSUME CacheAssumption ==
    TTL \in Nat \ {0} /\ MaxEntries \in Nat \ {0} /\ MaxClock \in Nat

VARIABLES
    ttl,                \* TTL, or 0: entries never expire
    clock,
    object,             \* [key, changed] of every response made
    entries,            \* per key in the cache: [object, stored, expires]
    at,                 \* per call: "idle", "provider", "storing", "hit", "answered", "failed"
    request,            \* per call: the key of its request
    held,               \* per call: the object it returned
    served              \* history: per call, the entry and object of its cache hit

cacheVars == <<ttl, clock, object, entries, at, request, held, served>>

CacheInit ==
    /\ ttl \in {0, TTL} /\ clock = 1
    /\ object = <<>> /\ entries = <<>>
    /\ at = [c \in Callers |-> "idle"]
    /\ request \in [Callers -> Keys]
    /\ held = [c \in Callers |-> 0]
    /\ served = [c \in Callers |-> <<>>]

Cached == DOMAIN entries
Without(keys) == [k \in Cached \ keys |-> entries[k]]
Live(k) == entries[k].expires = 0 \/ clock < entries[k].expires
CloneOf(o) == object[o]

\* A slip: the cache's own object is returned.
OwnShared(c) == /\ UNCHANGED object
                /\ held' = [held EXCEPT ![c] = entries[request[c]].object]

\* The response c returns is its own, and c may change it later.
Own(c) == /\ object' = Append(object, CloneOf(entries[request[c]].object))
          /\ held' = [held EXCEPT ![c] = Len(object')]

-----------------------------------------------------------------------------
(* The size limit.                                                         *)

\* Strictly after its expiry an entry is dropped when room is needed.
Expired == {k \in Cached : entries[k].expires # 0 /\ clock > entries[k].expires}

\* A slip: the entry that would last longest.
LatestExpiring(keys) == {k \in keys : \A j \in keys : entries[j].expires <= entries[k].expires}

\* Entries of one cache all expire, or none does.
EarliestExpiring(keys) == {k \in keys : \A j \in keys : entries[k].expires <= entries[j].expires}

\* evictLocked: what it removes, one earliest entry if nothing has expired.
Evictions ==
    IF Expired # {} THEN {Expired}
    ELSE {{k} : k \in EarliestExpiring(Cached)}

\* Set finds the key, or room, or makes some.
Room(key) ==
    IF key \in Cached \/ Cardinality(Cached) < MaxEntries THEN {{}} ELSE Evictions

-----------------------------------------------------------------------------
(* A call.                                                                 *)

Hit(c) ==
    /\ at[c] = "idle"
    /\ request[c] \in Cached /\ Live(request[c])
    /\ Own(c)
    /\ served' = [served EXCEPT ![c] =
           <<clock, entries[request[c]], object[entries[request[c]].object]>>]
    /\ at' = [at EXCEPT ![c] = "hit"]
    /\ UNCHANGED <<ttl, clock, entries, request>>

\* Nothing, or an expired entry, which goes.
Miss(c) ==
    /\ at[c] = "idle"
    /\ request[c] \in Cached => ~Live(request[c])
    /\ entries' = Without({request[c]})
    /\ at' = [at EXCEPT ![c] = "provider"]
    /\ UNCHANGED <<ttl, clock, object, request, held, served>>

ProviderAnswers(c) ==
    /\ at[c] = "provider"
    /\ object' = Append(object, [key |-> request[c], changed |-> FALSE])
    /\ held' = [held EXCEPT ![c] = Len(object')]
    /\ at' = [at EXCEPT ![c] = "storing"]
    /\ UNCHANGED <<ttl, clock, entries, request, served>>

ProviderFails(c) ==
    /\ at[c] = "provider"
    /\ at' = [at EXCEPT ![c] = "failed"]
    /\ UNCHANGED <<ttl, clock, object, entries, request, held, served>>

\* A clone is stored, for ttl from now: another call may have stored since.
Store(c) ==
    /\ at[c] = "storing"
    /\ object' = Append(object, CloneOf(held[c]))
    /\ \E dropped \in Room(request[c]) :
          entries' = [k \in {request[c]} \cup (Cached \ dropped) |->
                         IF k = request[c]
                         THEN [object |-> Len(object'), stored |-> clock,
                               expires |-> IF ttl = 0 THEN 0 ELSE clock + ttl]
                         ELSE entries[k]]
    /\ at' = [at EXCEPT ![c] = "answered"]
    /\ UNCHANGED <<ttl, clock, request, held, served>>

\* The receiver changes the response it was given.
Change(c) ==
    /\ at[c] \in {"hit", "answered"}
    /\ ~object[held[c]].changed
    /\ object' = [object EXCEPT ![held[c]].changed = TRUE]
    /\ UNCHANGED <<ttl, clock, entries, at, request, held, served>>

Tick ==
    /\ clock < MaxClock
    /\ clock' = clock + 1
    /\ UNCHANGED <<ttl, object, entries, at, request, held, served>>

CacheNext ==
    \/ Tick
    \/ \E c \in Callers :
          Hit(c) \/ Miss(c) \/ ProviderAnswers(c) \/ ProviderFails(c) \/ Store(c) \/ Change(c)

CacheSpec == CacheInit /\ [][CacheNext]_cacheVars

-----------------------------------------------------------------------------
(* Properties                                                              *)

\* A hit is what the provider answered to this request, as it was answered,
\* whatever earlier callers did to the responses they got, and it was stored
\* less than a ttl ago.
HitsAreFreshAnswers ==
    \A c \in Callers : at[c] = "hit" =>
        LET now == served[c][1] entry == served[c][2] response == served[c][3] IN
        /\ response = [key |-> request[c], changed |-> FALSE]
        /\ ttl # 0 => now - entry.stored < ttl

\* An entry that could still be served is dropped only from a full cache in which
\* every entry could be.
EvictsDeadFirst ==
    [][\A k \in Cached : Live(k) /\ k \notin DOMAIN entries' =>
          Cardinality(Cached) >= MaxEntries /\ \A j \in Cached : Live(j)]_cacheVars
=============================================================================
