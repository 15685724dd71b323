---------------------------- MODULE SourceCache ----------------------------
(***************************************************************************)
(* The locked HTTP client that every adapter reads a source through        *)
(* (internal/httpx): GET requests answered from a shared response cache or *)
(* from the network, and the recorder (RequestInfo) that reports to one    *)
(* source collection whether its requests were served from the cache.      *)
(*                                                                         *)
(* Collections run concurrently and share the cache.  A request takes the  *)
(* cache mutex twice, for cacheGet and for cachePut, and does its network  *)
(* work in between, so two misses on one key both fetch, and the later     *)
(* cachePut wins.  Each of the two critical sections is one step here.     *)
(***************************************************************************)
EXTENDS Integers, Sequences, FiniteSets, SequencesExt, Functions, TLC

CONSTANTS
    Collections,    \* the source collections that run concurrently
    Keys,           \* cache keys: destination, path and header fingerprints
    BodySizes,      \* sizes of response bodies
    MaxBody,        \* LockedClient.maxBody
    MaxEntries,     \* maxCacheEntries
    MaxCacheBytes,  \* maxCacheBytes
    TTLs,           \* the configured source_cache_ttl; 0 turns the cache off
    Deadline,       \* the per-source timeout, in clock ticks
    Horizon,        \* bound: the clock stops here
    MaxRequests     \* bound: requests of one collection; 1 if the cache is off

ASSUME SourceCacheAssumption ==
    /\ BodySizes \subseteq Nat
    /\ MaxBody \in Nat
    /\ MaxEntries \in Nat \ {0}
    /\ MaxCacheBytes \in Nat
    /\ TTLs \subseteq Nat
    /\ Deadline \in Nat \ {0}
    /\ Horizon \in Nat
    /\ MaxRequests \in Nat

VARIABLES
    now,
    cacheTTL,    \* LockedClient.cacheTTL, fixed when the client is made
    cache,       \* LockedClient.cache: key -> entry
    cacheOrder,  \* LockedClient.cacheOrder
    cacheBytes,  \* LockedClient.cacheBytes
    pc,          \* where each collection is: see Phases
    key,         \* the key of its current request
    canceled,    \* its context is canceled
    started,     \* when its context was made
    resp,        \* the response it is reading or storing
    info,        \* its RequestInfo
    uses,        \* history: the snapshots it was given, [cached, collectedAt]
    snapshots    \* history: every snapshot read from a source

cacheVars == <<cache, cacheOrder, cacheBytes>>
vars == <<now, cacheTTL, cacheVars, pc, key, canceled, started, resp, info,
          uses, snapshots>>

(* "idle" before its collection, "done" after it, "ready" between two of   *)
(* its requests;                                                           *)
(* "lookup" past the context check of Get; "fetch" waiting for the source; *)
(* "body" reading its response; "put" about to store it.                   *)
Phases == {"idle", "done", "ready", "lookup", "fetch", "body", "put"}

NoResponse == [served |-> 0, size |-> 0, ok |-> FALSE, collectedAt |-> 0]
NoRequests == [requests |-> 0, hits |-> 0, disabled |-> FALSE, oldest |-> 0]

----------------------------------------------------------------------------
(* The cache, under its mutex.  cacheGet drops an entry after its expiry,  *)
(* cachePut already at its expiry.                                         *)

BytesOf(keys) == SumFunctionOnSet([k \in DOMAIN cache |-> cache[k].size], keys)

\* Mutant: the bytes of removed entries stay counted.
BytesNeverFreed(keys) == cacheBytes

(* The cache and its order after every entry but those of keys is removed, *)
(* and the byte counter after their bytes are taken from it.               *)
OrderOf(keys) ==
    LET kept[n \in 0..Len(cacheOrder)] ==
            IF n = 0 THEN << >>
            ELSE IF cacheOrder[n] \in keys THEN Append(kept[n - 1], cacheOrder[n])
            ELSE kept[n - 1]
    IN  kept[Len(cacheOrder)]
BytesLeft(keys) == cacheBytes - BytesOf(DOMAIN cache \ keys)

\* Mutant: entries are served without looking at their expiry.
ServableForever(k) == k \in DOMAIN cache

Servable(k) == k \in DOMAIN cache /\ now <= cache[k].expiresAt

Unexpired == {k \in DOMAIN cache : now < cache[k].expiresAt}

HasRoom(keys, size) ==
    /\ Cardinality(keys) < MaxEntries
    /\ BytesLeft(keys) + size <= MaxCacheBytes

(* The entries cachePut keeps beside a new one of key k: it drops the      *)
(* expired ones, the old one of k, and then the oldest until there is room.*)
KeptBeside(k, size) ==
    LET live == OrderOf(Unexpired \ {k})
        After(n) == ToSet(SubSeq(live, n + 1, Len(live)))
    IN  After(CHOOSE n \in 0..Len(live) :
                 /\ HasRoom(After(n), size) \/ n = Len(live)
                 /\ \A m \in 0..n - 1 : ~ HasRoom(After(m), size))

\* Mutant: a replaced entry hands its collection time on.
EntryKeepsAge(k, r) ==
    [served |-> r.served, size |-> r.size, expiresAt |-> now + cacheTTL,
     collectedAt |-> IF k \in DOMAIN cache
                     THEN cache[k].collectedAt ELSE r.collectedAt]

EntryOf(k, r) ==
    [served |-> r.served, size |-> r.size, expiresAt |-> now + cacheTTL,
     collectedAt |-> r.collectedAt]

\* Mutant: a replaced entry keeps its place in the order.
InsertInPlace(k, r) ==
    IF r.size > MaxCacheBytes
    THEN UNCHANGED cacheVars
    ELSE LET kept == KeptBeside(k, r.size) IN
         /\ cache' = [j \in kept \cup {k} |->
                        IF j = k THEN EntryOf(k, r) ELSE cache[j]]
         /\ cacheOrder' = IF k \in DOMAIN cache
                          THEN OrderOf(kept \cup {k}) ELSE Append(OrderOf(kept), k)
         /\ cacheBytes' = BytesLeft(kept) + r.size

Insert(k, r) ==
    IF r.size > MaxCacheBytes
    THEN UNCHANGED cacheVars
    ELSE LET kept == KeptBeside(k, r.size) IN
         /\ cache' = [j \in kept \cup {k} |->
                        IF j = k THEN EntryOf(k, r) ELSE cache[j]]
         /\ cacheOrder' = Append(OrderOf(kept), k)
         /\ cacheBytes' = BytesLeft(kept) + r.size

----------------------------------------------------------------------------
Init ==
    /\ now = 0
    /\ cacheTTL \in TTLs
    /\ cache = << >> /\ cacheOrder = << >> /\ cacheBytes = 0
    /\ pc = [c \in Collections |-> "idle"]
    /\ key \in [Collections -> Keys]
    /\ \A c, d \in Collections : key[c] = key[d]
    /\ canceled = [c \in Collections |-> FALSE]
    /\ started = [c \in Collections |-> 0]
    /\ resp = [c \in Collections |-> NoResponse]
    /\ info = [c \in Collections |-> NoRequests]
    /\ uses = [c \in Collections |-> {}]
    /\ snapshots = {}

Goto(c, phase) == pc' = [pc EXCEPT ![c] = phase]

(* withSourceTimeout makes the recorder and the deadline of a collection.  *)
Begin(c) ==
    /\ pc[c] = "idle"
    /\ started' = [started EXCEPT ![c] = now]
    /\ Goto(c, "ready")
    /\ UNCHANGED <<now, cacheTTL, cacheVars, key, canceled, resp, info, uses,
                   snapshots>>

(* The caller of the tool goes away.                                       *)
Cancel(c) ==
    /\ pc[c] \notin {"idle", "done"}
    /\ ~ canceled[c]
    /\ canceled' = [canceled EXCEPT ![c] = TRUE]
    /\ UNCHANGED <<now, cacheTTL, cacheVars, pc, key, started, resp, info, uses,
                   snapshots>>

PastDeadline(c) == now > started[c] + Deadline

Dead(c) == canceled[c] \/ PastDeadline(c)

MayAsk(c) == info[c].requests < MaxRequests /\ ~ info[c].disabled

(* Get, up to the cache read.  A context that is done fails it at once,    *)
(* which leaves the collection where it was.                               *)
Call(c, k) ==
    /\ pc[c] = "ready"
    /\ MayAsk(c)
    /\ ~ Dead(c)
    /\ key' = [key EXCEPT ![c] = k]
    /\ Goto(c, "lookup")
    /\ UNCHANGED <<now, cacheTTL, cacheVars, canceled, started, resp, info,
                   uses, snapshots>>

\* Mutant: a hit is not recorded as a request.
HitUnrecorded(i, collectedAt) ==
    [i EXCEPT !.hits = @ + 1,
              !.oldest = IF i.hits = 0 \/ collectedAt < @ THEN collectedAt ELSE @]

(* recordHit keeps the oldest collection time.                             *)
RecordHit(i, collectedAt) ==
    [i EXCEPT !.requests = @ + 1, !.hits = @ + 1,
              !.oldest = IF i.hits = 0 \/ collectedAt < @ THEN collectedAt ELSE @]

\* Mutant: a miss is not recorded as a request.
MissUnrecorded(i) == i

RecordMiss(i) == [i EXCEPT !.requests = @ + 1]

LookupHit(c) ==
    LET k == key[c] IN
    /\ pc[c] = "lookup" /\ cacheTTL > 0
    /\ Servable(k)
    /\ info' = [info EXCEPT ![c] = RecordHit(@, cache[k].collectedAt)]
    /\ uses' = [uses EXCEPT ![c] = @ \cup
                   {[cached |-> TRUE, collectedAt |-> cache[k].collectedAt]}]
    /\ Goto(c, "ready")
    /\ UNCHANGED <<now, cacheTTL, cacheVars, key, canceled, started, resp,
                   snapshots>>

(* A miss, which also removes an entry it finds expired.                   *)
LookupMiss(c) ==
    LET others == DOMAIN cache \ {key[c]} IN
    /\ pc[c] = "lookup" /\ cacheTTL > 0
    /\ ~ Servable(key[c])
    /\ cache' = Restrict(cache, others)
    /\ cacheOrder' = OrderOf(others)
    /\ cacheBytes' = BytesLeft(others)
    /\ info' = [info EXCEPT ![c] = RecordMiss(@)]
    /\ Goto(c, "fetch")
    /\ UNCHANGED <<now, cacheTTL, key, canceled, started, resp, uses,
                   snapshots>>

(* recordDisabled does not count the request.                              *)
LookupDisabled(c) ==
    /\ pc[c] = "lookup" /\ cacheTTL = 0
    /\ info' = [info EXCEPT ![c].disabled = TRUE]
    /\ Goto(c, "fetch")
    /\ UNCHANGED <<now, cacheTTL, cacheVars, key, canceled, started, resp, uses,
                   snapshots>>

(* The source answers with what it knows now; ok is status 200.            *)
Respond(c) ==
    /\ pc[c] = "fetch" /\ ~ Dead(c)
    /\ \E size \in BodySizes, ok \in BOOLEAN :
          resp' = [resp EXCEPT ![c] = [served |-> now, size |-> size, ok |-> ok,
                                       collectedAt |-> 0]]
    /\ Goto(c, "body")
    /\ UNCHANGED <<now, cacheTTL, cacheVars, key, canceled, started, info, uses,
                   snapshots>>

(* A network error, a context that ends during the request, or a body      *)
(* above maxBody.                                                          *)
FailRequest(c) ==
    /\ pc[c] \in {"fetch", "body"}
    /\ resp' = [resp EXCEPT ![c] = NoResponse]
    /\ Goto(c, "ready")
    /\ UNCHANGED <<now, cacheTTL, cacheVars, key, canceled, started, info, uses,
                   snapshots>>

\* Mutant: a body is stored although the cache is off.
StoredAlways(ok) == ok

Stored(ok) == cacheTTL > 0 /\ ok

(* The whole body is read: one collection time is fixed for this snapshot. *)
ReadBody(c) ==
    /\ pc[c] = "body" /\ ~ PastDeadline(c)
    /\ resp[c].size <= MaxBody
    /\ resp' = [resp EXCEPT ![c].collectedAt = now]
    /\ uses' = [uses EXCEPT ![c] = @ \cup {[cached |-> FALSE,
                                            collectedAt |-> now]}]
    /\ snapshots' = snapshots \cup {[key |-> key[c], served |-> resp[c].served,
                                     collectedAt |-> now]}
    /\ Goto(c, IF Stored(resp[c].ok) THEN "put" ELSE "ready")
    /\ UNCHANGED <<now, cacheTTL, cacheVars, key, canceled, started, info>>

Put(c) ==
    /\ pc[c] = "put"
    /\ Insert(key[c], resp[c])
    /\ resp' = [resp EXCEPT ![c] = NoResponse]
    /\ Goto(c, "ready")
    /\ UNCHANGED <<now, cacheTTL, key, canceled, started, info, uses,
                   snapshots>>

(* The adapter returns, withSourceTimeout takes the cache state and age,   *)
(* and the context is gone.                                                *)
Finish(c) ==
    /\ pc[c] = "ready"
    /\ Goto(c, "done")
    /\ canceled' = [canceled EXCEPT ![c] = FALSE]
    /\ started' = [started EXCEPT ![c] = 0]
    /\ info' = [info EXCEPT ![c] = NoRequests]
    /\ uses' = [uses EXCEPT ![c] = {}]
    /\ UNCHANGED <<now, cacheTTL, cacheVars, key, resp, snapshots>>

(* Storing a body takes less than a tick, and a request that passes its    *)
(* deadline fails before the next one.                                     *)
Tick ==
    /\ now < Horizon
    /\ \A c \in Collections :
          /\ pc[c] # "put"
          /\ pc[c] \in {"fetch", "body"} => now < started[c] + Deadline
    /\ now' = now + 1
    /\ UNCHANGED <<cacheTTL, cacheVars, pc, key, canceled, started, resp, info,
                   uses, snapshots>>

Next ==
    \/ \E c \in Collections :
          \/ Begin(c) \/ Cancel(c)
          \/ \E k \in Keys : Call(c, k)
          \/ LookupHit(c) \/ LookupMiss(c) \/ LookupDisabled(c)
          \/ Respond(c) \/ FailRequest(c) \/ ReadBody(c) \/ Put(c)
          \/ Finish(c)
    \/ Tick

Spec == Init /\ [][Next]_vars

----------------------------------------------------------------------------
(* What RequestInfo.Snapshot answers: "miss" as soon as one request was    *)
(* not served from the cache.                                              *)
CacheState(c) ==
    CASE info[c].requests = 0 /\ info[c].disabled -> "disabled"
      [] info[c].requests = 0 /\ ~ info[c].disabled -> ""
      [] info[c].requests > 0 /\ info[c].hits = info[c].requests -> "hit"
      [] OTHER -> "miss"

CacheAge(c) == IF CacheState(c) = "hit" THEN now - info[c].oldest ELSE 0

----------------------------------------------------------------------------
(* Properties *)

Snapshot == [served : Nat, size : BodySizes, collectedAt : Nat, expiresAt : Nat]

Response == [served : Nat, size : BodySizes \cup {0}, ok : BOOLEAN,
             collectedAt : Nat]
Info == [requests : Nat, hits : Nat, disabled : BOOLEAN, oldest : Nat]
Use == [cached : BOOLEAN, collectedAt : Nat]

TypeOK ==
    /\ now \in 0..Horizon /\ cacheTTL \in TTLs
    /\ DOMAIN cache \subseteq Keys /\ cache \in [DOMAIN cache -> Snapshot]
    /\ cacheOrder \in Seq(Keys) /\ cacheBytes \in Nat
    /\ pc \in [Collections -> Phases]
    /\ key \in [Collections -> Keys]
    /\ canceled \in [Collections -> BOOLEAN]
    /\ started \in [Collections -> Nat]
    /\ resp \in [Collections -> Response]
    /\ info \in [Collections -> Info]
    /\ uses \in [Collections -> SUBSET Use]
    /\ \A c \in Collections : pc[c] \in {"body", "put"} => resp[c].size \in BodySizes
    /\ \A c \in Collections : info[c].hits <= info[c].requests

(* However requests interleave, the order names every entry once, the      *)
(* byte counter is the sum of the stored bodies, and both limits hold.     *)
CacheAccounting ==
    /\ ToSet(cacheOrder) = DOMAIN cache
    /\ Len(cacheOrder) = Cardinality(DOMAIN cache)
    /\ cacheBytes = BytesOf(DOMAIN cache)
    /\ Len(cacheOrder) <= MaxEntries
    /\ cacheBytes <= MaxCacheBytes

(* An entry is one snapshot that some collection really read for its key:  *)
(* concurrent misses never mix the content of one with the time of the     *)
(* other, and storing does not renew the collection time.                  *)
EntriesAreSnapshots ==
    \A k \in DOMAIN cache :
        [key |-> k, served |-> cache[k].served,
         collectedAt |-> cache[k].collectedAt] \in snapshots

(* What a hit serves was true at the source at most a cache lifetime and   *)
(* one source deadline ago, even when a slow request overwrites the        *)
(* snapshot of a faster one with an older snapshot.                        *)
BoundedStaleness ==
    \A c \in Collections :
        pc[c] = "lookup" /\ cacheTTL > 0 /\ Servable(key[c]) =>
            now - cache[key[c]].served <= cacheTTL + Deadline

(* A collection reports "hit" only when everything it was given came from  *)
(* the cache, and then the age is that of the oldest snapshot; "disabled"  *)
(* only when nothing did.                                                  *)
HitReportTruthful ==
    \A c \in Collections :
        /\ CacheState(c) = "hit" =>
              /\ \A u \in uses[c] : u.cached /\ now - u.collectedAt <= CacheAge(c)
              /\ \E u \in uses[c] : now - u.collectedAt = CacheAge(c)
        /\ CacheState(c) = "disabled" => \A u \in uses[c] : ~ u.cached

(* The order of the entries is the order of their expiry, although a miss  *)
(* that overlaps another replaces its entry and an expired entry may be    *)
(* removed from anywhere: what cachePut evicts from the front, without a   *)
(* look at any expiry, is what would have expired first.                   *)
OrderedByExpiry ==
    \A m, n \in 1..Len(cacheOrder) :
        m < n => cache[cacheOrder[m]].expiresAt <= cache[cacheOrder[n]].expiresAt
============================================================================
