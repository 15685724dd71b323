--------------------------- MODULE EvidenceCache ---------------------------
(***************************************************************************)
(* The in-process evidence cache (internal/evidence/cache.go): items kept  *)
(* for a time to live under an item limit and a byte limit, oldest         *)
(* insertion evicted first.                                                *)
(*                                                                         *)
(* Every public operation runs under one mutex, but it is not one step: it *)
(* reads the clock, deletes the expired entries one by one, and Put then   *)
(* reads the clock again, inserts and evicts one entry at a time.  Each    *)
(* loop iteration is a step here, the clock moves between any two of them, *)
(* and mode/op say where the operation that holds the mutex is.            *)
(***************************************************************************)
EXTENDS Integers, Sequences, FiniteSets

CONSTANTS
    Ids,        \* the opaque evidence ids
    Sizes,      \* the serialized sizes an item can have
    MaxItems,   \* Cache.max; 0 turns storage off
    MaxBytes,   \* Cache.maxBytes
    TTL,        \* Cache.ttl
    Horizon,    \* bound: the clock stops here
    MaxPuts     \* bound: number of Put calls

ASSUME ConstantsAssumption ==
    /\ Sizes \subseteq Nat
    /\ MaxItems \in Nat
    /\ MaxBytes \in Nat \ {0}
    /\ TTL \in Nat \ {0}
    /\ Horizon \in Nat
    /\ MaxPuts \in Nat

VARIABLES
    now,        \* the monotonic clock time.Now reads
    items,      \* Cache.items: id -> [expiresAt, size]
    order,      \* Cache.order
    bytes,      \* Cache.bytes
    evictions, expired, oversized,  \* the counters Stats reports
    mode,       \* "free", or the loop the mutex holder is in
    op,         \* the operation that holds (or last held) the mutex
    answer,     \* what the last finished Get returned
    \* History, read by properties only:
    puts, stored, replaced,
    before      \* items and order when the current operation locked

cacheVars == <<items, order, bytes, evictions, expired, oversized>>
history == <<puts, stored, replaced, before>>
vars == <<now, cacheVars, mode, op, answer, history>>

Entry == [expiresAt : Nat, size : Nat]
NoOp == [kind |-> "none", at |-> 0]
NoAnswer == [found |-> FALSE]

----------------------------------------------------------------------------
(* removeLocked: delete from the map, give the bytes back, and drop the id *)
(* from the order.  The order never holds an id twice (OrderIsExact), so   *)
(* filtering it is removing one position.                                  *)

Position(id) == CHOOSE k \in DOMAIN order : order[k] = id

RemoveAt(s, k) == [j \in 1..Len(s) - 1 |-> IF j < k THEN s[j] ELSE s[j + 1]]

\* Mutant: the map entry goes, its place in the order stays.
OrderKept(id) == order

OrderWithout(id) ==
    IF id \in DOMAIN items THEN RemoveAt(order, Position(id)) ELSE order

ItemsWithout(id) == [j \in DOMAIN items \ {id} |-> items[j]]

BytesWithout(id) ==
    IF id \in DOMAIN items THEN bytes - items[id].size ELSE bytes

Remove(id) ==
    /\ items' = ItemsWithout(id)
    /\ order' = OrderWithout(id)
    /\ bytes' = BytesWithout(id)

Expired(id) == op.at > items[id].expiresAt

\* Mutant: evicts at the limits, not above them.
AtLimit == Cardinality(DOMAIN items) >= MaxItems \/ bytes >= MaxBytes

\* Mutant: the byte limit is forgotten.
OverItemLimit == Cardinality(DOMAIN items) > MaxItems

OverLimit == Cardinality(DOMAIN items) > MaxItems \/ bytes > MaxBytes

----------------------------------------------------------------------------
Init ==
    /\ now = 0
    /\ items = << >>
    /\ order = << >>
    /\ bytes = 0
    /\ evictions = 0 /\ expired = 0 /\ oversized = 0
    /\ mode = "free"
    /\ op = NoOp
    /\ answer = NoAnswer
    /\ puts = 0 /\ stored = 0 /\ replaced = 0
    /\ before = [items |-> << >>, order |-> << >>]

(* An operation takes the mutex and reads the clock for expireLocked.      *)
Lock(operation) ==
    /\ mode = "free"
    /\ mode' = "expire"
    /\ op' = operation
    /\ answer' = NoAnswer
    /\ before' = [items |-> items, order |-> order]
    /\ UNCHANGED <<now, cacheVars, stored, replaced>>

(* Put returns before it locks when the cache is off.                      *)
BeginPut(id, size) ==
    /\ MaxItems > 0
    /\ puts < MaxPuts
    /\ puts' = puts + 1
    /\ Lock([kind |-> "put", id |-> id, size |-> size, at |-> now])

BeginGet(id) ==
    /\ Lock([kind |-> "get", id |-> id, at |-> now])
    /\ UNCHANGED puts

BeginStats ==
    /\ Lock([kind |-> "stats", at |-> now])
    /\ UNCHANGED puts

(* One iteration of expireLocked; Go ranges over the map in any order.     *)
ExpireOne(id) ==
    /\ mode = "expire"
    /\ Expired(id)
    /\ Remove(id)
    /\ expired' = expired + 1
    /\ UNCHANGED <<now, evictions, oversized, mode, op, answer, history>>

NoneExpired == \A id \in DOMAIN items : ~ Expired(id)

FinishGet ==
    /\ mode = "expire" /\ op.kind = "get" /\ NoneExpired
    /\ answer' = IF op.id \in DOMAIN items
                 THEN [found |-> TRUE, id |-> op.id, at |-> op.at,
                       expiresAt |-> items[op.id].expiresAt]
                 ELSE NoAnswer
    /\ mode' = "free"
    /\ UNCHANGED <<now, cacheVars, op, history>>

FinishStats ==
    /\ mode = "expire" /\ op.kind = "stats" /\ NoneExpired
    /\ mode' = "free"
    /\ UNCHANGED <<now, cacheVars, op, answer, history>>

(* An item larger than the whole budget is not stored, and the older item  *)
(* with its id goes too.                                                   *)
RejectOversized ==
    /\ mode = "expire" /\ op.kind = "put" /\ NoneExpired
    /\ op.size > MaxBytes
    /\ Remove(op.id)
    /\ oversized' = oversized + 1
    /\ replaced' = IF op.id \in DOMAIN items THEN replaced + 1 ELSE replaced
    /\ mode' = "free"
    /\ UNCHANGED <<now, evictions, expired, op, answer, puts, stored, before>>

\* Mutant: a replacement keeps its old place in the order.
StoreInPlace ==
    /\ mode = "expire" /\ op.kind = "put" /\ NoneExpired
    /\ op.size <= MaxBytes
    /\ items' = [j \in DOMAIN items \cup {op.id} |->
                    IF j = op.id
                    THEN [expiresAt |-> now + TTL, size |-> op.size]
                    ELSE items[j]]
    /\ order' = IF op.id \in DOMAIN items THEN order ELSE Append(order, op.id)
    /\ bytes' = BytesWithout(op.id) + op.size
    /\ stored' = stored + 1
    /\ replaced' = IF op.id \in DOMAIN items THEN replaced + 1 ELSE replaced
    /\ mode' = "evict"
    /\ UNCHANGED <<now, evictions, expired, oversized, op, answer, puts, before>>

(* Put reads the clock a second time for the expiry of the new entry.      *)
Store ==
    /\ mode = "expire" /\ op.kind = "put" /\ NoneExpired
    /\ op.size <= MaxBytes
    /\ items' = [j \in DOMAIN items \cup {op.id} |->
                    IF j = op.id
                    THEN [expiresAt |-> now + TTL, size |-> op.size]
                    ELSE items[j]]
    /\ order' = Append(OrderWithout(op.id), op.id)
    /\ bytes' = BytesWithout(op.id) + op.size
    /\ stored' = stored + 1
    /\ replaced' = IF op.id \in DOMAIN items THEN replaced + 1 ELSE replaced
    /\ mode' = "evict"
    /\ UNCHANGED <<now, evictions, expired, oversized, op, answer, puts, before>>

EvictOldest ==
    /\ mode = "evict"
    /\ OverLimit /\ order # << >>
    /\ Remove(order[1])
    /\ evictions' = evictions + 1
    /\ UNCHANGED <<now, expired, oversized, mode, op, answer, history>>

FinishPut ==
    /\ mode = "evict"
    /\ ~ (OverLimit /\ order # << >>)
    /\ mode' = "free"
    /\ UNCHANGED <<now, cacheVars, op, answer, history>>

Tick ==
    /\ now < Horizon
    /\ now' = now + 1
    /\ UNCHANGED <<cacheVars, mode, op, answer, history>>

Next ==
    \/ \E id \in Ids, size \in Sizes : BeginPut(id, size)
    \/ \E id \in Ids : BeginGet(id)
    \/ BeginStats
    \/ \E id \in DOMAIN items : ExpireOne(id)
    \/ FinishGet
    \/ FinishStats
    \/ RejectOversized
    \/ Store
    \/ EvictOldest
    \/ FinishPut
    \/ Tick

Spec == Init /\ [][Next]_vars

----------------------------------------------------------------------------
(* Properties *)

Operation ==
    {NoOp}
    \cup [kind : {"put"}, id : Ids, size : Sizes, at : Nat]
    \cup [kind : {"get"}, id : Ids, at : Nat]
    \cup [kind : {"stats"}, at : Nat]

(* The type of every variable the cache itself keeps.                      *)
TypeOK ==
    /\ now \in Nat
    /\ items \in [DOMAIN items -> Entry]
    /\ DOMAIN items \subseteq Ids
    /\ order \in Seq(Ids)
    /\ bytes \in Int
    /\ evictions \in Nat /\ expired \in Nat /\ oversized \in Nat
    /\ mode \in {"free", "expire", "evict"}
    /\ op \in Operation
    /\ mode = "expire" => op # NoOp
    /\ mode = "evict" => op.kind = "put" /\ op.size <= MaxBytes

(* The eviction order names every stored id exactly once, at every step of *)
(* every operation: a replacement leaves no stale position behind, so the  *)
(* loop of Put never evicts an id twice nor misses one.                    *)
OrderIsExact ==
    /\ \A i, j \in DOMAIN order : order[i] = order[j] => i = j
    /\ \A i \in DOMAIN order : order[i] \in DOMAIN items
    /\ \A id \in DOMAIN items : \E i \in DOMAIN order : order[i] = id

(* Insertion order is expiry order, although Put reads the clock twice and *)
(* other calls run in between: what Put evicts is what would have expired  *)
(* first.                                                                  *)
OrderedByExpiry ==
    \A i, j \in DOMAIN order :
        i < j => items[order[i]].expiresAt <= items[order[j]].expiresAt

(* Whenever no operation holds the mutex, both limits hold.                *)
WithinLimits ==
    mode = "free" => /\ Cardinality(DOMAIN items) <= MaxItems
                     /\ bytes <= MaxBytes

(* Put never evicts the item it has just stored, whatever it must evict to *)
(* make room: the eviction loop of Put ends with its own item in place.    *)
NewestSurvives ==
    mode = "evict" => order # << >> /\ order[Len(order)] = op.id

(* Every stored item is accounted for once: it is still there, or it was   *)
(* evicted, or it expired, or a later Put of its id took its place.  The   *)
(* evictions and expired counters of Stats therefore neither miss nor      *)
(* double-count a removal.                                                 *)
EveryItemLeavesOnce ==
    stored = Cardinality(DOMAIN items) + evictions + expired + replaced

(* The order in which what is stored was inserted, as pairs.               *)
InsertedBefore(map, ids) ==
    {p \in (DOMAIN map) \X (DOMAIN map) :
        \E i, j \in DOMAIN ids : i < j /\ ids[i] = p[1] /\ ids[j] = p[2]}

(* The abstract store: while an operation runs, the state it locked.       *)
Visible == IF mode = "free" THEN [items |-> items, order |-> order] ELSE before

Abstract == INSTANCE TtlStore
            WITH entries <- Visible.items,
                 older <- InsertedBefore(Visible.items, Visible.order)

(* Every operation of the cache, interleaved at the level of its loop      *)
(* iterations, takes effect as one atomic operation of TtlStore: the       *)
(* eviction loop keeps exactly the largest most recent part that fits.     *)
RefinesTtlStore == Abstract!SSpec
============================================================================
