------------------------------ MODULE TtlStore ------------------------------
(***************************************************************************)
(* What the evidence cache promises its callers, with every operation one  *)
(* atomic step: records in the order of their insertion, of which Put      *)
(* keeps the largest most recent part that fits both limits.               *)
(***************************************************************************)
EXTENDS Integers, FiniteSets, Functions

CONSTANTS Ids, Sizes, MaxItems, MaxBytes, TTL

VARIABLES
    now,
    entries,   \* id -> [expiresAt, size]
    older,     \* the pairs of ids whose first was inserted before the second
    answer

tvars == <<now, entries, older, answer>>

SNone == [found |-> FALSE]

(* The ids a call that read the clock at time at still sees.               *)
Live(at) == {id \in DOMAIN entries : at <= entries[id].expiresAt}

TotalSize(map, ids) == SumFunctionOnSet([id \in ids |-> map[id].size], ids)

Fits(map, ids) == Cardinality(ids) <= MaxItems /\ TotalSize(map, ids) <= MaxBytes

(* With an id, what was inserted after it is there too.                    *)
MostRecent(ids, all, order) ==
    \A p \in order : p[1] \in ids /\ p[2] \in all => p[2] \in ids

Among(order, ids) == {p \in order : p[1] \in ids /\ p[2] \in ids}

Keep(map, order, ids) == entries' = Restrict(map, ids) /\ older' = Among(order, ids)

----------------------------------------------------------------------------
SInit == now = 0 /\ entries = << >> /\ older = {} /\ answer = SNone

(* The records without their expired ones and without id, then id as the   *)
(* most recent one.                                                        *)
Inserted(rest, id, record) ==
    [j \in rest \cup {id} |-> IF j = id THEN record ELSE entries[j]]

OrderInserted(rest, id) == Among(older, rest) \cup (rest \X {id})

(* The largest most recent part of all that fits both limits.              *)
KeepLargest(map, order, all) ==
    LET Possible(ids) == MostRecent(ids, all, order) /\ Fits(map, ids)
    IN  \E kept \in SUBSET all :
           /\ Possible(kept)
           /\ \A ids \in SUBSET all : Possible(ids) => ids \subseteq kept
           /\ Keep(map, order, kept)

PutAt(id, size, at, stamp) ==
    LET rest == Live(at) \ {id}
        record == [expiresAt |-> stamp + TTL, size |-> size]
    IN  IF size > MaxBytes
        THEN Keep(entries, older, rest)
        ELSE KeepLargest(Inserted(rest, id, record), OrderInserted(rest, id),
                         rest \cup {id})

(* A Put may read the clock once to see what is live and once, later, to   *)
(* stamp its own record.                                                   *)
SPut(id, size) ==
    /\ \E at \in 0..now, stamp \in 0..now : at <= stamp /\ PutAt(id, size, at, stamp)
    /\ UNCHANGED <<now, answer>>

SGet(id) ==
    \E at \in 0..now :
        /\ Keep(entries, older, Live(at))
        /\ answer' = IF id \in Live(at)
                     THEN [found |-> TRUE, id |-> id, at |-> at,
                           expiresAt |-> entries[id].expiresAt]
                     ELSE SNone
        /\ UNCHANGED now

SStats == \E at \in 0..now : Keep(entries, older, Live(at)) /\ UNCHANGED <<now, answer>>

SForget == answer # SNone /\ answer' = SNone /\ UNCHANGED <<now, entries, older>>

STick == now' = now + 1 /\ UNCHANGED <<entries, older, answer>>

SNext ==
    \/ \E id \in Ids, size \in Sizes : SPut(id, size)
    \/ \E id \in Ids : SGet(id)
    \/ SStats
    \/ SForget
    \/ STick

SSpec == SInit /\ [][SNext]_tvars
=============================================================================
