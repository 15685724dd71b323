------------------------------ MODULE Evidence ------------------------------
(***************************************************************************)
(* The order of evidence items and the choice of the newest ones (package  *)
(* evidence).  An item is known by the record of the source it was made    *)
(* from and by what decides its place: its time, the rank of its source    *)
(* identity, its position in the response, and the serial number of its    *)
(* opaque id, which the process counts up for every item it makes.         *)
(***************************************************************************)
EXTENDS Outcomes

Item(record, time, sourceID, order, serial) ==
    [record |-> record, time |-> time, sourceID |-> sourceID, order |-> order,
     serial |-> serial, missing |-> FALSE, inWindow |-> TRUE]

(* Ids are compared as strings, and "_" follows the digits of the serial   *)
(* number, so "ev_10_..." sorts before "ev_9_...".  Bound: two digits.     *)
IdKey(serial) ==
    IF serial < 10 THEN 11 * serial + 10
    ELSE 11 * (serial \div 10) + (serial % 10)

SortKey(item) == <<item.time, item.sourceID, item.order, IdKey(item.serial)>>

Precedes(a, b) ==
    LET x == SortKey(a)  y == SortKey(b)
    IN  \E k \in DOMAIN x : x[k] < y[k] /\ \A j \in 1..k - 1 : x[j] = y[j]

(* The order of the positions in a stable sort of the items.               *)
StableOrder(items) ==
    {p \in (DOMAIN items) \X (DOMAIN items) :
        \/ Precedes(items[p[1]], items[p[2]])
        \/ ~ Precedes(items[p[2]], items[p[1]]) /\ p[1] < p[2]}

SortItems(items) == Arranged(items, DOMAIN items, StableOrder(items))

\* Mutant: the oldest items are kept.
KeepOldest(items, max) ==
    LET sorted == SortItems(items)
        cut == max > 0 /\ Len(items) > max
    IN  [items |-> IF cut THEN SubSeq(sorted, 1, max) ELSE sorted, cut |-> cut]

KeepNewest(items, max) ==
    LET sorted == SortItems(items)
        cut == max > 0 /\ Len(items) > max
    IN  [items |-> IF cut THEN SubSeq(sorted, Len(items) - max + 1, Len(items))
                   ELSE sorted,
         cut |-> cut]
=============================================================================
