------------------------ MODULE EvidenceCacheProofs ------------------------
(***************************************************************************)
(* Proofs about EvidenceCache for every value of its constants.            *)
(*                                                                         *)
(* The inductive invariant is Core, a statement about the map, the order   *)
(* and the byte counter alone, so that removing one id and appending one   *)
(* id are two lemmas without state, plus what each mode adds to it.  The   *)
(* byte counter is tied to the stored sizes by their partial sums along    *)
(* the order (Accounted): no sum over a set, and so no induction.          *)
(*                                                                         *)
(* The last part is the refinement of TtlStore.  StepInv says what the     *)
(* operation that holds the mutex has done so far to the state it locked,  *)
(* in the words of TtlStore: while it expires, every live record is still  *)
(* there; while Put evicts, what is left is a most recent part, and no     *)
(* smaller than any that fits.  So the step that gives the mutex back is   *)
(* the abstract operation, and the ones before it change nothing visible.  *)
(***************************************************************************)
EXTENDS EvidenceCache, Facts

Exact(map, ord) ==
    /\ \A i, j \in DOMAIN ord : ord[i] = ord[j] => i = j
    /\ \A i \in DOMAIN ord : ord[i] \in DOMAIN map
    /\ \A id \in DOMAIN map : \E i \in DOMAIN ord : ord[i] = id

Sorted(map, ord) ==
    \A i, j \in DOMAIN ord :
        i < j => map[ord[i]].expiresAt <= map[ord[j]].expiresAt

IsPartialSums(p, map, ord) ==
    /\ p \in [0..Len(ord) -> Int]
    /\ p[0] = 0
    /\ \A i \in 1..Len(ord) : p[i] = p[i - 1] + map[ord[i]].size

Accounted(map, ord, b) ==
    \E p : IsPartialSums(p, map, ord) /\ b = p[Len(ord)]

Core(map, ord, b) ==
    /\ map \in [DOMAIN map -> Entry]
    /\ DOMAIN map \subseteq Ids
    /\ IsFiniteSet(DOMAIN map)
    /\ ord \in Seq(Ids)
    /\ b \in Int
    /\ Exact(map, ord)
    /\ Sorted(map, ord)
    /\ Accounted(map, ord, b)

Without(map, id) == [j \in DOMAIN map \ {id} |-> map[j]]

With(map, id, e) ==
    [j \in DOMAIN map \cup {id} |-> IF j = id THEN e ELSE map[j]]

----------------------------------------------------------------------------
LEMMA NextOfNat ==
    ASSUME NEW m \in Nat PROVE m \in 0..m + 1 /\ m # m + 1
OBVIOUS

(* Removing one position of a sequence.                                    *)
LEMMA RemoveAtType ==
    ASSUME NEW S, NEW s \in Seq(S), NEW k \in DOMAIN s
    PROVE  /\ RemoveAt(s, k) \in Seq(S)
           /\ Len(RemoveAt(s, k)) = Len(s) - 1
           /\ DOMAIN RemoveAt(s, k) = 1..Len(s) - 1
           /\ \A j \in 1..Len(s) - 1 :
                 RemoveAt(s, k)[j] = IF j < k THEN s[j] ELSE s[j + 1]
<1>1. Len(s) \in Nat /\ k \in 1..Len(s) /\ \A j \in 1..Len(s) : s[j] \in S
  OBVIOUS
<1>2. Len(s) - 1 \in Nat
  BY <1>1
<1>3. \A j \in 1..Len(s) - 1 : (IF j < k THEN s[j] ELSE s[j + 1]) \in S
  BY <1>1
<1>4. RemoveAt(s, k) \in [1..Len(s) - 1 -> S]
  BY <1>3 DEF RemoveAt
<1>5. RemoveAt(s, k) \in Seq(S)
  BY <1>2, <1>4
<1> QED
  BY <1>2, <1>4, <1>5 DEF RemoveAt

(* Deleting a stored id and its position keeps Core (removeLocked).        *)
LEMMA RemoveKeepsCore ==
    ASSUME NEW map, NEW ord, NEW b, Core(map, ord, b),
           NEW k \in DOMAIN ord
    PROVE  /\ Core(Without(map, ord[k]), RemoveAt(ord, k),
                   b - map[ord[k]].size)
           /\ Cardinality(DOMAIN Without(map, ord[k]))
                = Cardinality(DOMAIN map) - 1
<1> DEFINE id == ord[k]
           rm == Without(map, id)
           ro == RemoveAt(ord, k)
           n == Len(ord)
<1>1. /\ n \in Nat /\ DOMAIN ord = 1..n
      /\ id \in DOMAIN map /\ map[id].size \in Nat /\ k \in 1..n
  BY DEF Core, Exact, Entry
<1>2. /\ ro \in Seq(Ids) /\ Len(ro) = n - 1 /\ DOMAIN ro = 1..n - 1
      /\ \A j \in 1..n - 1 : ro[j] = IF j < k THEN ord[j] ELSE ord[j + 1]
  BY RemoveAtType DEF Core
<1>3. DOMAIN rm = DOMAIN map \ {id} /\ \A j \in DOMAIN rm : rm[j] = map[j]
  BY DEF Without
<1>4. /\ rm \in [DOMAIN rm -> Entry] /\ DOMAIN rm \subseteq Ids
  BY <1>3 DEF Core, Without
<1>5. /\ IsFiniteSet(DOMAIN rm)
      /\ Cardinality(DOMAIN rm) = Cardinality(DOMAIN map) - 1
  BY <1>1, <1>3, FS_RemoveElement DEF Core
<1>6. Exact(rm, ro)
  <2>1. ASSUME NEW i \in 1..n - 1, NEW j \in 1..n - 1, ro[i] = ro[j]
        PROVE  i = j
    BY <1>1, <1>2, <2>1 DEF Core, Exact
  <2>2. ASSUME NEW i \in 1..n - 1
        PROVE  ro[i] \in DOMAIN rm
    <3>1. PICK a \in 1..n : a # k /\ ro[i] = ord[a]
      <4>1. CASE i < k
        BY <1>1, <1>2, <4>1
      <4>2. CASE ~ (i < k)
        <5>1. i + 1 \in 1..n /\ i + 1 # k
          BY <1>1, <4>2
        <5> QED BY <1>2, <4>2, <5>1
      <4> QED BY <4>1, <4>2
    <3>2. ord[a] # id /\ ord[a] \in DOMAIN map
      BY <1>1, <3>1 DEF Core, Exact
    <3> QED BY <1>3, <3>1, <3>2
  <2>3. ASSUME NEW x \in DOMAIN rm
        PROVE  \E i \in 1..n - 1 : ro[i] = x
    <3>1. PICK i \in 1..n : ord[i] = x
      BY <1>1, <1>3 DEF Core, Exact
    <3>2. i # k
      BY <1>3, <3>1
    <3>3. CASE i < k
      BY <1>1, <1>2, <3>1, <3>3
    <3>4. CASE i > k
      <4>1. i - 1 \in 1..n - 1 /\ ~ (i - 1 < k) /\ (i - 1) + 1 = i
        BY <1>1, <3>4
      <4> QED BY <1>2, <3>1, <4>1
    <3> QED BY <1>1, <3>2, <3>3, <3>4
  <2> QED BY <1>2, <2>1, <2>2, <2>3 DEF Exact
<1>7. Sorted(rm, ro)
  <2> SUFFICES ASSUME NEW i \in 1..n - 1, NEW j \in 1..n - 1, i < j
               PROVE  rm[ro[i]].expiresAt <= rm[ro[j]].expiresAt
    BY <1>2 DEF Sorted
  <2>1. rm[ro[i]] = map[ro[i]] /\ rm[ro[j]] = map[ro[j]]
    BY <1>2, <1>3, <1>6 DEF Exact
  <2>2. PICK a \in 1..n, c \in 1..n : a < c /\ ro[i] = ord[a] /\ ro[j] = ord[c]
    <3> DEFINE a == IF i < k THEN i ELSE i + 1
               c == IF j < k THEN j ELSE j + 1
    <3>1. a \in 1..n /\ c \in 1..n /\ a < c
      BY <1>1
    <3>2. ro[i] = ord[a] /\ ro[j] = ord[c]
      BY <1>2
    <3> QED BY <3>1, <3>2
  <2> QED BY <1>1, <2>1, <2>2 DEF Core, Sorted
<1>8. Accounted(rm, ro, b - map[id].size)
  <2>1. PICK p : IsPartialSums(p, map, ord) /\ b = p[n]
    BY DEF Core, Accounted
  <2> DEFINE q == [i \in 0..n - 1 |->
                     IF i < k THEN p[i] ELSE p[i + 1] - map[id].size]
  <2>2. \A i \in 0..n : p[i] \in Int
    BY <1>1, <2>1 DEF IsPartialSums
  <2>3. q \in [0..n - 1 -> Int]
    BY <1>1, <2>2
  <2>4. q[0] = 0
    BY <1>1, <2>1 DEF IsPartialSums
  <2>5. ASSUME NEW i \in 1..n - 1
        PROVE  q[i] = q[i - 1] + rm[ro[i]].size
    <3>1. rm[ro[i]] = map[ro[i]]
      BY <1>2, <1>3, <1>6 DEF Exact
    <3>2. CASE i < k
      <4>1. q[i] = p[i] /\ q[i - 1] = p[i - 1] /\ ro[i] = ord[i]
        BY <1>1, <1>2, <3>2
      <4> QED BY <1>1, <2>1, <3>1, <4>1 DEF IsPartialSums
    <3>3. CASE i = k
      <4>1. /\ q[i] = p[i + 1] - map[id].size /\ q[i - 1] = p[i - 1]
            /\ ro[i] = ord[i + 1]
        BY <1>1, <1>2, <3>3
      <4>2. p[i] = p[i - 1] + map[id].size
        BY <1>1, <2>1, <3>3 DEF IsPartialSums
      <4>3. i + 1 \in 1..n /\ (i + 1) - 1 = i
        BY <1>1
      <4>4. p[i + 1] = p[i] + map[ord[i + 1]].size
        BY <2>1, <4>3 DEF IsPartialSums
      <4>5. p[i] \in Int /\ p[i - 1] \in Int /\ p[i + 1] \in Int
        <5>1. i \in 0..n /\ i - 1 \in 0..n /\ i + 1 \in 0..n
          BY <1>1
        <5> QED BY <2>2, <5>1
      <4>6. map[ord[i + 1]].size \in Int
        BY <1>1, <4>3 DEF Core, Exact, Entry
      <4> QED BY <1>1, <3>1, <4>1, <4>2, <4>4, <4>5, <4>6
    <3>4. CASE i > k
      <4>1. /\ q[i] = p[i + 1] - map[id].size
            /\ q[i - 1] = p[i] - map[id].size
            /\ ro[i] = ord[i + 1]
        BY <1>1, <1>2, <3>4
      <4>2. i + 1 \in 1..n /\ (i + 1) - 1 = i
        BY <1>1
      <4>3. p[i + 1] = p[i] + map[ord[i + 1]].size
        BY <2>1, <4>2 DEF IsPartialSums
      <4>4. /\ p[i] \in Int /\ p[i + 1] \in Int
            /\ map[ord[i + 1]].size \in Int
        BY <1>1, <2>2, <4>2 DEF Core, Exact, Entry
      <4> QED BY <1>1, <3>1, <4>1, <4>3, <4>4
    <3> QED BY <1>1, <3>2, <3>3, <3>4
  <2>6. q[n - 1] = b - map[id].size
    <3>1. CASE k = n
      <4>1. q[n - 1] = p[n - 1]
        BY <1>1, <3>1
      <4>2. p[n] = p[n - 1] + map[id].size
        BY <1>1, <2>1, <3>1 DEF IsPartialSums
      <4>3. p[n - 1] \in Int
        BY <1>1, <2>2
      <4> QED BY <1>1, <2>1, <4>1, <4>2, <4>3
    <3>2. CASE k < n
      BY <1>1, <2>1, <3>2
    <3> QED BY <1>1, <3>1, <3>2
  <2>7. IsPartialSums(q, rm, ro)
    BY <1>2, <2>3, <2>4, <2>5 DEF IsPartialSums
  <2> HIDE DEF q
  <2> QED BY <1>2, <2>6, <2>7 DEF Accounted
<1>9. b - map[id].size \in Int
  BY <1>1 DEF Core
<1> HIDE DEF rm, ro, id
<1> QED
  BY <1>2, <1>4, <1>5, <1>6, <1>7, <1>8, <1>9 DEF Core, id, rm, ro

(* Inserting a new id at the end of the order keeps Core, when its entry   *)
(* expires no earlier than the ones already there.                         *)
LEMMA AppendKeepsCore ==
    ASSUME NEW map, NEW ord, NEW b, Core(map, ord, b),
           NEW id \in Ids, id \notin DOMAIN map,
           NEW e \in Entry,
           \A j \in DOMAIN map : map[j].expiresAt <= e.expiresAt
    PROVE  Core(With(map, id, e), Append(ord, id), b + e.size)
<1> DEFINE wm == With(map, id, e)
           wo == Append(ord, id)
           n == Len(ord)
<1>1. n \in Nat /\ DOMAIN ord = 1..n /\ e.size \in Nat
  BY DEF Core, Entry
<1>2. /\ wo \in Seq(Ids) /\ Len(wo) = n + 1 /\ DOMAIN wo = 1..n + 1
      /\ \A j \in 1..n : wo[j] = ord[j]
      /\ wo[n + 1] = id
  BY <1>1 DEF Core
<1>3. /\ DOMAIN wm = DOMAIN map \cup {id} /\ wm[id] = e
      /\ \A j \in DOMAIN map : wm[j] = map[j]
  BY DEF With
<1>4. wm \in [DOMAIN wm -> Entry] /\ DOMAIN wm \subseteq Ids
  BY <1>3 DEF Core, With
<1>5. IsFiniteSet(DOMAIN wm)
  BY <1>3, FS_AddElement DEF Core
<1>6. Exact(wm, wo)
  <2>1. ASSUME NEW i \in 1..n + 1, NEW j \in 1..n + 1, wo[i] = wo[j]
        PROVE  i = j
    BY <1>1, <1>2, <2>1 DEF Core, Exact
  <2>2. \A i \in 1..n + 1 : wo[i] \in DOMAIN wm
    BY <1>1, <1>2, <1>3 DEF Core, Exact
  <2>3. ASSUME NEW x \in DOMAIN wm
        PROVE  \E i \in 1..n + 1 : wo[i] = x
    <3>1. CASE x = id
      BY <1>1, <1>2, <3>1
    <3>2. CASE x \in DOMAIN map
      <4>1. PICK i \in 1..n : ord[i] = x
        BY <1>1, <3>2 DEF Core, Exact
      <4> QED BY <1>1, <1>2, <4>1
    <3> QED BY <1>3, <3>1, <3>2
  <2> QED BY <1>2, <2>1, <2>2, <2>3 DEF Exact
<1>7. Sorted(wm, wo)
  <2> SUFFICES ASSUME NEW i \in 1..n + 1, NEW j \in 1..n + 1, i < j
               PROVE  wm[wo[i]].expiresAt <= wm[wo[j]].expiresAt
    BY <1>2 DEF Sorted
  <2>1. i \in 1..n /\ wo[i] = ord[i] /\ ord[i] \in DOMAIN map
    BY <1>1, <1>2 DEF Core, Exact
  <2>2. CASE j = n + 1
    BY <1>2, <1>3, <2>1, <2>2
  <2>3. CASE j \in 1..n
    <3>1. wo[j] = ord[j] /\ ord[j] \in DOMAIN map
      BY <1>1, <1>2, <2>3 DEF Core, Exact
    <3> QED BY <1>1, <1>3, <2>1, <2>3, <3>1 DEF Core, Sorted
  <2> QED BY <1>1, <2>2, <2>3
<1>8. Accounted(wm, wo, b + e.size)
  <2>1. PICK p : IsPartialSums(p, map, ord) /\ b = p[n]
    BY DEF Core, Accounted
  <2> DEFINE q == [i \in 0..n + 1 |-> IF i = n + 1 THEN b + e.size ELSE p[i]]
  <2>2. q \in [0..n + 1 -> Int] /\ q[0] = 0 /\ q[n + 1] = b + e.size
    BY <1>1, <2>1 DEF Core, IsPartialSums
  <2>3. ASSUME NEW i \in 1..n + 1
        PROVE  q[i] = q[i - 1] + wm[wo[i]].size
    <3>1. CASE i = n + 1
      <4>1. wm[wo[i]] = e
        BY <1>2, <1>3, <3>1
      <4>2. i - 1 = n
        BY <1>1, <3>1
      <4>3. q[n] = p[n]
        <5>1. n \in 0..n + 1 /\ n # n + 1
          BY <1>1, NextOfNat
        <5> QED BY <5>1
      <4> QED BY <2>1, <2>2, <3>1, <4>1, <4>2, <4>3
    <3>2. CASE i \in 1..n
      <4>1. wm[wo[i]] = map[ord[i]]
        BY <1>1, <1>2, <1>3, <3>2 DEF Core, Exact
      <4>2. q[i] = p[i] /\ q[i - 1] = p[i - 1]
        BY <1>1, <3>2
      <4> QED BY <2>1, <3>2, <4>1, <4>2 DEF IsPartialSums
    <3> QED BY <1>1, <3>1, <3>2
  <2>4. IsPartialSums(q, wm, wo)
    BY <1>2, <2>2, <2>3 DEF IsPartialSums
  <2> HIDE DEF q
  <2> QED BY <1>2, <2>2, <2>4 DEF Accounted
<1>9. b + e.size \in Int
  BY <1>1 DEF Core
<1> HIDE DEF wm, wo
<1> QED
  BY <1>2, <1>4, <1>5, <1>6, <1>7, <1>8, <1>9 DEF Core, wm, wo

----------------------------------------------------------------------------
(* The same for the cache variables.                                       *)
LEMMA RemoveFromCache ==
    ASSUME Core(items, order, bytes), NEW id \in DOMAIN items
    PROVE  /\ Position(id) \in DOMAIN order
           /\ order[Position(id)] = id
           /\ Core(ItemsWithout(id), OrderWithout(id), BytesWithout(id))
           /\ Cardinality(DOMAIN ItemsWithout(id))
                = Cardinality(DOMAIN items) - 1
           /\ BytesWithout(id) <= bytes
<1>1. \E k \in DOMAIN order : order[k] = id
  BY DEF Core, Exact
<1>2. Position(id) \in DOMAIN order /\ order[Position(id)] = id
  BY <1>1 DEF Position
<1>3. /\ ItemsWithout(id) = Without(items, id)
      /\ OrderWithout(id) = RemoveAt(order, Position(id))
      /\ BytesWithout(id) = bytes - items[id].size
  BY DEF ItemsWithout, Without, OrderWithout, BytesWithout
<1>4. items[id].size \in Nat /\ bytes \in Int
  BY DEF Core, Entry
<1>5. /\ Core(Without(items, id), RemoveAt(order, Position(id)),
              bytes - items[id].size)
      /\ Cardinality(DOMAIN Without(items, id))
           = Cardinality(DOMAIN items) - 1
  BY <1>2, RemoveKeepsCore
<1> QED BY <1>2, <1>3, <1>4, <1>5

(* A cache with one id in its order stores exactly that id's bytes.        *)
LEMMA OneItem ==
    ASSUME Core(items, order, bytes), Len(order) = 1
    PROVE  /\ Cardinality(DOMAIN items) = 1
           /\ bytes = items[order[1]].size
<1>1. DOMAIN order = {1}
  BY DEF Core
<1>2. DOMAIN items = {order[1]}
  <2>1. order[1] \in DOMAIN items
    BY <1>1 DEF Core, Exact
  <2>2. \A id \in DOMAIN items : id = order[1]
    BY <1>1 DEF Core, Exact
  <2> QED BY <2>1, <2>2
<1>3. Cardinality(DOMAIN items) = 1
  BY <1>2, FS_Singleton
<1>4. bytes = items[order[1]].size
  <2>1. PICK p : IsPartialSums(p, items, order) /\ bytes = p[1]
    BY DEF Core, Accounted
  <2>2. p[1] = p[0] + items[order[1]].size /\ p[0] = 0
    BY <2>1 DEF IsPartialSums
  <2>3. items[order[1]].size \in Nat
    BY <1>2 DEF Core, Entry
  <2> QED BY <2>1, <2>2, <2>3
<1> QED BY <1>3, <1>4

----------------------------------------------------------------------------
(* The inductive invariant: the limits hold while an operation expires     *)
(* entries, and while Put evicts, its own item is the last of the order    *)
(* and fits the byte limit alone.  Without the last two conjuncts the      *)
(* eviction loop could end because the order is empty, with any byte       *)
(* count left.                                                             *)
IInv ==
    /\ TypeOK
    /\ Core(items, order, bytes)
    /\ \A id \in DOMAIN items : items[id].expiresAt <= now + TTL
    /\ mode # "evict" => /\ Cardinality(DOMAIN items) <= MaxItems
                         /\ bytes <= MaxBytes
    /\ op.kind = "put" => MaxItems > 0
    /\ NewestSurvives
    /\ mode = "evict" => items[op.id].size <= MaxBytes

LEMMA InitIInv == Init => IInv
<1> SUFFICES ASSUME Init PROVE IInv
  OBVIOUS
<1>1. TypeOK
  BY ConstantsAssumption DEF Init, TypeOK, Entry, Operation, NoOp
<1>2. DOMAIN items = {} /\ Len(order) = 0 /\ DOMAIN order = {}
  BY DEF Init
<1>3. IsFiniteSet(DOMAIN items) /\ Cardinality(DOMAIN items) = 0
  BY <1>2, FS_EmptySet
<1>4. Accounted(items, order, bytes)
  <2> DEFINE p == [i \in 0..0 |-> 0]
  <2>1. IsPartialSums(p, items, order) /\ bytes = p[Len(order)]
    BY <1>2 DEF IsPartialSums, Init
  <2> QED BY <2>1 DEF Accounted
<1>5. Core(items, order, bytes)
  BY <1>1, <1>2, <1>3, <1>4 DEF Core, Exact, Sorted, TypeOK
<1> QED
  BY <1>1, <1>2, <1>3, <1>5, ConstantsAssumption
  DEF IInv, Init, NoOp, NewestSurvives

(* removeLocked of a stored id, with the rest of the state unchanged or    *)
(* not: what the three actions that remove need.                           *)
LEMMA RemoveStep ==
    ASSUME TypeOK, Core(items, order, bytes),
           \A j \in DOMAIN items : items[j].expiresAt <= now + TTL,
           NEW id \in DOMAIN items, Remove(id), now' = now
    PROVE  /\ Core(items', order', bytes')
           /\ DOMAIN items' = DOMAIN items \ {id}
           /\ \A j \in DOMAIN items' : items'[j] = items[j]
           /\ \A j \in DOMAIN items' : items'[j].expiresAt <= now' + TTL
           /\ Cardinality(DOMAIN items') = Cardinality(DOMAIN items) - 1
           /\ Cardinality(DOMAIN items) \in Nat
           /\ bytes' <= bytes
<1>1. /\ Core(items', order', bytes')
      /\ Cardinality(DOMAIN items') = Cardinality(DOMAIN items) - 1
      /\ bytes' <= bytes
  BY RemoveFromCache DEF Remove
<1>2. /\ DOMAIN items' = DOMAIN items \ {id}
      /\ \A j \in DOMAIN items' : items'[j] = items[j]
  BY DEF Remove, ItemsWithout
<1>3. Cardinality(DOMAIN items) \in Nat
  BY FS_CardinalityType DEF Core
<1> QED BY <1>1, <1>2, <1>3

LEMMA CoreTypes ==
    ASSUME NEW map, NEW ord, NEW b, Core(map, ord, b)
    PROVE  /\ map \in [DOMAIN map -> Entry] /\ DOMAIN map \subseteq Ids
           /\ ord \in Seq(Ids) /\ b \in Int
           /\ Cardinality(DOMAIN map) \in Nat
BY FS_CardinalityType DEF Core

LEMMA StepIInv == IInv /\ [Next]_vars => IInv'
<1> SUFFICES ASSUME IInv, [Next]_vars PROVE IInv'
  OBVIOUS
<1> USE DEF cacheVars, history
<1>1. /\ TypeOK /\ Core(items, order, bytes)
      /\ \A j \in DOMAIN items : items[j].expiresAt <= now + TTL
      /\ Cardinality(DOMAIN items) \in Nat
  BY CoreTypes DEF IInv
<1>2. ASSUME NEW id \in Ids, NEW size \in Sizes, BeginPut(id, size)
      PROVE  IInv'
  BY <1>2 DEF IInv, BeginPut, Lock, TypeOK, Operation, NoOp, NewestSurvives
<1>3. ASSUME NEW id \in Ids, BeginGet(id)
      PROVE  IInv'
  BY <1>3 DEF IInv, BeginGet, Lock, TypeOK, Operation, NoOp, NewestSurvives
<1>4. CASE BeginStats
  BY <1>4 DEF IInv, BeginStats, Lock, TypeOK, Operation, NoOp, NewestSurvives
<1>5. ASSUME NEW id \in DOMAIN items, ExpireOne(id)
      PROVE  IInv'
  <2>1. Remove(id) /\ now' = now
    BY <1>5 DEF ExpireOne
  <2>2. /\ Core(items', order', bytes')
        /\ DOMAIN items' = DOMAIN items \ {id}
        /\ \A j \in DOMAIN items' : items'[j].expiresAt <= now' + TTL
        /\ Cardinality(DOMAIN items') = Cardinality(DOMAIN items) - 1
        /\ bytes' <= bytes
    BY <1>1, <2>1, RemoveStep
  <2>3. TypeOK'
    BY <1>1, <1>5, <2>2, CoreTypes DEF TypeOK, ExpireOne
  <2>4. /\ mode' = "expire" /\ mode = "expire" /\ op' = op
        /\ Cardinality(DOMAIN items') <= MaxItems
    BY <1>1, <1>5, <2>2, ConstantsAssumption DEF IInv, ExpireOne
  <2>5. bytes' <= MaxBytes
    BY <1>1, <2>2, <2>3, <2>4, ConstantsAssumption DEF IInv, TypeOK
  <2> QED
    BY <2>2, <2>3, <2>4, <2>5 DEF IInv, NewestSurvives
<1>6. CASE FinishGet
  BY <1>6 DEF IInv, FinishGet, TypeOK, NewestSurvives
<1>7. CASE FinishStats
  BY <1>7 DEF IInv, FinishStats, TypeOK, NewestSurvives
<1>8. CASE RejectOversized
  <2>1. CASE op.id \in DOMAIN items
    <3>1. Remove(op.id) /\ now' = now
      BY <1>8 DEF RejectOversized
    <3>2. /\ Core(items', order', bytes')
          /\ \A j \in DOMAIN items' : items'[j].expiresAt <= now' + TTL
          /\ Cardinality(DOMAIN items') = Cardinality(DOMAIN items) - 1
          /\ bytes' <= bytes
      BY <1>1, <2>1, <3>1, RemoveStep
    <3>3. TypeOK'
      BY <1>1, <1>8, <3>2, CoreTypes DEF TypeOK, RejectOversized
    <3>4. /\ mode' = "free" /\ mode = "expire" /\ op' = op
          /\ Cardinality(DOMAIN items') <= MaxItems
      BY <1>1, <1>8, <3>2, ConstantsAssumption DEF IInv, RejectOversized
    <3>5. bytes' <= MaxBytes
      BY <1>1, <3>2, <3>3, <3>4, ConstantsAssumption DEF IInv, TypeOK
    <3> QED
      BY <1>8, <3>2, <3>3, <3>4, <3>5
      DEF IInv, NewestSurvives
  <2>2. CASE op.id \notin DOMAIN items
    <3>1. /\ order' = order /\ bytes' = bytes
          /\ items' = [j \in DOMAIN items |-> items[j]]
      BY <1>8, <2>2
      DEF RejectOversized, Remove, ItemsWithout, OrderWithout, BytesWithout
    <3>2. items' = items
      BY <1>1, <3>1 DEF TypeOK
    <3> QED
      BY <1>1, <1>8, <3>1, <3>2
      DEF IInv, RejectOversized, TypeOK, NewestSurvives
  <2> QED BY <2>1, <2>2
<1>9. CASE Store
  <2> DEFINE e == [expiresAt |-> now + TTL, size |-> op.size]
             map == ItemsWithout(op.id)
  <2>1. /\ op.id \in Ids /\ op.size \in Nat /\ op.size <= MaxBytes
        /\ e \in Entry
    BY <1>1, <1>9, ConstantsAssumption
    DEF Store, TypeOK, Operation, NoOp, Entry
  <2>2. /\ Core(map, OrderWithout(op.id), BytesWithout(op.id))
        /\ DOMAIN map = DOMAIN items \ {op.id}
        /\ \A j \in DOMAIN map : map[j] = items[j]
    <3>1. /\ DOMAIN map = DOMAIN items \ {op.id}
          /\ \A j \in DOMAIN map : map[j] = items[j]
      BY DEF ItemsWithout
    <3>2. CASE op.id \in DOMAIN items
      BY <1>1, <3>1, <3>2, RemoveFromCache
    <3>3. CASE op.id \notin DOMAIN items
      <4>1. map = items
        BY <1>1, <3>1, <3>3 DEF ItemsWithout, TypeOK
      <4> QED BY <1>1, <3>1, <3>3, <4>1 DEF OrderWithout, BytesWithout
    <3> QED BY <3>2, <3>3
  <2>3. \A j \in DOMAIN map : map[j].expiresAt <= e.expiresAt
    BY <1>1, <2>2
  <2>4. /\ items' = With(map, op.id, e)
        /\ order' = Append(OrderWithout(op.id), op.id)
        /\ bytes' = BytesWithout(op.id) + e.size
    <3>1. items' = [j \in DOMAIN items \cup {op.id} |->
                       IF j = op.id THEN e ELSE items[j]]
      BY <1>9 DEF Store
    <3>2. DOMAIN items \cup {op.id} = DOMAIN map \cup {op.id}
      BY <2>2
    <3>3. items' = [j \in DOMAIN map \cup {op.id} |->
                       IF j = op.id THEN e ELSE map[j]]
      BY <2>2, <3>1, <3>2
    <3> QED BY <1>9, <3>3 DEF Store, With
  <2> HIDE DEF map
  <2>5. Core(items', order', bytes')
    BY <2>1, <2>2, <2>3, <2>4, AppendKeepsCore
  <2>6. \A j \in DOMAIN items' : items'[j].expiresAt <= now' + TTL
    BY <1>1, <1>9, <2>2, <2>4, ConstantsAssumption DEF With, Store, TypeOK
  <2>7. TypeOK'
    BY <1>1, <1>9, <2>5, CoreTypes DEF TypeOK, Store
  <2>8. order' # << >> /\ order'[Len(order')] = op.id
    BY <2>2, <2>4, CoreTypes
  <2>9. items'[op.id].size <= MaxBytes
    BY <2>1, <2>4 DEF With
  <2>10. mode' = "evict" /\ op' = op
    BY <1>9 DEF Store
  <2> QED
    BY <2>5, <2>6, <2>7, <2>8, <2>9, <2>10 DEF IInv, NewestSurvives
<1>10. CASE EvictOldest
  <2> DEFINE n == Len(order)
  <2>1. /\ n \in Nat /\ DOMAIN order = 1..n /\ n # 0
        /\ mode = "evict" /\ order[n] = op.id
        /\ Remove(order[1]) /\ now' = now
    BY <1>1, <1>10 DEF EvictOldest, IInv, NewestSurvives, TypeOK
  <2>2. 1 \in DOMAIN order /\ order[1] \in DOMAIN items
    BY <1>1, <2>1 DEF Core, Exact
  <2>3. /\ Core(items', order', bytes')
        /\ DOMAIN items' = DOMAIN items \ {order[1]}
        /\ \A j \in DOMAIN items' : items'[j] = items[j]
        /\ \A j \in DOMAIN items' : items'[j].expiresAt <= now' + TTL
    BY <1>1, <2>1, <2>2, RemoveStep
  <2>4. TypeOK'
    BY <1>1, <1>10, <2>3, CoreTypes DEF TypeOK, EvictOldest
  (* With one item left the loop has stopped: it is within both limits. *)
  <2>5. n > 1
    <3> SUFFICES ASSUME n = 1 PROVE FALSE
      BY <2>1
    <3>1. /\ Cardinality(DOMAIN items) = 1
          /\ bytes = items[op.id].size
      BY <1>1, <2>1, OneItem
    <3>2. bytes <= MaxBytes /\ MaxItems > 0
      BY <1>1, <1>10, <3>1 DEF IInv, EvictOldest, TypeOK
    <3> QED
      BY <1>1, <1>10, <3>1, <3>2, ConstantsAssumption
      DEF EvictOldest, OverLimit, TypeOK
  <2>6. order' = RemoveAt(order, 1)
    <3>1. Position(order[1]) = 1
      BY <1>1, <2>2, RemoveFromCache DEF Core, Exact
    <3> QED BY <2>1, <2>2, <3>1 DEF Remove, OrderWithout
  <2>7. order' # << >> /\ order'[Len(order')] = op.id
    <3>1. /\ Len(order') = n - 1 /\ DOMAIN order' = 1..n - 1
          /\ \A j \in 1..n - 1 : order'[j] = order[j + 1]
      <4>1. order \in Seq(Ids)
        BY <1>1 DEF TypeOK
      <4>2. \A j \in 1..n - 1 : ~ (j < 1)
        BY <2>1
      <4> HIDE DEF n
      <4>3. /\ Len(RemoveAt(order, 1)) = n - 1
            /\ DOMAIN RemoveAt(order, 1) = 1..n - 1
            /\ \A j \in 1..n - 1 : RemoveAt(order, 1)[j]
                 = IF j < 1 THEN order[j] ELSE order[j + 1]
        BY <2>2, <4>1, RemoveAtType DEF n
      <4> QED BY <2>6, <4>2, <4>3
    <3>2. n - 1 \in 1..n - 1 /\ (n - 1) + 1 = n
      BY <2>1, <2>5
    <3> QED BY <2>1, <3>1, <3>2
  <2>8. items'[op.id].size <= MaxBytes
    <3>1. op.id \in DOMAIN items'
      BY <2>1, <2>3, <2>5, <2>7, <2>4 DEF Core, Exact, TypeOK
    <3> QED BY <2>1, <2>3, <3>1 DEF IInv
  <2>9. mode' = "evict" /\ op' = op
    BY <1>10 DEF EvictOldest
  <2> QED
    BY <2>3, <2>4, <2>7, <2>8, <2>9 DEF IInv, NewestSurvives
<1>11. CASE FinishPut
  <2>1. ~ OverLimit
    BY <1>11 DEF IInv, FinishPut, NewestSurvives
  <2> QED
    BY <1>1, <1>11, <2>1, ConstantsAssumption
    DEF IInv, FinishPut, OverLimit, TypeOK, NewestSurvives
<1>12. CASE Tick
  <2>1. now' \in Nat /\ now <= now'
    BY <1>1, <1>12 DEF Tick, TypeOK
  <2>2. \A j \in DOMAIN items : items[j].expiresAt <= now' + TTL
    BY <1>1, <2>1, ConstantsAssumption DEF TypeOK, Entry
  <2> QED
    BY <1>12, <2>1, <2>2 DEF IInv, Tick, TypeOK, NewestSurvives
<1>13. CASE UNCHANGED vars
  BY <1>13 DEF IInv, vars, TypeOK, NewestSurvives
<1> QED
  BY <1>2, <1>3, <1>4, <1>5, <1>6, <1>7, <1>8, <1>9, <1>10, <1>11, <1>12,
     <1>13 DEF Next

LEMMA Inductive == Spec => []IInv
BY InitIInv, StepIInv, PTL DEF Spec

(* Every variable of the cache keeps its type, whatever the ids, sizes,    *)
(* limits and clock readings.                                              *)
THEOREM TypeCorrect == Spec => []TypeOK
<1>1. IInv => TypeOK
  BY DEF IInv
<1> QED BY <1>1, Inductive, PTL

(* The eviction order of Cache names every stored id exactly once.         *)
THEOREM OrderCorrect == Spec => []OrderIsExact
<1>1. IInv => OrderIsExact
  BY DEF IInv, Core, Exact, OrderIsExact
<1> QED BY <1>1, Inductive, PTL

(* Insertion order is expiry order, although Put reads the clock twice.    *)
THEOREM ExpiryOrderCorrect == Spec => []OrderedByExpiry
<1>1. IInv => OrderedByExpiry
  BY DEF IInv, Core, Sorted, OrderedByExpiry
<1> QED BY <1>1, Inductive, PTL

(* Both cache limits hold whenever the mutex is free.                      *)
THEOREM LimitsCorrect == Spec => []WithinLimits
<1>1. IInv => WithinLimits
  BY DEF IInv, WithinLimits
<1> QED BY <1>1, Inductive, PTL

(* The eviction loop of Put never reaches the item Put has just stored.    *)
THEOREM NewestSurvivesCorrect == Spec => []NewestSurvives
<1>1. IInv => NewestSurvives
  BY DEF IInv
<1> QED BY <1>1, Inductive, PTL

(* The byte counter is, at every step of every operation, the last partial *)
(* sum of the stored sizes along the order.                                *)
THEOREM BytesCorrect == Spec => []Accounted(items, order, bytes)
<1>1. IInv => Accounted(items, order, bytes)
  BY DEF IInv, Core
<1> QED BY <1>1, Inductive, PTL

----------------------------------------------------------------------------
(* The counters of Stats against the items that went.                      *)
CountInv ==
    /\ stored \in Nat /\ replaced \in Nat
    /\ EveryItemLeavesOnce

LEMMA StepCountInv == IInv /\ CountInv /\ [Next]_vars => CountInv'
<1> SUFFICES ASSUME IInv, CountInv, [Next]_vars PROVE CountInv'
  OBVIOUS
<1> DEFINE n == Cardinality(DOMAIN items)
<1> USE DEF cacheVars, history
<1>1. /\ TypeOK /\ Core(items, order, bytes)
      /\ \A j \in DOMAIN items : items[j].expiresAt <= now + TTL
      /\ n \in Nat /\ IsFiniteSet(DOMAIN items)
      /\ evictions \in Nat /\ expired \in Nat /\ stored \in Nat /\ replaced \in Nat
      /\ stored = n + evictions + expired + replaced
  BY CoreTypes DEF IInv, TypeOK, CountInv, EveryItemLeavesOnce, Core
<1>2. ASSUME NEW id \in DOMAIN items, Remove(id), now' = now
      PROVE  Cardinality(DOMAIN items') = n - 1
  BY <1>1, <1>2, RemoveStep
<1>3. ASSUME NEW id, id \notin DOMAIN items, Remove(id)
      PROVE  DOMAIN items' = DOMAIN items
  BY <1>3 DEF Remove, ItemsWithout
<1>4. ASSUME NEW id \in DOMAIN items, ExpireOne(id) PROVE CountInv'
  <2>1. /\ Remove(id) /\ now' = now /\ expired' = expired + 1
        /\ evictions' = evictions /\ stored' = stored /\ replaced' = replaced
    BY <1>4 DEF ExpireOne
  <2>2. Cardinality(DOMAIN items') = n - 1
    BY <1>2, <2>1
  <2> HIDE DEF n
  <2> QED BY <1>1, <2>1, <2>2 DEF CountInv, EveryItemLeavesOnce
<1>5. CASE RejectOversized
  <2>1. /\ Remove(op.id) /\ now' = now /\ expired' = expired
        /\ evictions' = evictions /\ stored' = stored
        /\ replaced' = IF op.id \in DOMAIN items THEN replaced + 1 ELSE replaced
    BY <1>5 DEF RejectOversized
  <2>2. CASE op.id \in DOMAIN items
    <3>1. Cardinality(DOMAIN items') = n - 1
      BY <1>2, <2>1, <2>2
    <3> HIDE DEF n
    <3> QED BY <1>1, <2>1, <2>2, <3>1 DEF CountInv, EveryItemLeavesOnce
  <2>3. CASE op.id \notin DOMAIN items
    <3>1. Cardinality(DOMAIN items') = n
      BY <1>3, <2>1, <2>3
    <3> HIDE DEF n
    <3> QED BY <1>1, <2>1, <2>3, <3>1 DEF CountInv, EveryItemLeavesOnce
  <2> QED BY <2>2, <2>3
<1>6. CASE Store
  <2>1. /\ DOMAIN items' = DOMAIN items \cup {op.id}
        /\ expired' = expired /\ evictions' = evictions /\ stored' = stored + 1
        /\ replaced' = IF op.id \in DOMAIN items THEN replaced + 1 ELSE replaced
    BY <1>6 DEF Store
  <2>2. CASE op.id \in DOMAIN items
    <3>1. Cardinality(DOMAIN items') = n
      <4>1. DOMAIN items' = DOMAIN items
        BY <2>1, <2>2
      <4> QED BY <4>1
    <3> HIDE DEF n
    <3> QED BY <1>1, <2>1, <2>2, <3>1 DEF CountInv, EveryItemLeavesOnce
  <2>3. CASE op.id \notin DOMAIN items
    <3>1. Cardinality(DOMAIN items') = n + 1
      BY <1>1, <2>1, <2>3, FS_AddElement
    <3> HIDE DEF n
    <3> QED BY <1>1, <2>1, <2>3, <3>1 DEF CountInv, EveryItemLeavesOnce
  <2> QED BY <2>2, <2>3
<1>7. CASE EvictOldest
  <2>1. /\ Remove(order[1]) /\ now' = now /\ evictions' = evictions + 1
        /\ expired' = expired /\ stored' = stored /\ replaced' = replaced
    BY <1>7 DEF EvictOldest
  <2>2. order[1] \in DOMAIN items
    <3>1. 1 \in DOMAIN order
      BY <1>1, <1>7 DEF EvictOldest, TypeOK
    <3> QED BY <1>1, <3>1 DEF Core, Exact
  <2>3. Cardinality(DOMAIN items') = n - 1
    BY <1>2, <2>1, <2>2
  <2> HIDE DEF n
  <2> QED BY <1>1, <2>1, <2>3 DEF CountInv, EveryItemLeavesOnce
<1>8. ASSUME \/ \E id \in Ids, size \in Sizes : BeginPut(id, size)
             \/ \E id \in Ids : BeginGet(id)
             \/ BeginStats \/ FinishGet \/ FinishStats \/ FinishPut \/ Tick \/ UNCHANGED vars
      PROVE  CountInv'
  <2>1. UNCHANGED <<items, evictions, expired, stored, replaced>>
    BY <1>8 DEF BeginPut, BeginGet, BeginStats, Lock, FinishGet, FinishStats, FinishPut,
                Tick, vars
  <2> QED BY <2>1 DEF CountInv, EveryItemLeavesOnce
<1> QED BY <1>4, <1>5, <1>6, <1>7, <1>8 DEF Next

(* The counters that Stats reports neither miss nor double-count an item:  *)
(* each one stored is still there, or was evicted, expired or replaced.    *)
THEOREM CountersCorrect == Spec => []EveryItemLeavesOnce
<1>1. Init => CountInv
  <2> SUFFICES ASSUME Init PROVE CountInv
    OBVIOUS
  <2>1. DOMAIN items = {} /\ Cardinality(DOMAIN items) = 0
    <3>1. DOMAIN items = {}
      BY DEF Init
    <3> QED BY <3>1, FS_EmptySet
  <2> QED BY <2>1 DEF Init, CountInv, EveryItemLeavesOnce
<1>2. CountInv => EveryItemLeavesOnce
  BY DEF CountInv
<1> QED BY <1>1, <1>2, StepCountInv, Inductive, PTL DEF Spec

----------------------------------------------------------------------------
(* What an operation has done so far to the state that it locked.          *)
SizesOf(map) == [id \in DOMAIN map |-> map[id].size]

BytesSum == bytes = SumFunctionOnSet(SizesOf(items), DOMAIN items)

LiveBefore == {id \in DOMAIN before.items : op.at <= before.items[id].expiresAt}
OrderBefore == InsertedBefore(before.items, before.order)

(* Some of the expired are gone.                                           *)
Expiring ==
    /\ LiveBefore \subseteq DOMAIN items /\ DOMAIN items \subseteq DOMAIN before.items
    /\ \A id \in DOMAIN items : items[id] = before.items[id]
    /\ InsertedBefore(items, order) = Abstract!Among(OrderBefore, DOMAIN items)

Rest == LiveBefore \ {op.id}
Grown == Rest \cup {op.id}
GrownItems == [j \in Grown |-> IF j = op.id THEN items[op.id] ELSE before.items[j]]
GrownOrder == Abstract!Among(OrderBefore, Rest) \cup (Rest \X {op.id})

MayStay(ids) ==
    Abstract!MostRecent(ids, Grown, GrownOrder) /\ Abstract!Fits(GrownItems, ids)

(* What is left of the live ones and the new one is a most recent part,    *)
(* and no smaller than any that fits.                                      *)
Evicting ==
    /\ \E stamp \in 0..now : /\ op.at <= stamp
                             /\ items[op.id] = [expiresAt |-> stamp + TTL, size |-> op.size]
    /\ op.id \in DOMAIN items /\ DOMAIN items \subseteq Grown
    /\ \A id \in DOMAIN items : items[id] = GrownItems[id]
    /\ InsertedBefore(items, order) = Abstract!Among(GrownOrder, DOMAIN items)
    /\ Abstract!MostRecent(DOMAIN items, Grown, GrownOrder)
    /\ \A ids \in SUBSET Grown : MayStay(ids) => ids \subseteq DOMAIN items

StepInv ==
    /\ BytesSum
    /\ mode # "free" => op.at \in 0..now
    /\ mode = "expire" => Expiring
    /\ mode = "evict" => Evicting

LEMMA SameSum ==
    ASSUME NEW f, NEW S
    PROVE  Abstract!SumFunctionOnSet(f, S) = SumFunctionOnSet(f, S)
<1>1. Abstract!SumFunctionOnSet(f, S) = (CHOOSE it : IsSum(f, S, it))[S]
  BY Zenon DEF Abstract!SumFunctionOnSet, Abstract!FoldFunctionOnSet,
               Abstract!MapThenFoldSet, IsSum, Some
<1> QED BY <1>1, SumIs

LEMMA SameCardinality == ASSUME NEW S PROVE Abstract!Cardinality(S) = Cardinality(S)
BY DEF Abstract!Cardinality, Cardinality

(* The order of what is left when one id is taken out.                     *)
LEMMA OrderLeft ==
    ASSUME NEW map, NEW ord, NEW b, Core(map, ord, b), NEW k \in DOMAIN ord
    PROVE  InsertedBefore(Without(map, ord[k]), RemoveAt(ord, k))
              = Abstract!Among(InsertedBefore(map, ord), (DOMAIN map) \ {ord[k]})
<1> DEFINE rm == Without(map, ord[k])
           ro == RemoveAt(ord, k)
           n == Len(ord)
           D == (DOMAIN map) \ {ord[k]}
<1>1. /\ n \in Nat /\ DOMAIN ord = 1..n /\ k \in 1..n
      /\ \A i, j \in 1..n : ord[i] = ord[j] => i = j
  BY DEF Core, Exact
<1>2. /\ DOMAIN ro = 1..n - 1
      /\ \A j \in 1..n - 1 : ro[j] = IF j < k THEN ord[j] ELSE ord[j + 1]
  BY RemoveAtType DEF Core
<1>3. DOMAIN rm = D
  BY DEF Without
<1>4. ASSUME NEW x \in D, NEW y \in D
      PROVE  (\E i, j \in DOMAIN ro : i < j /\ ro[i] = x /\ ro[j] = y)
                <=> \E i, j \in DOMAIN ord : i < j /\ ord[i] = x /\ ord[j] = y
  <2>1. ASSUME NEW i \in 1..n - 1, NEW j \in 1..n - 1, i < j
        PROVE  \E c, d \in 1..n : c < d /\ ord[c] = ro[i] /\ ord[d] = ro[j]
    <3> DEFINE c == IF i < k THEN i ELSE i + 1
               d == IF j < k THEN j ELSE j + 1
    <3>1. c \in 1..n /\ d \in 1..n /\ c < d
      BY <1>1, <2>1
    <3>2. ord[c] = ro[i] /\ ord[d] = ro[j]
      BY <1>2
    <3> QED BY <3>1, <3>2
  <2>2. ASSUME NEW i \in 1..n, NEW j \in 1..n, i < j, i # k, j # k
        PROVE  \E c, d \in 1..n - 1 : c < d /\ ro[c] = ord[i] /\ ro[d] = ord[j]
    <3> DEFINE c == IF i < k THEN i ELSE i - 1
               d == IF j < k THEN j ELSE j - 1
    <3>1. c \in 1..n - 1 /\ d \in 1..n - 1 /\ c < d
      BY <1>1, <2>2
    <3>2. ro[c] = ord[i] /\ ro[d] = ord[j]
      <4>1. (i < k => c = i) /\ (~ (i < k) => c + 1 = i /\ ~ (c < k))
        BY <1>1, <2>2
      <4>2. (j < k => d = j) /\ (~ (j < k) => d + 1 = j /\ ~ (d < k))
        BY <1>1, <2>2
      <4> HIDE DEF c, d, ro, n
      <4> QED BY <1>2, <3>1, <4>1, <4>2
    <3> QED BY <3>1, <3>2
  <2>3. ASSUME NEW i \in 1..n, ord[i] \in D PROVE i # k
    BY <2>3
  <2>4. ASSUME NEW i \in 1..n - 1, NEW j \in 1..n - 1, i < j, ro[i] = x, ro[j] = y
        PROVE  \E c, d \in DOMAIN ord : c < d /\ ord[c] = x /\ ord[d] = y
    <3>1. PICK c \in 1..n, d \in 1..n : c < d /\ ord[c] = ro[i] /\ ord[d] = ro[j]
      BY <2>1, <2>4
    <3> HIDE DEF ro, n, D
    <3> QED BY <1>1, <2>4, <3>1
  <2>5. ASSUME NEW i \in 1..n, NEW j \in 1..n, i < j, ord[i] = x, ord[j] = y
        PROVE  \E c, d \in DOMAIN ro : c < d /\ ro[c] = x /\ ro[d] = y
    <3>1. i # k /\ j # k
      BY <2>3, <2>5
    <3>2. PICK c \in 1..n - 1, d \in 1..n - 1 :
              c < d /\ ro[c] = ord[i] /\ ro[d] = ord[j]
      BY <2>2, <2>5, <3>1
    <3> HIDE DEF ro, n, D
    <3> QED BY <1>2, <2>5, <3>2
  <2> HIDE DEF ro, n, D
  <2> QED BY <1>1, <1>2, <2>4, <2>5
<1> HIDE DEF rm, ro, n
<1>5. ASSUME NEW p
      PROVE  p \in InsertedBefore(rm, ro)
                <=> p \in Abstract!Among(InsertedBefore(map, ord), D)
  <2>1. p \in InsertedBefore(rm, ro) <=>
           /\ p \in D \X D
           /\ \E i, j \in DOMAIN ro : i < j /\ ro[i] = p[1] /\ ro[j] = p[2]
    BY <1>3 DEF InsertedBefore
  <2>2. p \in Abstract!Among(InsertedBefore(map, ord), D) <=>
           /\ p \in (DOMAIN map) \X (DOMAIN map) /\ p[1] \in D /\ p[2] \in D
           /\ \E i, j \in DOMAIN ord : i < j /\ ord[i] = p[1] /\ ord[j] = p[2]
    BY DEF InsertedBefore, Abstract!Among
  <2>3. p \in D \X D <=> p \in (DOMAIN map) \X (DOMAIN map) /\ p[1] \in D /\ p[2] \in D
    OBVIOUS
  <2>4. p \in D \X D => p[1] \in D /\ p[2] \in D
    OBVIOUS
  <2> HIDE DEF D
  <2> QED BY <1>4, <2>1, <2>2, <2>3, <2>4
<1> QED BY <1>5 DEF rm, ro

(* The order with one more id.                                             *)
LEMMA OrderAppended ==
    ASSUME NEW map, NEW ord, NEW b, Core(map, ord, b),
           NEW id, id \notin DOMAIN map, NEW e
    PROVE  InsertedBefore(With(map, id, e), Append(ord, id))
              = InsertedBefore(map, ord) \cup ((DOMAIN map) \X {id})
<1> DEFINE wm == With(map, id, e)
           wo == Append(ord, id)
           n == Len(ord)
<1>1. /\ n \in Nat /\ DOMAIN ord = 1..n
      /\ \A i \in 1..n : ord[i] \in DOMAIN map
      /\ \A x \in DOMAIN map : \E i \in 1..n : ord[i] = x
  BY DEF Core, Exact
<1>2. DOMAIN wo = 1..n + 1 /\ (\A j \in 1..n : wo[j] = ord[j]) /\ wo[n + 1] = id
  BY <1>1 DEF Core
<1>3. DOMAIN wm = (DOMAIN map) \cup {id}
  BY DEF With
<1> HIDE DEF wm, wo, n
<1>4. ASSUME NEW x \in DOMAIN map, NEW y \in DOMAIN map
      PROVE  (\E i, j \in DOMAIN wo : i < j /\ wo[i] = x /\ wo[j] = y)
                <=> \E i, j \in DOMAIN ord : i < j /\ ord[i] = x /\ ord[j] = y
  <2>1. \A i \in 1..n + 1 : wo[i] \in DOMAIN map => i \in 1..n
    BY <1>1, <1>2
  <2>2. 1..n \subseteq 1..n + 1
    BY <1>1
  <2> QED BY <1>1, <1>2, <2>1, <2>2
<1>5. ASSUME NEW x \in DOMAIN map
      PROVE  \E i, j \in DOMAIN wo : i < j /\ wo[i] = x /\ wo[j] = id
  <2>1. PICK i \in 1..n : ord[i] = x
    BY <1>1
  <2>2. i \in 1..n + 1 /\ n + 1 \in 1..n + 1 /\ i < n + 1
    BY <1>1
  <2> QED BY <1>2, <2>1, <2>2
<1>6. ASSUME NEW y PROVE ~ \E i, j \in DOMAIN wo : i < j /\ wo[i] = id /\ wo[j] = y
  <2>1. \A i \in 1..n + 1 : wo[i] = id => i = n + 1
    BY <1>1, <1>2
  <2>2. \A i, j \in 1..n + 1 : i = n + 1 => ~ (i < j)
    BY <1>1
  <2> QED BY <1>2, <2>1, <2>2
<1>7. ASSUME NEW p
      PROVE  p \in InsertedBefore(wm, wo)
                <=> p \in InsertedBefore(map, ord) \cup ((DOMAIN map) \X {id})
  <2>1. p \in InsertedBefore(wm, wo) <=>
           /\ p \in ((DOMAIN map) \cup {id}) \X ((DOMAIN map) \cup {id})
           /\ \E i, j \in DOMAIN wo : i < j /\ wo[i] = p[1] /\ wo[j] = p[2]
    BY <1>3 DEF InsertedBefore
  <2>2. p \in InsertedBefore(map, ord) <=>
           /\ p \in (DOMAIN map) \X (DOMAIN map)
           /\ \E i, j \in DOMAIN ord : i < j /\ ord[i] = p[1] /\ ord[j] = p[2]
    BY DEF InsertedBefore
  <2>3. p \in (DOMAIN map) \X {id} <=>
           /\ p \in ((DOMAIN map) \cup {id}) \X ((DOMAIN map) \cup {id})
           /\ p[1] \in DOMAIN map /\ p[2] = id
    OBVIOUS
  <2>4. p \in (DOMAIN map) \X (DOMAIN map) <=>
           /\ p \in ((DOMAIN map) \cup {id}) \X ((DOMAIN map) \cup {id})
           /\ p[1] \in DOMAIN map /\ p[2] \in DOMAIN map
    OBVIOUS
  <2>5. p \in ((DOMAIN map) \cup {id}) \X ((DOMAIN map) \cup {id}) =>
           (p[1] \in DOMAIN map \/ p[1] = id) /\ (p[2] \in DOMAIN map \/ p[2] = id)
    OBVIOUS
  <2> QED BY <1>4, <1>5, <1>6, <2>1, <2>2, <2>3, <2>4, <2>5
<1> QED BY <1>7 DEF wm, wo

(* The byte sum of what is left when one id is taken out.                  *)
LEMMA SumLeft ==
    ASSUME NEW map, NEW ord, NEW b, Core(map, ord, b),
           b = SumFunctionOnSet(SizesOf(map), DOMAIN map), NEW id \in DOMAIN map
    PROVE  b - map[id].size =
              SumFunctionOnSet(SizesOf(Without(map, id)), DOMAIN Without(map, id))
<1> DEFINE f == SizesOf(map)
           g == SizesOf(Without(map, id))
           D == DOMAIN map
           R == D \ {id}
<1>1. /\ IsFiniteSet(D) /\ \A x \in D : f[x] \in Nat /\ f[x] = map[x].size
  BY DEF Core, SizesOf, Entry
<1>2. DOMAIN Without(map, id) = R /\ \A x \in R : g[x] = f[x]
  BY DEF Without, SizesOf
<1>3. IsFiniteSet(R)
  BY <1>1, FS_Subset
<1> HIDE DEF f, g, D
<1>4. SumFunctionOnSet(f, D) = f[id] + SumFunctionOnSet(f, R)
  BY <1>1, SumRemove DEF D
<1>5. SumFunctionOnSet(f, R) \in Nat
  BY <1>1, <1>3, SumNat
<1>6. SumFunctionOnSet(g, R) = SumFunctionOnSet(f, R)
  BY <1>2, <1>3, SumSame
<1>7. f[id] \in Nat /\ f[id] = map[id].size
  BY <1>1 DEF D
<1>8. b = SumFunctionOnSet(f, D)
  BY DEF f, D
<1>9. b - map[id].size = SumFunctionOnSet(g, R)
  BY <1>4, <1>5, <1>6, <1>7, <1>8
<1> QED BY <1>2, <1>9 DEF g

(* The byte sum with one more id.                                          *)
LEMMA SumAppended ==
    ASSUME NEW map, NEW ord, NEW b, Core(map, ord, b),
           b = SumFunctionOnSet(SizesOf(map), DOMAIN map),
           NEW id, id \notin DOMAIN map, NEW e \in Entry
    PROVE  b + e.size =
              SumFunctionOnSet(SizesOf(With(map, id, e)), DOMAIN With(map, id, e))
<1> DEFINE f == SizesOf(map)
           g == SizesOf(With(map, id, e))
           D == DOMAIN map
<1>1. IsFiniteSet(D) /\ \A x \in D : f[x] \in Nat
  BY DEF Core, SizesOf, Entry
<1>2. /\ DOMAIN With(map, id, e) = D \cup {id}
      /\ \A x \in D : g[x] = f[x]
      /\ g[id] = e.size /\ e.size \in Nat
  BY DEF With, SizesOf, Entry
<1> HIDE DEF f, g, D
<1>3. SumFunctionOnSet(g, D) = SumFunctionOnSet(f, D)
  BY <1>1, <1>2, SumSame
<1>4. id \notin D /\ b = SumFunctionOnSet(f, D)
  BY DEF D, f
<1>5. SumFunctionOnSet(g, D \cup {id}) = SumFunctionOnSet(g, D) + g[id]
  BY <1>1, <1>2, <1>4, SumAdd
<1> QED BY <1>2, <1>3, <1>4, <1>5 DEF g

(* What removeLocked leaves of an id, stored or not.                       *)
LEMMA WithoutIs ==
    ASSUME Core(items, order, bytes), BytesSum, NEW id
    PROVE  /\ Core(ItemsWithout(id), OrderWithout(id), BytesWithout(id))
           /\ DOMAIN ItemsWithout(id) = (DOMAIN items) \ {id}
           /\ \A j \in DOMAIN ItemsWithout(id) : ItemsWithout(id)[j] = items[j]
           /\ BytesWithout(id) = SumFunctionOnSet(SizesOf(ItemsWithout(id)),
                                                  DOMAIN ItemsWithout(id))
           /\ InsertedBefore(ItemsWithout(id), OrderWithout(id))
                 = Abstract!Among(InsertedBefore(items, order), (DOMAIN items) \ {id})
<1>1. /\ DOMAIN ItemsWithout(id) = (DOMAIN items) \ {id}
      /\ \A j \in DOMAIN ItemsWithout(id) : ItemsWithout(id)[j] = items[j]
  BY DEF ItemsWithout
<1>2. CASE id \in DOMAIN items
  <2>1. /\ Position(id) \in DOMAIN order /\ order[Position(id)] = id
        /\ Core(ItemsWithout(id), OrderWithout(id), BytesWithout(id))
    BY <1>2, RemoveFromCache
  <2>2. /\ ItemsWithout(id) = Without(items, id)
        /\ OrderWithout(id) = RemoveAt(order, Position(id))
        /\ BytesWithout(id) = bytes - items[id].size
    BY <1>2 DEF ItemsWithout, Without, OrderWithout, BytesWithout
  <2>3. InsertedBefore(Without(items, id), RemoveAt(order, Position(id)))
           = Abstract!Among(InsertedBefore(items, order), (DOMAIN items) \ {id})
    BY <2>1, OrderLeft
  <2>4. bytes - items[id].size =
           SumFunctionOnSet(SizesOf(Without(items, id)), DOMAIN Without(items, id))
    BY <1>2, SumLeft DEF BytesSum
  <2> QED BY <1>1, <2>1, <2>2, <2>3, <2>4
<1>3. CASE id \notin DOMAIN items
  <2>1. (DOMAIN items) \ {id} = DOMAIN items
    BY <1>3
  <2>2. ItemsWithout(id) = items
    BY <2>1 DEF ItemsWithout, Core
  <2>3. OrderWithout(id) = order /\ BytesWithout(id) = bytes
    BY <1>3 DEF OrderWithout, BytesWithout
  <2>4. InsertedBefore(items, order)
           = Abstract!Among(InsertedBefore(items, order), DOMAIN items)
    BY DEF InsertedBefore, Abstract!Among
  <2> QED BY <1>1, <2>1, <2>2, <2>3, <2>4 DEF BytesSum
<1> QED BY <1>2, <1>3

LEMMA AmongFewer ==
    ASSUME NEW rel, NEW S, NEW T, S \subseteq T
    PROVE  Abstract!Among(Abstract!Among(rel, T), S) = Abstract!Among(rel, S)
BY DEF Abstract!Among

LEMMA InitStepInv == Init => StepInv
<1> SUFFICES ASSUME Init PROVE StepInv
  OBVIOUS
<1>1. DOMAIN items = {} /\ bytes = 0 /\ mode = "free"
  BY DEF Init
<1>2. BytesSum
  BY <1>1, SumEmpty DEF BytesSum
<1> QED BY <1>1, <1>2 DEF StepInv

LEMMA LockKeeps ==
    ASSUME IInv, StepInv, NEW operation, operation.at = now, Lock(operation)
    PROVE  StepInv'
<1>1. /\ mode' = "expire" /\ op' = operation
      /\ before' = [items |-> items, order |-> order]
      /\ UNCHANGED <<now, items, order, bytes>>
  BY DEF Lock, cacheVars
<1>2. BytesSum'
  BY <1>1 DEF StepInv, BytesSum, SizesOf
<1>3. op'.at \in 0..now'
  BY <1>1 DEF IInv, TypeOK
<1>4. before'.items = items /\ before'.order = order
  BY <1>1
<1>5. LiveBefore' \subseteq DOMAIN items
  BY <1>4 DEF LiveBefore
<1>6. InsertedBefore(items, order) = Abstract!Among(OrderBefore', DOMAIN items)
  BY <1>4 DEF OrderBefore, InsertedBefore, Abstract!Among
<1>7. Expiring'
  BY <1>1, <1>4, <1>5, <1>6 DEF Expiring
<1> QED BY <1>1, <1>2, <1>3, <1>7 DEF StepInv

LEMMA ExpireKeeps ==
    ASSUME IInv, StepInv, NEW id \in DOMAIN items, ExpireOne(id)
    PROVE  StepInv'
<1>1. /\ mode = "expire" /\ mode' = "expire" /\ op.at > items[id].expiresAt
      /\ items' = ItemsWithout(id) /\ order' = OrderWithout(id)
      /\ bytes' = BytesWithout(id) /\ UNCHANGED <<now, op, before>>
  BY DEF ExpireOne, Remove, Expired, history
<1>2. Core(items, order, bytes) /\ BytesSum /\ Expiring /\ op.at \in 0..now
  BY <1>1 DEF IInv, StepInv
<1>3. /\ DOMAIN items' = (DOMAIN items) \ {id}
      /\ \A j \in DOMAIN items' : items'[j] = items[j]
      /\ bytes' = SumFunctionOnSet(SizesOf(items'), DOMAIN items')
      /\ InsertedBefore(items', order')
            = Abstract!Among(InsertedBefore(items, order), (DOMAIN items) \ {id})
  BY <1>1, <1>2, WithoutIs
<1>4. id \notin LiveBefore
  <2>1. items[id].expiresAt \in Nat /\ op.at \in Int /\ items[id] = before.items[id]
    BY <1>2 DEF Core, Entry, Expiring
  <2> QED BY <1>1, <2>1 DEF LiveBefore
<1>5. LiveBefore' = LiveBefore /\ OrderBefore' = OrderBefore
  BY <1>1 DEF LiveBefore, OrderBefore
<1>6. InsertedBefore(items', order') = Abstract!Among(OrderBefore, DOMAIN items')
  BY <1>2, <1>3, AmongFewer DEF Expiring
<1>7. Expiring'
  BY <1>1, <1>2, <1>3, <1>4, <1>5, <1>6 DEF Expiring
<1> QED BY <1>1, <1>2, <1>3, <1>7 DEF StepInv, BytesSum, SizesOf

(* When nothing is expired any more, what is left is what is live.         *)
LEMMA LeftIsLive ==
    ASSUME IInv, StepInv, mode = "expire", NoneExpired
    PROVE  DOMAIN items = LiveBefore
<1>1. Core(items, order, bytes) /\ Expiring /\ op.at \in 0..now
  BY DEF IInv, StepInv
<1>2. ASSUME NEW id \in DOMAIN items PROVE id \in LiveBefore
  <2>1. items[id].expiresAt \in Nat /\ op.at \in Int /\ items[id] = before.items[id]
    BY <1>1 DEF Core, Entry, Expiring
  <2>2. ~ (op.at > items[id].expiresAt)
    BY DEF NoneExpired, Expired
  <2> QED BY <1>1, <2>1, <2>2 DEF LiveBefore, Expiring
<1> QED BY <1>1, <1>2 DEF Expiring

LEMMA StoreKeeps == ASSUME IInv, StepInv, Store PROVE StepInv'
<1> DEFINE id == op.id
           e == [expiresAt |-> now + TTL, size |-> op.size]
           map == ItemsWithout(id)
           ord == OrderWithout(id)
<1>1. /\ mode = "expire" /\ NoneExpired /\ mode' = "evict"
      /\ UNCHANGED <<now, op, before>>
      /\ items' = [j \in (DOMAIN items) \cup {id} |-> IF j = id THEN e ELSE items[j]]
      /\ order' = Append(ord, id) /\ bytes' = BytesWithout(id) + e.size
  BY DEF Store
<1>2. /\ Core(items, order, bytes) /\ BytesSum /\ Expiring /\ op.at \in 0..now
      /\ now \in Nat
  BY <1>1 DEF IInv, StepInv, TypeOK
<1>3. e \in Entry
  BY <1>1, ConstantsAssumption DEF Store, IInv, TypeOK, Operation, NoOp, Entry
<1>4. /\ Core(map, ord, BytesWithout(id))
      /\ DOMAIN map = (DOMAIN items) \ {id}
      /\ \A j \in DOMAIN map : map[j] = items[j]
      /\ BytesWithout(id) = SumFunctionOnSet(SizesOf(map), DOMAIN map)
      /\ InsertedBefore(map, ord)
            = Abstract!Among(InsertedBefore(items, order), (DOMAIN items) \ {id})
  BY <1>2, WithoutIs
<1>5. DOMAIN items = LiveBefore
  BY <1>1, LeftIsLive
<1>6. DOMAIN map = Rest /\ id \notin DOMAIN map
  BY <1>4, <1>5 DEF Rest
<1>7. items' = With(map, id, e)
  <2>1. (DOMAIN items) \cup {id} = (DOMAIN map) \cup {id}
    BY <1>4
  <2> HIDE DEF map, e
  <2> QED BY <1>1, <1>4, <2>1 DEF With
<1>8. bytes' = SumFunctionOnSet(SizesOf(items'), DOMAIN items')
  <2> HIDE DEF map, ord, e, id
  <2> QED BY <1>1, <1>3, <1>4, <1>6, <1>7, SumAppended
<1>9. InsertedBefore(items', order') = GrownOrder
  <2> HIDE DEF map, ord, e, id
  <2>1. InsertedBefore(items', order') = InsertedBefore(map, ord) \cup ((DOMAIN map) \X {id})
    BY <1>1, <1>4, <1>6, <1>7, OrderAppended
  <2>2. InsertedBefore(map, ord) = Abstract!Among(OrderBefore, Rest)
    BY <1>2, <1>4, <1>6, AmongFewer DEF Expiring
  <2> QED BY <1>6, <2>1, <2>2 DEF GrownOrder, id
<1>10. /\ LiveBefore' = LiveBefore /\ OrderBefore' = OrderBefore /\ Rest' = Rest
       /\ Grown' = Grown /\ GrownOrder' = GrownOrder
  BY <1>1 DEF LiveBefore, OrderBefore, Rest, Grown, GrownOrder
<1>11. DOMAIN items' = Grown /\ items'[id] = e /\ \A j \in Rest : items'[j] = before.items[j]
  <2> HIDE DEF map, e
  <2> QED BY <1>2, <1>4, <1>6, <1>7 DEF With, Grown, Expiring
<1>12. /\ DOMAIN GrownItems' = Grown
       /\ \A j \in Grown : GrownItems'[j] = items'[j]
  BY <1>1, <1>10, <1>11 DEF GrownItems, Grown
<1>13. GrownOrder = Abstract!Among(GrownOrder, Grown)
  BY DEF GrownOrder, Grown, Abstract!Among
<1>14. Abstract!MostRecent(Grown, Grown, GrownOrder)
  BY DEF Abstract!MostRecent
<1>15. Evicting'
  <2>1. \E stamp \in 0..now' : /\ op'.at <= stamp
                               /\ items'[op'.id] = [expiresAt |-> stamp + TTL,
                                                    size |-> op'.size]
    BY <1>1, <1>2, <1>11
  <2>2. id \in Grown
    BY DEF Grown
  <2> HIDE DEF e, map, ord
  <2> QED BY <1>1, <1>9, <1>10, <1>11, <1>12, <1>13, <1>14, <2>1, <2>2 DEF Evicting
<1> HIDE DEF id, e, map, ord
<1> QED BY <1>1, <1>2, <1>8, <1>15 DEF StepInv, BytesSum, SizesOf

(* All of what is left fits exactly if the loop of Put would stop.         *)
LEMMA FitsWhenWithin ==
    ASSUME IInv, StepInv, mode = "evict"
    PROVE  Abstract!Fits(GrownItems, DOMAIN items) <=> ~ OverLimit
<1> DEFINE D == DOMAIN items
           sizes == [j \in D |-> GrownItems[j].size]
<1>1. /\ Core(items, order, bytes) /\ BytesSum /\ Evicting
      /\ bytes \in Int /\ MaxItems \in Nat /\ MaxBytes \in Nat
  BY ConstantsAssumption DEF IInv, StepInv, Core
<1>2. sizes = SizesOf(items)
  BY <1>1 DEF Evicting, SizesOf
<1>3. Abstract!TotalSize(GrownItems, D) = bytes
  <2>1. Abstract!TotalSize(GrownItems, D) = Abstract!SumFunctionOnSet(sizes, D)
    BY DEF Abstract!TotalSize
  <2> HIDE DEF sizes, D
  <2>2. Abstract!SumFunctionOnSet(sizes, D) = SumFunctionOnSet(SizesOf(items), D)
    BY <1>2, SameSum
  <2> QED BY <1>1, <2>1, <2>2 DEF BytesSum, D
<1>4. Cardinality(D) \in Nat /\ Abstract!Cardinality(D) = Cardinality(D)
  BY <1>1, SameCardinality, FS_CardinalityType DEF Core
<1>5. Abstract!Fits(GrownItems, D) <=> Cardinality(D) <= MaxItems /\ bytes <= MaxBytes
  BY <1>3, <1>4 DEF Abstract!Fits
<1>6. Cardinality(D) > MaxItems <=> ~ (Cardinality(D) <= MaxItems)
  BY <1>1, <1>4
<1>7. bytes > MaxBytes <=> ~ (bytes <= MaxBytes)
  BY <1>1
<1> QED BY <1>5, <1>6, <1>7 DEF OverLimit

(* The loop takes away only what no most recent part that fits holds.      *)
LEMMA EvictKeeps ==
    ASSUME IInv, IInv', StepInv, EvictOldest
    PROVE  StepInv'
<1> DEFINE old == order[1]
           D == DOMAIN items
<1>1. /\ mode = "evict" /\ mode' = "evict" /\ OverLimit /\ order # << >>
      /\ items' = ItemsWithout(old) /\ order' = OrderWithout(old)
      /\ bytes' = BytesWithout(old) /\ UNCHANGED <<now, op, before>>
  BY DEF EvictOldest, Remove, history
<1>2. /\ Core(items, order, bytes) /\ BytesSum /\ Evicting /\ op.at \in 0..now
  BY <1>1 DEF IInv, StepInv
<1>3. /\ DOMAIN items' = D \ {old}
      /\ \A j \in DOMAIN items' : items'[j] = items[j]
      /\ bytes' = SumFunctionOnSet(SizesOf(items'), DOMAIN items')
      /\ InsertedBefore(items', order')
            = Abstract!Among(InsertedBefore(items, order), D \ {old})
  BY <1>1, <1>2, WithoutIs
<1>4. op.id \in DOMAIN items'
  <2>1. /\ Core(items', order', bytes') /\ order' # << >> /\ order'[Len(order')] = op'.id
    BY <1>1 DEF IInv, NewestSurvives
  <2>2. Len(order') \in DOMAIN order'
    BY <2>1 DEF Core
  <2> QED BY <1>1, <2>1, <2>2 DEF Core, Exact
<1>5. /\ Rest' = Rest /\ Grown' = Grown /\ GrownOrder' = GrownOrder
  BY <1>1 DEF LiveBefore, OrderBefore, Rest, Grown, GrownOrder
<1>6. GrownItems' = GrownItems
  BY <1>1, <1>3, <1>4, <1>5 DEF GrownItems
<1>7. /\ old \in D /\ DOMAIN order = 1..Len(order) /\ Len(order) \in Nat \ {0}
      /\ 1 \in DOMAIN order
  BY <1>1, <1>2 DEF Core, Exact
(* The oldest comes before every other one, and no one before it. *)
<1>8. ASSUME NEW x \in D, x # old
      PROVE  /\ <<old, x>> \in InsertedBefore(items, order)
             /\ <<x, old>> \notin InsertedBefore(items, order)
  <2>1. PICK i \in DOMAIN order : order[i] = x
    BY <1>2 DEF Core, Exact
  <2>2. 1 < i
    BY <1>7, <1>8, <2>1
  <2>3. <<old, x>> \in D \X D
    BY <1>7
  <2>4. \A j \in DOMAIN order : order[j] = old => j = 1
    BY <1>2, <1>7 DEF Core, Exact
  <2>5. \A j, k \in DOMAIN order : k = 1 => ~ (j < k)
    BY <1>7
  <2>6. /\ <<old, x>>[1] = old /\ <<old, x>>[2] = x
        /\ <<x, old>>[1] = x /\ <<x, old>>[2] = old
    OBVIOUS
  <2> HIDE DEF D, old
  <2>7. <<old, x>> \in InsertedBefore(items, order)
    BY <1>7, <2>1, <2>2, <2>3, <2>6 DEF InsertedBefore, D, old
  <2>8. <<x, old>> \notin InsertedBefore(items, order)
    BY <2>4, <2>5, <2>6 DEF InsertedBefore
  <2> QED BY <2>7, <2>8
<1> HIDE DEF old, D
<1>9. /\ InsertedBefore(items, order) = Abstract!Among(GrownOrder, D)
      /\ Abstract!MostRecent(D, Grown, GrownOrder)
      /\ D \subseteq Grown /\ op.id \in D
  BY <1>2 DEF Evicting, D
<1>10. Abstract!MostRecent(D \ {old}, Grown, GrownOrder)
  <2> SUFFICES ASSUME NEW p \in GrownOrder, p[1] \in D \ {old}, p[2] \in Grown
               PROVE  p[2] \in D \ {old}
    BY DEF Abstract!MostRecent
  <2>1. p[2] \in D
    BY <1>9 DEF Abstract!MostRecent
  <2>2. p \in InsertedBefore(items, order)
    BY <1>9, <2>1 DEF Abstract!Among
  <2>3. p = <<p[1], p[2]>>
    BY <2>2 DEF InsertedBefore
  <2>4. <<p[1], old>> \notin InsertedBefore(items, order)
    BY <1>8
  <2>5. p[2] # old
    BY <2>2, <2>3, <2>4, Zenon
  <2> QED BY <2>1, <2>5
<1>11. ASSUME NEW ids \in SUBSET Grown, MayStay(ids) PROVE ids \subseteq D \ {old}
  <2>1. ids \subseteq D
    BY <1>2, <1>11 DEF Evicting, D
  <2>2. ASSUME old \in ids PROVE FALSE
    <3>1. ASSUME NEW x \in D PROVE x \in ids
      <4>1. CASE x = old
        BY <2>2, <4>1
      <4>2. CASE x # old
        <5>1. <<old, x>> \in GrownOrder
          BY <1>8, <1>9, <4>2 DEF Abstract!Among
        <5>2. <<old, x>>[1] = old /\ <<old, x>>[2] = x /\ x \in Grown
          BY <1>9
        <5> QED BY <1>11, <2>2, <5>1, <5>2 DEF MayStay, Abstract!MostRecent
      <4> QED BY <4>1, <4>2
    <3>2. ids = D
      BY <2>1, <3>1
    <3>3. ~ Abstract!Fits(GrownItems, D)
      BY <1>1, FitsWhenWithin DEF D
    <3> QED BY <1>11, <3>2, <3>3 DEF MayStay
  <2> QED BY <2>1, <2>2
<1>12. InsertedBefore(items', order') = Abstract!Among(GrownOrder, DOMAIN items')
  <2>1. D \ {old} \subseteq D
    OBVIOUS
  <2> QED BY <1>3, <1>9, <2>1, AmongFewer
<1>13. \A ids : MayStay(ids)' <=> MayStay(ids)
  BY <1>5, <1>6 DEF MayStay
<1>14. Evicting'
  <2>1. \A j \in DOMAIN items' : items'[j] = GrownItems'[j]
    BY <1>2, <1>3, <1>6 DEF Evicting, D
  <2>2. DOMAIN items' \subseteq Grown
    BY <1>3, <1>9
  <2>3. \E stamp \in 0..now' : /\ op'.at <= stamp
                               /\ items'[op'.id] = [expiresAt |-> stamp + TTL,
                                                    size |-> op'.size]
    BY <1>1, <1>2, <1>3, <1>4 DEF Evicting
  <2>4. \A ids \in SUBSET Grown : MayStay(ids)' => ids \subseteq DOMAIN items'
    BY <1>3, <1>11, <1>13
  <2>5. Abstract!MostRecent(DOMAIN items', Grown', GrownOrder')
    BY <1>3, <1>5, <1>10
  <2> QED BY <1>1, <1>4, <1>5, <1>12, <2>1, <2>2, <2>3, <2>4, <2>5 DEF Evicting
<1> QED BY <1>1, <1>2, <1>3, <1>14 DEF StepInv, BytesSum, SizesOf

LEMMA NextStepInv == IInv /\ IInv' /\ StepInv /\ [Next]_vars => StepInv'
<1> SUFFICES ASSUME IInv, IInv', StepInv, [Next]_vars PROVE StepInv'
  OBVIOUS
<1>1. BytesSum /\ now \in Nat
  BY DEF StepInv, IInv, TypeOK
<1>2. ASSUME NEW id \in Ids, NEW size \in Sizes, BeginPut(id, size) PROVE StepInv'
  <2>1. [kind |-> "put", id |-> id, size |-> size, at |-> now].at = now
    OBVIOUS
  <2> QED BY <1>2, <2>1, LockKeeps DEF BeginPut
<1>3. ASSUME NEW id \in Ids, BeginGet(id) PROVE StepInv'
  <2>1. [kind |-> "get", id |-> id, at |-> now].at = now
    OBVIOUS
  <2> QED BY <1>3, <2>1, LockKeeps DEF BeginGet
<1>4. CASE BeginStats
  <2>1. [kind |-> "stats", at |-> now].at = now
    OBVIOUS
  <2> QED BY <1>4, <2>1, LockKeeps DEF BeginStats
<1>5. ASSUME NEW id \in DOMAIN items, ExpireOne(id) PROVE StepInv'
  BY <1>5, ExpireKeeps
<1>6. CASE FinishGet \/ FinishStats \/ FinishPut
  BY <1>1, <1>6 DEF FinishGet, FinishStats, FinishPut, cacheVars, StepInv, BytesSum, SizesOf
<1>7. CASE RejectOversized
  <2>1. /\ items' = ItemsWithout(op.id) /\ bytes' = BytesWithout(op.id) /\ mode' = "free"
    BY <1>7 DEF RejectOversized, Remove
  <2>2. BytesWithout(op.id) = SumFunctionOnSet(SizesOf(ItemsWithout(op.id)),
                                               DOMAIN ItemsWithout(op.id))
    BY <1>1, WithoutIs DEF IInv
  <2> QED BY <2>1, <2>2 DEF StepInv, BytesSum, SizesOf
<1>8. CASE Store
  BY <1>8, StoreKeeps
<1>9. CASE EvictOldest
  BY <1>9, EvictKeeps
<1>10. CASE Tick \/ UNCHANGED vars
  <2>1. /\ UNCHANGED <<items, order, bytes, mode, op, before>>
        /\ now' \in Nat /\ now <= now'
    BY <1>1, <1>10 DEF Tick, vars, cacheVars, history
  <2>2. 0..now \subseteq 0..now'
    BY <1>1, <2>1
  <2>3. /\ LiveBefore' = LiveBefore /\ OrderBefore' = OrderBefore /\ Rest' = Rest
        /\ Grown' = Grown /\ GrownOrder' = GrownOrder
    BY <2>1 DEF LiveBefore, OrderBefore, Rest, Grown, GrownOrder
  <2>4. GrownItems' = GrownItems
    BY <2>1, <2>3 DEF GrownItems
  <2>5. mode = "expire" => Expiring'
    BY <2>1, <2>3 DEF StepInv, Expiring
  <2>6. mode = "evict" => Evicting'
    BY <2>1, <2>2, <2>3, <2>4 DEF StepInv, Evicting, MayStay
  <2> QED BY <1>1, <2>1, <2>2, <2>5, <2>6 DEF StepInv, BytesSum, SizesOf
<1> QED BY <1>2, <1>3, <1>4, <1>5, <1>6, <1>7, <1>8, <1>9, <1>10 DEF Next

LEMMA StepInvCorrect == Spec => [](IInv /\ StepInv)
BY InitIInv, StepIInv, InitStepInv, NextStepInv, PTL DEF Spec

----------------------------------------------------------------------------
(* The abstract state, while an operation runs and when it has ended.      *)
LEMMA WhileRunning ==
    ASSUME mode # "free"
    PROVE  /\ Visible = before
           /\ Abstract!Live(op.at) = LiveBefore
           /\ InsertedBefore(Visible.items, Visible.order) = OrderBefore
BY DEF Visible, Abstract!Live, LiveBefore, OrderBefore

LEMMA WhenFree ==
    ASSUME mode = "free"
    PROVE  Visible.items = items /\ Visible.order = order
BY DEF Visible

LEMMA Kept ==
    ASSUME NEW map, NEW rel, NEW ids, mode' = "free",
           items' = [j \in ids |-> map[j]],
           InsertedBefore(items', order') = Abstract!Among(rel, ids)
    PROVE  Abstract!Keep(map, rel, ids)
BY DEF Abstract!Keep, Abstract!Restrict, Visible

LEMMA KeptLive ==
    ASSUME IInv, StepInv, mode = "expire", NoneExpired, mode' = "free",
           UNCHANGED <<items, order>>
    PROVE  Abstract!Keep(Visible.items, InsertedBefore(Visible.items, Visible.order),
                         Abstract!Live(op.at))
<1>1. Expiring /\ items \in [DOMAIN items -> Entry]
  BY DEF StepInv, IInv, Core
<1>2. DOMAIN items = LiveBefore
  BY LeftIsLive
<1>3. /\ Visible = before /\ Abstract!Live(op.at) = LiveBefore
      /\ InsertedBefore(Visible.items, Visible.order) = OrderBefore
  BY WhileRunning
<1>4. items' = [j \in LiveBefore |-> before.items[j]]
  BY <1>1, <1>2 DEF Expiring
<1>5. InsertedBefore(items', order') = Abstract!Among(OrderBefore, LiveBefore)
  BY <1>1, <1>2 DEF Expiring
<1>6. Abstract!Keep(before.items, OrderBefore, LiveBefore)
  BY <1>4, <1>5, Kept
<1> QED BY <1>3, <1>6

LEMMA GetTakesEffect == ASSUME IInv, StepInv, FinishGet PROVE Abstract!SGet(op.id)
<1>1. /\ mode = "expire" /\ NoneExpired /\ mode' = "free"
      /\ UNCHANGED <<now, items, order>>
      /\ answer' = IF op.id \in DOMAIN items
                   THEN [found |-> TRUE, id |-> op.id, at |-> op.at,
                         expiresAt |-> items[op.id].expiresAt]
                   ELSE NoAnswer
  BY DEF FinishGet, cacheVars
<1>2. Expiring /\ op.at \in 0..now
  BY <1>1 DEF StepInv
<1>3. DOMAIN items = Abstract!Live(op.at) /\ Visible = before
  BY <1>1, LeftIsLive, WhileRunning
<1>4. Abstract!Keep(Visible.items, InsertedBefore(Visible.items, Visible.order),
                    Abstract!Live(op.at))
  BY <1>1, KeptLive
<1>5. answer' = IF op.id \in Abstract!Live(op.at)
                THEN [found |-> TRUE, id |-> op.id, at |-> op.at,
                      expiresAt |-> Visible.items[op.id].expiresAt]
                ELSE Abstract!SNone
  BY <1>1, <1>2, <1>3 DEF Expiring, NoAnswer, Abstract!SNone
<1> QED BY <1>1, <1>2, <1>4, <1>5 DEF Abstract!SGet

LEMMA StatsTakesEffect == ASSUME IInv, StepInv, FinishStats PROVE Abstract!SStats
<1>1. /\ mode = "expire" /\ NoneExpired /\ mode' = "free"
      /\ UNCHANGED <<now, items, order, answer>>
  BY DEF FinishStats, cacheVars
<1>2. op.at \in 0..now
  BY <1>1 DEF StepInv
<1>3. Abstract!Keep(Visible.items, InsertedBefore(Visible.items, Visible.order),
                    Abstract!Live(op.at))
  BY <1>1, KeptLive
<1> QED BY <1>1, <1>2, <1>3 DEF Abstract!SStats

LEMMA RejectionTakesEffect ==
    ASSUME IInv, StepInv, RejectOversized
    PROVE  Abstract!SPut(op.id, op.size)
<1>1. /\ mode = "expire" /\ NoneExpired /\ mode' = "free" /\ op.size > MaxBytes
      /\ items' = ItemsWithout(op.id) /\ order' = OrderWithout(op.id)
      /\ UNCHANGED <<now, answer>>
  BY DEF RejectOversized, Remove
<1>2. Expiring /\ BytesSum /\ Core(items, order, bytes) /\ op.at \in 0..now
  BY <1>1 DEF StepInv, IInv
<1>3. /\ DOMAIN items = LiveBefore /\ Visible = before
      /\ Abstract!Live(op.at) = LiveBefore
      /\ InsertedBefore(Visible.items, Visible.order) = OrderBefore
  BY <1>1, LeftIsLive, WhileRunning
<1>4. /\ DOMAIN items' = Rest /\ \A j \in Rest : items'[j] = items[j]
      /\ InsertedBefore(items', order')
            = Abstract!Among(InsertedBefore(items, order), Rest)
  BY <1>1, <1>2, <1>3, WithoutIs DEF Rest
<1>5. items' = [j \in Rest |-> before.items[j]]
  BY <1>1, <1>2, <1>3, <1>4 DEF ItemsWithout, Rest, Expiring
<1>6. InsertedBefore(items', order') = Abstract!Among(OrderBefore, Rest)
  <2>1. Rest \subseteq DOMAIN items
    BY <1>3 DEF Rest
  <2> QED BY <1>2, <1>4, <2>1, AmongFewer DEF Expiring
<1>7. Abstract!Keep(before.items, OrderBefore, Rest)
  BY <1>1, <1>5, <1>6, Kept
<1>8. Abstract!PutAt(op.id, op.size, op.at, op.at)
  BY <1>1, <1>3, <1>7 DEF Abstract!PutAt, Rest
<1>9. op.at <= op.at
  BY <1>2
<1> QED BY <1>1, <1>2, <1>8, <1>9 DEF Abstract!SPut

LEMMA PutTakesEffect ==
    ASSUME IInv, IInv', StepInv, FinishPut
    PROVE  Abstract!SPut(op.id, op.size)
<1>1. /\ mode = "evict" /\ mode' = "free"
      /\ ~ (OverLimit /\ order # << >>)
      /\ UNCHANGED <<now, items, order, answer>>
  BY DEF FinishPut, cacheVars
<1>2. /\ Evicting /\ Core(items, order, bytes) /\ op.at \in 0..now
      /\ op.size <= MaxBytes /\ order # << >> /\ op.size \in Int
  BY <1>1, ConstantsAssumption
  DEF StepInv, IInv, TypeOK, Operation, NoOp, NewestSurvives
<1>3. /\ Visible = before /\ Abstract!Live(op.at) = LiveBefore
      /\ InsertedBefore(Visible.items, Visible.order) = OrderBefore
  BY <1>1, WhileRunning
<1>4. PICK stamp \in 0..now :
         /\ op.at <= stamp
         /\ items[op.id] = [expiresAt |-> stamp + TTL, size |-> op.size]
  BY <1>2 DEF Evicting
<1> DEFINE record == [expiresAt |-> stamp + TTL, size |-> op.size]
<1>5. Abstract!Inserted(Rest, op.id, record) = GrownItems
  BY <1>3, <1>4 DEF Abstract!Inserted, GrownItems, Grown
<1>6. Abstract!OrderInserted(Rest, op.id) = GrownOrder
  BY <1>3 DEF Abstract!OrderInserted, GrownOrder
<1>7. /\ DOMAIN items \in SUBSET Grown
      /\ Abstract!MostRecent(DOMAIN items, Grown, GrownOrder)
      /\ \A ids \in SUBSET Grown : MayStay(ids) => ids \subseteq DOMAIN items
  BY <1>2 DEF Evicting
<1>8. Abstract!Fits(GrownItems, DOMAIN items)
  BY <1>1, <1>2, FitsWhenWithin
<1>9. Abstract!Keep(GrownItems, GrownOrder, DOMAIN items)
  <2>1. items' = [j \in DOMAIN items |-> GrownItems[j]]
    BY <1>1, <1>2 DEF Evicting, Core
  <2>2. InsertedBefore(items', order') = Abstract!Among(GrownOrder, DOMAIN items)
    BY <1>1, <1>2 DEF Evicting
  <2> QED BY <1>1, <2>1, <2>2, Kept
<1>10. Abstract!KeepLargest(GrownItems, GrownOrder, Grown)
  <2> SUFFICES /\ Abstract!MostRecent(DOMAIN items, Grown, GrownOrder)
               /\ Abstract!Fits(GrownItems, DOMAIN items)
               /\ \A ids \in SUBSET Grown :
                     Abstract!MostRecent(ids, Grown, GrownOrder)
                        /\ Abstract!Fits(GrownItems, ids) => ids \subseteq DOMAIN items
               /\ Abstract!Keep(GrownItems, GrownOrder, DOMAIN items)
    BY <1>7 DEF Abstract!KeepLargest
  <2> QED BY <1>7, <1>8, <1>9 DEF MayStay
<1>11. Abstract!PutAt(op.id, op.size, op.at, stamp)
  <2>1. ~ (op.size > MaxBytes)
    BY <1>2, ConstantsAssumption
  <2>2. Abstract!Live(op.at) \ {op.id} = Rest /\ Rest \cup {op.id} = Grown
    BY <1>3 DEF Rest, Grown
  <2> QED BY <1>5, <1>6, <1>10, <2>1, <2>2 DEF Abstract!PutAt
<1> QED BY <1>1, <1>2, <1>4, <1>11 DEF Abstract!SPut

(* Taking the mutex changes nothing a caller sees but the last answer.     *)
LEMMA LockIsQuiet ==
    ASSUME NEW operation, Lock(operation)
    PROVE  [Abstract!SNext]_(Abstract!tvars)
<1>1. /\ mode = "free" /\ mode' = "expire" /\ answer' = NoAnswer
      /\ before' = [items |-> items, order |-> order] /\ now' = now
  BY DEF Lock
<1>2. Visible' = Visible
  BY <1>1 DEF Visible
<1>3. UNCHANGED <<now, Visible.items, InsertedBefore(Visible.items, Visible.order)>>
  BY <1>1, <1>2
<1>4. CASE answer = NoAnswer
  BY <1>1, <1>3, <1>4 DEF Abstract!tvars
<1>5. CASE answer # NoAnswer
  BY <1>1, <1>3, <1>5 DEF Abstract!SNext, Abstract!SForget, Abstract!SNone, NoAnswer
<1> QED BY <1>4, <1>5

LEMMA StepRefines ==
    ASSUME IInv, IInv', StepInv, [Next]_vars
    PROVE  [Abstract!SNext]_(Abstract!tvars)
<1>1. ASSUME NEW id \in Ids, NEW size \in Sizes, BeginPut(id, size)
      PROVE  [Abstract!SNext]_(Abstract!tvars)
  BY <1>1, LockIsQuiet DEF BeginPut
<1>2. ASSUME NEW id \in Ids, BeginGet(id)
      PROVE  [Abstract!SNext]_(Abstract!tvars)
  BY <1>2, LockIsQuiet DEF BeginGet
<1>3. CASE BeginStats
  BY <1>3, LockIsQuiet DEF BeginStats
(* The steps inside an operation do not show. *)
<1>4. ASSUME mode # "free", mode' # "free", UNCHANGED <<now, answer, before>>
      PROVE  [Abstract!SNext]_(Abstract!tvars)
  <2>1. Visible' = Visible
    BY <1>4 DEF Visible
  <2> QED BY <1>4, <2>1 DEF Abstract!tvars
<1>5. ASSUME NEW id \in DOMAIN items, ExpireOne(id)
      PROVE  [Abstract!SNext]_(Abstract!tvars)
  BY <1>4, <1>5 DEF ExpireOne, history
<1>6. CASE Store \/ EvictOldest
  BY <1>4, <1>6 DEF Store, EvictOldest, history
<1>7. CASE FinishGet
  <2>1. op.id \in Ids
    BY <1>7 DEF FinishGet, IInv, TypeOK, Operation, NoOp
  <2> QED BY <1>7, <2>1, GetTakesEffect DEF Abstract!SNext
<1>8. CASE FinishStats
  BY <1>8, StatsTakesEffect DEF Abstract!SNext
<1>9. CASE RejectOversized \/ FinishPut
  <2>1. op.id \in Ids /\ op.size \in Sizes
    BY <1>9 DEF RejectOversized, FinishPut, IInv, TypeOK, Operation, NoOp
  <2> QED BY <1>9, <2>1, RejectionTakesEffect, PutTakesEffect DEF Abstract!SNext
<1>10. CASE Tick
  <2>1. /\ now' = now + 1 /\ UNCHANGED <<items, order, mode, answer, before>>
    BY <1>10 DEF Tick, cacheVars, history
  <2>2. Visible' = Visible
    BY <2>1 DEF Visible
  <2> QED BY <2>1, <2>2 DEF Abstract!SNext, Abstract!STick
<1>11. CASE UNCHANGED vars
  <2>1. UNCHANGED <<now, items, order, mode, answer, before>>
    BY <1>11 DEF vars, cacheVars, history
  <2>2. Visible' = Visible
    BY <2>1 DEF Visible
  <2> QED BY <2>1, <2>2 DEF Abstract!tvars
<1> QED BY <1>1, <1>2, <1>3, <1>5, <1>6, <1>7, <1>8, <1>9, <1>10, <1>11 DEF Next

LEMMA InitRefines == Init => Abstract!SInit
<1> SUFFICES ASSUME Init PROVE Abstract!SInit
  OBVIOUS
<1>1. Visible.items = << >> /\ Visible.order = << >>
  BY DEF Init, Visible
<1>2. InsertedBefore(Visible.items, Visible.order) = {}
  BY <1>1 DEF InsertedBefore
<1> QED BY <1>1, <1>2 DEF Init, Abstract!SInit, Abstract!SNone, NoAnswer

(* Cache implements TtlStore: whatever the ids, sizes and limits, and      *)
(* wherever other calls and the clock come between the iterations of its   *)
(* loops, each operation takes effect at once, and Put keeps the largest   *)
(* most recent part that fits both limits.                                 *)
THEOREM RefinementCorrect == Spec => RefinesTtlStore
<1>1. IInv /\ IInv' /\ StepInv /\ [Next]_vars => [Abstract!SNext]_(Abstract!tvars)
  BY StepRefines
<1> QED BY <1>1, StepInvCorrect, InitRefines, PTL DEF Spec, RefinesTtlStore, Abstract!SSpec
==============================================================================
