------------------------- MODULE SourceCacheProofs -------------------------
(***************************************************************************)
(* Proofs about SourceCache, for any number of collections, keys, sizes,   *)
(* limits and lifetimes, and any horizon.                                  *)
(***************************************************************************)
EXTENDS SourceCache, SequenceTheorems, Facts

(* The function that OrderOf recurses with, over a sequence s.             *)
IsFilter(f, s, keys) ==
    f = [n \in 0..Len(s) |->
            IF n = 0 THEN << >>
            ELSE IF s[n] \in keys THEN Append(f[n - 1], s[n])
            ELSE f[n - 1]]

FilterStep(s, keys, r, n) == IF s[n] \in keys THEN Append(r, s[n]) ELSE r

Once(s) == \A m, n \in DOMAIN s : s[m] = s[n] => m = n

LEMMA FilterExists ==
    ASSUME NEW s \in Seq(Keys), NEW keys
    PROVE  \E f : IsFilter(f, s, keys)
<1> DEFINE F(f, N) == f = [n \in 0..N |-> IF n = 0 THEN << >>
                                          ELSE FilterStep(s, keys, f[n - 1], n)]
           Bad == {N \in 0..Len(s) : ~ \E f : F(f, N)}
<1>1. ASSUME Bad # {} PROVE FALSE
  <2>1. Bad \in SUBSET Nat
    OBVIOUS
  <2>2. PICK N \in Bad : \A M \in Bad : N <= M
    <3> HIDE DEF Bad
    <3> QED BY <1>1, <2>1, Least
  <2>3. CASE N = 0
    <3> DEFINE f == [n \in 0..0 |-> << >>]
    <3>1. F(f, 0)
      OBVIOUS
    <3> QED BY <3>1, <2>3
  <2>4. CASE N # 0
    <3>1. N - 1 \in 0..Len(s) /\ N - 1 \notin Bad /\ N \in Nat
      <4>1. N \in Nat \ {0} /\ N - 1 \in 0..Len(s)
        BY <2>4
      <4> HIDE DEF Bad
      <4> QED BY <2>2, <4>1
    <3>2. PICK g : F(g, N - 1)
      BY <3>1
    <3> DEFINE f == [n \in 0..N |-> IF n = N THEN FilterStep(s, keys, g[N - 1], N)
                                    ELSE g[n]]
    <3>3. ASSUME NEW n \in 0..N
          PROVE  f[n] = IF n = 0 THEN << >> ELSE FilterStep(s, keys, f[n - 1], n)
      <4>1. CASE n = N
        <5>1. f[n - 1] = g[N - 1] /\ f[n] = FilterStep(s, keys, g[N - 1], N)
          BY <3>1, <4>1, <2>4
        <5> QED BY <5>1, <4>1, <2>4
      <4>2. CASE n # N
        <5>1. n \in 0..N - 1 /\ f[n] = g[n]
          BY <3>1, <4>2
        <5>2. g[n] = IF n = 0 THEN << >> ELSE FilterStep(s, keys, g[n - 1], n)
          BY <3>2, <5>1
        <5>3. CASE n = 0
          BY <5>1, <5>2, <5>3
        <5>4. CASE n # 0
          <6>1. f[n - 1] = g[n - 1]
            BY <5>1, <5>4, <3>1
          <6> QED BY <5>1, <5>2, <5>4, <6>1
        <5> QED BY <5>3, <5>4
      <4> QED BY <4>1, <4>2
    <3>4. f = [n \in 0..N |-> f[n]]
      OBVIOUS
    <3> HIDE DEF f
    <3>5. F(f, N)
      BY <3>3, <3>4
    <3> QED BY <2>2, <3>5
  <2> QED BY <2>3, <2>4
<1>2. Len(s) \in 0..Len(s)
  OBVIOUS
<1>3. PICK f : F(f, Len(s))
  BY <1>1, <1>2
<1> QED BY <1>3 DEF IsFilter, FilterStep

(* What the order keeps: the listed keys that are asked for, each once if  *)
(* the order named each once.                                              *)
LEMMA OrderOfKeeps ==
    ASSUME cacheOrder \in Seq(Keys), Once(cacheOrder), NEW keys
    PROVE  /\ OrderOf(keys) \in Seq(Keys)
           /\ ToSet(OrderOf(keys)) = ToSet(cacheOrder) \cap keys
           /\ Once(OrderOf(keys))
<1> DEFINE f == CHOOSE g : IsFilter(g, cacheOrder, keys)
           Upto(n) == {cacheOrder[m] : m \in 1..n} \cap keys
           Good(n) == /\ f[n] \in Seq(Keys)
                      /\ ToSet(f[n]) = Upto(n)
                      /\ Once(f[n])
           Bad == {n \in 0..Len(cacheOrder) : ~ Good(n)}
<1>1. IsFilter(f, cacheOrder, keys)
  BY FilterExists
<1>2. OrderOf(keys) = f[Len(cacheOrder)]
  BY Zenon DEF OrderOf, IsFilter
<1> HIDE DEF f
<1>3. ASSUME Bad # {} PROVE FALSE
  <2>1. Bad \in SUBSET Nat
    OBVIOUS
  <2>2. PICK n \in Bad : \A m \in Bad : n <= m
    <3> HIDE DEF Bad
    <3> QED BY <1>3, <2>1, Least
  <2>3. f[n] = IF n = 0 THEN << >>
               ELSE IF cacheOrder[n] \in keys THEN Append(f[n - 1], cacheOrder[n])
               ELSE f[n - 1]
    BY <1>1 DEF IsFilter
  <2>4. CASE n = 0
    <3>1. f[n] = << >> /\ Upto(n) = {}
      BY <2>3, <2>4
    <3>2. << >> \in Seq(Keys) /\ ToSet(<< >>) = {} /\ Once(<< >>)
      BY DEF ToSet, Once
    <3> HIDE DEF Upto, Bad
    <3>3. Good(n)
      BY <3>1, <3>2
    <3> QED BY <2>2, <3>3 DEF Bad
  <2>5. CASE n # 0
    <3> DEFINE r == f[n - 1]
               k == cacheOrder[n]
    <3>1. n - 1 \in 0..Len(cacheOrder) /\ n - 1 \notin Bad /\ n \in 1..Len(cacheOrder)
      <4>1. n - 1 \in 0..Len(cacheOrder) /\ n \in 1..Len(cacheOrder)
        BY <2>5
      <4> HIDE DEF Bad
      <4> QED BY <2>2, <4>1
    <3>2. r \in Seq(Keys) /\ ToSet(r) = Upto(n - 1) /\ Once(r) /\ k \in Keys
      BY <3>1
    <3>3. Upto(n) = Upto(n - 1) \cup ({k} \cap keys)
      BY <3>1
    <3>4. k \notin Upto(n - 1)
      BY <3>1 DEF Once
    <3> HIDE DEF Upto, r, k
    <3>5. CASE k \notin keys
      <4>1. f[n] = r
        BY <2>3, <2>5, <3>5 DEF r, k
      <4> QED BY <2>2, <4>1, <3>2, <3>3, <3>5
    <3>6. CASE k \in keys
      <4>1. f[n] = Append(r, k)
        BY <2>3, <2>5, <3>6 DEF r, k
      <4>2. /\ Append(r, k) \in Seq(Keys)
            /\ DOMAIN Append(r, k) = DOMAIN r \cup {Len(r) + 1}
            /\ Len(r) + 1 \notin DOMAIN r
            /\ \A m \in DOMAIN r : Append(r, k)[m] = r[m]
            /\ Append(r, k)[Len(r) + 1] = k
        <5>1. DOMAIN r = 1..Len(r) /\ Len(r) \in Nat
          BY <3>2, LenProperties
        <5> QED BY <5>1, <3>2, AppendProperties
      <4>3. ToSet(Append(r, k)) = ToSet(r) \cup {k}
        BY <4>2 DEF ToSet
      <4>4. Once(Append(r, k))
        BY <3>2, <3>4, <4>2 DEF Once, ToSet
      <4> QED BY <2>2, <4>1, <4>2, <4>3, <4>4, <3>2, <3>3, <3>6
    <3> QED BY <3>5, <3>6
  <2> QED BY <2>4, <2>5
<1>4. Good(Len(cacheOrder))
  BY <1>3
<1>5. Upto(Len(cacheOrder)) = ToSet(cacheOrder) \cap keys
  BY DEF ToSet
<1> QED BY <1>2, <1>4, <1>5

----------------------------------------------------------------------------
(* The cache between two critical sections: its order names every entry    *)
(* once, the byte counter is the sum of the entries, both limits hold.     *)
CacheInv ==
    /\ cacheOrder \in Seq(Keys) /\ Once(cacheOrder)
    /\ ToSet(cacheOrder) = DOMAIN cache
    /\ cache \in [DOMAIN cache -> Snapshot]
    /\ cacheBytes \in Nat /\ cacheBytes = BytesOf(DOMAIN cache)
    /\ Cardinality(DOMAIN cache) <= MaxEntries
    /\ cacheBytes <= MaxCacheBytes

SizeOf(c) == [k \in DOMAIN c |-> c[k].size]

SumOfSizes(c, keys) == SumFunctionOnSet(SizeOf(c), keys)

LEMMA SizesAreNat ==
    ASSUME SourceCacheAssumption, NEW c, c \in [DOMAIN c -> Snapshot]
    PROVE  \A k \in DOMAIN c : SizeOf(c)[k] \in Nat /\ SizeOf(c)[k] = c[k].size
<1> SUFFICES ASSUME NEW k \in DOMAIN c
             PROVE  SizeOf(c)[k] \in Nat /\ SizeOf(c)[k] = c[k].size
  OBVIOUS
<1>1. c[k] \in Snapshot
  OBVIOUS
<1>2. c[k].size \in BodySizes
  BY <1>1 DEF Snapshot
<1> QED BY <1>2 DEF SizeOf, SourceCacheAssumption

LEMMA BytesOfIs == BytesOf(DOMAIN cache) = SumOfSizes(cache, DOMAIN cache)
BY Zenon DEF BytesOf, SumOfSizes, SizeOf

(* The entries are finitely many, as many as the order names.              *)
LEMMA CacheFinite ==
    ASSUME cacheOrder \in Seq(Keys), Once(cacheOrder),
           ToSet(cacheOrder) = DOMAIN cache
    PROVE  /\ IsFiniteSet(DOMAIN cache)
           /\ Cardinality(DOMAIN cache) = Len(cacheOrder)
           /\ DOMAIN cache \subseteq Keys
<1> DEFINE n == Len(cacheOrder)
<1>1. n \in Nat /\ DOMAIN cacheOrder = 1..n /\ cacheOrder \in [1..n -> Keys]
  BY LenProperties
<1> HIDE DEF n
<1>2. cacheOrder \in Bijection(1..n, DOMAIN cache)
  <2>1. \A m \in 1..n : cacheOrder[m] \in DOMAIN cache
    BY <1>1 DEF ToSet
  <2>2. cacheOrder \in [1..n -> DOMAIN cache]
    BY <1>1, <2>1
  <2>3. \A k \in DOMAIN cache : \E m \in 1..n : cacheOrder[m] = k
    BY <1>1 DEF ToSet
  <2>4. \A a, b \in 1..n : cacheOrder[a] = cacheOrder[b] => a = b
    BY <1>1 DEF Once
  <2> QED BY <1>1, <2>2, <2>3, <2>4
          DEF Bijection, Injection, Surjection, IsInjective
<1>3. IsFiniteSet(1..n) /\ Cardinality(1..n) = n
  BY <1>1, FS_Interval
<1>4. /\ IsFiniteSet(DOMAIN cache)
      /\ Cardinality(DOMAIN cache) = Cardinality(1..n)
  BY <1>2, <1>3, FS_Bijection DEF ExistsBijection
<1>5. DOMAIN cache \subseteq Keys
  BY <1>1 DEF ToSet
<1> QED BY <1>3, <1>4, <1>5 DEF n

(* What stays counted after all entries but those of keys are removed is   *)
(* the sum of what stays.                                                  *)
LEMMA BytesLeftIs ==
    ASSUME SourceCacheAssumption, CacheInv,
           NEW keys, keys \subseteq DOMAIN cache
    PROVE  /\ IsFiniteSet(keys) /\ Cardinality(keys) <= Cardinality(DOMAIN cache)
           /\ BytesLeft(keys) = SumOfSizes(cache, keys)
           /\ BytesLeft(keys) \in Nat
           /\ BytesLeft(keys) <= cacheBytes
<1> DEFINE all == DOMAIN cache
           f == SizeOf(cache)
<1>1. IsFiniteSet(all)
  BY CacheFinite DEF CacheInv
<1>2. \A k \in all : f[k] \in Nat
  BY SizesAreNat DEF CacheInv
<1>3. /\ IsFiniteSet(keys) /\ Cardinality(keys) <= Cardinality(all)
      /\ IsFiniteSet(all \ keys)
  BY <1>1, FS_Subset
<1> HIDE DEF f
<1>4. SumFunctionOnSet(f, all) = SumFunctionOnSet(f, keys) + SumFunctionOnSet(f, all \ keys)
  BY <1>1, <1>2, SumSplit
<1>5. SumFunctionOnSet(f, keys) \in Nat /\ SumFunctionOnSet(f, all \ keys) \in Nat
  BY <1>2, <1>3, SumNat
<1>6. BytesOf(all \ keys) = SumFunctionOnSet(f, all \ keys)
      /\ BytesOf(all) = SumFunctionOnSet(f, all)
      /\ SumOfSizes(cache, keys) = SumFunctionOnSet(f, keys)
  BY Zenon DEF BytesOf, SumOfSizes, SizeOf, f
<1>7. cacheBytes = SumFunctionOnSet(f, all)
  BY <1>6 DEF CacheInv
<1> QED BY <1>3, <1>4, <1>5, <1>6, <1>7 DEF BytesLeft

(* What cachePut keeps beside a new entry has room for it, whatever had to *)
(* go: in the end an empty cache has room for a body that is not refused.  *)
LEMMA KeptBesideHasRoom ==
    ASSUME SourceCacheAssumption, CacheInv, NEW k,
           NEW size \in Nat, size <= MaxCacheBytes
    PROVE  /\ KeptBeside(k, size) \subseteq Unexpired \ {k}
           /\ KeptBeside(k, size) \subseteq DOMAIN cache
           /\ HasRoom(KeptBeside(k, size), size)
<1> DEFINE live == OrderOf(Unexpired \ {k})
           After(n) == ToSet(SubSeq(live, n + 1, Len(live)))
           P(n) == HasRoom(After(n), size) \/ n = Len(live)
           First == CHOOSE n \in 0..Len(live) : P(n) /\ \A m \in 0..n - 1 : ~ HasRoom(After(m), size)
<1>1. /\ live \in Seq(Keys) /\ Len(live) \in Nat
      /\ ToSet(live) \subseteq Unexpired \ {k}
  <2>1. live \in Seq(Keys) /\ ToSet(live) = ToSet(cacheOrder) \cap (Unexpired \ {k})
    BY OrderOfKeeps DEF CacheInv
  <2> QED BY <2>1, LenProperties
<1> HIDE DEF live
<1>2. \A n \in 0..Len(live) : After(n) \subseteq ToSet(live)
  <2> SUFFICES ASSUME NEW n \in 0..Len(live), NEW j \in After(n)
               PROVE  j \in ToSet(live)
    OBVIOUS
  <2> DEFINE q == SubSeq(live, n + 1, Len(live))
  <2>1. /\ Len(q) = Len(live) - n /\ q \in Seq(Keys)
        /\ \A m \in 1..Len(live) - n : q[m] = live[n + m]
    BY <1>1
  <2>2. DOMAIN q = 1..Len(live) - n
    BY <1>1, <2>1
  <2>3. PICK m \in DOMAIN q : j = q[m]
    BY DEF ToSet
  <2> HIDE DEF q
  <2>4. n + m \in 1..Len(live) /\ j = live[n + m]
    BY <1>1, <2>1, <2>2, <2>3
  <2>5. DOMAIN live = 1..Len(live)
    BY <1>1, LenProperties
  <2> QED BY <2>4, <2>5 DEF ToSet
<1>3. After(Len(live)) = {}
  <2>1. SubSeq(live, Len(live) + 1, Len(live)) = << >>
    BY <1>1
  <2> QED BY <2>1 DEF ToSet
<1> HIDE DEF After
<1>4. \E n \in 0..Len(live) : P(n) /\ \A m \in 0..n - 1 : ~ HasRoom(After(m), size)
  <2> DEFINE S == {n \in 0..Len(live) : P(n)}
  <2>1. S \in SUBSET Nat /\ Len(live) \in S
    BY <1>1
  <2>2. PICK n \in S : \A m \in S : n <= m
    <3> HIDE DEF S
    <3> QED BY <2>1, Least
  <2>3. ASSUME NEW m \in 0..n - 1 PROVE ~ HasRoom(After(m), size)
    <3>1. m \in 0..Len(live) /\ ~ (n <= m)
      BY <1>1, <2>2
    <3> QED BY <2>2, <3>1
  <2> QED BY <2>2, <2>3
<1>5. First \in 0..Len(live) /\ P(First)
  BY <1>4
<1>6. KeptBeside(k, size) = After(First)
  BY Zenon DEF KeptBeside, After, live
<1> HIDE DEF First, P
<1>7. HasRoom({}, size)
  <2>1. BytesLeft({}) = 0
    <3>1. BytesLeft({}) = SumOfSizes(cache, {})
      BY BytesLeftIs
    <3> QED BY <3>1, SumEmpty DEF SumOfSizes
  <2>2. Cardinality({}) = 0
    BY FS_EmptySet
  <2> QED BY <2>1, <2>2 DEF HasRoom, SourceCacheAssumption
<1>8. HasRoom(After(First), size)
  BY <1>3, <1>5, <1>7 DEF P
<1>9. Unexpired \subseteq DOMAIN cache
  BY DEF Unexpired
<1> QED BY <1>1, <1>2, <1>5, <1>6, <1>8, <1>9

----------------------------------------------------------------------------
(* Removing entries keeps the cache in order.                              *)
LEMMA RemoveKeeps ==
    ASSUME SourceCacheAssumption, CacheInv,
           NEW keys, keys \subseteq DOMAIN cache,
           cache' = Restrict(cache, keys),
           cacheOrder' = OrderOf(keys),
           cacheBytes' = BytesLeft(keys)
    PROVE  CacheInv'
<1>1. /\ cacheOrder' \in Seq(Keys) /\ Once(cacheOrder')
      /\ ToSet(cacheOrder') = keys
  <2>1. ToSet(cacheOrder) \cap keys = keys
    BY DEF CacheInv
  <2> QED BY <2>1, OrderOfKeeps DEF CacheInv
<1>2. DOMAIN cache' = keys /\ \A k \in keys : cache'[k] = cache[k]
  BY DEF Restrict
<1>3. cache' \in [keys -> Snapshot]
  <2>1. \A k \in keys : cache[k] \in Snapshot
    BY DEF CacheInv
  <2>2. cache' = [k \in keys |-> cache[k]]
    BY DEF Restrict
  <2> QED BY <2>1, <2>2
<1>4. /\ IsFiniteSet(keys) /\ Cardinality(keys) <= Cardinality(DOMAIN cache)
      /\ cacheBytes' = SumOfSizes(cache, keys) /\ cacheBytes' <= cacheBytes
      /\ cacheBytes' \in Nat
  BY BytesLeftIs
<1>5. SumOfSizes(cache', keys) = SumOfSizes(cache, keys)
  <2>1. \A k \in keys : SizeOf(cache')[k] = SizeOf(cache)[k]
    BY <1>2 DEF SizeOf
  <2> QED BY <2>1, <1>4, SumSame DEF SumOfSizes
<1>6. BytesOf(DOMAIN cache)' = SumOfSizes(cache', keys)
  BY <1>2, Zenon DEF BytesOf, SumOfSizes, SizeOf
<1>7. /\ Cardinality(DOMAIN cache) \in Nat /\ Cardinality(keys) \in Nat
      /\ MaxEntries \in Nat /\ MaxCacheBytes \in Nat /\ cacheBytes \in Nat
  <2>1. IsFiniteSet(DOMAIN cache)
    BY CacheFinite DEF CacheInv
  <2>2. Cardinality(DOMAIN cache) \in Nat /\ Cardinality(keys) \in Nat
    BY <1>4, <2>1, FS_CardinalityType
  <2> QED BY <2>2 DEF SourceCacheAssumption, CacheInv
<1>8. Cardinality(DOMAIN cache') <= MaxEntries
  <2>1. Cardinality(keys) <= MaxEntries
    BY <1>4, <1>7 DEF CacheInv
  <2> QED BY <1>2, <2>1
<1>9. cacheBytes' <= MaxCacheBytes
  BY <1>4, <1>7 DEF CacheInv
<1>10. cache' \in [DOMAIN cache' -> Snapshot] /\ ToSet(cacheOrder') = DOMAIN cache'
  BY <1>1, <1>2, <1>3
<1> QED BY <1>1, <1>4, <1>5, <1>6, <1>8, <1>9, <1>10 DEF CacheInv

(* Storing a body does too.                                                *)
LEMMA InsertKeeps ==
    ASSUME SourceCacheAssumption, CacheInv, NEW k \in Keys, NEW r \in Response,
           r.size \in BodySizes, now \in Nat, cacheTTL \in Nat, Insert(k, r)
    PROVE  CacheInv'
<1> DEFINE kept == KeptBeside(k, r.size)
<1>1. CASE r.size > MaxCacheBytes
  <2>1. cacheVars' = cacheVars
    BY <1>1 DEF Insert
  <2> QED BY <2>1 DEF CacheInv, cacheVars, BytesOf
<1>2. CASE ~ (r.size > MaxCacheBytes)
  <2>1. r.size \in Nat /\ r.size <= MaxCacheBytes
    <3>1. BodySizes \subseteq Nat /\ MaxCacheBytes \in Nat
      BY DEF SourceCacheAssumption
    <3>2. r.size \in Nat
      BY <3>1
    <3> HIDE DEF kept
    <3> QED BY <1>2, <3>1, <3>2
  <2>2. /\ k \notin kept /\ kept \subseteq DOMAIN cache
        /\ HasRoom(kept, r.size)
    BY <2>1, KeptBesideHasRoom
  <2>3. /\ cache' = [j \in kept \cup {k} |->
                        IF j = k THEN EntryOf(k, r) ELSE cache[j]]
        /\ cacheOrder' = Append(OrderOf(kept), k)
        /\ cacheBytes' = BytesLeft(kept) + r.size
    BY <1>2 DEF Insert
  <2> HIDE DEF kept
  <2>4. /\ OrderOf(kept) \in Seq(Keys) /\ Once(OrderOf(kept))
        /\ ToSet(OrderOf(kept)) = kept
    <3>1. ToSet(cacheOrder) \cap kept = kept
      BY <2>2 DEF CacheInv
    <3> QED BY <3>1, OrderOfKeeps DEF CacheInv
  <2>5. /\ cacheOrder' \in Seq(Keys) /\ Once(cacheOrder')
        /\ ToSet(cacheOrder') = kept \cup {k}
    <3> DEFINE q == OrderOf(kept)
    <3>1. q \in Seq(Keys) /\ ToSet(q) = kept /\ Once(q)
      BY <2>4
    <3> HIDE DEF q
    <3>2. /\ Append(q, k) \in Seq(Keys)
          /\ DOMAIN Append(q, k) = DOMAIN q \cup {Len(q) + 1}
          /\ Len(q) + 1 \notin DOMAIN q
          /\ \A m \in DOMAIN q : Append(q, k)[m] = q[m]
          /\ Append(q, k)[Len(q) + 1] = k
      <4>1. DOMAIN q = 1..Len(q) /\ Len(q) \in Nat
        BY <3>1, LenProperties
      <4> QED BY <4>1, <3>1, AppendProperties
    <3>3. ToSet(Append(q, k)) = ToSet(q) \cup {k}
      BY <3>2 DEF ToSet
    <3>4. Once(Append(q, k))
      BY <2>2, <3>1, <3>2 DEF Once, ToSet
    <3>5. cacheOrder' = Append(q, k)
      BY <2>3 DEF q
    <3> QED BY <3>1, <3>2, <3>3, <3>4, <3>5
  <2>6. /\ DOMAIN cache' = kept \cup {k}
        /\ \A j \in kept : cache'[j] = cache[j]
        /\ cache'[k] = EntryOf(k, r)
    BY <2>2, <2>3
  <2>7. EntryOf(k, r) \in Snapshot
    BY DEF EntryOf, Snapshot, Response
  <2>8. cache' \in [DOMAIN cache' -> Snapshot]
    <3>1. \A j \in kept \cup {k} : cache'[j] \in Snapshot
      BY <2>2, <2>6, <2>7 DEF CacheInv
    <3> QED BY <2>3, <3>1
  <2>9. IsFiniteSet(kept) /\ BytesLeft(kept) = SumOfSizes(cache, kept)
        /\ BytesLeft(kept) \in Nat
    BY <2>2, BytesLeftIs
  <2>10. BytesOf(DOMAIN cache)' = SumOfSizes(cache', kept \cup {k})
    BY <2>6, Zenon DEF BytesOf, SumOfSizes, SizeOf
  <2>11. SumOfSizes(cache', kept \cup {k}) = SumOfSizes(cache, kept) + r.size
    <3>1. \A j \in kept : SizeOf(cache')[j] = SizeOf(cache)[j]
      BY <2>2, <2>6 DEF SizeOf
    <3>2. SumFunctionOnSet(SizeOf(cache'), kept) = SumFunctionOnSet(SizeOf(cache), kept)
      BY <2>9, <3>1, SumSame
    <3>3. SizeOf(cache')[k] = r.size
      BY <2>6 DEF SizeOf, EntryOf
    <3>4. \A j \in kept : SizeOf(cache)[j] \in Nat
      BY <2>2, SizesAreNat DEF CacheInv
    <3>5. \A j \in kept : SizeOf(cache')[j] \in Nat
      BY <3>1, <3>4
    <3> DEFINE g == SizeOf(cache')
    <3>6. g[k] \in Nat /\ (\A j \in kept : g[j] \in Nat) /\ k \notin kept
      BY <2>1, <2>2, <3>3, <3>5
    <3> HIDE DEF g
    <3>7. SumFunctionOnSet(g, kept \cup {k}) = SumFunctionOnSet(g, kept) + g[k]
      BY <2>9, <3>6, SumAdd
    <3> QED BY <3>2, <3>3, <3>7 DEF SumOfSizes, g
  <2>12. cacheBytes' \in Nat /\ cacheBytes' = BytesOf(DOMAIN cache)'
    BY <2>1, <2>3, <2>9, <2>10, <2>11
  <2>13. Cardinality(DOMAIN cache') <= MaxEntries
    <3>1. Cardinality(kept \cup {k}) = Cardinality(kept) + 1
      BY <2>2, <2>9, FS_AddElement
    <3>2. Cardinality(kept) \in Nat
      BY <2>9, FS_CardinalityType
    <3> QED BY <2>2, <2>6, <3>1, <3>2 DEF HasRoom, SourceCacheAssumption
  <2>14. cacheBytes' <= MaxCacheBytes
    BY <2>2, <2>3 DEF HasRoom
  <2> QED BY <2>5, <2>6, <2>8, <2>12, <2>13, <2>14 DEF CacheInv
<1> QED BY <1>1, <1>2

----------------------------------------------------------------------------
(* Types.  That a body in flight has one of the sizes a source sends is    *)
(* what an entry made of it needs.                                         *)
TypeInv == TypeOK /\ CacheInv

LEMMA TypeInit == SourceCacheAssumption /\ Init => TypeInv
<1> SUFFICES ASSUME SourceCacheAssumption, Init PROVE TypeInv
  OBVIOUS
<1>1. cache = << >> /\ cacheOrder = << >> /\ cacheBytes = 0
  BY DEF Init
<1>2. /\ cacheOrder \in Seq(Keys) /\ Once(cacheOrder) /\ ToSet(cacheOrder) = {}
      /\ DOMAIN cache = {} /\ cache \in [DOMAIN cache -> Snapshot]
  <2>1. DOMAIN cache = {} /\ cache = [x \in {} |-> << >>]
    BY <1>1
  <2> QED BY <1>1, <2>1 DEF Once, ToSet
<1>3. BytesOf(DOMAIN cache) = 0 /\ Cardinality(DOMAIN cache) = 0
  <2>1. BytesOf({}) = 0
    BY SumEmpty DEF BytesOf
  <2>2. DOMAIN cache = {}
    BY <1>2
  <2> QED BY <2>1, <2>2, FS_EmptySet, Zenon
<1>4. CacheInv
  BY <1>1, <1>2, <1>3 DEF CacheInv, SourceCacheAssumption
<1>5. TypeOK
  BY <1>1, <1>2 DEF Init, TypeOK, SourceCacheAssumption, Phases, NoResponse,
                    NoRequests, Response, Info, Use
<1> QED BY <1>4, <1>5 DEF TypeInv

LEMMA CacheUnchanged == CacheInv /\ UNCHANGED cacheVars => CacheInv'
BY DEF CacheInv, cacheVars, BytesOf

(* What is left of the types when the cache is in order.                   *)
RestOK ==
    /\ now \in 0..Horizon /\ cacheTTL \in TTLs
    /\ pc \in [Collections -> Phases]
    /\ key \in [Collections -> Keys]
    /\ canceled \in [Collections -> BOOLEAN]
    /\ started \in [Collections -> Nat]
    /\ resp \in [Collections -> Response]
    /\ info \in [Collections -> Info]
    /\ uses \in [Collections -> SUBSET Use]
    /\ \A c \in Collections : pc[c] \in {"body", "put"} => resp[c].size \in BodySizes
    /\ \A c \in Collections : info[c].hits <= info[c].requests

LEMMA TypeParts ==
    SourceCacheAssumption => (TypeInv <=> RestOK /\ CacheInv)
BY DEF TypeInv, TypeOK, RestOK, CacheInv, ToSet

(* recordHit on one recorder.                                              *)
LEMMA RecordHitIs ==
    ASSUME NEW i \in Info, NEW t \in Nat
    PROVE  /\ RecordHit(i, t) \in Info
           /\ RecordHit(i, t).requests = i.requests + 1
           /\ RecordHit(i, t).hits = i.hits + 1
           /\ RecordHit(i, t).disabled = i.disabled
           /\ RecordHit(i, t).oldest =
                 IF i.hits = 0 \/ t < i.oldest THEN t ELSE i.oldest
<1> DEFINE o == IF i.hits = 0 \/ t < i.oldest THEN t ELSE i.oldest
<1>1. o \in Nat /\ i.requests + 1 \in Nat /\ i.hits + 1 \in Nat
      /\ i.disabled \in BOOLEAN
  BY DEF Info
<1>2. RecordHit(i, t) = [i EXCEPT !.requests = i.requests + 1, !.hits = i.hits + 1,
                                  !.oldest = o]
  BY DEF RecordHit
<1>3. i = [requests |-> i.requests, hits |-> i.hits, disabled |-> i.disabled,
           oldest |-> i.oldest]
  BY DEF Info
<1> HIDE DEF o
<1>4. RecordHit(i, t) = [requests |-> i.requests + 1, hits |-> i.hits + 1,
                         disabled |-> i.disabled, oldest |-> o]
  BY <1>2, <1>3
<1>5. RecordHit(i, t) \in Info
  BY <1>1, <1>4 DEF Info
<1>6. /\ RecordHit(i, t).requests = i.requests + 1
      /\ RecordHit(i, t).hits = i.hits + 1
      /\ RecordHit(i, t).disabled = i.disabled
      /\ RecordHit(i, t).oldest = o
  BY <1>4
<1> QED BY <1>5, <1>6 DEF o

LEMMA AddUse ==
    ASSUME uses \in [Collections -> SUBSET Use], NEW c \in Collections, NEW u \in Use,
           uses' = [uses EXCEPT ![c] = @ \cup {u}]
    PROVE  uses' \in [Collections -> SUBSET Use]
OBVIOUS

LEMMA TypeNext == SourceCacheAssumption /\ TypeInv /\ [Next]_vars => TypeInv'
<1> SUFFICES ASSUME SourceCacheAssumption, TypeInv, [Next]_vars PROVE RestOK' /\ CacheInv'
  <2>1. RestOK' /\ CacheInv' => TypeInv'
    BY DEF TypeInv, TypeOK, RestOK, CacheInv, ToSet
  <2> QED BY <2>1
<1>0. RestOK /\ CacheInv
  BY TypeParts
<1>a. now \in Nat /\ cacheTTL \in Nat /\ TTLs \subseteq Nat /\ BodySizes \subseteq Nat
  BY <1>0 DEF RestOK, SourceCacheAssumption
<1> USE <1>0 DEF RestOK
<1>1. ASSUME NEW c \in Collections, Begin(c) PROVE RestOK' /\ CacheInv'
  <2>1. CacheInv'
    BY <1>1, CacheUnchanged DEF Begin
  <2> QED BY <1>1, <1>a, <2>1 DEF Begin, Goto, Phases
<1>2. ASSUME NEW c \in Collections, Cancel(c) PROVE RestOK' /\ CacheInv'
  <2>1. CacheInv'
    BY <1>2, CacheUnchanged DEF Cancel
  <2> QED BY <1>2, <2>1 DEF Cancel
<1>3. ASSUME NEW c \in Collections, NEW k \in Keys, Call(c, k) PROVE RestOK' /\ CacheInv'
  <2>1. CacheInv'
    BY <1>3, CacheUnchanged DEF Call
  <2> QED BY <1>3, <2>1 DEF Call, Goto, Phases
<1>4. ASSUME NEW c \in Collections, LookupHit(c) PROVE RestOK' /\ CacheInv'
  <2>1. CacheInv'
    BY <1>4, CacheUnchanged DEF LookupHit
  <2>2. cache[key[c]].collectedAt \in Nat
    <3>1. key[c] \in DOMAIN cache
      BY <1>4 DEF LookupHit, Servable
    <3>2. cache[key[c]] \in Snapshot
      BY <3>1 DEF CacheInv
    <3> QED BY <3>2 DEF Snapshot
  <2> DEFINE t == cache[key[c]].collectedAt
  <2> HIDE DEF t
  <2>3. RecordHit(info[c], t) \in Info
        /\ RecordHit(info[c], t).hits <= RecordHit(info[c], t).requests
    <3>1. info[c] \in Info /\ t \in Nat /\ info[c].hits <= info[c].requests
      BY <2>2 DEF t
    <3>2. info[c].hits \in Nat /\ info[c].requests \in Nat
      BY <3>1 DEF Info
    <3>3. /\ RecordHit(info[c], t) \in Info
          /\ RecordHit(info[c], t).requests = info[c].requests + 1
          /\ RecordHit(info[c], t).hits = info[c].hits + 1
      BY <3>1, RecordHitIs
    <3> QED BY <3>1, <3>2, <3>3
  <2>5. info' \in [Collections -> Info] /\ \A d \in Collections : info'[d].hits <= info'[d].requests
    BY <1>4, <2>3 DEF LookupHit, t
  <2>6. uses' \in [Collections -> SUBSET Use]
    <3>1. [cached |-> TRUE, collectedAt |-> t] \in Use
      BY <2>2 DEF Use, t
    <3> QED BY <1>4, <3>1, AddUse DEF LookupHit, t
  <2> QED BY <1>4, <2>1, <2>5, <2>6 DEF LookupHit, Goto, Phases
<1>5. ASSUME NEW c \in Collections, LookupMiss(c) PROVE RestOK' /\ CacheInv'
  <2>1. CacheInv'
    BY <1>5, RemoveKeeps DEF LookupMiss
  <2>2. RecordMiss(info[c]) \in Info /\ RecordMiss(info[c]).hits <= RecordMiss(info[c]).requests
    BY DEF RecordMiss, Info
  <2>3. info' \in [Collections -> Info] /\ \A d \in Collections : info'[d].hits <= info'[d].requests
    BY <1>5, <2>2 DEF LookupMiss
  <2> QED BY <1>5, <2>1, <2>3 DEF LookupMiss, Goto, Phases
<1>6. ASSUME NEW c \in Collections, LookupDisabled(c) PROVE RestOK' /\ CacheInv'
  <2>1. CacheInv'
    BY <1>6, CacheUnchanged DEF LookupDisabled
  <2>2. info' \in [Collections -> Info] /\ \A d \in Collections : info'[d].hits <= info'[d].requests
    BY <1>6 DEF LookupDisabled, Info
  <2> QED BY <1>6, <2>1, <2>2 DEF LookupDisabled, Goto, Phases
<1>7. ASSUME NEW c \in Collections, Respond(c) PROVE RestOK' /\ CacheInv'
  <2>1. CacheInv'
    BY <1>7, CacheUnchanged DEF Respond
  <2>2. resp' \in [Collections -> Response]
        /\ \A d \in Collections : d # c => resp'[d] = resp[d]
        /\ resp'[c].size \in BodySizes
    BY <1>7, <1>a DEF Respond, Response
  <2> QED BY <1>7, <2>1, <2>2 DEF Respond, Goto, Phases
<1>8. ASSUME NEW c \in Collections, FailRequest(c) PROVE RestOK' /\ CacheInv'
  <2>1. CacheInv'
    BY <1>8, CacheUnchanged DEF FailRequest
  <2> QED BY <1>8, <2>1 DEF FailRequest, Goto, Phases, NoResponse, Response
<1>9. ASSUME NEW c \in Collections, ReadBody(c) PROVE RestOK' /\ CacheInv'
  <2>1. CacheInv'
    BY <1>9, CacheUnchanged DEF ReadBody
  <2>2. resp' \in [Collections -> Response]
        /\ \A d \in Collections : resp'[d].size = resp[d].size
    BY <1>9, <1>a DEF ReadBody, Response
  <2>3. uses' \in [Collections -> SUBSET Use]
    <3>1. [cached |-> FALSE, collectedAt |-> now] \in Use
      BY <1>a DEF Use
    <3> QED BY <1>9, <3>1, AddUse DEF ReadBody
  <2>4. pc' \in [Collections -> Phases]
        /\ \A d \in Collections : pc'[d] \in {"body", "put"} => pc[d] \in {"body", "put"}
    BY <1>9 DEF ReadBody, Goto, Phases
  <2> QED BY <1>9, <2>1, <2>2, <2>3, <2>4 DEF ReadBody
<1>10. ASSUME NEW c \in Collections, Put(c) PROVE RestOK' /\ CacheInv'
  <2>1. CacheInv'
    BY <1>10, <1>a, InsertKeeps DEF Put
  <2> QED BY <1>10, <2>1 DEF Put, Goto, Phases, NoResponse, Response
<1>11. ASSUME NEW c \in Collections, Finish(c) PROVE RestOK' /\ CacheInv'
  <2>1. CacheInv'
    BY <1>11, CacheUnchanged DEF Finish
  <2>2. info' \in [Collections -> Info] /\ \A d \in Collections : info'[d].hits <= info'[d].requests
    BY <1>11 DEF Finish, Info, NoRequests
  <2> QED BY <1>11, <2>1, <2>2 DEF Finish, Goto, Phases
<1>12. CASE Tick
  <2>1. CacheInv'
    BY <1>12, CacheUnchanged DEF Tick
  <2>2. now' \in 0..Horizon
    BY <1>12, <1>a DEF Tick, SourceCacheAssumption
  <2> QED BY <1>12, <2>1, <2>2 DEF Tick
<1>13. CASE UNCHANGED vars
  <2>1. CacheInv'
    BY <1>13, CacheUnchanged DEF vars
  <2> QED BY <1>13, <2>1 DEF vars
<1> QED BY <1>1, <1>2, <1>3, <1>4, <1>5, <1>6, <1>7, <1>8, <1>9, <1>10, <1>11,
           <1>12, <1>13 DEF Next

(* Every variable keeps its type, whichever way requests interleave, the   *)
(* byte counter being a natural number included: no removal takes more     *)
(* bytes from it than were added.                                          *)
THEOREM TypeCorrect == ASSUME SourceCacheAssumption PROVE Spec => []TypeOK
<1>1. Init => TypeInv
  BY TypeInit
<1>2. TypeInv /\ [Next]_vars => TypeInv'
  BY TypeNext
<1>3. TypeInv => TypeOK
  BY DEF TypeInv
<1> QED BY <1>1, <1>2, <1>3, PTL DEF Spec

LEMMA TypeAlways == ASSUME SourceCacheAssumption PROVE Spec => []TypeInv
<1>1. Init => TypeInv
  BY TypeInit
<1>2. TypeInv /\ [Next]_vars => TypeInv'
  BY TypeNext
<1> QED BY <1>1, <1>2, PTL DEF Spec

(* The cache stays in order and within its limits: the loops of cachePut   *)
(* always make room for the entry it then adds.                            *)
THEOREM AccountingHolds ==
    ASSUME SourceCacheAssumption PROVE Spec => []CacheAccounting
<1>1. TypeInv => CacheAccounting
  <2> SUFFICES ASSUME TypeInv PROVE CacheAccounting
    OBVIOUS
  <2>1. CacheInv
    BY DEF TypeInv
  <2>2. Cardinality(DOMAIN cache) = Len(cacheOrder)
    BY <2>1, CacheFinite DEF CacheInv
  <2> QED BY <2>1, <2>2 DEF CacheAccounting, CacheInv
<1> QED BY <1>1, TypeAlways, PTL

----------------------------------------------------------------------------
(* Where the content and the time of an entry come from.                   *)
SnapshotInv ==
    /\ \A c \in Collections :
          /\ pc[c] = "body" => started[c] <= resp[c].served
          /\ pc[c] = "put" =>
                /\ now - resp[c].served <= Deadline
                /\ [key |-> key[c], served |-> resp[c].served,
                    collectedAt |-> resp[c].collectedAt] \in snapshots
          /\ started[c] <= now
    /\ \A k \in DOMAIN cache :
          /\ cache[k].expiresAt - cache[k].served <= cacheTTL + Deadline
          /\ [key |-> k, served |-> cache[k].served,
              collectedAt |-> cache[k].collectedAt] \in snapshots

(* A part of the cache keeps what is said of every entry.                  *)
LEMMA EntriesStay ==
    ASSUME SourceCacheAssumption, TypeInv, [Next]_vars, NEW k \in DOMAIN cache',
           \A c \in Collections : ~ Put(c)
    PROVE  /\ k \in DOMAIN cache /\ cache'[k] = cache[k]
           /\ snapshots \subseteq snapshots' /\ cacheTTL' = cacheTTL
<1>1. CASE UNCHANGED cache
  BY <1>1 DEF Next, vars, cacheVars, Begin, Cancel, Call, LookupHit, LookupMiss,
              LookupDisabled, Respond, FailRequest, ReadBody, Finish, Tick
<1>2. ASSUME NEW c \in Collections, LookupMiss(c)
      PROVE  /\ k \in DOMAIN cache /\ cache'[k] = cache[k]
             /\ snapshots \subseteq snapshots' /\ cacheTTL' = cacheTTL
  BY <1>2 DEF LookupMiss, Restrict
<1>3. \/ UNCHANGED cache
      \/ \E c \in Collections : LookupMiss(c)
  BY DEF Next, vars, cacheVars, Begin, Cancel, Call, LookupHit,
         LookupDisabled, Respond, FailRequest, ReadBody, Finish, Tick
<1> QED BY <1>1, <1>2, <1>3

LEMMA SnapshotNext ==
    ASSUME SourceCacheAssumption, TypeInv, SnapshotInv, [Next]_vars
    PROVE  SnapshotInv'
<1>a. /\ now \in Nat /\ cacheTTL \in Nat /\ Deadline \in Nat
      /\ pc \in [Collections -> Phases] /\ key \in [Collections -> Keys]
      /\ resp \in [Collections -> Response] /\ started \in [Collections -> Nat]
      /\ cache \in [DOMAIN cache -> Snapshot]
  BY DEF TypeInv, TypeOK, SourceCacheAssumption
<1>b. \A c \in Collections : resp[c].served \in Nat /\ resp[c].collectedAt \in Nat
  BY <1>a DEF Response
<1> DEFINE Entries == \A k \in DOMAIN cache :
                         /\ cache[k].expiresAt - cache[k].served <= cacheTTL + Deadline
                         /\ [key |-> k, served |-> cache[k].served,
                             collectedAt |-> cache[k].collectedAt] \in snapshots
           Of(c) == /\ pc[c] = "body" => started[c] <= resp[c].served
                    /\ pc[c] = "put" =>
                          /\ now - resp[c].served <= Deadline
                          /\ [key |-> key[c], served |-> resp[c].served,
                              collectedAt |-> resp[c].collectedAt] \in snapshots
                    /\ started[c] <= now
<1>c. (\A c \in Collections : Of(c)) /\ Entries
  BY DEF SnapshotInv
<1> SUFFICES (\A c \in Collections : Of(c)') /\ Entries'
  BY DEF SnapshotInv
<1>1. ASSUME \A c \in Collections : ~ Put(c) PROVE Entries'
  BY <1>1, <1>c, EntriesStay
<1>2. ASSUME NEW c \in Collections, Put(c) PROVE Entries'
  <2>1. snapshots' = snapshots /\ cacheTTL' = cacheTTL /\ Insert(key[c], resp[c])
    BY <1>2 DEF Put
  <2> DEFINE kept == KeptBeside(key[c], resp[c].size)
  <2>2. CASE cache' = cache
    BY <2>1, <2>2, <1>c
  <2>3. CASE cache' # cache
    <3>1. /\ cache' = [j \in kept \cup {key[c]} |->
                         IF j = key[c] THEN EntryOf(key[c], resp[c]) ELSE cache[j]]
          /\ ~ (resp[c].size > MaxCacheBytes)
      BY <2>1, <2>3 DEF Insert, cacheVars
    <3>2. kept \subseteq DOMAIN cache
      <4>1. pc[c] = "put"
        BY <1>2 DEF Put
      <4>2. resp[c].size \in Nat /\ resp[c].size <= MaxCacheBytes /\ CacheInv
        <5>1. resp[c].size \in Nat /\ MaxCacheBytes \in Nat /\ CacheInv
          BY <4>1 DEF TypeInv, TypeOK, SourceCacheAssumption
        <5> HIDE DEF kept
        <5> QED BY <5>1, <3>1
      <4> QED BY <4>2, KeptBesideHasRoom
    <3> HIDE DEF kept
    <3>3. Of(c) /\ pc[c] = "put"
      BY <1>2, <1>c DEF Put
    <3>4. ASSUME NEW k \in DOMAIN cache'
          PROVE  /\ cache'[k].expiresAt - cache'[k].served <= cacheTTL + Deadline
                 /\ [key |-> k, served |-> cache'[k].served,
                     collectedAt |-> cache'[k].collectedAt] \in snapshots
      <4>1. CASE k = key[c]
        <5>1. cache'[k] = EntryOf(key[c], resp[c])
          BY <3>1, <4>1
        <5>2. /\ cache'[k].expiresAt = now + cacheTTL
              /\ cache'[k].served = resp[c].served
              /\ cache'[k].collectedAt = resp[c].collectedAt
          BY <5>1 DEF EntryOf
        <5> QED BY <5>2, <3>3, <4>1, <1>a, <1>b
      <4>2. CASE k # key[c]
        BY <3>1, <3>2, <4>2, <1>c
      <4> QED BY <4>1, <4>2
    <3> QED BY <3>4, <2>1
  <2> QED BY <2>2, <2>3
<1>3. Entries'
  BY <1>1, <1>2
<1>4. ASSUME NEW d \in Collections PROVE Of(d)'
  <2>0. Of(d)
    BY <1>c
  <2> USE <1>a, <1>b, <2>0
  <2>1. ASSUME NEW c \in Collections, Begin(c) PROVE Of(d)'
    BY <2>1 DEF Begin, Goto
  <2>2. ASSUME NEW c \in Collections, Cancel(c) PROVE Of(d)'
    BY <2>2 DEF Cancel
  <2>3. ASSUME NEW c \in Collections, NEW k \in Keys, Call(c, k) PROVE Of(d)'
    BY <2>3 DEF Call, Goto
  <2>4. ASSUME NEW c \in Collections, LookupHit(c) PROVE Of(d)'
    BY <2>4 DEF LookupHit, Goto
  <2>5. ASSUME NEW c \in Collections, LookupMiss(c) PROVE Of(d)'
    BY <2>5 DEF LookupMiss, Goto
  <2>6. ASSUME NEW c \in Collections, LookupDisabled(c) PROVE Of(d)'
    BY <2>6 DEF LookupDisabled, Goto
  <2>7. ASSUME NEW c \in Collections, Respond(c) PROVE Of(d)'
    BY <2>7 DEF Respond, Goto
  <2>8. ASSUME NEW c \in Collections, FailRequest(c) PROVE Of(d)'
    BY <2>8 DEF FailRequest, Goto
  <2>9. ASSUME NEW c \in Collections, ReadBody(c) PROVE Of(d)'
    <3>1. /\ now' = now /\ started' = started /\ key' = key
          /\ snapshots \subseteq snapshots'
          /\ resp' = [resp EXCEPT ![c].collectedAt = now]
          /\ pc' = [pc EXCEPT ![c] = IF Stored(resp[c].ok) THEN "put" ELSE "ready"]
          /\ pc[c] = "body" /\ ~ (now > started[c] + Deadline)
      BY <2>9 DEF ReadBody, Goto, PastDeadline
    <3>2. CASE d # c
      <4>1. resp'[d] = resp[d] /\ pc'[d] = pc[d]
        BY <3>1, <3>2
      <4> QED BY <3>1, <4>1
    <3>3. CASE d = c
      <4>1. resp'[c].served = resp[c].served /\ resp'[c].collectedAt = now
            /\ pc'[c] \in {"put", "ready"}
        BY <3>1 DEF Response
      <4>2. [key |-> key[c], served |-> resp[c].served, collectedAt |-> now] \in snapshots'
        BY <2>9 DEF ReadBody
      <4>3. now - resp[c].served <= Deadline
        BY <3>1, <3>3
      <4> QED BY <3>1, <3>3, <4>1, <4>2, <4>3
    <3> QED BY <3>2, <3>3
  <2>10. ASSUME NEW c \in Collections, Put(c) PROVE Of(d)'
    BY <2>10 DEF Put, Goto
  <2>11. ASSUME NEW c \in Collections, Finish(c) PROVE Of(d)'
    BY <2>11 DEF Finish, Goto
  <2>12. CASE Tick
    BY <2>12 DEF Tick
  <2>13. CASE UNCHANGED vars
    BY <2>13 DEF vars
  <2> QED BY <2>1, <2>2, <2>3, <2>4, <2>5, <2>6, <2>7, <2>8, <2>9, <2>10,
             <2>11, <2>12, <2>13 DEF Next
<1> QED BY <1>3, <1>4

LEMMA SnapshotAlways == ASSUME SourceCacheAssumption PROVE Spec => []SnapshotInv
<1>1. Init => SnapshotInv
  <2> SUFFICES ASSUME Init PROVE SnapshotInv
    OBVIOUS
  <2>1. DOMAIN cache = {}
    <3>1. cache = << >>
      BY DEF Init
    <3> QED BY <3>1
  <2> QED BY <2>1 DEF Init, SnapshotInv
<1>2. TypeInv /\ SnapshotInv /\ [Next]_vars => SnapshotInv'
  BY SnapshotNext
<1> QED BY <1>1, <1>2, TypeAlways, PTL DEF Spec

(* Every entry is one snapshot that a collection really read for its key,  *)
(* however misses on the key overlap between cacheGet and cachePut.        *)
THEOREM EntriesAreReal ==
    ASSUME SourceCacheAssumption PROVE Spec => []EntriesAreSnapshots
<1>1. SnapshotInv => EntriesAreSnapshots
  BY DEF SnapshotInv, EntriesAreSnapshots
<1> QED BY <1>1, SnapshotAlways, PTL

(* What a hit serves left its source at most a cache lifetime and one      *)
(* source deadline ago, for every lifetime and deadline.                   *)
THEOREM StalenessIsBounded ==
    ASSUME SourceCacheAssumption PROVE Spec => []BoundedStaleness
<1>1. TypeInv /\ SnapshotInv => BoundedStaleness
  <2> SUFFICES ASSUME TypeInv, SnapshotInv, NEW c \in Collections, Servable(key[c])
               PROVE  now - cache[key[c]].served <= cacheTTL + Deadline
    BY DEF BoundedStaleness
  <2> DEFINE e == cache[key[c]]
  <2>1. key[c] \in DOMAIN cache /\ now <= e.expiresAt
    BY DEF Servable
  <2>2. e \in Snapshot /\ e.expiresAt - e.served <= cacheTTL + Deadline
    BY <2>1 DEF TypeInv, TypeOK, SnapshotInv
  <2>3. e.expiresAt \in Nat /\ e.served \in Nat /\ now \in Nat
        /\ cacheTTL \in Nat /\ Deadline \in Nat
    BY <2>2 DEF Snapshot, TypeInv, TypeOK, SourceCacheAssumption
  <2> HIDE DEF e
  <2>4. now - e.served <= cacheTTL + Deadline
    BY <2>1, <2>2, <2>3
  <2> QED BY <2>4 DEF e
<1> QED BY <1>1, TypeAlways, SnapshotAlways, PTL

----------------------------------------------------------------------------
(* What the recorder of a collection says of what the collection was given.*)
(* A request that went to the source is a miss, or the cache is off.       *)
InfoOf(i, u, fetching) ==
    /\ \A x \in u : x.cached => i.hits > 0 /\ i.oldest <= x.collectedAt
    /\ i.hits > 0 => \E x \in u : x.cached /\ x.collectedAt = i.oldest
    /\ (\E x \in u : ~ x.cached) \/ fetching => i.hits < i.requests \/ i.disabled
    /\ i.disabled => cacheTTL = 0
    /\ cacheTTL = 0 => i.requests = 0 /\ i.hits = 0

InfoInv == \A c \in Collections : InfoOf(info[c], uses[c], pc[c] \in {"fetch", "body"})

(* A recorder that hears nothing new stays truthful, while its collection  *)
(* starts no work at the source.                                           *)
LEMMA InfoStays ==
    ASSUME InfoInv, NEW d \in Collections,
           info'[d] = info[d], uses'[d] = uses[d], cacheTTL' = cacheTTL,
           pc'[d] \in {"fetch", "body"} => pc[d] \in {"fetch", "body"}
    PROVE  InfoOf(info[d], uses[d], pc[d] \in {"fetch", "body"})'
BY DEF InfoInv, InfoOf

LEMMA InfoNext ==
    ASSUME SourceCacheAssumption, TypeInv, InfoInv, [Next]_vars
    PROVE  InfoInv'
<1>a. /\ now \in Nat /\ cacheTTL \in Nat
      /\ pc \in [Collections -> Phases] /\ info \in [Collections -> Info]
      /\ uses \in [Collections -> SUBSET Use]
      /\ \A c \in Collections : info[c].hits <= info[c].requests
      /\ cache \in [DOMAIN cache -> Snapshot]
  BY DEF TypeInv, TypeOK, SourceCacheAssumption
<1> DEFINE Of(d) == InfoOf(info[d], uses[d], pc[d] \in {"fetch", "body"})
<1> SUFFICES ASSUME NEW d \in Collections PROVE Of(d)'
  BY DEF InfoInv
<1>b. /\ info[d] \in Info /\ info[d].hits <= info[d].requests
      /\ info[d].hits \in Nat /\ info[d].requests \in Nat /\ info[d].oldest \in Nat
      /\ uses[d] \in SUBSET Use
  BY <1>a DEF Info
<1>c. Of(d)
  BY DEF InfoInv
<1>1. ASSUME NEW c \in Collections, Begin(c) PROVE Of(d)'
  BY <1>1, <1>a, InfoStays DEF Begin, Goto
<1>2. ASSUME NEW c \in Collections, Cancel(c) PROVE Of(d)'
  BY <1>2, <1>a, InfoStays DEF Cancel
<1>3. ASSUME NEW c \in Collections, NEW k \in Keys, Call(c, k) PROVE Of(d)'
  BY <1>3, <1>a, InfoStays DEF Call, Goto
<1>4. ASSUME NEW c \in Collections, LookupHit(c) PROVE Of(d)'
  <2>1. CASE d # c
    BY <1>4, <2>1, <1>a, InfoStays DEF LookupHit, Goto
  <2>2. CASE d = c
    <3> DEFINE t == cache[key[c]].collectedAt
               i == info[c]
               j == RecordHit(i, t)
               u == [cached |-> TRUE, collectedAt |-> t]
    <3>1. t \in Nat
      <4>1. key[c] \in DOMAIN cache
        BY <1>4 DEF LookupHit, Servable
      <4>2. cache[key[c]] \in Snapshot
        BY <4>1, <1>a
      <4> QED BY <4>2 DEF Snapshot
    <3>2. /\ info'[c] = j /\ uses'[c] = uses[c] \cup {u}
          /\ pc'[c] = "ready" /\ cacheTTL' = cacheTTL /\ cacheTTL > 0
      BY <1>4, <1>a DEF LookupHit, Goto
    <3>3. u.cached = TRUE /\ u.collectedAt = t
      OBVIOUS
    <3> HIDE DEF t, u, j
    <3>4. /\ j.requests = i.requests + 1 /\ j.hits = i.hits + 1
          /\ j.disabled = i.disabled
          /\ j.oldest = IF i.hits = 0 \/ t < i.oldest THEN t ELSE i.oldest
      BY <1>b, <2>2, <3>1, RecordHitIs DEF j
    <3>5. /\ \A x \in uses[c] : x.cached => i.hits > 0 /\ i.oldest <= x.collectedAt
          /\ i.hits > 0 => \E x \in uses[c] : x.cached /\ x.collectedAt = i.oldest
          /\ (\E x \in uses[c] : ~ x.cached) => i.hits < i.requests \/ i.disabled
          /\ i.disabled => cacheTTL = 0
      BY <1>c, <2>2 DEF InfoOf
    <3>6. /\ i.hits \in Nat /\ i.requests \in Nat /\ i.oldest \in Nat
          /\ \A x \in uses[c] : x.collectedAt \in Nat
      BY <1>b, <2>2 DEF Use
    <3> HIDE DEF i
    <3>7. \A x \in uses[c] \cup {u} : x.cached => j.hits > 0 /\ j.oldest <= x.collectedAt
      BY <3>1, <3>3, <3>4, <3>5, <3>6
    <3>8. \E x \in uses[c] \cup {u} : x.cached /\ x.collectedAt = j.oldest
      <4>1. CASE i.hits = 0 \/ t < i.oldest
        BY <3>3, <3>4, <4>1
      <4>2. CASE ~ (i.hits = 0 \/ t < i.oldest)
        BY <3>4, <3>5, <3>6, <4>2
      <4> QED BY <4>1, <4>2
    <3>9. (\E x \in uses[c] \cup {u} : ~ x.cached) => j.hits < j.requests \/ j.disabled
      BY <3>3, <3>4, <3>5, <3>6
    <3>10. ~ j.disabled /\ cacheTTL # 0
      BY <3>2, <3>4, <3>5, <1>a
    <3> QED BY <2>2, <3>2, <3>7, <3>8, <3>9, <3>10 DEF InfoOf
  <2> QED BY <2>1, <2>2
<1>5. ASSUME NEW c \in Collections, LookupMiss(c) PROVE Of(d)'
  <2>1. CASE d # c
    BY <1>5, <2>1, <1>a, InfoStays DEF LookupMiss, Goto
  <2>2. CASE d = c
    <3>1. /\ info'[d] = [info[d] EXCEPT !.requests = @ + 1] /\ uses'[d] = uses[d]
          /\ cacheTTL' = cacheTTL /\ cacheTTL > 0
      BY <1>5, <2>2, <1>a DEF LookupMiss, RecordMiss
    <3>2. /\ info'[d].requests = info[d].requests + 1 /\ info'[d].hits = info[d].hits
          /\ info'[d].oldest = info[d].oldest /\ info'[d].disabled = info[d].disabled
      BY <3>1, <1>b DEF Info
    <3>3. info'[d].hits < info'[d].requests
      BY <3>2, <1>b
    <3> QED BY <3>1, <3>2, <3>3, <1>a, <1>b, <1>c DEF InfoOf
  <2> QED BY <2>1, <2>2
<1>6. ASSUME NEW c \in Collections, LookupDisabled(c) PROVE Of(d)'
  <2>1. CASE d # c
    BY <1>6, <2>1, <1>a, InfoStays DEF LookupDisabled, Goto
  <2>2. CASE d = c
    <3>1. /\ info'[d] = [info[d] EXCEPT !.disabled = TRUE] /\ uses'[d] = uses[d]
          /\ cacheTTL' = cacheTTL /\ cacheTTL = 0
      BY <1>6, <2>2, <1>a DEF LookupDisabled
    <3>2. /\ info'[d].requests = info[d].requests /\ info'[d].hits = info[d].hits
          /\ info'[d].oldest = info[d].oldest /\ info'[d].disabled
      BY <3>1, <1>b DEF Info
    <3> QED BY <3>1, <3>2, <1>a, <1>b, <1>c DEF InfoOf
  <2> QED BY <2>1, <2>2
<1>7. ASSUME NEW c \in Collections, Respond(c) PROVE Of(d)'
  BY <1>7, <1>a, InfoStays DEF Respond, Goto
<1>8. ASSUME NEW c \in Collections, FailRequest(c) PROVE Of(d)'
  BY <1>8, <1>a, InfoStays DEF FailRequest, Goto
<1>9. ASSUME NEW c \in Collections, ReadBody(c) PROVE Of(d)'
  <2>1. CASE d # c
    BY <1>9, <2>1, <1>a, InfoStays DEF ReadBody, Goto
  <2>2. CASE d = c
    <3> DEFINE u == [cached |-> FALSE, collectedAt |-> now]
    <3>1. /\ info'[d] = info[d] /\ uses'[d] = uses[d] \cup {u}
          /\ cacheTTL' = cacheTTL /\ pc[d] = "body"
          /\ pc'[d] \in {"put", "ready"}
      BY <1>9, <2>2, <1>a DEF ReadBody, Goto
    <3>2. u.cached = FALSE
      OBVIOUS
    <3> HIDE DEF u
    <3> QED BY <3>1, <3>2, <1>c DEF InfoOf
  <2> QED BY <2>1, <2>2
<1>10. ASSUME NEW c \in Collections, Put(c) PROVE Of(d)'
  BY <1>10, <1>a, InfoStays DEF Put, Goto
<1>11. ASSUME NEW c \in Collections, Finish(c) PROVE Of(d)'
  <2>1. CASE d # c
    BY <1>11, <2>1, <1>a, InfoStays DEF Finish, Goto
  <2>2. CASE d = c
    BY <1>11, <2>2, <1>a DEF Finish, Goto, InfoOf, NoRequests
  <2> QED BY <2>1, <2>2
<1>12. CASE Tick
  BY <1>12, InfoStays DEF Tick
<1>13. CASE UNCHANGED vars
  BY <1>13, InfoStays DEF vars
<1> QED BY <1>1, <1>2, <1>3, <1>4, <1>5, <1>6, <1>7, <1>8, <1>9, <1>10, <1>11,
           <1>12, <1>13 DEF Next

(* RequestInfo.Snapshot never calls a collection a hit that was given      *)
(* anything from its source, nor disabled one that was given anything from *)
(* the cache, and the age it reports is that of the oldest snapshot used.  *)
THEOREM HitReportsAreTrue ==
    ASSUME SourceCacheAssumption PROVE Spec => []HitReportTruthful
<1>1. Init => InfoInv
  BY DEF Init, InfoInv, InfoOf, NoRequests
<1>2. TypeInv /\ InfoInv /\ [Next]_vars => InfoInv'
  BY InfoNext
<1>3. TypeInv /\ InfoInv => HitReportTruthful
  <2> SUFFICES ASSUME TypeInv, InfoInv, NEW c \in Collections
               PROVE  /\ CacheState(c) = "hit" =>
                            /\ \A u \in uses[c] : u.cached /\ now - u.collectedAt <= CacheAge(c)
                            /\ \E u \in uses[c] : now - u.collectedAt = CacheAge(c)
                      /\ CacheState(c) = "disabled" => \A u \in uses[c] : ~ u.cached
    BY DEF HitReportTruthful
  <2>1. /\ now \in Nat /\ info[c].hits \in Nat /\ info[c].requests \in Nat
        /\ info[c].oldest \in Nat /\ info[c].hits <= info[c].requests
        /\ \A u \in uses[c] : u.collectedAt \in Nat
    BY DEF TypeInv, TypeOK, Info, Use, SourceCacheAssumption
  <2>2. InfoOf(info[c], uses[c], pc[c] \in {"fetch", "body"})
    BY DEF InfoInv
  <2>3. ASSUME CacheState(c) = "hit"
        PROVE  /\ \A u \in uses[c] : u.cached /\ now - u.collectedAt <= CacheAge(c)
               /\ \E u \in uses[c] : now - u.collectedAt = CacheAge(c)
    <3>1. info[c].requests > 0 /\ info[c].hits = info[c].requests
      BY <2>1, <2>3 DEF CacheState
    <3>2. CacheAge(c) = now - info[c].oldest
      BY <2>3 DEF CacheAge
    <3>3. ~ info[c].disabled
      BY <2>1, <2>2, <3>1 DEF InfoOf
    <3> QED BY <2>1, <2>2, <3>1, <3>2, <3>3 DEF InfoOf
  <2>4. ASSUME CacheState(c) = "disabled" PROVE \A u \in uses[c] : ~ u.cached
    <3>1. info[c].requests = 0
      BY <2>1, <2>4 DEF CacheState
    <3>2. info[c].hits = 0
      BY <2>1, <3>1
    <3> QED BY <2>2, <3>2 DEF InfoOf
  <2> QED BY <2>3, <2>4
<1> QED BY <1>1, <1>2, <1>3, TypeAlways, PTL DEF Spec

----------------------------------------------------------------------------
(* The keys of a sequence expire in its order.                             *)
InOrder(s, c) ==
    \A m, n \in 1..Len(s) : m < n => c[s[m]].expiresAt <= c[s[n]].expiresAt

LEMMA AppendInOrder ==
    ASSUME NEW q \in Seq(Keys), NEW c, InOrder(q, c), NEW k \in Keys,
           \A j \in ToSet(q) : c[j].expiresAt <= c[k].expiresAt
    PROVE  Append(q, k) \in Seq(Keys) /\ InOrder(Append(q, k), c)
<1>1. /\ Append(q, k) \in Seq(Keys) /\ Len(Append(q, k)) = Len(q) + 1
      /\ \A m \in 1..Len(q) : Append(q, k)[m] = q[m]
      /\ Append(q, k)[Len(q) + 1] = k
      /\ Len(q) \in Nat
  BY AppendProperties, LenProperties
<1>2. \A m \in 1..Len(q) : q[m] \in ToSet(q)
  BY LenProperties DEF ToSet
<1> DEFINE s == Append(q, k)
<1>3. SUFFICES ASSUME NEW m \in 1..Len(s), NEW n \in 1..Len(s), m < n
               PROVE  c[s[m]].expiresAt <= c[s[n]].expiresAt
  BY <1>1 DEF InOrder
<1> HIDE DEF s
<1>4. m \in 1..Len(q) /\ s[m] = q[m] /\ n \in 1..Len(q) + 1
  BY <1>1, <1>3 DEF s
<1>5. CASE n = Len(q) + 1
  BY <1>1, <1>2, <1>4, <1>5 DEF s
<1>6. CASE n # Len(q) + 1
  <2>1. n \in 1..Len(q)
    BY <1>1, <1>4, <1>6
  <2>2. s[n] = q[n]
    BY <1>1, <2>1 DEF s
  <2> QED BY <1>3, <1>4, <2>1, <2>2 DEF InOrder
<1> QED BY <1>5, <1>6

(* Taking keys out of the order leaves it in order.                        *)
LEMMA OrderOfInOrder ==
    ASSUME cacheOrder \in Seq(Keys), InOrder(cacheOrder, cache), NEW keys
    PROVE  InOrder(OrderOf(keys), cache)
<1> DEFINE f == CHOOSE g : IsFilter(g, cacheOrder, keys)
           Before(n) == {cacheOrder[m] : m \in 1..n}
           Good(n) == /\ f[n] \in Seq(Keys)
                      /\ ToSet(f[n]) \subseteq Before(n)
                      /\ InOrder(f[n], cache)
           Bad == {n \in 0..Len(cacheOrder) : ~ Good(n)}
<1>1. IsFilter(f, cacheOrder, keys)
  BY FilterExists
<1>2. OrderOf(keys) = f[Len(cacheOrder)]
  BY Zenon DEF OrderOf, IsFilter
<1> HIDE DEF f
<1>3. ASSUME Bad # {} PROVE FALSE
  <2>1. Bad \in SUBSET Nat
    OBVIOUS
  <2>2. PICK n \in Bad : \A m \in Bad : n <= m
    <3> HIDE DEF Bad
    <3> QED BY <1>3, <2>1, Least
  <2>3. f[n] = IF n = 0 THEN << >>
               ELSE IF cacheOrder[n] \in keys THEN Append(f[n - 1], cacheOrder[n])
               ELSE f[n - 1]
    BY <1>1 DEF IsFilter
  <2>4. CASE n = 0
    <3>1. << >> \in Seq(Keys) /\ ToSet(<< >>) = {} /\ InOrder(<< >>, cache)
      BY DEF ToSet, InOrder
    <3>2. f[n] = << >>
      BY <2>3, <2>4
    <3> HIDE DEF Before, Bad
    <3>3. Good(n)
      BY <3>1, <3>2
    <3> QED BY <2>2, <3>3 DEF Bad
  <2>5. CASE n # 0
    <3> DEFINE r == f[n - 1]
               k == cacheOrder[n]
    <3>1. n - 1 \in 0..Len(cacheOrder) /\ n - 1 \notin Bad /\ n \in 1..Len(cacheOrder)
      <4>1. n - 1 \in 0..Len(cacheOrder) /\ n \in 1..Len(cacheOrder)
        BY <2>5
      <4> HIDE DEF Bad
      <4> QED BY <2>2, <4>1
    <3>2. /\ r \in Seq(Keys) /\ ToSet(r) \subseteq Before(n - 1)
          /\ InOrder(r, cache) /\ k \in Keys
      BY <3>1
    <3>3. Before(n) = Before(n - 1) \cup {k}
      BY <3>1
    <3>4. \A j \in Before(n - 1) : cache[j].expiresAt <= cache[k].expiresAt
      <4>1. \A m \in 1..n - 1 : m \in 1..Len(cacheOrder) /\ m < n
        BY <3>1
      <4> QED BY <3>1, <4>1 DEF InOrder
    <3> HIDE DEF Before, r, k
    <3>5. CASE k \notin keys
      <4>1. f[n] = r
        BY <2>3, <2>5, <3>5 DEF r, k
      <4> QED BY <2>2, <4>1, <3>2, <3>3
    <3>6. CASE k \in keys
      <4>1. f[n] = Append(r, k)
        BY <2>3, <2>5, <3>6 DEF r, k
      <4>2. Append(r, k) \in Seq(Keys) /\ InOrder(Append(r, k), cache)
        BY <3>2, <3>4, AppendInOrder
      <4>3. ToSet(Append(r, k)) = ToSet(r) \cup {k}
        <5>1. /\ DOMAIN Append(r, k) = 1..Len(r) + 1 /\ DOMAIN r = 1..Len(r)
              /\ \A m \in 1..Len(r) : Append(r, k)[m] = r[m]
              /\ Append(r, k)[Len(r) + 1] = k /\ Len(r) \in Nat
          BY <3>2, AppendProperties, LenProperties
        <5>2. 1..Len(r) + 1 = (1..Len(r)) \cup {Len(r) + 1}
          BY <5>1
        <5> QED BY <5>1, <5>2 DEF ToSet
      <4> QED BY <2>2, <4>1, <4>2, <4>3, <3>2, <3>3
    <3> QED BY <3>5, <3>6
  <2> QED BY <2>4, <2>5
<1>4. Good(Len(cacheOrder))
  <2>1. Len(cacheOrder) \in 0..Len(cacheOrder)
    BY LenProperties
  <2> HIDE DEF Good
  <2> QED BY <1>3, <2>1
<1> QED BY <1>2, <1>4

(* No entry outlives one that is stored now.                               *)
ExpiryInv ==
    /\ InOrder(cacheOrder, cache)
    /\ \A k \in DOMAIN cache : cache[k].expiresAt <= now + cacheTTL

LEMMA SameOrder ==
    ASSUME NEW s \in Seq(Keys), NEW c, NEW d, InOrder(s, c),
           \A k \in ToSet(s) : d[k] = c[k]
    PROVE  InOrder(s, d)
<1>1. \A m \in 1..Len(s) : d[s[m]] = c[s[m]]
  BY LenProperties DEF ToSet
<1> QED BY <1>1 DEF InOrder

LEMMA ExpiryNext ==
    ASSUME SourceCacheAssumption, TypeInv, ExpiryInv, [Next]_vars
    PROVE  ExpiryInv'
<1>a. /\ now \in Nat /\ cacheTTL \in Nat /\ cache \in [DOMAIN cache -> Snapshot]
      /\ cacheOrder \in Seq(Keys) /\ ToSet(cacheOrder) = DOMAIN cache
      /\ CacheInv /\ key \in [Collections -> Keys]
  BY DEF TypeInv, TypeOK, CacheInv, SourceCacheAssumption
<1>b. \A k \in DOMAIN cache : cache[k].expiresAt \in Nat
  <2>1. \A k \in DOMAIN cache : cache[k] \in Snapshot
    BY <1>a
  <2> QED BY <2>1 DEF Snapshot
<1>1. ASSUME UNCHANGED <<cacheVars, cacheTTL>>, now' \in {now, now + 1}
      PROVE  ExpiryInv'
  BY <1>1, <1>a, <1>b DEF ExpiryInv, cacheVars, InOrder
<1>2. ASSUME NEW c \in Collections, LookupMiss(c) PROVE ExpiryInv'
  <2> DEFINE others == DOMAIN cache \ {key[c]}
  <2>1. /\ cacheOrder' = OrderOf(others) /\ UNCHANGED <<now, cacheTTL>>
        /\ cache' = [k \in others |-> cache[k]]
    BY <1>2 DEF LookupMiss, Restrict
  <2>2. /\ OrderOf(others) \in Seq(Keys) /\ InOrder(OrderOf(others), cache)
        /\ ToSet(OrderOf(others)) \subseteq others
    BY <1>a, OrderOfKeeps, OrderOfInOrder DEF CacheInv, ExpiryInv
  <2>3. DOMAIN cache' = others /\ \A k \in others : cache'[k] = cache[k]
    BY <2>1
  <2> HIDE DEF others
  <2>4. InOrder(OrderOf(others), cache')
    BY <2>2, <2>3, SameOrder
  <2>5. \A k \in DOMAIN cache' : cache'[k].expiresAt <= now + cacheTTL
    BY <2>3 DEF ExpiryInv, others
  <2> QED BY <2>1, <2>4, <2>5 DEF ExpiryInv
<1>3. ASSUME NEW c \in Collections, Put(c) PROVE ExpiryInv'
  <2> DEFINE r == resp[c]
             k == key[c]
             kept == KeptBeside(k, r.size)
  <2>1. r \in Response /\ r.size \in BodySizes /\ k \in Keys /\ Insert(k, r)
        /\ UNCHANGED <<now, cacheTTL>>
    BY <1>3, <1>a DEF Put, TypeInv, TypeOK
  <2>2. CASE r.size > MaxCacheBytes
    BY <1>1, <2>1, <2>2 DEF Insert
  <2>3. CASE ~ (r.size > MaxCacheBytes)
    <3>1. r.size \in Nat /\ r.size <= MaxCacheBytes
      <4>1. BodySizes \subseteq Nat /\ MaxCacheBytes \in Nat
        BY DEF SourceCacheAssumption
      <4>2. r.size \in Nat
        BY <2>1, <4>1
      <4> HIDE DEF r
      <4> QED BY <2>3, <4>1, <4>2
    <3>2. kept \subseteq DOMAIN cache /\ k \notin kept
      BY <1>a, <3>1, KeptBesideHasRoom
    <3>3. /\ cache' = [j \in kept \cup {k} |->
                         IF j = k THEN EntryOf(k, r) ELSE cache[j]]
          /\ cacheOrder' = Append(OrderOf(kept), k)
      BY <2>1, <2>3 DEF Insert
    <3>4. EntryOf(k, r).expiresAt = now + cacheTTL
      BY DEF EntryOf
    <3> HIDE DEF kept, r, k
    <3>5. /\ DOMAIN cache' = kept \cup {k}
          /\ \A j \in kept : cache'[j] = cache[j]
          /\ cache'[k].expiresAt = now + cacheTTL
      BY <3>2, <3>3, <3>4
    <3>6. /\ OrderOf(kept) \in Seq(Keys) /\ InOrder(OrderOf(kept), cache)
          /\ ToSet(OrderOf(kept)) \subseteq kept
      BY <1>a, OrderOfKeeps, OrderOfInOrder DEF CacheInv, ExpiryInv
    <3>7. InOrder(OrderOf(kept), cache')
      BY <3>5, <3>6, SameOrder
    <3>8. \A j \in kept : cache'[j].expiresAt <= now + cacheTTL
      BY <3>2, <3>5 DEF ExpiryInv
    <3>9. InOrder(Append(OrderOf(kept), k), cache')
      BY <2>1, <3>5, <3>6, <3>7, <3>8, AppendInOrder
    <3>10. \A j \in DOMAIN cache' : cache'[j].expiresAt <= now + cacheTTL
      BY <1>a, <3>5, <3>8
    <3> QED BY <2>1, <3>3, <3>9, <3>10 DEF ExpiryInv
  <2> QED BY <2>2, <2>3
<1>4. ASSUME NEW c \in Collections,
             \/ Begin(c) \/ Cancel(c) \/ (\E k \in Keys : Call(c, k))
             \/ LookupHit(c) \/ LookupDisabled(c) \/ Respond(c)
             \/ FailRequest(c) \/ ReadBody(c) \/ Finish(c)
      PROVE  ExpiryInv'
  <2>1. UNCHANGED <<cacheVars, cacheTTL, now>>
    BY <1>4 DEF Begin, Cancel, Call, LookupHit, LookupDisabled, Respond,
                FailRequest, ReadBody, Finish
  <2> QED BY <1>1, <2>1
<1>5. CASE Tick
  BY <1>1, <1>5 DEF Tick
<1>6. CASE UNCHANGED vars
  BY <1>1, <1>6 DEF vars
<1> QED BY <1>2, <1>3, <1>4, <1>5, <1>6 DEF Next

(* cachePut evicts what would have expired first, for every lifetime and   *)
(* however misses overlap: the order of the entries is that of their       *)
(* expiry, because a replaced key moves to the end with its new expiry.    *)
THEOREM OrderIsExpiry ==
    ASSUME SourceCacheAssumption PROVE Spec => []OrderedByExpiry
<1>1. Init => ExpiryInv
  <2> SUFFICES ASSUME Init PROVE ExpiryInv
    OBVIOUS
  <2>1. DOMAIN cache = {} /\ Len(cacheOrder) = 0
    <3>1. cache = << >> /\ cacheOrder = << >>
      BY DEF Init
    <3> QED BY <3>1
  <2> QED BY <2>1 DEF ExpiryInv, InOrder
<1>2. TypeInv /\ ExpiryInv /\ [Next]_vars => ExpiryInv'
  BY ExpiryNext
<1>3. ExpiryInv => OrderedByExpiry
  BY DEF ExpiryInv, InOrder, OrderedByExpiry
<1> QED BY <1>1, <1>2, <1>3, TypeAlways, PTL DEF Spec
============================================================================
