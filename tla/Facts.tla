------------------------------- MODULE Facts -------------------------------
(***************************************************************************)
(* Facts about natural numbers, finite sets, sums over them and sequences  *)
(* that the proofs of several components cite.  Induction is done by hand, with the *)
(* least counterexample: the sums of the community modules are recursive   *)
(* functions on the subsets of a set.                                      *)
(***************************************************************************)
EXTENDS Ordering, Functions, FiniteSetTheorems, WellFoundedInduction, TLAPS

(* A set of natural numbers that is not empty has a least member.          *)
LEMMA Least ==
    ASSUME NEW S \in SUBSET Nat, S # {}
    PROVE  \E i \in S : \A j \in S : i <= j
<1>1. PICK i \in S : \A j \in S : ~ (<<j, i>> \in OpToRel(<, Nat))
  BY NatLessThanWellFounded, WFMin
<1>2. \A j \in S : ~ (j < i)
  BY <1>1 DEF OpToRel
<1> QED BY <1>2

(* A set of finite sets that is not empty has a member of least size.      *)
LEMMA Smallest ==
    ASSUME NEW S, S # {}, \A T \in S : IsFiniteSet(T)
    PROVE  \E T \in S : \A U \in S : Cardinality(T) <= Cardinality(U)
<1> DEFINE sizes == {Cardinality(T) : T \in S}
<1>1. sizes \in SUBSET Nat /\ sizes # {}
  BY FS_CardinalityType
<1>2. PICK n \in sizes : \A m \in sizes : n <= m
  BY <1>1, Least
<1> QED BY <1>2

(* A finite set without one of its members is smaller.                     *)
LEMMA OneLess ==
    ASSUME NEW S, IsFiniteSet(S), NEW x \in S
    PROVE  /\ IsFiniteSet(S \ {x})
           /\ ~ (Cardinality(S) <= Cardinality(S \ {x}))
<1>1. /\ IsFiniteSet(S \ {x})
      /\ Cardinality(S \ {x}) = Cardinality(S) - 1
  BY FS_RemoveElement
<1>2. Cardinality(S) \in Nat
  BY FS_CardinalityType
<1> QED BY <1>1, <1>2

----------------------------------------------------------------------------
(* it is the function that SumFunctionOnSet(f, S) recurses with.           *)
Some(s) == CHOOSE x \in s : TRUE

IsSum(f, S, it) ==
    it = [s \in SUBSET S |-> IF s = {} THEN 0 ELSE f[Some(s)] + it[s \ {Some(s)}]]

LEMMA SomeIsMember == ASSUME NEW s, s # {} PROVE Some(s) \in s
BY DEF Some

LEMMA SumIs ==
    ASSUME NEW f, NEW S
    PROVE  SumFunctionOnSet(f, S) = (CHOOSE it : IsSum(f, S, it))[S]
BY Zenon DEF SumFunctionOnSet, FoldFunctionOnSet, MapThenFoldSet, IsSum, Some

(* Two such functions agree wherever both are defined, for any two         *)
(* functions that agree there.                                             *)
LEMMA SumsAgree ==
    ASSUME NEW f, NEW g, NEW S, NEW T, NEW U, IsFiniteSet(U),
           U \subseteq S, U \subseteq T,
           \A x \in U : f[x] = g[x],
           NEW a, IsSum(f, S, a), NEW b, IsSum(g, T, b)
    PROVE  a[U] = b[U]
<1> DEFINE Bad == {V \in SUBSET U : a[V] # b[V]}
<1> SUFFICES ASSUME Bad # {} PROVE FALSE
  OBVIOUS
<1>1. \A V \in SUBSET U : IsFiniteSet(V)
  BY FS_Subset
<1>2. PICK V \in Bad : \A W \in Bad : Cardinality(V) <= Cardinality(W)
  <2> HIDE DEF Bad
  <2>1. \A W \in Bad : IsFiniteSet(W)
    BY <1>1 DEF Bad
  <2> QED BY <2>1, Smallest
<1>3. /\ a[V] = IF V = {} THEN 0 ELSE f[Some(V)] + a[V \ {Some(V)}]
      /\ b[V] = IF V = {} THEN 0 ELSE g[Some(V)] + b[V \ {Some(V)}]
  BY DEF IsSum
<1>4. V # {}
  BY <1>3
<1>5. Some(V) \in V
  BY <1>4, SomeIsMember
<1>6. f[Some(V)] = g[Some(V)]
  BY <1>5
<1>7. V \ {Some(V)} \in Bad
  BY <1>3, <1>4, <1>6
<1>8. ~ (Cardinality(V) <= Cardinality(V \ {Some(V)}))
  BY <1>1, <1>5, OneLess
<1> QED BY <1>2, <1>7, <1>8

(* The function exists for every finite set.                               *)
LEMMA SumExists ==
    ASSUME NEW f, NEW S, IsFiniteSet(S)
    PROVE  \E it : IsSum(f, S, it)
<1> DEFINE Bad == {T \in SUBSET S : ~ \E it : IsSum(f, T, it)}
<1> SUFFICES ASSUME Bad # {} PROVE FALSE
  OBVIOUS
<1>1. \A T \in SUBSET S : IsFiniteSet(T)
  BY FS_Subset
<1>2. PICK T \in Bad : \A U \in Bad : Cardinality(T) <= Cardinality(U)
  <2> HIDE DEF Bad
  <2>1. \A U \in Bad : IsFiniteSet(U)
    BY <1>1 DEF Bad
  <2> QED BY <2>1, Smallest
<1> DEFINE Of(U) == CHOOSE it : IsSum(f, U, it)
           it == [s \in SUBSET T |->
                    IF s = {} THEN 0
                    ELSE f[Some(s)] + Of(s \ {Some(s)})[s \ {Some(s)}]]
<1>3. ASSUME NEW s \in SUBSET T, s # {}
      PROVE  /\ Some(s) \in s
             /\ IsSum(f, s \ {Some(s)}, Of(s \ {Some(s)}))
  <2>1. Some(s) \in s
    BY <1>3, SomeIsMember
  <2>2. s \ {Some(s)} \notin Bad
    <3>1. T \ {Some(s)} \notin Bad
      BY <1>1, <1>2, <2>1, OneLess
    <3>2. Cardinality(s \ {Some(s)}) <= Cardinality(T \ {Some(s)})
      <4>1. IsFiniteSet(T \ {Some(s)})
        BY <1>1, OneLess, <2>1
      <4>2. s \ {Some(s)} \in SUBSET (T \ {Some(s)})
        OBVIOUS
      <4> HIDE DEF Bad
      <4> QED BY <4>1, <4>2, FS_Subset
    <3>3. ~ (Cardinality(T) <= Cardinality(T \ {Some(s)}))
      BY <1>1, <2>1, OneLess
    <3>4. /\ Cardinality(T) \in Nat
          /\ Cardinality(T \ {Some(s)}) \in Nat
          /\ Cardinality(s \ {Some(s)}) \in Nat
      <4>1. IsFiniteSet(T) /\ IsFiniteSet(T \ {Some(s)}) /\ IsFiniteSet(s \ {Some(s)})
        BY <1>1
      <4> HIDE DEF Bad
      <4> QED BY <4>1, FS_CardinalityType
    <3> HIDE DEF Bad
    <3> QED BY <1>2, <3>2, <3>3, <3>4
  <2>3. \E o : IsSum(f, s \ {Some(s)}, o)
    BY <2>2
  <2> QED BY <2>1, <2>3
<1>4. ASSUME NEW s \in SUBSET T, s # {}
      PROVE  it[s] = f[Some(s)] + it[s \ {Some(s)}]
  <2> DEFINE r == s \ {Some(s)}
  <2>1. IsSum(f, r, Of(r)) /\ r \in SUBSET T
    BY <1>3, <1>4
  <2>2. Of(r)[r] = IF r = {} THEN 0 ELSE f[Some(r)] + Of(r)[r \ {Some(r)}]
    BY <2>1 DEF IsSum
  <2>3. it[r] = IF r = {} THEN 0 ELSE f[Some(r)] + Of(r \ {Some(r)})[r \ {Some(r)}]
    BY <2>1
  <2>4. ASSUME r = {} PROVE it[r] = Of(r)[r]
    BY <2>2, <2>3, <2>4
  <2>5. ASSUME r # {} PROVE it[r] = Of(r)[r]
    <3>1. IsSum(f, r \ {Some(r)}, Of(r \ {Some(r)}))
      BY <1>3, <2>1, <2>5
    <3>2. IsFiniteSet(r \ {Some(r)})
      <4>1. r \ {Some(r)} \in SUBSET S
        BY <2>1
      <4> QED BY <4>1, <1>1
    <3> HIDE DEF r, Of, it
    <3>3. Of(r)[r \ {Some(r)}] = Of(r \ {Some(r)})[r \ {Some(r)}]
      BY <2>1, <3>1, <3>2, SumsAgree
    <3> QED BY <2>2, <2>3, <2>5, <3>3 DEF r
  <2>6. it[s] = f[Some(s)] + Of(r)[r]
    BY <1>4
  <2> HIDE DEF Of, it
  <2> QED BY <2>4, <2>5, <2>6
<1>5. IsSum(f, T, it)
  <2> SUFFICES it = [s \in SUBSET T |->
                       IF s = {} THEN 0 ELSE f[Some(s)] + it[s \ {Some(s)}]]
    BY DEF IsSum
  <2>1. ASSUME NEW s \in SUBSET T
        PROVE  it[s] = IF s = {} THEN 0 ELSE f[Some(s)] + it[s \ {Some(s)}]
    <3>1. CASE s = {}
      BY <3>1
    <3>2. CASE s # {}
      <4> HIDE DEF it
      <4> QED BY <3>2, <1>4
    <3> QED BY <3>1, <3>2
  <2>2. it = [s \in SUBSET T |-> it[s]]
    OBVIOUS
  <2> HIDE DEF it
  <2>3. [s \in SUBSET T |-> it[s]] =
           [s \in SUBSET T |-> IF s = {} THEN 0 ELSE f[Some(s)] + it[s \ {Some(s)}]]
    BY <2>1
  <2> QED BY <2>2, <2>3
<1> QED BY <1>2, <1>5

(* The defining equation of a sum.                                         *)
LEMMA SumOf ==
    ASSUME NEW f, NEW S, IsFiniteSet(S)
    PROVE  /\ IsSum(f, S, CHOOSE it : IsSum(f, S, it))
           /\ SumFunctionOnSet(f, S) =
                 IF S = {} THEN 0
                 ELSE f[Some(S)] + SumFunctionOnSet(f, S \ {Some(S)})
<1> DEFINE Of(U) == CHOOSE it : IsSum(f, U, it)
<1>1. IsSum(f, S, Of(S))
  BY SumExists
<1>2. SumFunctionOnSet(f, S) = Of(S)[S]
  BY SumIs
<1>3. Of(S)[S] = IF S = {} THEN 0 ELSE f[Some(S)] + Of(S)[S \ {Some(S)}]
  BY <1>1 DEF IsSum
<1>4. CASE S # {}
  <2> DEFINE r == S \ {Some(S)}
  <2>1. IsFiniteSet(r)
    BY FS_Subset
  <2>2. IsSum(f, r, Of(r)) /\ SumFunctionOnSet(f, r) = Of(r)[r]
    BY <2>1, SumExists, SumIs
  <2> HIDE DEF Of
  <2>3. Of(S)[r] = Of(r)[r]
    BY <1>1, <2>1, <2>2, SumsAgree
  <2> QED BY <1>1, <1>2, <1>3, <2>2, <2>3, <1>4 DEF Of
<1> QED BY <1>1, <1>2, <1>3, <1>4

LEMMA SumEmpty == ASSUME NEW f PROVE SumFunctionOnSet(f, {}) = 0
BY SumOf, FS_EmptySet

(* A sum depends only on the values it adds.                               *)
LEMMA SumSame ==
    ASSUME NEW f, NEW g, NEW S, IsFiniteSet(S), \A x \in S : f[x] = g[x]
    PROVE  SumFunctionOnSet(f, S) = SumFunctionOnSet(g, S)
<1> DEFINE a == CHOOSE it : IsSum(f, S, it)
           b == CHOOSE it : IsSum(g, S, it)
<1>1. IsSum(f, S, a) /\ IsSum(g, S, b)
  BY SumOf
<1>2. SumFunctionOnSet(f, S) = a[S] /\ SumFunctionOnSet(g, S) = b[S]
  BY SumIs
<1> HIDE DEF a, b
<1>3. ASSUME NEW c, IsSum(f, S, c), NEW d, IsSum(g, S, d)
      PROVE  c[S] = d[S]
  BY <1>3, SumsAgree
<1>4. a[S] = b[S]
  BY <1>1, <1>3
<1> QED BY <1>2, <1>4

(* A sum of natural numbers is one, and any member can be taken out first. *)
LEMMA SumNat ==
    ASSUME NEW f, NEW S, IsFiniteSet(S), \A x \in S : f[x] \in Nat
    PROVE  SumFunctionOnSet(f, S) \in Nat
<1> DEFINE Bad == {T \in SUBSET S : SumFunctionOnSet(f, T) \notin Nat}
<1> SUFFICES ASSUME Bad # {} PROVE FALSE
  OBVIOUS
<1>1. \A T \in SUBSET S : IsFiniteSet(T)
  BY FS_Subset
<1>2. PICK T \in Bad : \A U \in Bad : Cardinality(T) <= Cardinality(U)
  <2> HIDE DEF Bad
  <2>1. \A U \in Bad : IsFiniteSet(U)
    BY <1>1 DEF Bad
  <2> QED BY <2>1, Smallest
<1>3. SumFunctionOnSet(f, T) = IF T = {} THEN 0
         ELSE f[Some(T)] + SumFunctionOnSet(f, T \ {Some(T)})
  BY <1>1, SumOf
<1>4. CASE T = {}
  BY <1>3, <1>4
<1>5. CASE T # {}
  <2>1. Some(T) \in T
    BY <1>5, SomeIsMember
  <2>2. ~ (Cardinality(T) <= Cardinality(T \ {Some(T)}))
    BY <1>1, <2>1, OneLess
  <2>3. T \ {Some(T)} \notin Bad
    BY <1>2, <2>2
  <2>4. SumFunctionOnSet(f, T \ {Some(T)}) \in Nat /\ f[Some(T)] \in Nat
    BY <2>1, <2>3
  <2> QED BY <1>3, <1>5, <2>4
<1> QED BY <1>4, <1>5

LEMMA SumRemove ==
    ASSUME NEW f, NEW S, IsFiniteSet(S), \A x \in S : f[x] \in Nat, NEW y \in S
    PROVE  SumFunctionOnSet(f, S) = f[y] + SumFunctionOnSet(f, S \ {y})
<1> DEFINE Bad == {T \in SUBSET S : \E x \in T :
                     SumFunctionOnSet(f, T) # f[x] + SumFunctionOnSet(f, T \ {x})}
<1> SUFFICES ASSUME Bad # {} PROVE FALSE
  OBVIOUS
<1>1. \A T \in SUBSET S : IsFiniteSet(T) /\ SumFunctionOnSet(f, T) \in Nat
  <2> SUFFICES ASSUME NEW T \in SUBSET S
               PROVE  IsFiniteSet(T) /\ SumFunctionOnSet(f, T) \in Nat
    OBVIOUS
  <2>1. IsFiniteSet(T)
    BY FS_Subset
  <2> QED BY <2>1, SumNat
<1>2. PICK T \in Bad : \A U \in Bad : Cardinality(T) <= Cardinality(U)
  <2> HIDE DEF Bad
  <2>1. \A U \in Bad : IsFiniteSet(U)
    BY <1>1 DEF Bad
  <2> QED BY <2>1, Smallest
<1>3. PICK x \in T : SumFunctionOnSet(f, T) # f[x] + SumFunctionOnSet(f, T \ {x})
  OBVIOUS
<1> DEFINE c == Some(T)
<1>4. c \in T
  BY <1>3, SomeIsMember
<1>5. SumFunctionOnSet(f, T) = f[c] + SumFunctionOnSet(f, T \ {c})
  BY <1>1, <1>3, SumOf
<1>6. x # c
  BY <1>3, <1>5
<1>7. T \ {c} \notin Bad /\ T \ {x} \notin Bad
  BY <1>1, <1>2, <1>4, OneLess
<1> HIDE DEF c
<1>8. SumFunctionOnSet(f, T \ {c}) = f[x] + SumFunctionOnSet(f, (T \ {c}) \ {x})
  BY <1>6, <1>7
<1>9. SumFunctionOnSet(f, T \ {x}) = f[c] + SumFunctionOnSet(f, (T \ {x}) \ {c})
  BY <1>4, <1>6, <1>7
<1>10. (T \ {c}) \ {x} = (T \ {x}) \ {c}
  OBVIOUS
<1>11. f[x] \in Nat /\ f[c] \in Nat /\ SumFunctionOnSet(f, (T \ {c}) \ {x}) \in Nat
  BY <1>1, <1>4
<1> QED BY <1>3, <1>5, <1>8, <1>9, <1>10, <1>11

(* Adding a member that is not there yet.                                  *)
LEMMA SumAdd ==
    ASSUME NEW f, NEW S, IsFiniteSet(S), NEW y, y \notin S,
           f[y] \in Nat, \A x \in S : f[x] \in Nat
    PROVE  SumFunctionOnSet(f, S \cup {y}) = SumFunctionOnSet(f, S) + f[y]
<1>1. IsFiniteSet(S \cup {y}) /\ (S \cup {y}) \ {y} = S
  BY FS_AddElement
<1>2. SumFunctionOnSet(f, S) \in Nat
  BY SumNat
<1>3. \A x \in S \cup {y} : f[x] \in Nat
  OBVIOUS
<1>4. SumFunctionOnSet(f, S \cup {y}) = f[y] + SumFunctionOnSet(f, (S \cup {y}) \ {y})
  BY <1>1, <1>3, SumRemove
<1>5. SumFunctionOnSet(f, (S \cup {y}) \ {y}) = SumFunctionOnSet(f, S)
  BY <1>1, Zenon
<1> QED BY <1>2, <1>4, <1>5

(* The sum over a set is that over a part of it and that over the rest.    *)
LEMMA SumSplit ==
    ASSUME NEW f, NEW S, IsFiniteSet(S), \A x \in S : f[x] \in Nat,
           NEW T, T \subseteq S
    PROVE  SumFunctionOnSet(f, S) =
              SumFunctionOnSet(f, T) + SumFunctionOnSet(f, S \ T)
<1> DEFINE Bad == {U \in SUBSET T :
                     SumFunctionOnSet(f, U \cup (S \ T)) #
                        SumFunctionOnSet(f, U) + SumFunctionOnSet(f, S \ T)}
<1>1. \A U \in SUBSET S : IsFiniteSet(U) /\ SumFunctionOnSet(f, U) \in Nat
  <2> SUFFICES ASSUME NEW U \in SUBSET S
               PROVE  IsFiniteSet(U) /\ SumFunctionOnSet(f, U) \in Nat
    OBVIOUS
  <2>1. IsFiniteSet(U)
    BY FS_Subset
  <2> QED BY <2>1, SumNat
<1>2. ASSUME Bad # {} PROVE FALSE
  <2>1. PICK U \in Bad : \A V \in Bad : Cardinality(U) <= Cardinality(V)
    <3>1. \A V \in Bad : IsFiniteSet(V)
      BY <1>1
    <3> HIDE DEF Bad
    <3> QED BY <1>2, <3>1, Smallest
  <2>2. SumFunctionOnSet(f, {}) = 0 /\ {} \cup (S \ T) = S \ T
    BY SumEmpty
  <2>3. U # {}
    BY <1>1, <2>2
  <2>4. PICK x \in U : TRUE
    BY <2>3
  <2> DEFINE V == U \ {x}
  <2>5. V \notin Bad
    BY <1>1, <2>1, OneLess
  <2>6. SumFunctionOnSet(f, U) = SumFunctionOnSet(f, V) + f[x]
    <3>1. IsFiniteSet(U) /\ (\A z \in U : f[z] \in Nat)
      BY <1>1
    <3>2. SumFunctionOnSet(f, U) = f[x] + SumFunctionOnSet(f, V)
      BY <3>1, SumRemove
    <3>3. SumFunctionOnSet(f, V) \in Nat /\ f[x] \in Nat
      BY <1>1
    <3> QED BY <3>2, <3>3
  <2>7. SumFunctionOnSet(f, U \cup (S \ T)) =
           SumFunctionOnSet(f, V \cup (S \ T)) + f[x]
    <3> DEFINE W == U \cup (S \ T)
    <3>1. W \ {x} = V \cup (S \ T) /\ x \in W /\ W \subseteq S /\ f[x] \in Nat
      OBVIOUS
    <3> HIDE DEF W, V
    <3>2. IsFiniteSet(W) /\ (\A z \in W : f[z] \in Nat)
      BY <1>1, <3>1
    <3>3. SumFunctionOnSet(f, W) = f[x] + SumFunctionOnSet(f, W \ {x})
      BY <3>1, <3>2, SumRemove
    <3>4. SumFunctionOnSet(f, W \ {x}) \in Nat
      BY <1>1, <3>1
    <3>5. SumFunctionOnSet(f, W \ {x}) = SumFunctionOnSet(f, V \cup (S \ T))
      BY <3>1, Zenon
    <3>6. SumFunctionOnSet(f, W) = SumFunctionOnSet(f, V \cup (S \ T)) + f[x]
      BY <3>1, <3>3, <3>4, <3>5
    <3> QED BY <3>6, Zenon DEF W
  <2>8. SumFunctionOnSet(f, V \cup (S \ T)) =
           SumFunctionOnSet(f, V) + SumFunctionOnSet(f, S \ T)
    BY <2>5
  <2>9. f[x] \in Nat /\ SumFunctionOnSet(f, V) \in Nat
        /\ SumFunctionOnSet(f, S \ T) \in Nat
    BY <1>1
  <2> HIDE DEF V
  <2> QED BY <2>6, <2>7, <2>8, <2>9
<1>3. T \cup (S \ T) = S /\ T \notin Bad
  BY <1>2
<1> QED BY <1>3

(* A sum of zeros.                                                         *)
LEMMA SumZero ==
    ASSUME NEW f, NEW S, IsFiniteSet(S), \A x \in S : f[x] = 0
    PROVE  SumFunctionOnSet(f, S) = 0
<1> DEFINE Bad == {T \in SUBSET S : SumFunctionOnSet(f, T) # 0}
<1>1. SUFFICES ASSUME Bad # {} PROVE FALSE
  OBVIOUS
<1>2. \A T \in Bad : IsFiniteSet(T)
  BY FS_Subset
<1>3. PICK T \in Bad : \A U \in Bad : Cardinality(T) <= Cardinality(U)
  <2> HIDE DEF Bad
  <2> QED BY <1>1, <1>2, Smallest
<1>4. T \subseteq S /\ IsFiniteSet(T) /\ SumFunctionOnSet(f, T) # 0
  BY <1>2
<1>5. PICK x \in T : TRUE
  BY <1>4, SumEmpty
<1>6. SumFunctionOnSet(f, T) = f[x] + SumFunctionOnSet(f, T \ {x}) /\ f[x] = 0
  <2>1. \A y \in T : f[y] = 0 /\ f[y] \in Nat
    BY <1>4
  <2> QED BY <1>4, <2>1, SumRemove
<1>7. T \ {x} \in Bad
  <2>1. SumFunctionOnSet(f, T \ {x}) \in Nat
    <3>1. IsFiniteSet(T \ {x}) /\ \A y \in T \ {x} : f[y] \in Nat
      BY <1>4, FS_Subset
    <3> QED BY <3>1, SumNat
  <2> QED BY <1>4, <1>6, <2>1
<1> QED BY <1>3, <1>4, <1>7, OneLess

(* Two neighbouring parts of a sequence, and its ends.                     *)
LEMMA Pieces ==
    ASSUME NEW S, NEW s \in Seq(S), NEW i \in Nat, NEW j \in Nat, i <= j, j <= Len(s)
    PROVE  /\ SubSeq(s, 1, i) \o SubSeq(s, i + 1, j) = SubSeq(s, 1, j)
           /\ SubSeq(s, 1, 0) = << >> /\ SubSeq(s, 1, Len(s)) = s
           /\ SubSeq(s, i + 1, j) \in Seq(S)
OBVIOUS
----------------------------------------------------------------------------
(* Filtered and sorted lists *)

(* A strict total order of S.                                              *)
Linear(S, before) ==
    /\ \A x \in S : <<x, x>> \notin before
    /\ \A x, y \in S : x # y => <<x, y>> \in before \/ <<y, x>> \in before
    /\ \A x, y, z \in S :
          <<x, y>> \in before /\ <<y, z>> \in before => <<x, z>> \in before

(* The sequence s of length n has every member of S once, in that order.   *)
Lists(s, n, S, before) ==
    /\ n \in Nat /\ s \in [1..n -> S]
    /\ \A x \in S : \E i \in 1..n : s[i] = x
    /\ \A i, j \in 1..n : <<s[i], s[j]>> \in before <=> i < j

(* Ranking by the number of members before each does that.                 *)
LEMMA RankedLists ==
    ASSUME NEW S, IsFiniteSet(S), NEW before, Linear(S, before)
    PROVE  Lists(Ranked(S, before), Cardinality(S), S, before)
<1> DEFINE n == Cardinality(S)
           Below(x) == {y \in S : <<y, x>> \in before}
           rank == [x \in S |-> Cardinality(Below(x))]
           s == Ranked(S, before)
<1>1. n \in Nat /\ IsFiniteSet(0..n - 1) /\ Cardinality(0..n - 1) = n
  <2>1. n \in Nat
    BY FS_CardinalityType
  <2> HIDE DEF n
  <2>2. IsFiniteSet(0..n - 1) /\ Cardinality(0..n - 1) = IF 0 > n - 1 THEN 0 ELSE n - 1 - 0 + 1
    BY <2>1, FS_Interval
  <2> QED BY <2>1, <2>2
<1>2. ASSUME NEW x \in S
      PROVE  /\ IsFiniteSet(Below(x)) /\ rank[x] = Cardinality(Below(x))
             /\ rank[x] \in 0..n - 1
  <2>1. Below(x) \subseteq S /\ x \notin Below(x)
    BY DEF Linear
  <2> HIDE DEF Below
  <2>2. /\ IsFiniteSet(Below(x)) /\ Cardinality(Below(x)) <= n
        /\ Cardinality(Below(x)) = n => Below(x) = S
    BY <2>1, FS_Subset
  <2>3. Cardinality(Below(x)) # n
    BY <2>1, <2>2
  <2>4. Cardinality(Below(x)) \in Nat
    BY <2>2, FS_CardinalityType
  <2> QED BY <1>1, <2>2, <2>3, <2>4
<1>3. ASSUME NEW x \in S, NEW y \in S, <<x, y>> \in before
      PROVE  rank[x] < rank[y]
  <2>1. Below(x) \in SUBSET Below(y) /\ Below(x) # Below(y)
    BY <1>3 DEF Linear
  <2> HIDE DEF Below, rank
  <2>2. Cardinality(Below(x)) <= Cardinality(Below(y))
        /\ Cardinality(Below(x)) # Cardinality(Below(y))
    BY <1>2, <2>1, FS_Subset
  <2>3. rank[x] \in Nat /\ rank[y] \in Nat
    BY <1>1, <1>2
  <2> QED BY <1>2, <2>2, <2>3
<1>4. rank \in [S -> 0..n - 1]
  BY <1>2
<1>5. s = [i \in 1..n |-> CHOOSE x \in S : Cardinality(Below(x)) = i - 1]
  BY Zenon DEF Ranked
<1>6. \A x \in S : rank[x] = Cardinality(Below(x))
  OBVIOUS
<1> HIDE DEF rank, s, Below, n
<1>7. ASSUME NEW x \in S PROVE rank[x] \in Nat /\ rank[x] + 1 \in 1..n
  <2>1. rank[x] \in 0..n - 1
    BY <1>4
  <2> QED BY <1>1, <2>1
<1>8. ASSUME NEW x \in S, NEW y \in S, rank[x] = rank[y] PROVE x = y
  <2>1. rank[x] \in Nat /\ rank[y] \in Nat
    BY <1>7
  <2>2. ~ (rank[x] < rank[y]) /\ ~ (rank[y] < rank[x])
    BY <1>8, <2>1
  <2> QED BY <1>3, <2>2 DEF Linear
<1>9. \A k \in 0..n - 1 : \E x \in S : rank[x] = k
  <2>1. rank \in Injection(S, 0..n - 1)
    BY <1>4, <1>8 DEF Injection, IsInjective
  <2>2. rank \in Surjection(S, 0..n - 1)
    BY <1>1, <2>1, FS_Injection DEF n
  <2> QED BY <2>2 DEF Surjection
<1>10. ASSUME NEW i \in 1..n PROVE s[i] \in S /\ rank[s[i]] = i - 1
  <2>1. PICK x \in S : rank[x] = i - 1
    BY <1>1, <1>9
  <2>2. Cardinality(Below(x)) = i - 1
    BY <1>6, <2>1
  <2>3. s[i] = CHOOSE y \in S : Cardinality(Below(y)) = i - 1
    BY <1>5
  <2>4. s[i] \in S /\ Cardinality(Below(s[i])) = i - 1
    BY <2>2, <2>3
  <2> QED BY <1>6, <2>4
<1>11. s \in [1..n -> S]
  BY <1>5, <1>10
<1>12. ASSUME NEW x \in S PROVE \E i \in 1..n : s[i] = x
  <2>1. rank[x] + 1 \in 1..n /\ rank[x] \in Nat
    BY <1>7
  <2>2. s[rank[x] + 1] \in S /\ rank[s[rank[x] + 1]] = rank[x]
    BY <1>10, <2>1
  <2> QED BY <1>8, <2>1, <2>2
<1>13. ASSUME NEW i \in 1..n, NEW j \in 1..n
       PROVE  <<s[i], s[j]>> \in before <=> i < j
  <2>1. s[i] \in S /\ s[j] \in S /\ rank[s[i]] = i - 1 /\ rank[s[j]] = j - 1
    BY <1>10
  <2>2. <<s[i], s[j]>> \in before => i < j
    BY <1>1, <1>3, <2>1
  <2>3. <<s[j], s[i]>> \in before => j < i
    BY <1>1, <1>3, <2>1
  <2>4. s[i] = s[j] => i = j
    BY <1>1, <2>1
  <2>5. <<s[i], s[i]>> \notin before
    BY <2>1 DEF Linear
  <2>6. s[i] # s[j] => <<s[i], s[j]>> \in before \/ <<s[j], s[i]>> \in before
    BY <2>1 DEF Linear
  <2>7. ~ (i < i) /\ (i < j => ~ (j < i))
    BY <1>1
  <2> QED BY <2>2, <2>3, <2>4, <2>5, <2>6, <2>7
<1>14. Lists(s, n, S, before)
  BY <1>1, <1>11, <1>12, <1>13 DEF Lists
<1> QED BY <1>14 DEF s, n

(* There is only one such sequence.                                        *)
LEMMA ListedOnce ==
    ASSUME NEW n, NEW S, NEW before, NEW s, Lists(s, n, S, before),
           NEW t, Lists(t, n, S, before)
    PROVE  s = t
<1> DEFINE Bad == {i \in 1..n : s[i] # t[i]}
<1>1. n \in Nat /\ s \in [1..n -> S] /\ t \in [1..n -> S]
  BY DEF Lists
<1>2. ASSUME Bad # {} PROVE FALSE
  <2>1. Bad \in SUBSET Nat
    OBVIOUS
  <2>2. PICK i \in Bad : \A j \in Bad : i <= j
    <3> HIDE DEF Bad
    <3> QED BY <1>2, <2>1, Least
  <2>3. i \in 1..n /\ s[i] # t[i] /\ s[i] \in S /\ t[i] \in S
    BY <1>1
  <2>4. \A j \in 1..n : j < i => s[j] = t[j]
    BY <2>2
  <2>5. PICK j \in 1..n : t[j] = s[i]
    BY <2>3 DEF Lists
  <2>6. PICK k \in 1..n : s[k] = t[i]
    BY <2>3 DEF Lists
  <2>7. ~ (i < i) /\ <<s[i], s[i]>> \notin before /\ <<t[i], t[i]>> \notin before
    BY <2>3 DEF Lists
  <2>8. i < j
    <3>1. j # i
      BY <2>3, <2>5
    <3>2. ~ (j < i)
      <4>1. ASSUME j < i PROVE FALSE
        <5>1. s[j] = s[i]
          BY <2>4, <2>5, <4>1
        <5>2. <<s[j], s[i]>> \in before
          BY <2>3, <4>1 DEF Lists
        <5> QED BY <2>7, <5>1, <5>2
      <4> QED BY <4>1
    <3> QED BY <2>3, <3>1, <3>2
  <2>9. i < k
    <3>1. k # i
      BY <2>3, <2>6
    <3>2. ~ (k < i)
      <4>1. ASSUME k < i PROVE FALSE
        <5>1. t[k] = t[i]
          BY <2>4, <2>6, <4>1
        <5>2. <<t[k], t[i]>> \in before
          BY <2>3, <4>1 DEF Lists
        <5> QED BY <2>7, <5>1, <5>2
      <4> QED BY <4>1
    <3> QED BY <2>3, <3>1, <3>2
  <2>10. <<t[i], t[j]>> \in before
    BY <2>3, <2>8 DEF Lists
  <2>11. <<s[k], s[i]>> \in before
    BY <2>5, <2>6, <2>10
  <2>12. k < i
    BY <2>3, <2>11 DEF Lists
  <2> QED BY <2>3, <2>9, <2>12
<1>3. \A i \in 1..n : s[i] = t[i]
  BY <1>2
<1> HIDE DEF Bad
<1> QED BY <1>1, <1>3

(* Every position of such a sequence has a member of its own.              *)
LEMMA ListedApart ==
    ASSUME NEW n, NEW S, NEW before, NEW s, Lists(s, n, S, before),
           NEW i \in 1..n, NEW j \in 1..n, s[i] = s[j]
    PROVE  i = j
<1>1. ~ (i < j) /\ ~ (j < i)
  <2>1. ~ (i < i) /\ n \in Nat
    BY DEF Lists
  <2>2. <<s[i], s[i]>> \notin before
    BY <2>1 DEF Lists
  <2> QED BY <2>2 DEF Lists
<1> QED BY <1>1 DEF Lists

(* Sorting what is sorted in another order.                                *)
LEMMA ListsCompose ==
    ASSUME NEW n, NEW S, NEW first, NEW s, Lists(s, n, S, first),
           NEW again, NEW t, Lists(t, n, 1..n, again),
           NEW before,
           \A i, j \in 1..n : <<i, j>> \in again <=> <<s[i], s[j]>> \in before
    PROVE  Lists([i \in 1..n |-> s[t[i]]], n, S, before)
<1> DEFINE c == [i \in 1..n |-> s[t[i]]]
<1>1. n \in Nat /\ s \in [1..n -> S] /\ t \in [1..n -> 1..n]
  BY DEF Lists
<1>2. c \in [1..n -> S]
  BY <1>1
<1>3. ASSUME NEW x \in S PROVE \E i \in 1..n : c[i] = x
  <2>1. PICK j \in 1..n : s[j] = x
    BY DEF Lists
  <2>2. PICK i \in 1..n : t[i] = j
    BY DEF Lists
  <2> QED BY <2>1, <2>2
<1>4. ASSUME NEW i \in 1..n, NEW j \in 1..n
      PROVE  <<c[i], c[j]>> \in before <=> i < j
  <2>1. t[i] \in 1..n /\ t[j] \in 1..n /\ c[i] = s[t[i]] /\ c[j] = s[t[j]]
    BY <1>1
  <2>2. <<c[i], c[j]>> \in before <=> <<t[i], t[j]>> \in again
    BY <2>1
  <2> QED BY <2>2 DEF Lists
<1> HIDE DEF c
<1>5. Lists(c, n, S, before)
  BY <1>1, <1>2, <1>3, <1>4 DEF Lists
<1> QED BY <1>5 DEF c

(* The positions of a list in their own order.                             *)
LEMMA ByPositionLinear ==
    ASSUME NEW ks \in SUBSET Nat
    PROVE  Linear(ks, ByPosition(ks))
<1>1. ASSUME NEW j \in ks, NEW k \in ks PROVE <<j, k>> \in ByPosition(ks) <=> j < k
  BY DEF ByPosition
<1> QED BY <1>1 DEF Linear

LEMMA LengthIs ==
    ASSUME NEW n \in Nat, NEW s, s = [i \in 1..n |-> s[i]]
    PROVE  Len(s) = n /\ DOMAIN s = 1..n
<1> DEFINE T == {s[i] : i \in 1..n}
<1>1. s \in [1..n -> T]
  OBVIOUS
<1> HIDE DEF T
<1>2. s \in Seq(T)
  BY <1>1
<1>3. Len(s) \in Nat /\ DOMAIN s = 1..Len(s) /\ DOMAIN s = 1..n
  BY <1>1, <1>2
<1> QED BY <1>3

(* The sequence s has the elements of the list at the positions ks.        *)
HasElements(s, list, ks) ==
    /\ Cardinality(ks) \in Nat
    /\ Len(s) = Cardinality(ks) /\ DOMAIN s = 1..Cardinality(ks)
    /\ \A i \in DOMAIN s : \E k \in ks : s[i] = list[k]
    /\ \A k \in ks : \E i \in DOMAIN s : s[i] = list[k]

LEMMA ArrangedIs ==
    ASSUME NEW ks, IsFiniteSet(ks), NEW before, Linear(ks, before), NEW list
    PROVE  HasElements(Arranged(list, ks, before), list, ks)
<1> DEFINE n == Cardinality(ks)
           at == Ranked(ks, before)
           s == Arranged(list, ks, before)
<1>1. Lists(at, n, ks, before)
  BY RankedLists
<1>2. n \in Nat /\ at \in [1..n -> ks]
  BY <1>1 DEF Lists
<1>3. s = [i \in 1..n |-> list[at[i]]]
  BY <1>2 DEF Arranged
<1> HIDE DEF n, at, s
<1>4. s = [i \in 1..n |-> s[i]]
  BY <1>3
<1>5. Len(s) = n /\ DOMAIN s = 1..n
  BY <1>2, <1>4, LengthIs
<1>6. \A i \in 1..n : at[i] \in ks /\ s[i] = list[at[i]]
  BY <1>2, <1>3
<1>7. ASSUME NEW k \in ks PROVE \E i \in 1..n : s[i] = list[k]
  <2>1. PICK i \in 1..n : at[i] = k
    BY <1>1 DEF Lists
  <2> QED BY <1>6, <2>1
<1> QED BY <1>2, <1>5, <1>6, <1>7 DEF HasElements, n, s

LEMMA ChosenIs ==
    ASSUME NEW n \in Nat, NEW ks \in SUBSET (1..n), NEW list
    PROVE  HasElements(Chosen(list, ks), list, ks)
<1>1. IsFiniteSet(1..n)
  BY FS_Interval
<1>2. IsFiniteSet(ks)
  BY <1>1, FS_Subset
<1>3. ks \in SUBSET Nat
  OBVIOUS
<1> QED BY <1>2, <1>3, ByPositionLinear, ArrangedIs DEF Chosen

(* A map of S onto T that keeps the order takes the ranks of S to those    *)
(* of T.                                                                   *)
LEMMA RankedMapped ==
    ASSUME NEW S, IsFiniteSet(S), NEW before, Linear(S, before),
           NEW T, NEW after, Linear(T, after),
           NEW f \in Surjection(S, T),
           \A x, y \in S : <<x, y>> \in before <=> <<f[x], f[y]>> \in after
    PROVE  /\ Cardinality(T) = Cardinality(S)
           /\ Ranked(T, after) =
                 [i \in 1..Cardinality(S) |-> f[Ranked(S, before)[i]]]
<1> DEFINE n == Cardinality(S)
           s == Ranked(S, before)
           c == [i \in 1..n |-> f[s[i]]]
<1>1. Lists(s, n, S, before)
  BY RankedLists
<1>2. f \in [S -> T] /\ \A y \in T : \E x \in S : f[x] = y
  BY DEF Surjection
<1>3. IsFiniteSet(T)
  BY FS_Surjection
<1>4. \A x, y \in S : f[x] = f[y] => x = y
  BY <1>2 DEF Linear
<1>5. Cardinality(T) = n
  <2>1. f \in Injection(S, T)
    BY <1>2, <1>4 DEF Injection, IsInjective
  <2>2. ExistsBijection(S, T)
    BY <2>1 DEF ExistsBijection, Bijection
  <2> QED BY <2>2, FS_Bijection
<1>6. Lists(Ranked(T, after), n, T, after)
  BY <1>3, <1>5, RankedLists
<1> HIDE DEF n, s
<1>7. Lists(c, n, T, after)
  <2>1. n \in Nat /\ s \in [1..n -> S]
    BY <1>1 DEF Lists
  <2>2. c \in [1..n -> T]
    BY <1>2, <2>1
  <2>3. ASSUME NEW y \in T PROVE \E i \in 1..n : c[i] = y
    <3>1. PICK x \in S : f[x] = y
      BY <1>2
    <3>2. PICK i \in 1..n : s[i] = x
      BY <1>1 DEF Lists
    <3> QED BY <3>1, <3>2
  <2>4. ASSUME NEW i \in 1..n, NEW j \in 1..n
        PROVE  <<c[i], c[j]>> \in after <=> i < j
    <3>1. s[i] \in S /\ s[j] \in S
      BY <2>1
    <3>2. <<s[i], s[j]>> \in before <=> i < j
      BY <1>1 DEF Lists
    <3> QED BY <3>1, <3>2
  <2> HIDE DEF c
  <2> QED BY <2>1, <2>2, <2>3, <2>4 DEF Lists
<1>8. Ranked(T, after) = c
  <2> HIDE DEF c
  <2> QED BY <1>6, <1>7, ListedOnce
<1> QED BY <1>5, <1>8 DEF n, s

(* The positions, counted from the end.                                    *)
LEMMA TurnedPositions ==
    ASSUME NEW n \in Nat, NEW ks \in SUBSET (1..n), NEW turned,
           turned = {k \in 1..n : n + 1 - k \in ks}
    PROVE  /\ turned \in SUBSET (1..n)
           /\ [k \in ks |-> n + 1 - k] \in [ks -> turned]
           /\ \A k \in turned : n + 1 - k \in ks /\ n + 1 - (n + 1 - k) = k
           /\ Cardinality(turned) = Cardinality(ks)
<1> DEFINE f == [k \in ks |-> n + 1 - k]
<1>1. /\ f \in [ks -> turned] /\ turned \in SUBSET (1..n)
      /\ \A k \in turned : n + 1 - k \in ks /\ f[n + 1 - k] = k
      /\ \A j, k \in ks : f[j] = f[k] => j = k
      /\ \A k \in turned : n + 1 - (n + 1 - k) = k
  OBVIOUS
<1>2. IsFiniteSet(ks)
  <2>1. IsFiniteSet(1..n)
    BY FS_Interval
  <2> QED BY <2>1, FS_Subset
<1> HIDE DEF f
<1>3. f \in Surjection(ks, turned)
  BY <1>1 DEF Surjection
<1>4. f \in Injection(ks, turned)
  BY <1>1 DEF Injection, IsInjective
<1>5. ExistsBijection(ks, turned)
  BY <1>3, <1>4 DEF ExistsBijection, Bijection
<1>6. Cardinality(turned) = Cardinality(ks)
  BY <1>2, <1>5, FS_Bijection
<1> QED BY <1>1, <1>6 DEF f
============================================================================
