---------------------------- MODULE ReportsProofs ----------------------------
(***************************************************************************)
(* Proofs about what is made of a whole: the compact incident response,    *)
(* for any number of items, sources and sizes; the doctor, for any         *)
(* sources, services and bindings; the start and the service registry, for *)
(* any files and pages.                                                    *)
(***************************************************************************)
EXTENDS Reports, Facts

LEMMA OldestIs ==
    ASSUME NEW S \in SUBSET Nat, S # {}
    PROVE  Oldest(S) \in S /\ \A j \in S : Oldest(S) <= j
BY Least DEF Oldest

(* A set of natural numbers with a bound has a greatest member.            *)
LEMMA Greatest ==
    ASSUME NEW S \in SUBSET Nat, S # {}, NEW n \in Nat, \A i \in S : i <= n
    PROVE  \E i \in S : \A j \in S : j <= i
<1> DEFINE T == {n - i : i \in S}
<1>0. \A i \in S : i \in Nat /\ n - i \in Nat
  OBVIOUS
<1>1. T \in SUBSET Nat /\ T # {}
  BY <1>0
<1>2. PICK t \in T : \A u \in T : t <= u
  BY <1>1, Least
<1>3. PICK i \in S : t = n - i
  OBVIOUS
<1>4. \A j \in S : n - j \in T
  OBVIOUS
<1> HIDE DEF T
<1>5. \A j \in S : n - i <= n - j
  BY <1>2, <1>3, <1>4
<1> QED BY <1>5

----------------------------------------------------------------------------
(* All is finite, and so is every set of items.                            *)
LEMMA AllFinite ==
    ASSUME NEW n \in Nat
    PROVE  /\ IsFiniteSet(1..n) /\ Cardinality(1..n) = n
           /\ \A S \in SUBSET (1..n) :
                 /\ IsFiniteSet(S) /\ Cardinality(S) \in 0..n
                 /\ Cardinality(S) = n <=> S = 1..n
<1>1. IsFiniteSet(1..n) /\ Cardinality(1..n) = n
  BY FS_Interval
<1>2. ASSUME NEW S \in SUBSET (1..n)
      PROVE  /\ IsFiniteSet(S) /\ Cardinality(S) \in 0..n
             /\ Cardinality(S) = n <=> S = 1..n
  <2>1. /\ IsFiniteSet(S) /\ Cardinality(S) <= n
        /\ Cardinality(1..n) = Cardinality(S) => 1..n = S
    BY <1>1, FS_Subset
  <2>2. Cardinality(S) \in Nat
    BY <2>1, FS_CardinalityType
  <2> QED BY <1>1, <2>1, <2>2
<1> QED BY <1>1, <1>2

(* The newest items of a set are closed upwards in it.                     *)
LEMMA NewestOfIsUpper ==
    ASSUME NEW n \in Nat, NEW S \in SUBSET (1..n), NEW m \in Int
    PROVE  /\ NewestOf(S, m) \subseteq S
           /\ \A i \in NewestOf(S, m), j \in S : i <= j => j \in NewestOf(S, m)
<1>1. ASSUME NEW i \in NewestOf(S, m), NEW j \in S, i <= j
      PROVE  j \in NewestOf(S, m)
  <2> DEFINE Above(k) == {l \in S : k < l}
  <2>0. i \in Nat /\ j \in Nat /\ S \subseteq Nat
    BY DEF NewestOf
  <2>1. Above(j) \subseteq Above(i)
    <3> SUFFICES ASSUME NEW l \in S, j < l PROVE i < l
      OBVIOUS
    <3> QED BY <1>1, <2>0
  <2>2. IsFiniteSet(Above(i)) /\ Cardinality(Above(i)) \in Nat
        /\ Cardinality(Above(j)) \in Nat
    <3>1. Above(i) \in SUBSET (1..n) /\ Above(j) \in SUBSET (1..n)
      OBVIOUS
    <3>2. \A R \in SUBSET (1..n) : IsFiniteSet(R) /\ Cardinality(R) \in 0..n
      BY AllFinite
    <3>3. 0..n \subseteq Nat
      OBVIOUS
    <3> HIDE DEF Above
    <3> QED BY <3>1, <3>2, <3>3
  <2>3. Cardinality(Above(j)) <= Cardinality(Above(i))
    BY <2>1, <2>2, FS_Subset
  <2>4. Cardinality(Above(i)) < m
    BY DEF NewestOf
  <2> HIDE DEF Above
  <2>5. Cardinality(Above(j)) < m
    BY <2>2, <2>3, <2>4
  <2> QED BY <2>5 DEF NewestOf, Above
<1> QED BY <1>1 DEF NewestOf

(* The limit takes all items exactly if they are not more.                 *)
LEMMA NewestOfAll ==
    ASSUME NEW n \in Nat, NEW m \in Nat \ {0}
    PROVE  NewestOf(1..n, m) = 1..n <=> n <= m
<1> DEFINE Above(k) == {l \in 1..n : k < l}
<1>1. CASE n = 0
  BY <1>1 DEF NewestOf
<1>2. CASE n # 0
  <2>1. Above(1) = 2..n /\ Cardinality(Above(1)) = n - 1
    <3>1. Above(1) = 2..n
      OBVIOUS
    <3>2. Cardinality(2..n) = n - 1
      BY <1>2, FS_Interval
    <3> QED BY <3>1, <3>2
  <2>2. ASSUME NEW k \in 1..n
        PROVE  Cardinality(Above(k)) \in Nat /\ Cardinality(Above(k)) <= n - 1
    <3>1. Above(k) \subseteq Above(1) /\ IsFiniteSet(Above(1)) /\ IsFiniteSet(Above(k))
      BY AllFinite
    <3> QED BY <3>1, <2>1, FS_Subset, FS_CardinalityType
  <2>3. 1 \in 1..n
    BY <1>2
  <2> HIDE DEF Above
  <2>4. NewestOf(1..n, m) = {k \in 1..n : Cardinality(Above(k)) < m}
    BY DEF NewestOf, Above
  <2>5. CASE n <= m
    <3>1. \A k \in 1..n : Cardinality(Above(k)) < m
      BY <2>2, <2>5
    <3> QED BY <2>4, <2>5, <3>1
  <2>6. CASE m < n
    <3>1. 1 \notin NewestOf(1..n, m)
      BY <2>1, <2>4, <2>6
    <3> QED BY <2>3, <2>6, <3>1
  <2> QED BY <2>5, <2>6
<1> QED BY <1>1, <1>2
----------------------------------------------------------------------------
(* What the loop of trimToBudget relies on.  Written over what is kept,    *)
(* SourcesFirst is kept by a removal only because each removed item is the *)
(* oldest of those that may go.                                            *)

(* Newer items of a source stay as long as an older one.                   *)
NewerStay ==
    \A i \in kept, j \in All : sourceOf[i] = sourceOf[j] /\ i < j => j \in kept

(* A source that lost its last item is older than all that is kept.        *)
LostAreOldest ==
    \A j \in All : sourceOf[j] \notin SourcesIn(kept) =>
        Crowded = {} /\ \A i \in kept : j < i

Counted ==
    /\ bundle.omittedItems = count - Cardinality(kept)
    /\ Cardinality(kept) <= planned
    /\ bundle.selectionTruncated <=> planned < count
    /\ bundle.byteBudgetTruncated <=> Cardinality(kept) < planned

IInv ==
    /\ TypeOK
    /\ pc = "build" => bundle = NoLosses
    /\ pc = "trim" => compact /\ (bundle.truncated <=> sourceCut)
    /\ compact /\ pc # "build" => NewerStay /\ LostAreOldest /\ Counted
    /\ LossesCounted

LEMMA TypeFacts ==
    ASSUME TypeOK
    PROVE  /\ count \in Nat /\ count <= MaxCount /\ All = 1..count
           /\ kept \in SUBSET (1..count) /\ maxItems \in Nat \ {0}
           /\ \A i \in All : sourceOf[i] \in Contributors
BY IncidentAssumption DEF TypeOK, All

(* Each source with an item has a reserved one, at least as new.           *)
LEMMA ReservedOfEach ==
    ASSUME TypeOK, NEW j \in All
    PROVE  \E r \in Reserved : sourceOf[r] = sourceOf[j] /\ j <= r
<1> DEFINE Same == {i \in All : sourceOf[i] = sourceOf[j]}
<1>1. Same \in SUBSET Nat /\ j \in Same /\ \A i \in Same : i <= count
  BY TypeFacts
<1>2. PICK r \in Same : \A i \in Same : i <= r
  BY <1>1, TypeFacts, Greatest
<1>3. r \in Reserved
  BY <1>2 DEF Reserved
<1> QED BY <1>1, <1>2, <1>3

(* A source has no two reserved items.                                     *)
LEMMA ReservedOnce ==
    ASSUME TypeOK, NEW i \in Reserved, NEW j \in All, sourceOf[j] = sourceOf[i]
    PROVE  j <= i
BY DEF Reserved

LEMMA SelectedIs ==
    ASSUME TypeOK
    PROVE  /\ Selected \in SUBSET All
           /\ \A i \in Selected, j \in All :
                 sourceOf[i] = sourceOf[j] /\ i < j => j \in Selected
           /\ \A j \in All : sourceOf[j] \notin SourcesIn(Selected) =>
                 /\ Selected \subseteq Reserved
                 /\ \A i \in Selected : j < i
<1>0. count \in Nat /\ All = 1..count /\ maxItems \in Nat
  BY TypeFacts
<1>1. Reserved \in SUBSET All /\ Cardinality(Reserved) \in Nat
  <2>1. Reserved \in SUBSET All
    BY DEF Reserved
  <2> QED BY <2>1, <1>0, AllFinite
<1>2. CASE Cardinality(Reserved) > maxItems
  <2>1. Selected = NewestOf(Reserved, maxItems)
    BY <1>2 DEF Selected
  <2>2. Selected \subseteq Reserved
        /\ \A i \in Selected, j \in Reserved : i <= j => j \in Selected
    <3>1. Reserved \in SUBSET (1..count) /\ maxItems \in Int
      BY <1>0, <1>1
    <3> QED BY <2>1, <3>1, <1>0, NewestOfIsUpper
  <2>3. ASSUME NEW i \in Selected, NEW j \in All,
               sourceOf[i] = sourceOf[j], i < j
        PROVE  FALSE
    BY <2>2, <2>3, <1>0, <1>1, ReservedOnce
  <2>4. ASSUME NEW j \in All, sourceOf[j] \notin SourcesIn(Selected),
               NEW i \in Selected
        PROVE  j < i
    <3>1. PICK r \in Reserved : sourceOf[r] = sourceOf[j] /\ j <= r
      BY ReservedOfEach
    <3>2. r \notin Selected
      BY <3>1, <2>4 DEF SourcesIn
    <3>3. ~ (i <= r)
      BY <3>2, <2>2
    <3> QED BY <3>1, <3>3, <1>0, <1>1, <2>2
  <2>5. Selected \in SUBSET All
    BY <2>2, <1>1
  <2>6. \A i \in Selected, j \in All :
           sourceOf[i] = sourceOf[j] /\ i < j => j \in Selected
    BY <2>3
  <2>7. \A j \in All : sourceOf[j] \notin SourcesIn(Selected) =>
           Selected \subseteq Reserved /\ \A i \in Selected : j < i
    BY <2>2, <2>4
  <2> QED BY <2>5, <2>6, <2>7
<1>3. CASE ~ (Cardinality(Reserved) > maxItems)
  <2> DEFINE Rest == NewestOf(All \ Reserved, maxItems - Cardinality(Reserved))
  <2>1. Selected = Reserved \cup Rest
    BY <1>3 DEF Selected
  <2>2. All \ Reserved \in SUBSET (1..count)
        /\ maxItems - Cardinality(Reserved) \in Int
    BY <1>0, <1>1
  <2>3. Rest \subseteq All \ Reserved
        /\ \A i \in Rest, j \in All \ Reserved : i <= j => j \in Rest
    BY <2>2, <1>0, NewestOfIsUpper
  <2> HIDE DEF Rest
  <2>4. ASSUME NEW i \in Selected, NEW j \in All,
               sourceOf[i] = sourceOf[j], i < j
        PROVE  j \in Selected
    <3>1. i \notin Reserved
      <4>1. SUFFICES ASSUME i \in Reserved PROVE FALSE
        OBVIOUS
      <4>2. j <= i
        BY <4>1, <2>4, ReservedOnce
      <4>3. i \in Nat /\ j \in Nat
        BY <4>1, <1>0, <1>1
      <4> QED BY <4>2, <4>3, <2>4
    <3>2. i \in Rest
      BY <3>1, <2>1
    <3>3. i <= j
      BY <2>4, <1>0, <3>2, <2>3
    <3> QED BY <3>2, <3>3, <2>1, <2>3
  <2>5. ASSUME NEW j \in All
        PROVE  sourceOf[j] \in SourcesIn(Selected)
    BY <2>1, ReservedOfEach DEF SourcesIn
  <2> QED BY <2>1, <2>3, <2>4, <2>5, <1>1
<1> QED BY <1>2, <1>3

----------------------------------------------------------------------------
LEMMA InitIInv == Init => IInv
<1> SUFFICES ASSUME Init PROVE IInv
  OBVIOUS
<1>1. TypeOK
  BY IncidentAssumption DEF Init, TypeOK, All, NoLosses
<1> QED BY <1>1 DEF Init, IInv, LossesCounted

LEMMA TimelineKeepsIInv == ASSUME IInv, Timeline PROVE IInv'
<1>0. TypeOK /\ bundle = NoLosses /\ ~ compact
  BY DEF IInv, Timeline
<1>1. count \in Nat /\ All = 1..count /\ maxItems \in Nat \ {0}
      /\ maxItems \in Int /\ All \in SUBSET (1..count)
  BY <1>0, TypeFacts
<1>2. kept' = NewestOf(1..count, maxItems) /\ kept' \subseteq 1..count
      /\ (kept' = All <=> count <= maxItems)
  BY <1>1, NewestOfIsUpper, NewestOfAll DEF Timeline
<1>3. UNCHANGED inputs /\ All' = All
  BY DEF Timeline, inputs, All
<1>4. TypeOK'
  <2>1. bundle' \in [truncated : BOOLEAN, selectionTruncated : BOOLEAN,
                     byteBudgetTruncated : BOOLEAN, omittedItems : 0..MaxCount,
                     omittedSources : SUBSET Contributors]
    BY <1>0, IncidentAssumption DEF Timeline, NoLosses, TypeOK
  <2>2. planned' \in 0..count' /\ kept' \subseteq All' /\ pc' = "done"
    BY <1>1, <1>2, <1>3 DEF Timeline, inputs
  <2> QED BY <1>0, <1>3, <2>1, <2>2 DEF TypeOK, inputs
<1>5. LossesCounted'
  <2>1. bundle'.truncated <=> sourceCut \/ count > maxItems
    BY <1>0 DEF Timeline, NoLosses
  <2>2. bundle'.truncated <=> sourceCut \/ kept' # All
    BY <2>1, <1>1, <1>2
  <2> QED BY <1>0, <1>3, <2>2 DEF LossesCounted, inputs
<1> QED BY <1>0, <1>3, <1>4, <1>5 DEF IInv, Timeline, inputs

LEMMA SelectKeepsIInv == ASSUME IInv, Select PROVE IInv'
<1>0. TypeOK /\ bundle = NoLosses /\ compact
  BY DEF IInv, Select
<1>1. UNCHANGED inputs /\ All' = All
  BY DEF Select, inputs, All
<1>2. count \in Nat /\ count <= MaxCount /\ All = 1..count
  BY <1>0, TypeFacts
<1>3. kept' = Selected /\ kept' \in SUBSET (1..count)
      /\ planned' = Cardinality(kept') /\ planned' \in 0..count
  BY <1>0, <1>2, SelectedIs, AllFinite DEF Select
<1>4. TypeOK'
  <2>1. count - planned' \in 0..MaxCount
    BY <1>2, <1>3, IncidentAssumption
  <2>2. bundle' \in [truncated : BOOLEAN, selectionTruncated : BOOLEAN,
                     byteBudgetTruncated : BOOLEAN, omittedItems : 0..MaxCount,
                     omittedSources : SUBSET Contributors]
    <3>1. sourceCut \in BOOLEAN /\ (count > planned') \in BOOLEAN
      BY <1>0 DEF TypeOK
    <3>2. bundle' = [truncated |-> sourceCut, selectionTruncated |-> count > planned',
                     byteBudgetTruncated |-> FALSE, omittedItems |-> count - planned',
                     omittedSources |-> {}]
      BY <1>0 DEF Select, NoLosses
    <3> QED BY <2>1, <3>1, <3>2
  <2> QED BY <1>0, <1>1, <1>2, <1>3, <2>2 DEF Select, TypeOK, inputs
<1>5. NewerStay'
  BY <1>0, <1>1, <1>3, SelectedIs DEF NewerStay, inputs
<1>6. LostAreOldest'
  <2>1. SUFFICES ASSUME NEW j \in All, sourceOf[j] \notin SourcesIn(Selected)
                 PROVE  Crowded' = {} /\ \A i \in Selected : j < i
    BY <1>1, <1>3 DEF LostAreOldest, SourcesIn, inputs
  <2>2. Selected \subseteq Reserved /\ \A i \in Selected : j < i
    BY <1>0, <2>1, SelectedIs
  <2>3. \A i, k \in Selected : sourceOf[i] = sourceOf[k] => i <= k /\ k <= i
    BY <1>0, <2>2, ReservedOnce DEF Reserved
  <2>4. Selected \subseteq Nat
    BY <1>2, <1>3
  <2>5. \A i, k \in Selected : sourceOf[i] = sourceOf[k] => i = k
    BY <2>3, <2>4
  <2>6. Crowded' = {i \in Selected : \E k \in Selected \ {i} : sourceOf[k] = sourceOf[i]}
    BY <1>1, <1>3 DEF Crowded, inputs
  <2>7. Crowded' = {}
    BY <2>5, <2>6
  <2> QED BY <2>2, <2>7
<1>7. Counted' /\ (bundle.truncated' <=> sourceCut')
  <2>1. /\ bundle'.omittedItems = count - planned'
        /\ bundle'.selectionTruncated <=> count > planned'
        /\ bundle'.byteBudgetTruncated = FALSE
        /\ bundle'.truncated = sourceCut
    BY <1>0 DEF Select, NoLosses
  <2> QED BY <1>1, <1>2, <1>3, <2>1 DEF Counted, inputs
<1> QED BY <1>0, <1>1, <1>4, <1>5, <1>6, <1>7 DEF IInv, Select, LossesCounted, inputs

LEMMA DropKeepsIInv == ASSUME IInv, Drop PROVE IInv'
<1> DEFINE d == Oldest(Droppable)
<1>0. TypeOK /\ compact /\ NewerStay /\ LostAreOldest /\ Counted
      /\ (bundle.truncated <=> sourceCut)
  BY DEF IInv, Drop
<1>1. UNCHANGED inputs /\ All' = All /\ kept' = kept \ {d}
  BY DEF Drop, inputs, All
<1>2. count \in Nat /\ count <= MaxCount /\ All = 1..count
      /\ kept \in SUBSET (1..count)
  BY <1>0, TypeFacts
<1>3. Crowded \subseteq kept /\ Droppable \subseteq kept /\ Droppable # {}
  BY DEF Crowded, Droppable, Drop
<1>4. d \in Droppable /\ \A i \in Droppable : d <= i
  <2>1. Droppable \in SUBSET Nat
    BY <1>2, <1>3
  <2> QED BY <2>1, <1>3, OldestIs
<1> HIDE DEF d
<1>5. d \in kept /\ d \in Nat /\ kept \subseteq Nat
  BY <1>2, <1>3, <1>4
<1>6. Cardinality(kept') = Cardinality(kept) - 1 /\ Cardinality(kept) \in 1..count
  <2>1. IsFiniteSet(kept) /\ Cardinality(kept) \in 0..count
    BY <1>2, AllFinite
  <2>2. Cardinality(kept) # 0
    BY <2>1, <1>5, FS_EmptySet
  <2> QED BY <1>1, <1>5, <2>1, <2>2, FS_RemoveElement
<1>7. bundle' = [bundle EXCEPT !.omittedItems = bundle.omittedItems + 1,
                               !.byteBudgetTruncated = TRUE]
      /\ pc = "trim" /\ pc' = "trim" /\ planned' = planned
  BY DEF Drop
<1>8. Counted' /\ (bundle.truncated' <=> sourceCut')
  BY <1>0, <1>1, <1>2, <1>6, <1>7 DEF Counted, TypeOK, inputs
<1>9. TypeOK'
  <2>1. bundle'.omittedItems \in 0..MaxCount
    BY <1>0, <1>2, <1>6, <1>7, IncidentAssumption DEF Counted, TypeOK
  <2> QED BY <1>0, <1>1, <1>2, <1>7, <2>1 DEF TypeOK, inputs
<1>10. ASSUME NEW i \in kept \ {d}, NEW j \in All, sourceOf[i] = sourceOf[j], i < j
       PROVE  j \in kept \ {d}
  <2>1. j \in kept
    BY <1>0, <1>10 DEF NewerStay
  <2>2. i \in Crowded /\ i \in Droppable
    BY <2>1, <1>2, <1>10 DEF Crowded, Droppable
  <2> QED BY <2>1, <2>2, <1>4, <1>5, <1>10
<1>11. ASSUME NEW j \in All, sourceOf[j] \notin SourcesIn(kept \ {d})
       PROVE  Crowded' = {} /\ \A i \in kept \ {d} : j < i
  <2>1. CASE sourceOf[j] \notin SourcesIn(kept)
    <3>1. Crowded = {} /\ \A i \in kept : j < i
      BY <2>1, <1>0 DEF LostAreOldest
    <3>2. Crowded' = {}
      BY <3>1, <1>1 DEF Crowded, inputs
    <3> QED BY <3>1, <3>2
  <2>2. CASE sourceOf[j] \in SourcesIn(kept)
    <3>1. sourceOf[j] = sourceOf[d] /\ d \notin Crowded
      BY <2>2, <1>11, <1>5 DEF SourcesIn, Crowded
    <3>2. Crowded = {} /\ Droppable = kept
      BY <3>1, <1>4 DEF Droppable
    <3>3. Crowded' = {}
      BY <3>2, <1>1 DEF Crowded, inputs
    <3>4. ~ (d < j)
      <4>1. SUFFICES ASSUME d < j PROVE FALSE
        OBVIOUS
      <4>2. j \in kept /\ j # d
        BY <4>1, <3>1, <1>0, <1>5 DEF NewerStay
      <4> QED BY <4>2, <3>1, <1>5 DEF Crowded
    <3>5. \A i \in kept \ {d} : d < i
      BY <3>2, <1>4, <1>5
    <3> QED BY <3>3, <3>4, <3>5, <1>2, <1>5
  <2> QED BY <2>1, <2>2
<1>12. NewerStay' /\ LostAreOldest'
  BY <1>1, <1>10, <1>11 DEF NewerStay, LostAreOldest, SourcesIn, inputs
<1> QED BY <1>0, <1>1, <1>7, <1>8, <1>9, <1>12 DEF IInv, LossesCounted, inputs

LEMMA FinishKeepsIInv == ASSUME IInv, Finish PROVE IInv'
<1>0. TypeOK /\ compact /\ NewerStay /\ LostAreOldest /\ Counted
      /\ (bundle.truncated <=> sourceCut)
  BY DEF IInv, Finish
<1>1. UNCHANGED inputs /\ All' = All /\ kept' = kept /\ planned' = planned
      /\ pc' = "done"
  BY DEF Finish, inputs, All
<1>2. count \in Nat /\ All = 1..count /\ kept \in SUBSET (1..count)
      /\ Cardinality(kept) \in 0..count /\ (Cardinality(kept) = count <=> kept = All)
  BY <1>0, TypeFacts, AllFinite
<1>3. bundle' = [bundle EXCEPT
          !.truncated = bundle.truncated \/ bundle.selectionTruncated
                                         \/ bundle.byteBudgetTruncated,
          !.omittedSources = SourcesIn(All) \ SourcesIn(kept)]
  BY DEF Finish
<1>4. SourcesIn(All) \subseteq Contributors
  BY <1>0, TypeFacts DEF SourcesIn
<1>5. TypeOK'
  BY <1>0, <1>1, <1>3, <1>4 DEF TypeOK, inputs
<1>6. NewerStay' /\ LostAreOldest'
  BY <1>0, <1>1 DEF NewerStay, LostAreOldest, SourcesIn, Crowded, inputs
<1>7. Counted'
  BY <1>0, <1>1, <1>3 DEF Counted, TypeOK, inputs
<1>8. bundle'.truncated <=> sourceCut \/ kept # All
  BY <1>0, <1>2, <1>3 DEF Counted, TypeOK
<1>9. \A k \in Contributors : k \in bundle'.omittedSources <=>
         /\ \E i \in All : sourceOf[i] = k
         /\ \A i \in kept : sourceOf[i] # k
  BY <1>0, <1>3 DEF TypeOK, SourcesIn
<1>10. LossesCounted'
  BY <1>1, <1>7, <1>8, <1>9 DEF LossesCounted, Counted, inputs
<1> QED BY <1>0, <1>1, <1>5, <1>6, <1>7, <1>10 DEF IInv

LEMMA StepIInv == IInv /\ [Next]_vars => IInv'
<1> SUFFICES ASSUME IInv, [Next]_vars PROVE IInv'
  OBVIOUS
<1>1. CASE Timeline
  BY <1>1, TimelineKeepsIInv
<1>2. CASE Select
  BY <1>2, SelectKeepsIInv
<1>3. CASE Drop
  BY <1>3, DropKeepsIInv
<1>4. CASE Finish
  BY <1>4, FinishKeepsIInv
<1>5. CASE UNCHANGED vars
  BY <1>5 DEF IInv, vars, inputs, TypeOK, NewerStay, LostAreOldest, Counted,
              LossesCounted, SourcesIn, Crowded, All
<1> QED BY <1>1, <1>2, <1>3, <1>4, <1>5 DEF Next

(* The inductive invariant.                                                *)
LEMMA IInvCorrect == Spec => []IInv
BY InitIInv, StepIInv, PTL DEF Spec

(* The types of Incident, the sources left out and the counts of a bundle: *)
(* kept are items that the sources gave, omitted are no more than those.   *)
THEOREM TypeCorrect == Spec => []TypeOK
<1>1. IInv => TypeOK
  BY DEF IInv
<1> QED BY <1>1, IInvCorrect, PTL

(* Compact mode keeps the newest items of each source, and gives a source  *)
(* up only when no other has two items, the oldest first: compactIncident  *)
(* and trimToBudget, for any number of items, sources, sizes and budgets.  *)
THEOREM SourcesFirstCorrect == Spec => []SourcesFirst
<1>1. IInv => SourcesFirst
  BY DEF IInv, SourcesFirst, NewerStay, LostAreOldest
<1> QED BY <1>1, IInvCorrect, PTL

(* The counts, the causes and the omitted sources of an incident response  *)
(* are what was lost between the sources and the response.                 *)
THEOREM LossesCountedCorrect == Spec => []LossesCounted
<1>1. IInv => LossesCounted
  BY DEF IInv
<1> QED BY <1>1, IInvCorrect, PTL

----------------------------------------------------------------------------
(* The doctor *)

LEMMA StatusOfIs ==
    ASSUME NEW o
    PROVE  /\ D!StatusOf(o) \in D!Statuses \ {"unbound"}
           /\ D!StatusOf(o) = "ok" <=> o.status = "ok" /\ o.complete
<1>1. CASE o.status = "ok" /\ o.complete
  BY <1>1 DEF D!StatusOf, D!Statuses
<1>2. CASE o.status = "ok" /\ ~ o.complete
  BY <1>2 DEF D!StatusOf, D!Statuses
<1>3. CASE o.status # "ok"
  BY <1>3 DEF D!StatusOf, D!Statuses
<1> QED BY <1>1, <1>2, <1>3

(* D!Severity is a linear order of the statuses, "unbound" and "ok" first,   *)
(* and D!WorseStatus its maximum.                                            *)
LEMMA SeverityIs ==
    /\ \A s \in D!Statuses : D!Severity(s) \in 0..5
    /\ \A s, t \in D!Statuses : D!Severity(s) = D!Severity(t) => s = t
    /\ D!Severity("unbound") = 0 /\ D!Severity("ok") = 1
<1>1. D!Severity("unbound") = 0 /\ D!Severity("ok") = 1
  BY DEF D!Severity
<1>2. D!Severity("partial") = 2 /\ D!Severity("canceled") = 3
  BY DEF D!Severity
<1>3. D!Severity("timeout") = 4 /\ D!Severity("error") = 5
  BY DEF D!Severity
<1> QED BY <1>1, <1>2, <1>3 DEF D!Statuses

LEMMA WorseStatusIs ==
    ASSUME NEW s \in D!Statuses, NEW t \in D!Statuses
    PROVE  /\ D!WorseStatus(s, t) \in {s, t}
           /\ D!Severity(s) <= D!Severity(D!WorseStatus(s, t))
           /\ D!Severity(t) <= D!Severity(D!WorseStatus(s, t))
BY SeverityIs DEF D!WorseStatus

----------------------------------------------------------------------------
(* The status of one source is the worst of its bindings so far.           *)
Worst(x) ==
    /\ state[x].status = "unbound" <=> D!ProbedOf(x) = {}
    /\ \A b \in D!ProbedOf(x) :
          D!Severity(D!StatusOf(probed[b])) <= D!Severity(state[x].status)
    /\ D!ProbedOf(x) # {} =>
          \E b \in D!ProbedOf(x) : state[x].status = D!StatusOf(probed[b])

Told ==
    dpc = "done" =>
        /\ report.exit = 0 <=>
              \A b \in D!Bindings : /\ b \in DOMAIN probed
                                  /\ probed[b].status = "ok"
                                  /\ probed[b].complete
        /\ report.complete <=> report.exit = 0

DoctorInv == D!TypeOK /\ (\A x \in Doctored : Worst(x)) /\ Told

LEMMA DoctorInit == D!Init => DoctorInv
<1> SUFFICES ASSUME D!Init PROVE DoctorInv
  OBVIOUS
<1>0. DOMAIN probed = {}
  BY DEF D!Init
<1>1. D!TypeOK
  <2>1. DOMAIN state = Doctored /\ \A x \in Doctored : state[x].status \in D!Statuses
    BY DEF D!Init, D!Statuses
  <2>2. report.complete \in BOOLEAN /\ report.warnings \subseteq Doctored
        /\ report.exit \in 0..1
    <3>1. report = [complete |-> TRUE, warnings |-> {}, exit |-> 0]
      BY DEF D!Init
    <3> QED BY <3>1
  <2> QED BY <1>0, <2>1, <2>2 DEF D!Init, D!TypeOK, D!Contexts
<1>2. ASSUME NEW x \in Doctored PROVE Worst(x)
  <2>1. D!ProbedOf(x) = {} /\ state[x].status = "unbound"
    BY <1>0 DEF D!Init, D!ProbedOf
  <2> QED BY <2>1 DEF Worst
<1>3. Told
  BY DEF D!Init, Told
<1> QED BY <1>1, <1>2, <1>3 DEF DoctorInv

LEMMA ProbeKeeps ==
    ASSUME DoctorInv, NEW b \in D!Services \X Doctored, D!Probe(b)
    PROVE  DoctorInv'
<1>0. D!TypeOK /\ \A x \in Doctored : Worst(x)
  BY DEF DoctorInv
<1>1. PICK o \in D!Given :
          /\ probed' = [c \in DOMAIN probed \cup {b} |-> IF c = b THEN o ELSE probed[c]]
          /\ state' = [state EXCEPT ![b[2]] = D!Judge(state[b[2]], b, o)]
  BY DEF D!Probe
<1>2. /\ dpc = "probe" /\ dpc' = "probe" /\ b \in D!Bindings \ DOMAIN probed
      /\ UNCHANGED <<ctx, bound, report>> /\ D!Bindings' = D!Bindings
  BY DEF D!Probe, D!Bindings
<1>3. /\ DOMAIN probed' = DOMAIN probed \cup {b} /\ probed'[b] = o
      /\ \A c \in DOMAIN probed : probed'[c] = probed[c]
  BY <1>1, <1>2
<1>4. /\ DOMAIN state' = Doctored
      /\ state'[b[2]].status = D!WorseStatus(state[b[2]].status, D!StatusOf(o))
      /\ \A x \in Doctored \ {b[2]} : state'[x] = state[x]
  BY <1>0, <1>1 DEF D!TypeOK, D!Judge
<1>5. D!StatusOf(o) \in D!Statuses \ {"unbound"} /\ b[2] \in Doctored
  BY StatusOfIs
<1>6. state[b[2]].status \in D!Statuses /\ state'[b[2]].status \in D!Statuses
  BY <1>0, <1>4, <1>5, WorseStatusIs DEF D!TypeOK
<1>7. D!TypeOK'
  BY <1>0, <1>2, <1>3, <1>4, <1>6 DEF D!TypeOK
<1>8. ASSUME NEW x \in Doctored PROVE Worst(x)'
  <2>1. CASE x # b[2]
    <3>1. D!ProbedOf(x)' = D!ProbedOf(x) /\ state'[x] = state[x]
          /\ \A c \in D!ProbedOf(x) : probed'[c] = probed[c]
      BY <2>1, <1>3, <1>4 DEF D!ProbedOf
    <3>2. Worst(x)
      BY <1>0
    <3> QED BY <3>1, <3>2 DEF Worst
  <2>2. CASE x = b[2]
    <3> DEFINE before == state[x].status
               after == state'[x].status
    <3>1. D!ProbedOf(x)' = D!ProbedOf(x) \cup {b} /\ probed'[b] = o
          /\ \A c \in D!ProbedOf(x) : probed'[c] = probed[c]
      BY <2>2, <1>3 DEF D!ProbedOf
    <3>2. /\ before \in D!Statuses /\ after \in {before, D!StatusOf(o)}
          /\ D!Severity(before) <= D!Severity(after)
          /\ D!Severity(D!StatusOf(o)) <= D!Severity(after)
      BY <2>2, <1>4, <1>5, <1>6, WorseStatusIs
    <3>3. \A c \in D!ProbedOf(x)' : D!Severity(D!StatusOf(probed'[c])) <= D!Severity(after)
      <4>1. ASSUME NEW c \in D!ProbedOf(x)
            PROVE  D!Severity(D!StatusOf(probed[c])) <= D!Severity(after)
        <5>1. D!Severity(D!StatusOf(probed[c])) <= D!Severity(before)
          BY <1>0 DEF Worst
        <5>2. /\ D!Severity(before) \in Int /\ D!Severity(after) \in Int
              /\ D!Severity(D!StatusOf(probed[c])) \in Int
          BY <3>2, <1>5, StatusOfIs, SeverityIs
        <5> QED BY <5>1, <5>2, <3>2
      <4> QED BY <4>1, <3>1, <3>2
    <3>4. \E c \in D!ProbedOf(x)' : after = D!StatusOf(probed'[c])
      <4>1. CASE after = D!StatusOf(o)
        BY <4>1, <3>1
      <4>2. CASE after = before /\ D!ProbedOf(x) # {}
        <5>1. PICK c \in D!ProbedOf(x) : before = D!StatusOf(probed[c])
          BY <4>2, <1>0 DEF Worst
        <5> QED BY <5>1, <4>2, <3>1
      <4>3. CASE after = before /\ D!ProbedOf(x) = {}
        <5>1. before = "unbound"
          BY <4>3, <1>0 DEF Worst
        <5> QED BY <5>1, <4>3, <3>2, <1>5, SeverityIs
      <4> QED BY <4>1, <4>2, <4>3, <3>2
    <3>5. after # "unbound"
      BY <3>4, StatusOfIs
    <3> HIDE DEF before, after
    <3> QED BY <3>1, <3>3, <3>4, <3>5 DEF Worst, after
  <2> QED BY <2>1, <2>2
<1> QED BY <1>2, <1>7, <1>8 DEF DoctorInv, Told

LEMMA ReportKeeps == ASSUME DoctorInv, D!Report PROVE DoctorInv'
<1> DEFINE complete == \A x \in Doctored : D!SourceComplete(state[x])
<1>0. D!TypeOK /\ \A x \in Doctored : Worst(x)
  BY DEF DoctorInv
<1>1. /\ dpc' = "done" /\ D!Bindings \subseteq DOMAIN probed
      /\ UNCHANGED <<ctx, bound, probed, state>> /\ D!Bindings' = D!Bindings
  BY DEF D!Report, D!Bindings
<1>2. /\ report'.complete = complete /\ report'.exit = (IF complete THEN 0 ELSE 1)
      /\ report'.warnings = {x \in Doctored : state[x].status = "unbound"}
  BY DEF D!Report
<1>3. D!TypeOK'
  BY <1>0, <1>1, <1>2 DEF D!TypeOK, D!Bindings
<1>4. \A x \in Doctored : Worst(x)'
  BY <1>0, <1>1 DEF Worst, D!ProbedOf
<1>5. complete <=> \A b \in D!Bindings : D!StatusOf(probed[b]) = "ok"
  <2>1. ASSUME complete, NEW b \in D!Bindings PROVE D!StatusOf(probed[b]) = "ok"
    <3>1. b[2] \in Doctored /\ b \in D!ProbedOf(b[2])
      BY <1>1 DEF D!Bindings, D!ProbedOf
    <3>2. state[b[2]].status = "ok"
      BY <2>1, <3>1, <1>0 DEF D!SourceComplete, Worst
    <3>3. D!Severity(D!StatusOf(probed[b])) <= 1
      BY <3>1, <3>2, <1>0, SeverityIs DEF Worst
    <3>4. D!StatusOf(probed[b]) \in D!Statuses \ {"unbound"}
      BY StatusOfIs
    <3>5. D!Severity(D!StatusOf(probed[b])) \in 0..5 /\ D!Severity(D!StatusOf(probed[b])) # 0
      BY <3>4, SeverityIs DEF D!Statuses
    <3> QED BY <3>3, <3>4, <3>5, SeverityIs DEF D!Statuses
  <2>2. ASSUME \A b \in D!Bindings : D!StatusOf(probed[b]) = "ok", NEW x \in Doctored
        PROVE  D!SourceComplete(state[x])
    <3>1. D!ProbedOf(x) \subseteq D!Bindings
      BY <1>0 DEF D!ProbedOf, D!TypeOK
    <3> QED BY <2>2, <3>1, <1>0 DEF Worst, D!SourceComplete
  <2> QED BY <2>1, <2>2
<1> HIDE DEF complete
<1>6. Told'
  <2>1. \A b \in D!Bindings :
           D!StatusOf(probed[b]) = "ok" <=> probed[b].status = "ok" /\ probed[b].complete
    BY StatusOfIs
  <2> QED BY <1>1, <1>2, <1>5, <2>1 DEF Told
<1> QED BY <1>3, <1>4, <1>6 DEF DoctorInv

LEMMA DoctorStep == DoctorInv /\ [D!Next]_(D!vars) => DoctorInv'
<1> SUFFICES ASSUME DoctorInv, [D!Next]_(D!vars) PROVE DoctorInv'
  OBVIOUS
<1>1. ASSUME NEW b \in D!Services \X Doctored, D!Probe(b) PROVE DoctorInv'
  BY <1>1, ProbeKeeps
<1>2. CASE D!Report
  BY <1>2, ReportKeeps
<1>3. CASE D!Interrupt \/ D!Deadline
  BY <1>3 DEF D!Interrupt, D!Deadline, DoctorInv, D!TypeOK, Worst, Told, D!ProbedOf,
              D!Bindings, D!Contexts
<1>4. CASE UNCHANGED D!vars
  BY <1>4 DEF D!vars, DoctorInv, D!TypeOK, Worst, Told, D!ProbedOf, D!Bindings
<1> QED BY <1>1, <1>2, <1>3, <1>4 DEF D!Next

(* What --doctor says of a source is the worst of what its bindings gave,  *)
(* and its exit code is 0 exactly if all of them gave all (Doctor,         *)
(* worseDoctorStatus), for any configuration.                              *)
THEOREM DoctorTruthfulCorrect == D!Spec => []DoctorTruthful
<1>1. DoctorInv => DoctorTruthful
  BY DEF DoctorInv, DoctorTruthful, D!DoctorTruthful, Worst, Told
<1> QED BY <1>1, DoctorInit, DoctorStep, PTL DEF D!Spec

----------------------------------------------------------------------------
(* The start *)

LEMMA SameCardinality == ASSUME NEW S PROVE Start!Cardinality(S) = Cardinality(S)
BY DEF Start!Cardinality, Cardinality

(* Of the members of a set of numbers as many as up to each of them: that  *)
(* counts them in their order.                                             *)
LEMMA AscendingExists ==
    ASSUME NEW S \in SUBSET Nat, IsFiniteSet(S)
    PROVE  \E s \in [1..Cardinality(S) -> S] :
              \A i, j \in DOMAIN s : i < j => s[i] < s[j]
<1> DEFINE n == Cardinality(S)
           UpTo(x) == {y \in S : y <= x}
           rank == [x \in S |-> Cardinality(UpTo(x))]
<1>1. n \in Nat /\ IsFiniteSet(1..n) /\ Cardinality(1..n) = n
  BY FS_CardinalityType, FS_Interval
<1>2. ASSUME NEW x \in S
      PROVE  /\ IsFiniteSet(UpTo(x)) /\ rank[x] = Cardinality(UpTo(x))
             /\ rank[x] \in 1..n
  <2>1. IsFiniteSet(UpTo(x)) /\ Cardinality(UpTo(x)) <= n
    BY FS_Subset
  <2>2. x \in UpTo(x)
    OBVIOUS
  <2>3. Cardinality(UpTo(x)) \in Nat /\ Cardinality(UpTo(x)) # 0
    BY <2>1, <2>2, FS_CardinalityType, FS_EmptySet
  <2> QED BY <1>1, <2>1, <2>3
<1>3. ASSUME NEW x \in S, NEW y \in S, x < y PROVE rank[x] < rank[y]
  <2>1. UpTo(x) \subseteq UpTo(y) /\ y \in UpTo(y) \ UpTo(x)
    <3>1. x \in Nat /\ y \in Nat
      OBVIOUS
    <3>2. \A z \in S : z \in Nat /\ (z <= x => z <= y)
      BY <1>3, <3>1
    <3>3. y <= y /\ ~ (y <= x)
      BY <1>3, <3>1
    <3> QED BY <3>2, <3>3
  <2>2. UpTo(x) \in SUBSET UpTo(y) /\ UpTo(x) # UpTo(y)
    BY <2>1
  <2> HIDE DEF UpTo, rank
  <2>3. Cardinality(UpTo(x)) <= Cardinality(UpTo(y))
        /\ Cardinality(UpTo(x)) # Cardinality(UpTo(y))
    BY <1>2, <2>2, FS_Subset
  <2>4. rank[x] \in Nat /\ rank[y] \in Nat
    BY <1>1, <1>2
  <2> QED BY <1>2, <2>3, <2>4
<1>4. rank \in [S -> 1..n]
  BY <1>2
<1> HIDE DEF rank
<1>5. ASSUME NEW x \in S, NEW y \in S, rank[x] = rank[y] PROVE x = y
  <2>1. ~ (x < y) /\ ~ (y < x)
    <3>1. rank[x] \in 1..n /\ rank[y] \in 1..n
      BY <1>2
    <3> QED BY <1>3, <1>5, <3>1
  <2> QED BY <2>1
<1>6. \A k \in 1..n : \E x \in S : rank[x] = k
  <2>1. rank \in Injection(S, 1..n)
    BY <1>4, <1>5 DEF Injection, IsInjective
  <2>2. rank \in Surjection(S, 1..n)
    BY <1>1, <2>1, FS_Injection
  <2> QED BY <2>2 DEF Surjection
<1> DEFINE s == [k \in 1..n |-> CHOOSE x \in S : rank[x] = k]
<1>7. \A k \in 1..n : s[k] \in S /\ rank[s[k]] = k
  BY <1>6
<1>8. s \in [1..n -> S] /\ DOMAIN s = 1..n
  BY <1>6
<1> HIDE DEF s
<1>9. ASSUME NEW i \in 1..n, NEW j \in 1..n, i < j PROVE s[i] < s[j]
  <2>1. s[i] \in Nat /\ s[j] \in Nat
    BY <1>7
  <2>2. ~ (s[j] < s[i]) /\ s[i] # s[j]
    <3>1. s[i] # s[j]
      BY <1>7, <1>9
    <3>2. s[j] < s[i] => rank[s[j]] < rank[s[i]]
      BY <1>3, <1>7
    <3> QED BY <1>7, <1>9, <3>1, <3>2
  <2> QED BY <2>1, <2>2
<1> QED BY <1>8, <1>9

LEMMA AscendingIs ==
    ASSUME NEW S \in SUBSET Nat, IsFiniteSet(S), NEW a, a = Start!Ascending(S)
    PROVE  /\ Cardinality(S) \in Nat /\ a \in [1..Cardinality(S) -> S]
           /\ \A i, j \in 1..Cardinality(S) : i < j => a[i] < a[j]
           /\ a \in Surjection(1..Cardinality(S), S)
<1> DEFINE n == Cardinality(S)
<1>1. n \in Nat /\ IsFiniteSet(1..n) /\ Cardinality(1..n) = n
  BY FS_CardinalityType, FS_Interval
<1>2. a \in [1..n -> S] /\ \A i, j \in DOMAIN a : i < j => a[i] < a[j]
  <2> DEFINE Right(s) == \A i, j \in DOMAIN s : i < j => s[i] < s[j]
  <2>1. \E s \in [1..n -> S] : Right(s)
    BY AscendingExists
  <2>2. a = CHOOSE s \in [1..n -> S] : Right(s)
    BY SameCardinality DEF Start!Ascending
  <2> HIDE DEF Right, n
  <2>3. a \in [1..n -> S] /\ Right(a)
    BY <2>1, <2>2
  <2> QED BY <2>3 DEF Right
<1>3. \A i, j \in 1..n : i < j => a[i] < a[j]
  BY <1>2
<1>4. ASSUME NEW i \in 1..n, NEW j \in 1..n, a[i] = a[j] PROVE i = j
  <2>1. a[i] \in Nat /\ a[j] \in Nat
    BY <1>2
  <2> QED BY <1>1, <1>3, <1>4, <2>1
<1>5. a \in Surjection(1..n, S)
  <2>1. a \in Injection(1..n, S)
    BY <1>2, <1>4 DEF Injection, IsInjective
  <2> HIDE DEF n
  <2>2. Cardinality(1..n) = Cardinality(S)
    BY <1>1 DEF n
  <2> QED BY <2>1, <2>2, FS_Injection
<1> QED BY <1>1, <1>2, <1>3, <1>5

(* The ids of a registry, each once, in their order.                       *)
LEMMA OrderIs ==
    ASSUME NEW n \in Nat, NEW services, DOMAIN services = 1..n,
           \A i \in 1..n : services[i].id \in Nat,
           \A i, j \in 1..n : services[i].id = services[j].id => i = j,
           NEW ids, \A i \in 1..n : services[i].id \in ids,
           \A id \in ids : \E i \in 1..n : services[i].id = id,
           NEW o, o = Start!RegistryOrder(services)
    PROVE  /\ o \in [1..n -> Nat]
           /\ \A i, j \in 1..n : i < j => o[i] < o[j]
           /\ o \in Surjection(1..n, ids)
<1> DEFINE Sorted(s) == \A i, j \in DOMAIN services : i < j => s[i] <= s[j]
           Places(s, id) == {i \in DOMAIN services : s[i] = id}
           Given(id) == {i \in DOMAIN services : services[i].id = id}
           f == [i \in 1..n |-> services[i].id]
<1>1. IsFiniteSet(1..n) /\ Cardinality(1..n) = n
  BY FS_Interval
<1>2. IsFiniteSet(ids) /\ Cardinality(ids) = n /\ ids \in SUBSET Nat
  <2>1. f \in Surjection(1..n, ids)
    BY DEF Surjection
  <2>2. f \in Injection(1..n, ids)
    BY DEF Injection, IsInjective
  <2> HIDE DEF f
  <2>3. IsFiniteSet(ids) /\ Cardinality(ids) = Cardinality(1..n)
    BY <1>1, <2>1, <2>2, FS_Surjection
  <2> QED BY <1>1, <2>3
<1>3. ASSUME NEW id \in ids PROVE Cardinality(Given(id)) = 1
  <2>1. PICK i \in 1..n : services[i].id = id
    OBVIOUS
  <2>2. Given(id) = {i}
    BY <2>1
  <2> HIDE DEF Given
  <2> QED BY <2>2, FS_Singleton
<1>4. PICK a : /\ a \in [1..n -> ids]
               /\ \A i, j \in 1..n : i < j => a[i] < a[j]
               /\ a \in Surjection(1..n, ids)
  <2>1. PICK a : a = Start!Ascending(ids)
    OBVIOUS
  <2>2. IsFiniteSet(ids) /\ ids \in SUBSET Nat
    BY <1>2
  <2>3. /\ a \in [1..Cardinality(ids) -> ids]
        /\ \A i, j \in 1..Cardinality(ids) : i < j => a[i] < a[j]
        /\ a \in Surjection(1..Cardinality(ids), ids)
    BY <2>1, <2>2, AscendingIs
  <2>4. Cardinality(ids) = n
    BY <1>2
  <2> QED BY <2>3, <2>4
<1>5. Sorted(a)
  <2>1. \A i \in 1..n : a[i] \in Nat
    BY <1>2, <1>4
  <2> QED BY <1>4, <2>1
<1>6. ASSUME NEW id \in ids PROVE Cardinality(Places(a, id)) = 1
  <2>1. PICK k \in 1..n : a[k] = id
    BY <1>4 DEF Surjection
  <2>2. ASSUME NEW i \in 1..n, a[i] = id PROVE i = k
    <3>1. a[i] \in Nat /\ ~ (a[i] < a[k]) /\ ~ (a[k] < a[i])
      BY <1>2, <1>4, <2>1, <2>2
    <3>2. ~ (i < k) /\ ~ (k < i)
      BY <1>4, <3>1
    <3> QED BY <3>2
  <2>3. Places(a, id) = {k}
    BY <2>1, <2>2
  <2> HIDE DEF Places
  <2> QED BY <2>3, FS_Singleton
<1>7. /\ o \in [1..n -> ids] /\ Sorted(o)
      /\ \A id \in ids : Cardinality(Places(o, id)) = Cardinality(Given(id))
  <2> DEFINE Right(s) ==
               /\ Sorted(s)
               /\ \A id \in ids : Start!Cardinality(Places(s, id))
                                  = Start!Cardinality(Given(id))
  <2>1. a \in [DOMAIN services -> ids] /\ Right(a)
    <3> HIDE DEF Sorted, Places, Given
    <3> QED BY <1>3, <1>4, <1>5, <1>6, SameCardinality
  <2>2. o = CHOOSE s \in [DOMAIN services -> ids] : Right(s)
    <3>1. ids = {services[i].id : i \in DOMAIN services}
      OBVIOUS
    <3> QED BY <3>1 DEF Start!RegistryOrder
  <2> HIDE DEF Right
  <2>3. o \in [DOMAIN services -> ids] /\ Right(o)
    BY <2>1, <2>2
  <2>4. Sorted(o) /\ \A id \in ids : Start!Cardinality(Places(o, id))
                                     = Start!Cardinality(Given(id))
    BY <2>3 DEF Right
  <2> HIDE DEF Sorted, Places, Given
  <2> QED BY <2>3, <2>4, SameCardinality
<1>8. ASSUME NEW i \in 1..n, NEW j \in 1..n, o[i] = o[j] PROVE i = j
  <2>1. o[i] \in ids
    <3> HIDE DEF Sorted, Places, Given
    <3> QED BY <1>7
  <2>2. Cardinality(Places(o, o[i])) = 1
    <3> HIDE DEF Sorted, Places, Given
    <3> QED BY <1>3, <1>7, <2>1
  <2>3. IsFiniteSet(Places(o, o[i]))
    BY <1>1, FS_Subset
  <2>4. i \in Places(o, o[i]) /\ j \in Places(o, o[i])
    BY <1>8
  <2> HIDE DEF Places
  <2> QED BY <2>2, <2>3, <2>4, FS_Singleton
<1>9. o \in [1..n -> Nat] /\ \A i, j \in 1..n : i < j => o[i] < o[j]
  <2>1. o \in [1..n -> Nat]
    <3> HIDE DEF Sorted, Places, Given
    <3> QED BY <1>2, <1>7
  <2>2. \A i, j \in 1..n : i < j => o[i] <= o[j]
    BY <1>7
  <2>3. ASSUME NEW i \in 1..n, NEW j \in 1..n, i < j PROVE o[i] < o[j]
    <3>1. o[i] \in Nat /\ o[j] \in Nat /\ o[i] # o[j] /\ o[i] <= o[j]
      BY <1>8, <2>1, <2>2, <2>3
    <3> QED BY <3>1
  <2> QED BY <2>1, <2>3
<1>10. o \in Surjection(1..n, ids)
  <2> HIDE DEF Sorted, Places, Given
  <2>1. o \in Injection(1..n, ids)
    BY <1>7, <1>8 DEF Injection, IsInjective
  <2> QED BY <1>1, <1>2, <2>1, FS_Injection
<1> QED BY <1>9, <1>10

(* The ids that match, of an order without repetition.                     *)
LEMMA MatchedIs ==
    ASSUME NEW n \in Nat, order \in [1..n -> Nat],
           \A i, j \in 1..n : i < j => order[i] < order[j],
           NEW matching, matching \subseteq {order[i] : i \in DOMAIN order},
           NEW m, m = Start!Matched(matching)
    PROVE  /\ m \in Seq(Nat) /\ Len(m) \in Nat
           /\ \A i, j \in DOMAIN m : i < j => m[i] < m[j]
           /\ {m[i] : i \in DOMAIN m} = matching
<1> DEFINE S == {i \in DOMAIN order : order[i] \in matching}
           k == Cardinality(S)
<1>1. S \in SUBSET Nat /\ S \subseteq 1..n /\ IsFiniteSet(S)
  <2>1. S \in SUBSET (1..n) /\ IsFiniteSet(1..n)
    BY FS_Interval
  <2> HIDE DEF S
  <2> QED BY <2>1, FS_Subset
<1>2. PICK a : a = Start!Ascending(S)
  OBVIOUS
<1>3. /\ k \in Nat /\ a \in [1..k -> S]
      /\ \A i, j \in 1..k : i < j => a[i] < a[j]
      /\ a \in Surjection(1..k, S)
  <2> HIDE DEF S
  <2> QED BY <1>1, <1>2, AscendingIs
<1>4. m = [l \in 1..k |-> order[a[l]]]
  <2>1. m = [l \in DOMAIN a |-> order[a[l]]]
    BY <1>2 DEF Start!Matched
  <2> HIDE DEF S, k
  <2> QED BY <1>3, <2>1
<1>5. \A l \in 1..k : a[l] \in 1..n /\ order[a[l]] \in Nat /\ order[a[l]] \in matching
  <2>1. \A l \in 1..k : a[l] \in S
    BY <1>3
  <2> QED BY <1>1, <2>1
<1>6. m \in Seq(Nat) /\ DOMAIN m = 1..k /\ Len(m) \in Nat
  <2> HIDE DEF k, S
  <2> QED BY <1>3, <1>4, <1>5
<1>7. \A i, j \in 1..k : i < j => m[i] < m[j]
  <2> HIDE DEF k, S
  <2> QED BY <1>3, <1>4, <1>5
<1>8. ASSUME NEW id \in matching PROVE \E l \in 1..k : m[l] = id
  <2>1. PICK i \in DOMAIN order : order[i] = id
    OBVIOUS
  <2>2. i \in S
    BY <2>1
  <2> HIDE DEF S, k
  <2>3. PICK l \in 1..k : a[l] = i
    BY <1>3, <2>2 DEF Surjection
  <2> QED BY <1>4, <2>1, <2>3
<1>9. {m[i] : i \in 1..k} = matching
  <2> HIDE DEF S, k
  <2>1. \A i \in 1..k : m[i] \in matching
    BY <1>4, <1>5
  <2> QED BY <1>8, <2>1
<1> QED BY <1>6, <1>7, <1>9

----------------------------------------------------------------------------
(* A source that Parse accepts has none of the faults that HeadersArrive   *)
(* depends on.                                                             *)
LEMMA SourceSound ==
    ASSUME NEW s, ~ Start!Faulty(Start!SourceFaults(s))
    PROVE  /\ s.kind \in Start!SourceKinds
           /\ s.kind = "healthchecks" => s.auth # {}
           /\ \A g, h \in s.headers : g.name = h.name => g = h
           /\ s.auth # {} => \A h \in s.headers : h.name # Start!AuthName(s)
<1> DEFINE faults == Start!SourceFaults(s)
<1>1. \A f \in DOMAIN faults : ~ faults[f]
  BY DEF Start!Faulty
<1>2. ~ faults["kind"] /\ ~ faults["token"] /\ ~ faults["duplicate"]
      /\ ~ faults["collision"]
  <2>1. {"kind", "token", "duplicate", "collision"} \subseteq DOMAIN faults
    BY DEF Start!SourceFaults
  <2> HIDE DEF faults
  <2> QED BY <1>1, <2>1
<1>3. s.kind \in Start!SourceKinds
  BY <1>2 DEF Start!SourceFaults
<1>4. s.kind = "healthchecks" => s.auth # {}
  BY <1>2 DEF Start!SourceFaults
<1>5. ~ \E g, h \in s.headers : g # h /\ g.name = h.name
  BY <1>2 DEF Start!SourceFaults
<1>6. ~ (s.auth # {} /\ \E h \in s.headers : h.name = Start!AuthName(s))
  BY <1>2 DEF Start!SourceFaults
<1> QED BY <1>3, <1>4, <1>5, <1>6

(* What is sent for such a source, whatever the order of the iteration.    *)
LEMMA HeadersSent ==
    ASSUME NEW s, ~ Start!Faulty(Start!SourceFaults(s)),
           NEW sent \in Start!AuthHeaders(s, Start!TokenOf(s))
    PROVE  /\ \A h \in s.headers : sent[h.name] = h.spelling
           /\ s.auth # {} => sent[Start!AuthName(s)] = "token"
           /\ s.kind = "healthchecks" =>
                 "x-api-key" \in DOMAIN sent \/ s.tokenHeader # Start!NoHeader
<1> DEFINE names == {h.name : h \in s.headers}
           static == {m \in [names -> {h.spelling : h \in s.headers}] :
                         \A n \in names : [name |-> n, spelling |-> m[n]] \in s.headers}
           auth == Start!AuthName(s)
<1>1. ASSUME NEW m \in static, NEW h \in s.headers
      PROVE  m[h.name] = h.spelling
  <2>1. PICK g \in s.headers : g = [name |-> h.name, spelling |-> m[h.name]]
    OBVIOUS
  <2>2. g.name = h.name /\ g.spelling = m[h.name]
    BY <2>1
  <2>3. g = h
    BY <2>2, SourceSound
  <2> QED BY <2>2, <2>3
<1>2. CASE s.auth = {}
  <2>1. Start!TokenOf(s) = "" /\ s.kind # "healthchecks"
    BY <1>2, SourceSound DEF Start!TokenOf
  <2>2. sent \in static
    BY <2>1 DEF Start!AuthHeaders
  <2> HIDE DEF static
  <2> QED BY <1>1, <1>2, <2>1, <2>2
<1>3. CASE s.auth # {}
  <2>1. Start!TokenOf(s) = "token" /\ "token" # ""
    BY <1>3 DEF Start!TokenOf
  <2>2. PICK m \in static : sent = [n \in names \cup {auth} |->
                                      IF n = auth THEN "token" ELSE m[n]]
    BY <2>1 DEF Start!AuthHeaders
  <2>3. \A h \in s.headers : h.name # auth /\ h.name \in names
    BY <1>3, SourceSound
  <2>4. s.kind = "healthchecks" /\ s.tokenHeader = Start!NoHeader => auth = "x-api-key"
    BY DEF Start!AuthName
  <2> HIDE DEF names, static, auth
  <2>5. sent[auth] = "token" /\ auth \in DOMAIN sent
    BY <2>2
  <2>6. \A h \in s.headers : sent[h.name] = h.spelling
    BY <1>1, <2>2, <2>3
  <2> QED BY <2>4, <2>5, <2>6 DEF auth
<1> QED BY <1>2, <1>3

----------------------------------------------------------------------------
(* A setting that Parse accepts lies between the bounds of its rule.       *)
LEMMA DurationKept ==
    ASSUME NEW rule, NEW raw, raw.value \in Int,
           rule.min \in Nat \ {0}, rule.default \in Nat \ {0}, rule.kind # "count",
           Start!Accepted(rule, raw)
    PROVE  Start!Kept(rule, raw) \in Nat \ {0}
BY DEF Start!Accepted, Start!Kept

LEMMA CountKept ==
    ASSUME NEW rule, NEW raw, raw.value \in Int, rule.default \in Nat \ {0},
           rule.kind = "count"
    PROVE  Start!Kept(rule, raw) \in Nat \ {0}
BY DEF Start!Kept

LEMMA LimitsSound ==
    ASSUME NEW raw, \A f \in DOMAIN Start!LimitRules : raw[f].value \in Int,
           ~ Start!Faulty(Start!LimitFaults(raw)),
           NEW l, l = Start!Limits(raw)
    PROVE  /\ 0 < l.per_source_timeout /\ l.per_source_timeout <= l.total_timeout
           /\ 0 < l.default_window /\ l.default_window <= l.max_incident_window
           /\ \A f \in {"max_log_lines", "max_evidence_items", "max_log_line_bytes",
                        "max_body_bytes", "max_incident_response_bytes",
                        "evidence_cache_ttl", "evidence_cache_max_bytes",
                        "max_tool_calls_per_minute", "max_concurrent_tools"} : 0 < l[f]
<1> DEFINE rules == Start!LimitRules
           faults == Start!LimitFaults(raw)
           wanted == {"per_source_timeout", "total_timeout", "default_window",
                      "max_incident_window", "max_log_lines", "max_evidence_items",
                      "max_log_line_bytes", "max_body_bytes",
                      "max_incident_response_bytes", "evidence_cache_ttl",
                      "evidence_cache_max_bytes", "max_tool_calls_per_minute",
                      "max_concurrent_tools"}
<1>1. wanted \subseteq DOMAIN rules
  BY DEF Start!LimitRules
<1>2. DOMAIN faults = DOMAIN rules
  BY DEF Start!LimitFaults
<1>3. \A f \in DOMAIN rules : ~ faults[f]
  <2> HIDE DEF faults, rules
  <2> QED BY <1>2 DEF Start!Faulty, faults
<1>4. \A f \in DOMAIN rules : Start!Accepted(rules[f], raw[f])
  BY <1>3 DEF Start!LimitFaults
<1>5. ~ (l.total_timeout < l.per_source_timeout)
  <2>1. ~ faults["total_timeout"]
    <3> HIDE DEF faults, rules
    <3> QED BY <1>1, <1>3
  <2> QED BY <1>1, <2>1 DEF Start!LimitFaults
<1>6. ~ (l.default_window > l.max_incident_window)
  <2>1. ~ faults["default_window"]
    <3> HIDE DEF faults, rules
    <3> QED BY <1>1, <1>3
  <2> QED BY <1>1, <2>1 DEF Start!LimitFaults
<1>7. ASSUME NEW f \in wanted PROVE l[f] = Start!Kept(rules[f], raw[f])
  BY <1>1 DEF Start!Limits
<1>8. ASSUME NEW f \in wanted
      PROVE  /\ rules[f].default \in Nat \ {0}
             /\ rules[f].kind # "count" => rules[f].min \in Nat \ {0}
  BY DEF Start!LimitRules, Start!Duration, Start!Count, Start!Optional
<1>9. ASSUME NEW f \in wanted PROVE l[f] \in Nat \ {0}
  <2>1. f \in DOMAIN rules
    BY <1>1
  <2> HIDE DEF rules, wanted
  <2>2. raw[f].value \in Int /\ Start!Accepted(rules[f], raw[f])
    BY <1>4, <2>1 DEF rules
  <2>3. Start!Kept(rules[f], raw[f]) \in Nat \ {0}
    BY <1>8, <2>2, DurationKept, CountKept
  <2> QED BY <1>7, <2>3
<1>10. ASSUME NEW f \in wanted PROVE 0 < l[f]
  BY <1>9
<1> HIDE DEF rules, faults
<1> QED BY <1>5, <1>6, <1>9, <1>10

----------------------------------------------------------------------------
(* The server started, or --validate accepted the file.                    *)
Served == step = "serve" \/ (step = "exit" /\ code = 0)

(* The client maps hold every source under its kind, with its headers.     *)
ClientsRight ==
    \A k \in Start!SourceKinds :
        /\ DOMAIN clients[k] = {n \in DOMAIN file.sources : file.sources[n].kind = k}
        /\ \A n \in DOMAIN clients[k] :
              clients[k][n] \in Start!AuthHeaders(file.sources[n],
                                                  Start!TokenOf(file.sources[n]))

Ids == {file.services[i].id : i \in DOMAIN file.services}

(* The registry holds every id once, in their order.                       *)
OrderRight ==
    \E n \in Nat : /\ order \in [1..n -> Nat]
                   /\ \A i, j \in 1..n : i < j => order[i] < order[j]
                   /\ order \in Surjection(1..n, Ids)

(* What a host has read is the beginning of what matches, up to its        *)
(* offset, and all of it at the end.                                       *)
ReaderRight ==
    LET all == Start!Matched(reader.matching)
    IN  /\ step = "serve"
        /\ reader \in [matching : SUBSET {order[i] : i \in DOMAIN order}, limit : Nat,
                       offset : Nat, seen : Seq(Nat), ended : BOOLEAN]
        /\ ~ reader.ended => /\ reader.offset <= Len(all)
                             /\ reader.seen = SubSeq(all, 1, reader.offset)
        /\ reader.ended => reader.seen = all

StartInv ==
    /\ file \in Files
    /\ step \in {"load", "open", "app", "serve", "exit"}
    /\ step \in {"open", "app"} \/ Served => Start!Parses(file)
    /\ step \in {"load", "open", "app"} => code = 0
    /\ opened => file.audit.file # ""
    /\ Served => ClientsRight /\ OrderRight
    /\ reader # Start!NoReader => ReaderRight

LEMMA StartInit == Start!Init => StartInv
BY DEF Start!Init, StartInv, Served

LEMMA Numbered ==
    ASSUME StartInv
    PROVE  \E n \in Nat : /\ DOMAIN file.services = 1..n
                          /\ \A i \in 1..n : file.services[i].id \in Nat
<1>1. /\ Start!IsFiniteSet(DOMAIN file.services)
      /\ DOMAIN file.services = 1..Start!Cardinality(DOMAIN file.services)
      /\ \A i \in DOMAIN file.services : file.services[i].id \in Nat
  BY ReportsAssumption DEF Start!StartupAssumption, StartInv
<1>2. IsFiniteSet(DOMAIN file.services)
  BY <1>1 DEF IsFiniteSet, Start!IsFiniteSet
<1>3. Cardinality(DOMAIN file.services) \in Nat
  BY <1>2, FS_CardinalityType
<1> QED BY <1>1, <1>3, SameCardinality

(* The ids of a file that parses are those of no two services.             *)
LEMMA IdsDiffer ==
    ASSUME StartInv, Start!Parses(file),
           NEW i \in DOMAIN file.services, NEW j \in DOMAIN file.services,
           file.services[i].id = file.services[j].id
    PROVE  i = j
<1>1. PICK n \in Nat : DOMAIN file.services = 1..n
  BY Numbered
<1>2. ASSUME NEW a \in 1..n, NEW b \in 1..n, a < b,
             file.services[a].id = file.services[b].id
      PROVE  FALSE
  <2>1. ~ Start!Faulty(Start!ServiceFaults(file.services[a], Start!Sources(file)))
        /\ ~ Start!DuplicateID(file, b)
    BY <1>1 DEF Start!Parses
  <2>2. a \in 1..(b - 1)
    BY <1>2
  <2> QED BY <1>2, <2>1, <2>2 DEF Start!DuplicateID
<1>3. i \in 1..n /\ j \in 1..n
  BY <1>1
<1> QED BY <1>2, <1>3

(* The registry of a file that parses.                                     *)
LEMMA RegistryIs ==
    ASSUME StartInv, Start!Parses(file),
           NEW o, o = Start!RegistryOrder(file.services)
    PROVE  \E n \in Nat : /\ o \in [1..n -> Nat]
                          /\ \A i, j \in 1..n : i < j => o[i] < o[j]
                          /\ o \in Surjection(1..n, Ids)
<1>1. PICK n \in Nat : /\ DOMAIN file.services = 1..n
                       /\ \A i \in 1..n : file.services[i].id \in Nat
  BY Numbered
<1>2. ASSUME NEW i \in 1..n, NEW j \in 1..n, file.services[i].id = file.services[j].id
      PROVE  i = j
  BY <1>1, <1>2, IdsDiffer
<1>3. /\ \A i \in 1..n : file.services[i].id \in Ids
      /\ \A id \in Ids : \E i \in 1..n : file.services[i].id = id
  BY <1>1 DEF Ids
<1>4. /\ o \in [1..n -> Nat]
      /\ \A i, j \in 1..n : i < j => o[i] < o[j]
      /\ o \in Surjection(1..n, Ids)
  BY <1>1, <1>2, <1>3, OrderIs
<1> QED BY <1>1, <1>4

LEMMA MatchedOfOrder ==
    ASSUME OrderRight, NEW matching \in SUBSET {order[i] : i \in DOMAIN order}
    PROVE  LET m == Start!Matched(matching)
           IN  /\ m \in Seq(Nat) /\ Len(m) \in Nat
               /\ \A i, j \in DOMAIN m : i < j => m[i] < m[j]
               /\ {m[i] : i \in DOMAIN m} = matching
<1>1. PICK n \in Nat : /\ order \in [1..n -> Nat]
                       /\ \A i, j \in 1..n : i < j => order[i] < order[j]
  BY DEF OrderRight
<1> QED BY <1>1, MatchedIs

LEMMA NewAppKeeps == ASSUME StartInv, Start!NewApp PROVE StartInv'
<1>1. step = "app" /\ Start!Parses(file) /\ code = 0 /\ UNCHANGED <<flag, file, opened, reader>>
  BY DEF Start!NewApp, StartInv
<1>2. reader = Start!NoReader
  BY <1>1 DEF StartInv, ReaderRight
<1>3. CASE step' = "exit" /\ code' = 1 /\ UNCHANGED <<clients, order>>
  <2>1. ~ Served'
    BY <1>3 DEF Served
  <2> QED BY <1>1, <1>2, <1>3, <2>1 DEF StartInv
<1>4. CASE ~ (step' = "exit" /\ code' = 1 /\ UNCHANGED <<clients, order>>)
  <2> DEFINE names == DOMAIN file.sources
             headersOf(n) == Start!AuthHeaders(file.sources[n],
                                               Start!TokenOf(file.sources[n]))
             possible == [n \in names |-> headersOf(n)]
  <2>1. /\ \E headers \in [names -> UNION {possible[n] : n \in names}] :
              /\ \A n \in names : headers[n] \in possible[n]
              /\ clients' = [k \in Start!SourceKinds |->
                    [n \in {n \in names : file.sources[n].kind = k} |-> headers[n]]]
        /\ order' = Start!RegistryOrder(file.services)
        /\ (step' = "exit" /\ code' = 0) \/ (step' = "serve" /\ code' = code)
    BY <1>4 DEF Start!NewApp, Start!Exit
  <2>2. PICK headers \in [names -> UNION {possible[n] : n \in names}] :
              /\ \A n \in names : headers[n] \in possible[n]
              /\ clients' = [k \in Start!SourceKinds |->
                    [n \in {n \in names : file.sources[n].kind = k} |-> headers[n]]]
    BY <2>1
  <2>3. ClientsRight'
    <3>1. \A n \in names : headers[n] \in headersOf(n)
      BY <2>2
    <3> HIDE DEF headersOf, possible
    <3>2. ASSUME NEW k \in Start!SourceKinds
          PROVE  /\ DOMAIN clients'[k] = {n \in names : file.sources[n].kind = k}
                 /\ \A n \in DOMAIN clients'[k] : clients'[k][n] = headers[n]
      BY <2>2
    <3>3. file' = file /\ Start!SourceKinds' = Start!SourceKinds
      BY <1>1 DEF Start!SourceKinds
    <3> QED BY <3>1, <3>2, <3>3 DEF ClientsRight, headersOf
  <2>4. OrderRight'
    <3>1. PICK o : o = Start!RegistryOrder(file.services)
      OBVIOUS
    <3>2. PICK n \in Nat : /\ o \in [1..n -> Nat]
                           /\ \A i, j \in 1..n : i < j => o[i] < o[j]
                           /\ o \in Surjection(1..n, Ids)
      BY <1>1, <3>1, RegistryIs
    <3>3. order' = o /\ Ids' = Ids
      BY <1>1, <2>1, <3>1 DEF Ids
    <3> HIDE DEF names, headersOf, possible
    <3> QED BY <3>2, <3>3 DEF OrderRight
  <2> QED BY <1>1, <1>2, <2>1, <2>3, <2>4 DEF StartInv
<1> QED BY <1>3, <1>4

(* A page goes on where the last one ended.                                *)
LEMMA ListKeeps == ASSUME StartInv, Start!List PROVE StartInv'
<1> DEFINE all == Start!Matched(reader.matching)
           limit == Start!Clamp(reader.limit)
           offset == reader.offset
<1>1. /\ step = "serve" /\ ~ reader.ended
      /\ UNCHANGED <<step, flag, file, code, opened, clients, order>>
  BY DEF Start!List
<1>2. reader # Start!NoReader
  BY <1>1 DEF Start!NoReader
<1>3. ReaderRight /\ OrderRight
  BY <1>1, <1>2 DEF StartInv, Served
<1>4. all \in Seq(Nat) /\ Len(all) \in Nat
  BY <1>3, MatchedOfOrder DEF ReaderRight
<1>5. limit \in Nat
  BY <1>3, ReportsAssumption DEF Start!Clamp, Start!StartupAssumption, ReaderRight
<1>6. /\ offset \in Nat /\ offset <= Len(all) /\ reader.seen = SubSeq(all, 1, offset)
      /\ reader.matching \subseteq {order[i] : i \in DOMAIN order}
      /\ reader.limit \in Nat
  BY <1>1, <1>3 DEF ReaderRight
<1> DEFINE end == IF offset + limit > Len(all) THEN Len(all) ELSE offset + limit
           over == offset + limit >= Len(all)
           new == SubSeq(all, offset + 1, end)
<1>7. reader' = [reader EXCEPT !.seen = @ \o new, !.offset = offset + limit,
                               !.ended = over]
  BY DEF Start!List, Start!Page, Start!ReportedLimit
<1>8. /\ end \in Nat /\ offset <= end /\ end <= Len(all)
      /\ over => end = Len(all)
      /\ ~ over => end = offset + limit
      /\ offset + limit \in Nat /\ over \in BOOLEAN
      /\ ~ over => offset + limit <= Len(all)
  BY <1>4, <1>5, <1>6
<1>9. /\ reader.seen \o new = SubSeq(all, 1, end)
      /\ new \in Seq(Nat) /\ reader.seen \in Seq(Nat)
      /\ SubSeq(all, 1, Len(all)) = all
  <2> HIDE DEF all, limit, offset, end, over
  <2> QED BY <1>4, <1>6, <1>8, Pieces DEF new
<1>10. /\ reader'.matching = reader.matching /\ reader'.limit = reader.limit
       /\ reader'.offset = offset + limit /\ reader'.ended = over
       /\ reader'.seen = SubSeq(all, 1, end)
       /\ reader' \in [matching : SUBSET {order[i] : i \in DOMAIN order}, limit : Nat,
                       offset : Nat, seen : Seq(Nat), ended : BOOLEAN]
  <2>1. reader \in [matching : SUBSET {order[i] : i \in DOMAIN order}, limit : Nat,
                    offset : Nat, seen : Seq(Nat), ended : BOOLEAN]
    BY <1>3 DEF ReaderRight
  <2>2. reader.seen \o new \in Seq(Nat)
    <3>1. \A a, b \in Seq(Nat) : a \o b \in Seq(Nat)
      OBVIOUS
    <3> HIDE DEF new
    <3> QED BY <1>9, <3>1
  <2> HIDE DEF all, limit, offset, end, over, new
  <2> QED BY <1>7, <1>8, <1>9, <2>1, <2>2 DEF offset
<1>11. Start!Matched(reader.matching)' = all
  <2> HIDE DEF limit, offset, end, over, new
  <2> QED BY <1>1, <1>10 DEF Start!Matched
<1>12. ReaderRight'
  <2> HIDE DEF limit, offset, end, over, new, all
  <2> QED BY <1>1, <1>8, <1>9, <1>10, <1>11 DEF ReaderRight
<1>13. Served' = Served /\ ClientsRight' = ClientsRight /\ OrderRight' = OrderRight
       /\ Start!Parses(file)' = Start!Parses(file)
  BY <1>1 DEF Served, ClientsRight, OrderRight, Ids, Start!AuthHeaders, Start!TokenOf
<1> HIDE DEF all, limit, offset, end, over, new
<1> QED BY <1>1, <1>12, <1>13 DEF StartInv

LEMMA StartListingKeeps == ASSUME StartInv, Start!StartListing PROVE StartInv'
<1>1. /\ step = "serve" /\ Served
      /\ UNCHANGED <<step, flag, file, code, opened, clients, order>>
  BY DEF Start!StartListing, Served
<1>2. PICK m \in SUBSET {order[i] : i \in DOMAIN order}, n \in 0..(MaxPage + 1) :
          reader' = [Start!NoReader EXCEPT !.matching = m, !.limit = n, !.ended = FALSE]
  BY DEF Start!StartListing
<1>3. reader' = [matching |-> m, limit |-> n, offset |-> 0, seen |-> << >>, ended |-> FALSE]
  BY <1>2 DEF Start!NoReader
<1> DEFINE all == Start!Matched(m)
<1>4. all \in Seq(Nat) /\ Len(all) \in Nat /\ SubSeq(all, 1, 0) = << >>
  <2>1. all \in Seq(Nat) /\ Len(all) \in Nat
    BY <1>1, MatchedOfOrder DEF StartInv
  <2> HIDE DEF all
  <2> QED BY <2>1, Pieces
<1>5. Start!Matched(reader.matching)' = all
  BY <1>1, <1>3 DEF Start!Matched
<1>6. n \in Nat
  BY ReportsAssumption DEF Start!StartupAssumption
<1>7. ReaderRight'
  <2> HIDE DEF all
  <2>1. << >> \in Seq(Nat)
    OBVIOUS
  <2> QED BY <1>1, <1>3, <1>4, <1>5, <1>6, <2>1 DEF ReaderRight
<1>8. Served' = Served /\ ClientsRight' = ClientsRight /\ OrderRight' = OrderRight
      /\ Start!Parses(file)' = Start!Parses(file)
  BY <1>1 DEF Served, ClientsRight, OrderRight, Ids, Start!AuthHeaders, Start!TokenOf
<1> HIDE DEF all
<1> QED BY <1>1, <1>7, <1>8 DEF StartInv

LEMMA LoadKeeps == ASSUME StartInv, Start!Load \/ Start!OpenAudit PROVE StartInv'
<1>1. /\ step \in {"load", "open"} /\ code = 0 /\ reader = Start!NoReader
      /\ UNCHANGED <<flag, file, clients, order, reader>>
  BY DEF Start!Load, Start!OpenAudit, StartInv, ReaderRight
<1>2. Start!Parses(file)' = Start!Parses(file)
  BY <1>1
<1>3. /\ step' \in {"open", "app", "exit"}
      /\ step' = "exit" => code' = 1
      /\ step' # "exit" => code' = 0 /\ Start!Parses(file)
  BY <1>1 DEF Start!Load, Start!OpenAudit, Start!Exit, StartInv
<1>4. opened' => file.audit.file # ""
  BY <1>1 DEF Start!Load, Start!OpenAudit, StartInv
<1>5. ~ Served'
  BY <1>3 DEF Served
<1> QED BY <1>1, <1>2, <1>3, <1>4, <1>5 DEF StartInv

LEMMA StartStep == ASSUME StartInv, [Start!Next]_startupVars PROVE StartInv'
<1>1. CASE UNCHANGED startupVars
  <2>1. /\ UNCHANGED <<step, flag, file, code, opened, clients, order, reader>>
        /\ Start!Parses(file)' = Start!Parses(file)
    BY <1>1 DEF startupVars
  <2>2. ReaderRight' = ReaderRight
    BY <2>1 DEF ReaderRight, Start!Matched
  <2>3. Served' = Served /\ ClientsRight' = ClientsRight /\ OrderRight' = OrderRight
    BY <2>1 DEF Served, ClientsRight, OrderRight, Ids
  <2> QED BY <2>1, <2>2, <2>3 DEF StartInv
<1>2. CASE Start!Next
  BY <1>2, LoadKeeps, NewAppKeeps, StartListingKeeps, ListKeeps DEF Start!Next
<1> QED BY <1>1, <1>2

----------------------------------------------------------------------------
(* What a file that parses lets the parts rely on.                         *)
LEMMA ParsedLimits ==
    ASSUME StartInv, Start!Parses(file) PROVE Start!LimitsConsistent
<1>1. /\ \A f \in DOMAIN Start!LimitRules : file.limits[f].value \in Int
      /\ \A f \in DOMAIN Start!AuditRules : file.audit[f].value \in Int
  BY ReportsAssumption DEF Start!StartupAssumption, StartInv
<1>2. ~ Start!Faulty(Start!LimitFaults(file.limits))
  BY DEF Start!Parses
<1>3. PICK l : l = Start!Limits(file.limits)
  OBVIOUS
<1>4. /\ 0 < l.per_source_timeout /\ l.per_source_timeout <= l.total_timeout
      /\ 0 < l.default_window /\ l.default_window <= l.max_incident_window
      /\ \A f \in {"max_log_lines", "max_evidence_items", "max_log_line_bytes",
                   "max_body_bytes", "max_incident_response_bytes",
                   "evidence_cache_ttl", "evidence_cache_max_bytes",
                   "max_tool_calls_per_minute", "max_concurrent_tools"} : 0 < l[f]
  BY <1>1, <1>2, <1>3, LimitsSound
<1>5. ASSUME NEW f \in DOMAIN Start!AuditRules
      PROVE  0 < Start!Kept(Start!AuditRules[f], file.audit[f])
  <2>1. /\ Start!AuditRules[f].default \in Nat \ {0}
        /\ Start!AuditRules[f].kind = "count"
    BY DEF Start!AuditRules, Start!Count
  <2>2. Start!Kept(Start!AuditRules[f], file.audit[f]) \in Nat \ {0}
    BY <1>1, <2>1, CountKept
  <2> QED BY <2>2
<1> QED BY <1>3, <1>4, <1>5 DEF Start!LimitsConsistent

LEMMA ParsedSources ==
    ASSUME Start!Parses(file)
    PROVE  \A n \in DOMAIN file.sources :
              ~ Start!Faulty(Start!SourceFaults(file.sources[n]))
<1>1. Start!Sources(file) = file.sources
  BY DEF Start!Parses
<1>2. DOMAIN Start!Sources(file) = {n \in DOMAIN file.sources :
            ~ Start!Faulty(Start!SourceFaults(file.sources[n]))}
  BY DEF Start!Sources
<1> QED BY <1>1, <1>2

LEMMA BindingsReach ==
    ASSUME Start!Parses(file), ClientsRight PROVE Start!BindingsServed
<1>1. Start!Sources(file) = file.sources
  BY DEF Start!Parses
<1>2. ASSUME NEW i \in DOMAIN file.services, NEW k \in DOMAIN file.services[i].refs
      PROVE  file.services[i].refs[k] \in DOMAIN clients[k]
  <2> DEFINE faults == Start!ServiceFaults(file.services[i], file.sources)
             n == file.services[i].refs[k]
  <2>1. ~ Start!Faulty(faults)
    BY <1>1 DEF Start!Parses
  <2>2. ~ faults["source"]
    <3>1. "source" \in DOMAIN faults
      BY DEF Start!ServiceFaults
    <3> HIDE DEF faults
    <3> QED BY <2>1, <3>1 DEF Start!Faulty
  <2>3. n \in DOMAIN file.sources /\ file.sources[n].kind = k
    BY <2>2 DEF Start!ServiceFaults, Start!CheckSourceRef
  <2>4. k \in Start!SourceKinds
    BY <2>3, ParsedSources, SourceSound
  <2> HIDE DEF n
  <2> QED BY <2>3, <2>4 DEF ClientsRight, n
<1> QED BY <1>2 DEF Start!BindingsServed

LEMMA HeadersReach ==
    ASSUME Start!Parses(file), ClientsRight PROVE Start!HeadersArrive
<1> SUFFICES ASSUME NEW k \in Start!SourceKinds, NEW n \in DOMAIN clients[k]
             PROVE  LET s == file.sources[n]
                        sent == clients[k][n]
                    IN  /\ \A h \in s.headers : sent[h.name] = h.spelling
                        /\ s.auth # {} => sent[Start!AuthName(s)] = "token"
                        /\ k = "healthchecks" =>
                              "x-api-key" \in DOMAIN sent \/ s.tokenHeader # Start!NoHeader
  BY DEF Start!HeadersArrive
<1>1. n \in DOMAIN file.sources /\ file.sources[n].kind = k
  BY DEF ClientsRight
<1>2. PICK s : s = file.sources[n]
  OBVIOUS
<1>3. PICK sent : sent = clients[k][n]
  OBVIOUS
<1>4. sent \in Start!AuthHeaders(s, Start!TokenOf(s))
  BY <1>2, <1>3 DEF ClientsRight
<1>5. ~ Start!Faulty(Start!SourceFaults(s))
  BY <1>1, <1>2, ParsedSources
<1>6. /\ \A h \in s.headers : sent[h.name] = h.spelling
      /\ s.auth # {} => sent[Start!AuthName(s)] = "token"
      /\ s.kind = "healthchecks" =>
            "x-api-key" \in DOMAIN sent \/ s.tokenHeader # Start!NoHeader
  BY <1>4, <1>5, HeadersSent
<1> QED BY <1>1, <1>2, <1>3, <1>6

LEMMA StartInvCorrect == Start!Spec => []StartInv
<1>1. StartInv /\ [Start!Next]_(Start!vars) => StartInv'
  BY StartStep DEF startupVars, Start!vars
<1> QED BY <1>1, StartInit, PTL DEF Start!Spec

(* A configuration that the server starts with, or that --validate accepts *)
(* with exit code 0, is one that works (Parse, NewApp, AuthHeaders): its   *)
(* limits fit together, every binding has its client, and every header and *)
(* token arrives, for any files and any order of the map iteration.        *)
THEOREM AcceptedWorks == Start!Spec => []AcceptedConfigUsable
<1>1. StartInv => AcceptedConfigUsable
  <2> SUFFICES ASSUME StartInv, Served
               PROVE  /\ Start!LimitsConsistent /\ Start!BindingsServed
                      /\ Start!HeadersArrive
    BY DEF AcceptedConfigUsable, Start!AcceptedConfigUsable, Served
  <2>1. Start!Parses(file) /\ ClientsRight
    BY DEF StartInv
  <2> QED BY <2>1, ParsedLimits, BindingsReach, HeadersReach
<1> QED BY <1>1, StartInvCorrect, PTL

(* A host that follows the pages of list_services to the end has seen      *)
(* every service that its prefix selects, each of them once and in order   *)
(* (registry.New, List), for any services and any size of a page.          *)
THEOREM ListingComplete == Start!Spec => []EveryServiceListed
<1>1. StartInv => EveryServiceListed
  <2> SUFFICES ASSUME StartInv, reader # Start!NoReader, reader.ended
               PROVE  /\ {reader.seen[i] : i \in DOMAIN reader.seen} = reader.matching
                      /\ \A i, j \in DOMAIN reader.seen :
                            i < j => reader.seen[i] < reader.seen[j]
    BY DEF EveryServiceListed, Start!EveryServiceListed
  <2>1. ReaderRight /\ OrderRight
    BY DEF StartInv, ReaderRight, Served
  <2>2. /\ reader.matching \in SUBSET {order[i] : i \in DOMAIN order}
        /\ reader.seen = Start!Matched(reader.matching)
    BY <2>1 DEF ReaderRight
  <2> QED BY <2>1, <2>2, MatchedOfOrder
<1> QED BY <1>1, StartInvCorrect, PTL

----------------------------------------------------------------------------
(* The reports as a whole *)

LEMMA IdleIsInitial ==
    /\ IncidentIdle => Init
    /\ DoctorIdle => D!Init
    /\ StartupIdle => Start!Init
<1>1. AnyLimit \in ItemLimits /\ AnyBudget \in Budgets /\ AnyFile \in Files
  BY ReportsAssumption DEF AnyLimit, AnyBudget, AnyFile
<1>2. IncidentIdle => Init
  <2> SUFFICES ASSUME IncidentIdle PROVE Init
    OBVIOUS
  <2>1. 1..count = {} /\ count \in 0..MaxCount
    BY IncidentAssumption DEF IncidentIdle
  <2>2. sourceOf \in [1..count -> Contributors] /\ size \in [1..count -> Sizes]
    BY <2>1 DEF IncidentIdle
  <2> QED BY <1>1, <2>1, <2>2 DEF IncidentIdle, Init
<1>3. DoctorIdle => D!Init
  BY DEF DoctorIdle, D!Init
<1>4. StartupIdle => Start!Init
  BY <1>1 DEF StartupIdle, Start!Init
<1> QED BY <1>2, <1>3, <1>4

(* The parts of Reports do not disturb each other: what it does is, of     *)
(* each part, what the part does by itself.                                *)
THEOREM ReportsAreWhole == ReportsSpec => Spec /\ D!Spec /\ Start!Spec
<1>1. ReportsInit => Init /\ D!Init /\ Start!Init
  BY IdleIsInitial DEF ReportsInit
<1> DEFINE Step == [ReportsNext]_reportsVars
<1>2. Step => [Next]_vars
  BY DEF ReportsNext, reportsVars
<1>3. Step => [D!Next]_(D!vars)
  BY DEF ReportsNext, reportsVars, doctorVars, D!vars
<1>4. Step => [Start!Next]_(Start!vars)
  BY DEF ReportsNext, reportsVars, startupVars, Start!vars
<1> QED BY <1>1, <1>2, <1>3, <1>4, PTL
        DEF ReportsSpec, Spec, D!Spec, Start!Spec

(* What the server says of a whole is true: of the items of an incident,   *)
(* of the sources of a configuration, and of the services it lists; and    *)
(* what it starts with works.                                              *)
THEOREM ReportsTruthful ==
    ReportsSpec => [](/\ SourcesFirst /\ LossesCounted /\ DoctorTruthful
                      /\ AcceptedConfigUsable /\ EveryServiceListed)
BY ReportsAreWhole, SourcesFirstCorrect, LossesCountedCorrect, DoctorTruthfulCorrect,
   AcceptedWorks, ListingComplete, PTL
=============================================================================
