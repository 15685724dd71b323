------------------------------ MODULE Incident ------------------------------
(***************************************************************************)
(* What incident_context makes of the items that its sources gave:         *)
(* BuildTimeline, and in compact mode compactIncident with its selection   *)
(* and its byte budget, one removed item at a time.                        *)
(*                                                                         *)
(* An item is its place in the order of SortItems, oldest first.  Sizes    *)
(* are in units of the serialized response.                                *)
(***************************************************************************)
EXTENDS Integers, FiniteSets, Folds, FiniteSetsExt

CONSTANTS
    Contributors, \* the source kinds
    MaxCount,     \* bound: items that the sources give
    Sizes,        \* what an item can take in the response
    ItemLimits,   \* max_items of the requests
    Budgets,      \* max_incident_response_bytes, less what is always there
    NameSize      \* what a name in omitted_sources takes

ASSUME IncidentAssumption ==
    /\ MaxCount \in Nat /\ Sizes \subseteq Nat
    /\ ItemLimits \subseteq Nat \ {0}
    /\ Budgets \subseteq Nat /\ NameSize \in Nat

VARIABLES
    pc,         \* "build", "trim", "done"
    compact,    \* the compact argument
    maxItems,   \* the max_items argument, as it is applied
    budget,     \* the byte budget
    count,      \* how many items the sources gave
    sourceOf,   \* the source kind of each item
    size,       \* the size of each item
    sourceCut,  \* one of the outcomes is truncated
    kept,       \* Bundle.Items
    planned,    \* how many items the selection left
    bundle,     \* the fields of the bundle about losses
    byteSize    \* Bundle.ByteSize

inputs == <<compact, maxItems, budget, count, sourceOf, size, sourceCut>>
vars == <<pc, inputs, kept, planned, bundle, byteSize>>

All == 1..count

NoLosses ==
    [truncated |-> FALSE, selectionTruncated |-> FALSE,
     byteBudgetTruncated |-> FALSE, omittedItems |-> 0,
     omittedSources |-> {}]

Init ==
    /\ pc = "build"
    /\ compact \in BOOLEAN /\ maxItems \in ItemLimits /\ budget \in Budgets
    /\ count \in 0..MaxCount
    /\ sourceOf \in [1..count -> Contributors] /\ size \in [1..count -> Sizes]
    /\ sourceCut \in BOOLEAN
    /\ kept = {} /\ planned = 0 /\ bundle = NoLosses /\ byteSize = 0

SourcesIn(S) == {sourceOf[i] : i \in S}

(* incidentWireSize, which sees the names of the omitted sources only when *)
(* they are in the bundle.                                                 *)
WireSize(S, omitted) ==
    MapThenSumSet(LAMBDA i : size[i], S) + NameSize * Cardinality(omitted)

(* The n newest items of S.                                                *)
NewestOf(S, n) == {i \in S : Cardinality({j \in S : i < j}) < n}

----------------------------------------------------------------------------
(* BuildTimeline without a compact selection. *)
Timeline ==
    /\ pc = "build" /\ ~ compact
    /\ pc' = "done"
    /\ kept' = NewestOf(All, maxItems)
    /\ planned' = count
    /\ bundle' = [bundle EXCEPT !.truncated = sourceCut \/ count > maxItems]
    /\ byteSize' = WireSize(kept', {})
    /\ UNCHANGED inputs

----------------------------------------------------------------------------
(* compactIncident *)

(* The newest item of each source.                                         *)
Reserved ==
    {i \in All : \A j \in All : sourceOf[j] = sourceOf[i] => j <= i}

\* Mutant: the limit goes to the newest items whatever their source.
NewestFirst == NewestOf(All, maxItems)

Selected ==
    IF Cardinality(Reserved) > maxItems
    THEN NewestOf(Reserved, maxItems)
    ELSE Reserved \cup NewestOf(All \ Reserved, maxItems - Cardinality(Reserved))

Select ==
    /\ pc = "build" /\ compact
    /\ pc' = "trim"
    /\ kept' = Selected
    /\ planned' = Cardinality(Selected)
    /\ bundle' = [bundle EXCEPT
                    !.truncated = sourceCut,
                    !.selectionTruncated = count > planned',
                    !.omittedItems = count - planned']
    /\ UNCHANGED <<inputs, byteSize>>

(* The items of a source that has another one.                             *)
Crowded ==
    {i \in kept : \E j \in kept \ {i} : sourceOf[j] = sourceOf[i]}

Droppable == IF Crowded # {} THEN Crowded ELSE kept

Oldest(S) == CHOOSE i \in S : \A j \in S : i <= j

\* Mutant: a removed item is not counted.
DropUncounted ==
    /\ pc = "trim" /\ kept # {} /\ WireSize(kept, {}) > budget
    /\ kept' = kept \ {Oldest(Droppable)}
    /\ bundle' = [bundle EXCEPT !.byteBudgetTruncated = TRUE]
    /\ UNCHANGED <<pc, planned, inputs, byteSize>>

(* One turn of the loop of trimToBudget.                                   *)
Drop ==
    /\ pc = "trim" /\ kept # {} /\ WireSize(kept, {}) > budget
    /\ kept' = kept \ {Oldest(Droppable)}
    /\ bundle' = [bundle EXCEPT !.omittedItems = @ + 1,
                                !.byteBudgetTruncated = TRUE]
    /\ UNCHANGED <<pc, planned, inputs, byteSize>>

Finish ==
    /\ pc = "trim" /\ (kept = {} \/ WireSize(kept, {}) <= budget)
    /\ pc' = "done"
    /\ LET omitted == SourcesIn(All) \ SourcesIn(kept)
       IN  /\ bundle' = [bundle EXCEPT
                            !.truncated = @ \/ bundle.selectionTruncated
                                            \/ bundle.byteBudgetTruncated,
                            !.omittedSources = omitted]
           /\ byteSize' = WireSize(kept, omitted)
    /\ UNCHANGED <<kept, planned, inputs>>

Next == Timeline \/ Select \/ Drop \/ Finish

Spec == Init /\ [][Next]_vars

----------------------------------------------------------------------------
(* Properties *)

TypeOK ==
    /\ pc \in {"build", "trim", "done"}
    /\ compact \in BOOLEAN /\ maxItems \in ItemLimits /\ budget \in Budgets
    /\ count \in 0..MaxCount
    /\ sourceOf \in [1..count -> Contributors] /\ size \in [1..count -> Sizes]
    /\ sourceCut \in BOOLEAN
    /\ kept \subseteq All
    /\ planned \in 0..count
    /\ bundle \in [truncated : BOOLEAN, selectionTruncated : BOOLEAN,
                   byteBudgetTruncated : BOOLEAN, omittedItems : 0..MaxCount,
                   omittedSources : SUBSET Contributors]

(* Compact mode keeps of each source its newest items; a source loses its  *)
(* last item only when no other source has two, and then it is a source    *)
(* whose newest item is older than all that is kept.                       *)
SourcesFirst ==
    compact /\ pc # "build" =>
        /\ \A i \in kept, j \in All :
              sourceOf[i] = sourceOf[j] /\ i < j => j \in kept
        /\ \A j \in All : sourceOf[j] \notin SourcesIn(kept) =>
              /\ Crowded = {}
              /\ \A i \in kept : j < i

(* What a response says about its losses is what was lost: items by number *)
(* and by cause, and the sources that gave items of which none is left.    *)
LossesCounted ==
    pc = "done" =>
        /\ bundle.truncated <=> sourceCut \/ kept # All
        /\ compact =>
              /\ bundle.omittedItems = count - Cardinality(kept)
              /\ bundle.selectionTruncated <=> planned < count
              /\ bundle.byteBudgetTruncated <=> Cardinality(kept) < planned
              /\ \A k \in Contributors : k \in bundle.omittedSources <=>
                    /\ \E i \in All : sourceOf[i] = k
                    /\ \A i \in kept : sourceOf[i] # k

(* incident-context.md: compact mode "enforces a response byte budget".    *)
(* Without any item there is nothing left to drop.                         *)
WithinBudget == pc = "done" /\ compact /\ kept # {} => byteSize <= budget
=============================================================================
