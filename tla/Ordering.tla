------------------------------ MODULE Ordering ------------------------------
(***************************************************************************)
(* What a loop that filters a list leaves of it, and what a stable sort    *)
(* makes of it.  Both are stated by rank, without recursion: the i-th      *)
(* element of the result is the one that i - 1 others come before.  An     *)
(* order is a set of pairs.                                                *)
(***************************************************************************)
EXTENDS Integers, Sequences, FiniteSets

(* The members of S, as the order before lists them.                       *)
Ranked(S, before) ==
    [i \in 1..Cardinality(S) |->
        CHOOSE x \in S : Cardinality({y \in S : <<y, x>> \in before}) = i - 1]

(* The elements of the list at the positions ks, in the order before of    *)
(* the positions.                                                          *)
Arranged(list, ks, before) ==
    LET at == Ranked(ks, before) IN [i \in DOMAIN at |-> list[at[i]]]

ByPosition(ks) == {p \in ks \X ks : p[1] < p[2]}

(* What a loop over the list that takes the positions ks leaves of it.     *)
Chosen(list, ks) == Arranged(list, ks, ByPosition(ks))
=============================================================================
