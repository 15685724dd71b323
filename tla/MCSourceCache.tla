--------------------------- MODULE MCSourceCache ---------------------------
(* Small instances of SourceCache for TLC.                                 *)
EXTENDS SourceCache

MCSymmetry == Permutations(Collections) \cup Permutations(Keys)
============================================================================
