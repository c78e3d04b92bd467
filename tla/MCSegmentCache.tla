--------------------------- MODULE MCSegmentCache ---------------------------
(* SegmentCache on small sets of model values. *)
EXTENDS SegmentCache, TLC

Symmetry == Permutations(Keys) \cup Permutations(Callers) \cup Permutations(Evictors)

=============================================================================
