---------------------------- MODULE MCDiskCache ----------------------------
(* DiskCache on small sets of model values. *)
EXTENDS DiskCache, TLC

(* Keys, callers and evictions are interchangeable: no definition chooses one. *)
Symmetry == Permutations(Keys) \cup Permutations(Callers) \cup Permutations(Evictors)

=============================================================================
