-------------------------- MODULE MCParallelMerger --------------------------
(* ParallelMerger on four short segments. *)
EXTENDS ParallelMerger

(* Segments of 2, 1, 2 and 1 bytes; hints that are too large, one exact.      *)
MCOffset == <<0, 2, 3, 5, 6>>
MCHint   == <<3, 1, 3, 2>>

=============================================================================
