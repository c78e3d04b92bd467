----------------------------- MODULE MCReadahead -----------------------------
(* Readahead on a short file. *)
EXTENDS Readahead
=============================================================================
