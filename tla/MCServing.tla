----------------------------- MODULE MCServing ------------------------------
(* Serving with two open files and two calls that read them.                   *)
EXTENDS Serving

=============================================================================
