--------------------------- MODULE MCDecodeWindow ---------------------------
(* DecodeWindow with windows of a few bytes. *)
EXTENDS DecodeWindow

MCWindows == {2, 4}

=============================================================================
