---------------------------- MODULE MCWebdavFS ------------------------------
(* WebdavFS with a path that is a file, or a folder, or a file with another   *)
(* below it.                                                                 *)
EXTENDS WebdavFS

MCPaths   == {<<"x">>, <<"x", "b">>}
MCTargets == {<< >>, <<"x">>}

=============================================================================
