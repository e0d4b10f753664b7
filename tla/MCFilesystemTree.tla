-------------------------- MODULE MCFilesystemTree --------------------------
(* Values for the constants of FilesystemTree. *)
EXTENDS FilesystemTree

\* A directory with a file and a directory, which holds a file.
MCPaths == {<<"a">>, <<"a", "f">>, <<"a", "d">>, <<"a", "d", "g">>}
MCWatched == {<<"a">>, <<"a", "d">>}
MCOrder == <<"a", "d", "f", "g">>
=============================================================================
