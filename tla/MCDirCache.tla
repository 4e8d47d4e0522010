----------------------------- MODULE MCDirCache -----------------------------
(* Directories /a, /b and /a/b, files named f in each, and a file that     *)
(* takes the name of a directory.  The cache holds two of the three.       *)
EXTENDS DirCache

MCFilePaths == {<<"a", "f">>, <<"b", "f">>, <<"a", "b", "f">>, <<"a">>, <<"a", "b">>}
MCDirPaths == {<<"a">>, <<"b">>, <<"a", "b">>}
=============================================================================
