----------------------------- MODULE MCPathDirs -----------------------------
(***************************************************************************)
(* A small instance of PathDirs for TLC.                                   *)
(***************************************************************************)
EXTENDS PathDirs

(* a, a/, a/b, a/b/a, a//b, b/a/, /a/b                                      *)
MCNames == {<<"a">>, <<"a", "">>, <<"a", "b">>, <<"a", "b", "a">>,
            <<"a", "", "b">>, <<"b", "a", "">>, <<"", "a", "b">>}
MCParts == {"a", "b"}
=============================================================================
