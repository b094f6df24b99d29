---------------------------- MODULE MCArchiveFile ----------------------------
(***************************************************************************)
(* Small instances of ArchiveFile for TLC.                                 *)
(***************************************************************************)
EXTENDS ArchiveFile, TLC

CONSTANTS d1, f1, f2

MCInfos == {d1, f1, f2}
MCDirs == {d1}
MCFaults == {"refuse", "header", "short", "final", "mkdir", "end", "crash"}
MCPrepend == {"prepend"}

(* Bound: a third session only to append to what an interrupted one has     *)
(* left, when nothing failed before but handles.                            *)
MCThird == sessions' = 3 => /\ status = "stale" /\ mode' = "a"
                            /\ struck \subseteq {"final"}

Files == Permutations({f1, f2})
=============================================================================
