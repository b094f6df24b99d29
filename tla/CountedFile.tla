----------------------------- MODULE CountedFile -----------------------------
(***************************************************************************)
(* What sharing one file object promises: the archive and the streams on   *)
(* its members use it, a stream may come as long as the archive is there   *)
(* and may stay when the archive has gone, and whoever leaves last closes  *)
(* the file, once.                                                         *)
(***************************************************************************)
CONSTANTS
    Archive,   \* the archive itself
    Streams    \* the streams it may open

VARIABLES
    users,     \* who uses the file
    closings   \* how often the file was closed

vars == <<users, closings>>

Init == users = {Archive} /\ closings = 0

Join(s) ==
    /\ Archive \in users /\ s \notin users
    /\ users' = users \cup {s}
    /\ UNCHANGED closings

Leave(u) ==
    /\ u \in users
    /\ users' = users \ {u}
    /\ UNCHANGED closings

CloseFile ==
    /\ users = {} /\ closings = 0
    /\ closings' = 1
    /\ UNCHANGED users

Next ==
    \/ \E s \in Streams : Join(s)
    \/ \E u \in Streams \cup {Archive} : Leave(u)
    \/ CloseFile

Spec == Init /\ [][Next]_vars
=============================================================================
