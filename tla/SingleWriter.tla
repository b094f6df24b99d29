----------------------------- MODULE SingleWriter -----------------------------
(***************************************************************************)
(* What the write coordination of an archive promises: writers take turns, *)
(* a member is added only by the writer whose turn it is and only once, and *)
(* a writer that has given up its turn never gets it back.                 *)
(***************************************************************************)
EXTENDS FiniteSets

CONSTANTS Writers, NoWriter

VARIABLES
    holder,   \* the writer whose turn it is, or NoWriter
    used,     \* writers that have had their turn, or have it
    added     \* writers whose member is in the archive

vars == <<holder, used, added>>

Init == holder = NoWriter /\ used = {} /\ added = {}

Take(w) ==
    /\ holder = NoWriter /\ w \notin used
    /\ holder' = w /\ used' = used \cup {w}
    /\ UNCHANGED added

Add(w) ==
    /\ holder = w /\ w \notin added
    /\ added' = added \cup {w}
    /\ UNCHANGED <<holder, used>>

Give(w) ==
    /\ holder = w
    /\ holder' = NoWriter
    /\ UNCHANGED <<used, added>>

Next == \E w \in Writers : Take(w) \/ Add(w) \/ Give(w)

Spec == Init /\ [][Next]_vars
=============================================================================
