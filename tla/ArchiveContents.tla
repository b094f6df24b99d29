--------------------------- MODULE ArchiveContents ---------------------------
(***************************************************************************)
(* What an archive promises to the program that writes it: a list of       *)
(* members that only grows while the archive is open, is found again, the  *)
(* same, after a close, and of which an interrupted session leaves an      *)
(* intact first part, if anything.                                         *)
(***************************************************************************)
EXTENDS Naturals, Sequences

CONSTANTS Names, Payloads

VARIABLES
    phase,    \* "open", "sealed" (closed and readable) or "lost" (what is
              \* left is found only by appending to the file)
    members   \* the members that are found, in directory order

vars == <<phase, members>>

Init == phase = "lost" /\ members = <<>>

(* A new archive replaces whatever was there.                               *)
Create ==
    /\ phase # "open"
    /\ phase' = "open" /\ members' = <<>>

(* An archive that was closed is found as it was left.                      *)
Reopen ==
    /\ phase = "sealed"
    /\ phase' = "open" /\ UNCHANGED members

(* What is left of a lost one is taken up when it is appended to.           *)
Salvage ==
    /\ phase = "lost"
    /\ phase' = "open" /\ UNCHANGED members

(* One more member, behind those that are there.                            *)
Add ==
    /\ phase = "open" /\ UNCHANGED phase
    /\ LET grown == members'
           n == Len(grown)
       IN  /\ n > 0 /\ grown[n] \in [name : Names, payload : Payloads]
           /\ SubSeq(grown, 1, n - 1) = members

Seal ==
    /\ phase = "open"
    /\ phase' = "sealed" /\ UNCHANGED members

(* A crash, or a close() that could not write the directory.                *)
Abandon ==
    /\ phase = "open"
    /\ phase' \in {"sealed", "lost"}
    /\ \E n \in 0 .. Len(members) : members' = SubSeq(members, 1, n)

Next ==
    \/ Create \/ Reopen \/ Salvage \/ Add \/ Seal \/ Abandon

Spec == Init /\ [][Next]_vars
=============================================================================
