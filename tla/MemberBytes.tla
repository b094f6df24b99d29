------------------------------ MODULE MemberBytes ------------------------------
(***************************************************************************)
(* What a member opened for reading promises: it is a fixed sequence of    *)
(* bytes with a position.  A read returns the bytes at the position, and   *)
(* fewer than it was asked for only at the end; a seek only moves.         *)
(***************************************************************************)
EXTENDS Naturals, Sequences

CONSTANTS
    Size,     \* the size the ZipInfo gives
    Lengths   \* how much a read may be asked for

VARIABLES
    data,     \* the bytes
    at,       \* the position
    last,     \* what the last call was asked for and returned
    broken    \* a call has said that the member is damaged

vars == <<data, at, last, broken>>

Lesser(m, n) == IF m <= n THEN m ELSE n
Slice(n) == SubSeq(data, at + 1, Lesser(at + n, Len(data)))
Nothing == [asked |-> 0, bytes |-> <<>>]

Init == at = 0 /\ last = Nothing /\ broken = FALSE

Read ==
    \E n \in Lengths :
        /\ last' = [asked |-> n, bytes |-> Slice(n)]
        /\ at' = at + Len(Slice(n))
        /\ UNCHANGED <<data, broken>>

Peek ==
    \E n \in Lengths :
        /\ last' = [asked |-> Len(Slice(n)), bytes |-> Slice(n)]
        /\ UNCHANGED <<data, at, broken>>

(* A seek, or a call that is refused: that one may lose its place, but not  *)
(* the bytes behind it.                                                     *)
Move ==
    \E p \in 0 .. Size :
        at' = p /\ last' = Nothing /\ UNCHANGED <<data, broken>>

(* Once a call has found damage, nothing is promised.                       *)
FindDamage == broken' = TRUE /\ UNCHANGED data

Next == Read \/ Peek \/ Move \/ FindDamage

Spec == Init /\ [][Next]_vars
=============================================================================
