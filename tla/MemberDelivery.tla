---------------------------- MODULE MemberDelivery ----------------------------
(***************************************************************************)
(* What an extraction promises about the files of its destination: one     *)
(* member after the other either delivers all of its data to one file at   *)
(* once, or leaves every file as it is.                                    *)
(***************************************************************************)
EXTENDS Naturals, Sequences

CONSTANTS
    Paths,
    None      \* there is no file

VARIABLES
    whole,    \* the members whose data can be had to the end
    files,    \* the member whose data each file is, 0 for somebody else's
    report    \* what became of the members so far

vars == <<whole, files, report>>

Member == Len(report) + 1

Init == report = <<>>

Deliver ==
    /\ Member \in whole
    /\ \E p \in Paths : files' = [files EXCEPT ![p] = Member]
    /\ report' = Append(report, "extracted")
    /\ UNCHANGED whole

(* A directory, a link, or a member that is not extracted.                  *)
Other ==
    /\ \E r \in {"extracted", "skipped", "failed", "previewed"} :
          report' = Append(report, r)
    /\ UNCHANGED <<whole, files>>

(* A link takes the place of a file.                                        *)
Supplant ==
    /\ \E p \in Paths : files' = [files EXCEPT ![p] = None]
    /\ UNCHANGED <<whole, report>>

(* Another program makes a file.                                            *)
Foreign ==
    /\ \E p \in Paths : files[p] = None /\ files' = [files EXCEPT ![p] = 0]
    /\ UNCHANGED <<whole, report>>

Next == Deliver \/ Other \/ Supplant \/ Foreign

Spec == Init /\ [][Next]_vars
=============================================================================
