---------------------------- MODULE MCThreadGroups ----------------------------
(***************************************************************************)
(* Two clients of WriterThreads that TLC checks together: threads that     *)
(* write in one call, make directories and close the archive while another *)
(* reads, and threads that close each other's handles.                     *)
(***************************************************************************)
EXTENDS MCWriterThreads

CONSTANTS t4, t5

Sharers == {t4, t5}
MCAllThreads == MCThreeThreads \cup Sharers
MCGroups == [t \in MCAllThreads |->
    CASE t = t4 -> {"open", "close"}
      [] t = t5 -> {"close"}
      [] OTHER  -> MCStrings[t]]

Opened(group) == \E h \in Handles : opener[h] \in group
Acting(group) == \E t \in group : pc[t] # "idle"

SharersAct == Opened(Sharers) \/ Acting(Sharers)
OthersAct ==
    \/ Opened(MCThreeThreads) \/ Acting(MCThreeThreads)
    \/ ~fpOpen \/ (Len(filelist) > 1 /\ ~Opened(Sharers))

(* A behaviour is of the one client or of the other (but for a sharer that  *)
(* writes to a handle of writestr, which only adds behaviours).             *)
OneGroup == ~(SharersAct /\ OthersAct)
=============================================================================
