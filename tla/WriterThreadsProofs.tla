------------------------- MODULE WriterThreadsProofs -------------------------
(***************************************************************************)
(* Proofs about WriterThreads, for any number of threads, handles and      *)
(* directories, any mixture of calls and any faults, when each handle is   *)
(* closed by the thread that opened it.                                    *)
(***************************************************************************)
EXTENDS WriterThreads, TLAPS

(* The client keeps each handle to the thread that opened it.               *)
OwnHandles == SharedHandles = {}

-----------------------------------------------------------------------------
(* The inductive invariant.                                                 *)

Registered == {filelist[k] : k \in DOMAIN filelist}

UnissuedPcs == {"o_seek", "o_tell", "o_mark", "o_header", "o_publish",
                "o_release"}
FinalizingPcs == {"c_begin"} \cup TrailerPcs
                    \cup {"c_register", "c_committed", "f_state"}
HoldingPcs == UnissuedPcs \cup {"s_write", "c_final", "c_commit", "f_fail"}
                 \cup FinalizingPcs
EndPcs == {"c_check", "c_wait", "c_unmark", "c_done"}
HandlePcs == HoldingPcs \cup EndPcs
MkdirPcs == {"m_tell", "m_write", "m_end"}
LockedPcs == MkdirPcs \cup {"r_seek", "r_read", "z_write"}

(* A thread works on a handle that it opened, or on a directory.            *)
CurOK ==
    \A t \in Threads :
        /\ pc[t] \in HandlePcs => cur[t] \in Handles /\ opener[cur[t]] = t
        /\ pc[t] \in MkdirPcs => cur[t] \in Directories

(* Only handles that were made are issued, and not before open() returns.   *)
IssuedOK ==
    /\ \A h \in issued : opener[h] # Nobody
    /\ \A t \in Threads :
          /\ pc[t] \in UnissuedPcs => cur[t] \notin issued
          /\ pc[t] \in HandlePcs \ UnissuedPcs => cur[t] \in issued

(* How far close() has come with the handle.                                *)
StateOK ==
    \A t \in Threads :
        /\ pc[t] \in FinalizingPcs => wState[cur[t]] = "FINALIZING"
        /\ pc[t] = "c_commit" => wState[cur[t]] = "COMMITTED"
        /\ pc[t] = "f_fail" => wState[cur[t]] = "FAILED"

(* The reservation belongs to whoever is writing.                           *)
ReservationOK ==
    /\ coordState = "IDLE" => reservation = NoHandle
    /\ reservation # NoHandle => opener[reservation] # Nobody
    /\ \A t \in Threads : pc[t] \in HoldingPcs => reservation = cur[t]
    /\ \A h \in issued : wState[h] = "ACTIVE" => reservation = h

(* Calls that keep the lock between two steps own it.                       *)
LockOK == \A t \in Threads : pc[t] \in LockedPcs => lock = t

(* What is still to be registered is not registered yet.                    *)
FreshOK ==
    /\ \A h \in Registered \cap Handles :
          opener[h] # Nobody /\ (h \in issued => wState[h] # "ACTIVE")
    /\ \A t \in Threads :
          /\ pc[t] \in HoldingPcs \ {"c_committed", "c_commit", "f_fail"} =>
                cur[t] \notin Registered
          /\ pc[t] = "m_tell" => cur[t] \notin Registered

(* The types of the variables that the rest of the invariant speaks of.     *)
Typed ==
    /\ pc \in [Threads -> Pcs]
    /\ cur \in [Threads -> Members \cup {NoHandle}]
    /\ wState \in [Handles -> {"ACTIVE", "FINALIZING", "COMMITTED", "FAILED"}]
    /\ opener \in [Handles -> Threads \cup {Nobody}]
    /\ issued \subseteq Handles /\ closed \subseteq Handles

(* A handle whose state has left ACTIVE is being closed by the thread that   *)
(* opened it, or is closed.                                                 *)
ClosingPcs == FinalizingPcs \cup {"c_commit", "f_fail", "c_unmark", "c_done"}
ClosedOK ==
    /\ \A h \in Handles \ issued : wState[h] = "ACTIVE"
    /\ \A h \in issued \ closed :
          wState[h] = "ACTIVE" \/ (pc[opener[h]] \in ClosingPcs /\ cur[opener[h]] = h)

IInv ==
    /\ TypeOK
    /\ CurOK /\ IssuedOK /\ StateOK /\ ReservationOK /\ LockOK /\ FreshOK
    /\ ClosedOK
    /\ RegisteredOnce
-----------------------------------------------------------------------------

(* A record written for a member keeps the types of the file.                *)
LEMMA WriteRecordTypes ==
    ASSUME TypeOK, NEW m \in Members \cup {Directory}, WriteRecord(m)
    PROVE  /\ disk' \in [Addr -> CellValues]
           /\ pos' \in Nat
           /\ start_dir' = start_dir
BY DEF TypeOK, WriteRecord, CellValues

(* Type correctness of ZipFile.open and writestr.                           *)
LEMMA OpenTypes ==
    ASSUME TypeOK, CurOK, NEW t \in Threads, OpenStep(t)
    PROVE  TypeOK'
<1> USE DEF TypeOK, CurOK, HandlePcs, HoldingPcs, UnissuedPcs, FinalizingPcs,
            EndPcs, MkdirPcs, Pcs, WriterPcs, OpenPcs, TrailerPcs, CommitPcs,
            At, Go, coordinator, flags, file, placing, handles
<1>1. CASE LockWritestr(t)
  BY <1>1 DEF LockWritestr
<1>2. CASE OpenReserve(t)
  BY <1>2 DEF OpenReserve, LockFree, Unmade, Reserve, Busy, CoordinatorStates,
       Members
<1>3. CASE OpenRefused(t)
  BY <1>3 DEF OpenRefused, LockFree, Leave, Unmade, Busy
<1>4. CASE OpenSeek(t)
  BY <1>4 DEF OpenSeek, Seek
<1>5. CASE OpenTell(t)
  BY <1>5 DEF OpenTell, Members
<1>6. CASE OpenFindsClosed(t)
  BY <1>6 DEF OpenFindsClosed, Leave
<1>7. CASE OpenMark(t)
  BY <1>7 DEF OpenMark
<1>8. CASE OpenHeader(t)
  BY <1>8, WriteRecordTypes DEF OpenHeader, Members
<1>9. CASE OpenHeaderFails(t)
  BY <1>9 DEF OpenHeaderFails
<1>10. CASE OpenRelease(t)
  BY <1>10 DEF OpenRelease, LockFree, Leave, Release, Holds, NotifyAll,
       CoordinatorStates, Members
<1>11. CASE OpenPublish(t)
  BY <1>11 DEF OpenPublish, Members
<1>12. CASE WritestrData(t)
  <2>1. CASE fpOpen
    BY <1>12, <2>1, WriteRecordTypes DEF WritestrData, Members
  <2>2. CASE ~fpOpen
    BY <1>12, <2>2, WriteRecordTypes DEF WritestrData, Members
  <2> QED
    BY <1>12, <2>1, <2>2 DEF WritestrData
<1> QED
  BY <1>1, <1>2, <1>3, <1>4, <1>5, <1>6, <1>7, <1>8, <1>9, <1>10, <1>11, <1>12
  DEF OpenStep

(* Type correctness of ZipWriteFile.close.                                  *)
LEMMA CloseTypes ==
    ASSUME TypeOK, CurOK, NEW t \in Threads, CloseStep(t)
    PROVE  TypeOK'
<1> USE DEF TypeOK, CurOK, HandlePcs, HoldingPcs, UnissuedPcs, FinalizingPcs,
            EndPcs, MkdirPcs, Pcs, WriterPcs, OpenPcs, TrailerPcs, CommitPcs,
            At, Go, coordinator, flags, file, placing, handles
<1>1. CASE CloseReturns(t)
  BY <1>1 DEF CloseReturns, LockFree, Leave, Finished, Members
<1>2. CASE CloseWaits(t)
  BY <1>2 DEF CloseWaits, LockFree, Members
<1>3. CASE CloseProceeds(t)
  BY <1>3 DEF CloseProceeds, LockFree, Members
<1>4. CASE CloseFinalizing(t)
  BY <1>4 DEF CloseFinalizing, SetState
<1>5. CASE CloseBegin(t)
  BY <1>5 DEF CloseBegin, LockFree, BeginFinalization, Holds,
       CoordinatorStates, Members
<1>6. CASE CloseStale(t)
  BY <1>6 DEF CloseStale, LockFree, Leave, Holds, Members
<1>7. CASE CloseTell(t)
  BY <1>7 DEF CloseTell
<1>8. CASE CloseSeek(t)
  BY <1>8 DEF CloseSeek, Seek, Members
<1>9. CASE CloseHeader(t)
  BY <1>9, WriteRecordTypes DEF CloseHeader, Members
<1>10. CASE CloseBack(t)
  BY <1>10 DEF CloseBack, Seek
<1>11. CASE CloseFails(t)
  BY <1>11 DEF CloseFails
<1>12. CASE CloseRegister(t)
  BY <1>12 DEF CloseRegister, Members
<1>13. CASE CloseCommitted(t)
  BY <1>13 DEF CloseCommitted, SetState
<1>14. CASE CloseCommit(t)
  BY SMTT(30), ZenonT(30), <1>14 DEF CloseCommit, LockFree, Commit, Holds, NotifyAll,
       CoordinatorStates, Members
<1>15. CASE CloseFailed(t)
  BY <1>15 DEF CloseFailed, SetState
<1>16. CASE CloseFail(t)
  BY <1>16 DEF CloseFail, LockFree, Fail, Holds, NotifyAll, CoordinatorStates,
       Members
<1>17. CASE CloseUnmark(t)
  BY <1>17 DEF CloseUnmark
<1>18. CASE CloseDone(t)
  BY <1>18 DEF CloseDone, LockFree, Leave, NotifyAll
<1> QED
  BY <1>1, <1>2, <1>3, <1>4, <1>5, <1>6, <1>7, <1>8, <1>9, <1>10, <1>11,
     <1>12, <1>13, <1>14, <1>15, <1>16, <1>17, <1>18
  DEF CloseStep

(* Type correctness of mkdir and read.                                      *)
LEMMA ReadOrMkdirTypes ==
    ASSUME TypeOK, CurOK, NEW t \in Threads, ReadOrMkdirStep(t)
    PROVE  TypeOK'
<1> USE DEF TypeOK, CurOK, HandlePcs, HoldingPcs, UnissuedPcs, FinalizingPcs,
            EndPcs, MkdirPcs, Pcs, WriterPcs, OpenPcs, TrailerPcs, CommitPcs,
            At, Go, coordinator, flags, file, placing, handles
<1>1. CASE MkdirRegister(t)
  BY <1>1 DEF MkdirRegister, Members
<1>2. CASE MkdirWrite(t)
  BY <1>2, WriteRecordTypes DEF MkdirWrite, Members
<1>3. CASE MkdirEnd(t)
  BY <1>3 DEF MkdirEnd, Leave
<1>4. CASE MkdirFindsClosed(t)
  BY <1>4 DEF MkdirFindsClosed, Leave
<1>5. CASE ReadSeek(t)
  BY <1>5 DEF ReadSeek, Seek, Members
<1>6. CASE ReadCell(t)
  BY <1>6 DEF ReadCell, Leave
<1> QED
  BY <1>1, <1>2, <1>3, <1>4, <1>5, <1>6
  DEF ReadOrMkdirStep

(* Type correctness of ZipFile.close.                                       *)
LEMMA ArchiveTypes ==
    ASSUME TypeOK, CurOK, NEW t \in Threads, ArchiveStep(t)
    PROVE  TypeOK'
<1> USE DEF TypeOK, CurOK, HandlePcs, HoldingPcs, UnissuedPcs, FinalizingPcs,
            EndPcs, MkdirPcs, Pcs, WriterPcs, OpenPcs, TrailerPcs, CommitPcs,
            At, Go, coordinator, flags, file, placing, handles
<1>1. CASE ArchiveCheck(t)
  BY <1>1 DEF ArchiveCheck
<1>2. CASE ArchiveWaits(t)
  BY <1>2 DEF ArchiveWaits, LockFree, BeingClosed
<1>3. CASE ArchiveRefused(t)
  BY <1>3 DEF ArchiveRefused, LockFree, Leave, BeingClosed
<1>4. CASE ArchiveProceeds(t)
  BY <1>4 DEF ArchiveProceeds, LockFree
<1>5. CASE ArchiveSeek(t)
  BY <1>5 DEF ArchiveSeek, Seek
<1>6. CASE ArchiveGone(t)
  BY <1>6 DEF ArchiveGone, Leave
<1>7. CASE ArchiveWrite(t)
  <2>1. CASE fpOpen
    BY <1>7, <2>1, WriteRecordTypes DEF ArchiveWrite, Members
  <2>2. CASE ~fpOpen
    BY <1>7, <2>2, WriteRecordTypes DEF ArchiveWrite, Members
  <2> QED
    BY <1>7, <2>1, <2>2 DEF ArchiveWrite
<1>8. CASE ArchiveDrop(t)
  BY <1>8 DEF ArchiveDrop, Leave
<1>9. CASE ArchiveUnmodified(t)
  BY <1>9 DEF ArchiveUnmodified
<1> QED
  BY <1>1, <1>2, <1>3, <1>4, <1>5, <1>6, <1>7, <1>8, <1>9
  DEF ArchiveStep

(* Type correctness of the first step of a call.                            *)
LEMMA StartTypes ==
    ASSUME TypeOK, CurOK, NEW t \in Threads, Start(t)
    PROVE  TypeOK'
<1> USE DEF TypeOK, CurOK, HandlePcs, HoldingPcs, UnissuedPcs, FinalizingPcs,
            EndPcs, MkdirPcs, Pcs, WriterPcs, OpenPcs, TrailerPcs, CommitPcs,
            At, Go, coordinator, flags, file, placing, handles
<1>1. CASE StartOpen(t)
  BY <1>1 DEF StartOpen
<1>2. CASE StartWritestr(t)
  BY <1>2 DEF StartWritestr
<1>3. CASE \E h \in Handles : WriteData(t, h)
  BY <1>3, WriteRecordTypes DEF WriteData, Usable, Members
<1>4. CASE \E h \in Handles : StartClose(t, h)
  BY <1>4 DEF StartClose, Usable, Members
<1>5. CASE \E d \in Directories : StartMkdir(t, d)
  BY <1>5 DEF StartMkdir, Seek, Members
<1>6. CASE StartRead(t)
  BY <1>6 DEF StartRead
<1>7. CASE StartCloseArchive(t)
  BY <1>7 DEF StartCloseArchive
<1> QED
  BY <1>1, <1>2, <1>3, <1>4, <1>5, <1>6, <1>7
  DEF Start

(* Who holds what, through ZipFile.open and writestr.                       *)
LEMMA OpenControl ==
    ASSUME IInv, OwnHandles, NEW t \in Threads, OpenStep(t)
    PROVE  CurOK' /\ IssuedOK' /\ StateOK' /\ LockOK' /\ ReservationOK'
<1>0. Typed
  BY DEF IInv, TypeOK, Typed
<1>a. CurOK /\ IssuedOK /\ StateOK /\ LockOK /\ ReservationOK
  BY DEF IInv
<1> USE <1>0, <1>a, ThreadsAssumption
        DEF Typed, CurOK, IssuedOK, StateOK, LockOK, ReservationOK, HandlePcs,
            HoldingPcs, UnissuedPcs, FinalizingPcs, TrailerPcs, EndPcs,
            MkdirPcs, LockedPcs, OwnHandles, At, Go, coordinator, flags, file, placing, handles
<1>1. CASE LockWritestr(t)
  BY <1>1 DEF LockWritestr
<1>2. CASE OpenReserve(t)
  BY <1>2 DEF OpenReserve, LockFree, Unmade, Reserve, Busy
<1>3. CASE OpenRefused(t)
  BY <1>3 DEF OpenRefused, LockFree, Leave, Unmade, Busy
<1>4. CASE OpenSeek(t)
  BY <1>4 DEF OpenSeek, Seek
<1>5. CASE OpenTell(t)
  BY <1>5 DEF OpenTell
<1>6. CASE OpenFindsClosed(t)
  BY <1>6 DEF OpenFindsClosed, Leave
<1>7. CASE OpenMark(t)
  BY <1>7 DEF OpenMark
<1>8. CASE OpenHeader(t)
  BY <1>8 DEF OpenHeader, WriteRecord
<1>9. CASE OpenHeaderFails(t)
  BY <1>9 DEF OpenHeaderFails
<1>10. CASE OpenRelease(t)
  BY <1>10 DEF OpenRelease, LockFree, Leave, Release, Holds, NotifyAll
<1>11. CASE OpenPublish(t)
  BY <1>11 DEF OpenPublish
<1>12. CASE WritestrData(t)
  BY <1>12 DEF WritestrData, WriteRecord
<1> QED
  BY <1>1, <1>2, <1>3, <1>4, <1>5, <1>6, <1>7, <1>8, <1>9, <1>10, <1>11, <1>12
  DEF OpenStep

(* Who holds what, through ZipWriteFile.close.                              *)
LEMMA CloseControl ==
    ASSUME IInv, OwnHandles, NEW t \in Threads, CloseStep(t)
    PROVE  CurOK' /\ IssuedOK' /\ StateOK' /\ LockOK' /\ ReservationOK'
<1>0. Typed
  BY DEF IInv, TypeOK, Typed
<1>a. CurOK /\ IssuedOK /\ StateOK /\ LockOK /\ ReservationOK
  BY DEF IInv
<1> USE <1>0, <1>a, ThreadsAssumption
        DEF Typed, CurOK, IssuedOK, StateOK, LockOK, ReservationOK, HandlePcs,
            HoldingPcs, UnissuedPcs, FinalizingPcs, TrailerPcs, EndPcs,
            MkdirPcs, LockedPcs, OwnHandles, At, Go, coordinator, flags, file, placing, handles
<1>1. CASE CloseReturns(t)
  BY <1>1 DEF CloseReturns, LockFree, Leave, Finished
<1>2. CASE CloseWaits(t)
  BY <1>2 DEF CloseWaits, LockFree
<1>3. CASE CloseProceeds(t)
  BY <1>3 DEF CloseProceeds, LockFree
<1>4. CASE CloseFinalizing(t)
  BY <1>4 DEF CloseFinalizing, SetState
<1>5. CASE CloseBegin(t)
  BY <1>5 DEF CloseBegin, LockFree, BeginFinalization, Holds
<1>6. CASE CloseStale(t)
  BY <1>6 DEF CloseStale, LockFree, Leave, Holds
<1>7. CASE CloseTell(t)
  BY <1>7 DEF CloseTell
<1>8. CASE CloseSeek(t)
  BY <1>8 DEF CloseSeek, Seek
<1>9. CASE CloseHeader(t)
  BY <1>9 DEF CloseHeader, WriteRecord
<1>10. CASE CloseBack(t)
  BY <1>10 DEF CloseBack, Seek
<1>11. CASE CloseFails(t)
  BY <1>11 DEF CloseFails
<1>12. CASE CloseRegister(t)
  BY <1>12 DEF CloseRegister
<1>13. CASE CloseCommitted(t)
  BY <1>13 DEF CloseCommitted, SetState
<1>14. CASE CloseCommit(t)
  BY <1>14 DEF CloseCommit, LockFree, Commit, Holds, NotifyAll
<1>15. CASE CloseFailed(t)
  BY <1>15 DEF CloseFailed, SetState
<1>16. CASE CloseFail(t)
  BY <1>16 DEF CloseFail, LockFree, Fail, Holds, NotifyAll
<1>17. CASE CloseUnmark(t)
  BY <1>17 DEF CloseUnmark
<1>18. CASE CloseDone(t)
  BY <1>18 DEF CloseDone, LockFree, Leave, NotifyAll
<1> QED
  BY <1>1, <1>2, <1>3, <1>4, <1>5, <1>6, <1>7, <1>8, <1>9, <1>10, <1>11,
     <1>12, <1>13, <1>14, <1>15, <1>16, <1>17, <1>18
  DEF CloseStep

(* Who holds what, through mkdir and read.                                  *)
LEMMA ReadOrMkdirControl ==
    ASSUME IInv, OwnHandles, NEW t \in Threads, ReadOrMkdirStep(t)
    PROVE  CurOK' /\ IssuedOK' /\ StateOK' /\ LockOK' /\ ReservationOK'
<1>0. Typed
  BY DEF IInv, TypeOK, Typed
<1>a. CurOK /\ IssuedOK /\ StateOK /\ LockOK /\ ReservationOK
  BY DEF IInv
<1> USE <1>0, <1>a, ThreadsAssumption
        DEF Typed, CurOK, IssuedOK, StateOK, LockOK, ReservationOK, HandlePcs,
            HoldingPcs, UnissuedPcs, FinalizingPcs, TrailerPcs, EndPcs,
            MkdirPcs, LockedPcs, OwnHandles, At, Go, coordinator, flags, file, placing, handles
<1>1. CASE MkdirRegister(t)
  BY <1>1 DEF MkdirRegister
<1>2. CASE MkdirWrite(t)
  BY <1>2 DEF MkdirWrite, WriteRecord
<1>3. CASE MkdirEnd(t)
  BY <1>3 DEF MkdirEnd, Leave
<1>4. CASE MkdirFindsClosed(t)
  BY <1>4 DEF MkdirFindsClosed, Leave
<1>5. CASE ReadSeek(t)
  BY <1>5 DEF ReadSeek, Seek
<1>6. CASE ReadCell(t)
  BY <1>6 DEF ReadCell, Leave
<1> QED
  BY <1>1, <1>2, <1>3, <1>4, <1>5, <1>6
  DEF ReadOrMkdirStep

(* Who holds what, through ZipFile.close.                                   *)
LEMMA ArchiveControl ==
    ASSUME IInv, OwnHandles, NEW t \in Threads, ArchiveStep(t)
    PROVE  CurOK' /\ IssuedOK' /\ StateOK' /\ LockOK' /\ ReservationOK'
<1>0. Typed
  BY DEF IInv, TypeOK, Typed
<1>a. CurOK /\ IssuedOK /\ StateOK /\ LockOK /\ ReservationOK
  BY DEF IInv
<1> USE <1>0, <1>a, ThreadsAssumption
        DEF Typed, CurOK, IssuedOK, StateOK, LockOK, ReservationOK, HandlePcs,
            HoldingPcs, UnissuedPcs, FinalizingPcs, TrailerPcs, EndPcs,
            MkdirPcs, LockedPcs, OwnHandles, At, Go, coordinator, flags, file, placing, handles
<1>1. CASE ArchiveCheck(t)
  BY <1>1 DEF ArchiveCheck
<1>2. CASE ArchiveWaits(t)
  BY <1>2 DEF ArchiveWaits, LockFree, BeingClosed
<1>3. CASE ArchiveRefused(t)
  BY <1>3 DEF ArchiveRefused, LockFree, Leave, BeingClosed
<1>4. CASE ArchiveProceeds(t)
  BY <1>4 DEF ArchiveProceeds, LockFree
<1>5. CASE ArchiveSeek(t)
  BY <1>5 DEF ArchiveSeek, Seek
<1>6. CASE ArchiveGone(t)
  BY <1>6 DEF ArchiveGone, Leave
<1>7. CASE ArchiveWrite(t)
  BY <1>7 DEF ArchiveWrite, WriteRecord
<1>8. CASE ArchiveDrop(t)
  BY <1>8 DEF ArchiveDrop, Leave
<1>9. CASE ArchiveUnmodified(t)
  BY <1>9 DEF ArchiveUnmodified
<1> QED
  BY <1>1, <1>2, <1>3, <1>4, <1>5, <1>6, <1>7, <1>8, <1>9
  DEF ArchiveStep

(* Who holds what, through the first step of a call.                        *)
LEMMA StartControl ==
    ASSUME IInv, OwnHandles, NEW t \in Threads, Start(t)
    PROVE  CurOK' /\ IssuedOK' /\ StateOK' /\ LockOK' /\ ReservationOK'
<1>0. Typed
  BY DEF IInv, TypeOK, Typed
<1>a. CurOK /\ IssuedOK /\ StateOK /\ LockOK /\ ReservationOK
  BY DEF IInv
<1> USE <1>0, <1>a, ThreadsAssumption
        DEF Typed, CurOK, IssuedOK, StateOK, LockOK, ReservationOK, HandlePcs,
            HoldingPcs, UnissuedPcs, FinalizingPcs, TrailerPcs, EndPcs,
            MkdirPcs, LockedPcs, OwnHandles, At, Go, coordinator, flags, file, placing, handles
<1>1. CASE StartOpen(t)
  BY <1>1 DEF StartOpen
<1>2. CASE StartWritestr(t)
  BY <1>2 DEF StartWritestr
<1>3. CASE \E h \in Handles : WriteData(t, h)
  BY <1>3 DEF WriteData, WriteRecord, Usable
<1>4. CASE \E h \in Handles : StartClose(t, h)
  BY <1>4 DEF StartClose, Usable
<1>5. CASE \E d \in Directories : StartMkdir(t, d)
  BY <1>5 DEF StartMkdir, Seek
<1>6. CASE StartRead(t)
  BY <1>6 DEF StartRead
<1>7. CASE StartCloseArchive(t)
  BY <1>7 DEF StartCloseArchive
<1> QED
  BY <1>1, <1>2, <1>3, <1>4, <1>5, <1>6, <1>7
  DEF Start

(* Registration, through ZipFile.open and writestr.                         *)
LEMMA OpenFresh ==
    ASSUME IInv, OwnHandles, NEW t \in Threads, OpenStep(t)
    PROVE  FreshOK' /\ RegisteredOnce'
<1>0. Typed /\ filelist \in Seq(Members)
  BY DEF IInv, TypeOK, Typed
<1>a. CurOK /\ IssuedOK /\ StateOK /\ FreshOK /\ RegisteredOnce
      /\ LockOK /\ ReservationOK
  BY DEF IInv
<1> USE <1>0, <1>a, ThreadsAssumption
        DEF Typed, CurOK, IssuedOK, StateOK, FreshOK, RegisteredOnce,
            Registered, HandlePcs, HoldingPcs, UnissuedPcs, FinalizingPcs,
            TrailerPcs, EndPcs, MkdirPcs, OwnHandles, At, Go, coordinator, flags, file, placing, handles
<1>1. CASE LockWritestr(t)
  BY <1>1 DEF LockWritestr
<1>2. CASE OpenReserve(t)
  BY <1>2 DEF OpenReserve, LockFree, Unmade, Reserve, Busy
<1>3. CASE OpenRefused(t)
  BY <1>3 DEF OpenRefused, LockFree, Leave, Unmade, Busy
<1>4. CASE OpenSeek(t)
  BY <1>4 DEF OpenSeek, Seek
<1>5. CASE OpenTell(t)
  BY <1>5 DEF OpenTell
<1>6. CASE OpenFindsClosed(t)
  BY <1>6 DEF OpenFindsClosed, Leave
<1>7. CASE OpenMark(t)
  BY <1>7 DEF OpenMark
<1>8. CASE OpenHeader(t)
  BY <1>8 DEF OpenHeader, WriteRecord
<1>9. CASE OpenHeaderFails(t)
  BY <1>9 DEF OpenHeaderFails
<1>10. CASE OpenRelease(t)
  BY <1>10 DEF OpenRelease, LockFree, Leave, Release, Holds, NotifyAll
<1>11. CASE OpenPublish(t)
  BY <1>11 DEF OpenPublish
<1>12. CASE WritestrData(t)
  BY <1>12 DEF WritestrData, WriteRecord
<1> QED
  BY <1>1, <1>2, <1>3, <1>4, <1>5, <1>6, <1>7, <1>8, <1>9, <1>10, <1>11, <1>12
  DEF OpenStep

(* Registration, through ZipWriteFile.close.                                *)
LEMMA CloseFresh ==
    ASSUME IInv, OwnHandles, NEW t \in Threads, CloseStep(t)
    PROVE  FreshOK' /\ RegisteredOnce'
<1>0. Typed /\ filelist \in Seq(Members)
  BY DEF IInv, TypeOK, Typed
<1>a. CurOK /\ IssuedOK /\ StateOK /\ FreshOK /\ RegisteredOnce
      /\ LockOK /\ ReservationOK
  BY DEF IInv
<1> USE <1>0, <1>a, ThreadsAssumption
        DEF Typed, CurOK, IssuedOK, StateOK, FreshOK, RegisteredOnce,
            Registered, HandlePcs, HoldingPcs, UnissuedPcs, FinalizingPcs,
            TrailerPcs, EndPcs, MkdirPcs, OwnHandles, At, Go, coordinator, flags, file, placing, handles
<1>1. CASE CloseReturns(t)
  BY <1>1 DEF CloseReturns, LockFree, Leave, Finished
<1>2. CASE CloseWaits(t)
  BY <1>2 DEF CloseWaits, LockFree
<1>3. CASE CloseProceeds(t)
  BY <1>3 DEF CloseProceeds, LockFree
<1>4. CASE CloseFinalizing(t)
  BY <1>4 DEF CloseFinalizing, SetState
<1>5. CASE CloseBegin(t)
  BY <1>5 DEF CloseBegin, LockFree, BeginFinalization, Holds
<1>6. CASE CloseStale(t)
  BY <1>6 DEF CloseStale, LockFree, Leave, Holds
<1>7. CASE CloseTell(t)
  BY <1>7 DEF CloseTell
<1>8. CASE CloseSeek(t)
  BY <1>8 DEF CloseSeek, Seek
<1>9. CASE CloseHeader(t)
  BY <1>9 DEF CloseHeader, WriteRecord
<1>10. CASE CloseBack(t)
  BY <1>10 DEF CloseBack, Seek
<1>11. CASE CloseFails(t)
  BY <1>11 DEF CloseFails
<1>12. CASE CloseRegister(t)
  BY <1>12 DEF CloseRegister
<1>13. CASE CloseCommitted(t)
  BY <1>13 DEF CloseCommitted, SetState
<1>14. CASE CloseCommit(t)
  <2>1. CASE Commit(cur[t])
    BY <1>14, <2>1 DEF CloseCommit, LockFree, Commit, Holds, NotifyAll,
         ReservationOK
  <2>2. CASE UNCHANGED coordinator
    BY <1>14, <2>2 DEF CloseCommit, LockFree, Commit, Holds, NotifyAll,
         ReservationOK
  <2> QED
    BY <1>14, <2>1, <2>2 DEF CloseCommit, Commit, Holds
<1>15. CASE CloseFailed(t)
  BY <1>15 DEF CloseFailed, SetState
<1>16. CASE CloseFail(t)
  BY <1>16 DEF CloseFail, LockFree, Fail, Holds, NotifyAll
<1>17. CASE CloseUnmark(t)
  BY <1>17 DEF CloseUnmark
<1>18. CASE CloseDone(t)
  BY <1>18 DEF CloseDone, LockFree, Leave, NotifyAll
<1> QED
  BY <1>1, <1>2, <1>3, <1>4, <1>5, <1>6, <1>7, <1>8, <1>9, <1>10, <1>11,
     <1>12, <1>13, <1>14, <1>15, <1>16, <1>17, <1>18
  DEF CloseStep

(* Registration, through mkdir and read.                                    *)
LEMMA ReadOrMkdirFresh ==
    ASSUME IInv, OwnHandles, NEW t \in Threads, ReadOrMkdirStep(t)
    PROVE  FreshOK' /\ RegisteredOnce'
<1>0. Typed /\ filelist \in Seq(Members)
  BY DEF IInv, TypeOK, Typed
<1>a. CurOK /\ IssuedOK /\ StateOK /\ FreshOK /\ RegisteredOnce
      /\ LockOK /\ ReservationOK
  BY DEF IInv
<1> USE <1>0, <1>a, ThreadsAssumption
        DEF Typed, CurOK, IssuedOK, StateOK, FreshOK, RegisteredOnce,
            Registered, HandlePcs, HoldingPcs, UnissuedPcs, FinalizingPcs,
            TrailerPcs, EndPcs, MkdirPcs, OwnHandles, At, Go, coordinator, flags, file, placing, handles
<1>1. CASE MkdirRegister(t)
  BY <1>1 DEF MkdirRegister, LockOK, LockedPcs
<1>2. CASE MkdirWrite(t)
  BY <1>2 DEF MkdirWrite, WriteRecord
<1>3. CASE MkdirEnd(t)
  BY <1>3 DEF MkdirEnd, Leave
<1>4. CASE MkdirFindsClosed(t)
  BY <1>4 DEF MkdirFindsClosed, Leave
<1>5. CASE ReadSeek(t)
  BY <1>5 DEF ReadSeek, Seek
<1>6. CASE ReadCell(t)
  BY <1>6 DEF ReadCell, Leave
<1> QED
  BY <1>1, <1>2, <1>3, <1>4, <1>5, <1>6
  DEF ReadOrMkdirStep

(* Registration, through ZipFile.close.                                     *)
LEMMA ArchiveFresh ==
    ASSUME IInv, OwnHandles, NEW t \in Threads, ArchiveStep(t)
    PROVE  FreshOK' /\ RegisteredOnce'
<1>0. Typed /\ filelist \in Seq(Members)
  BY DEF IInv, TypeOK, Typed
<1>a. CurOK /\ IssuedOK /\ StateOK /\ FreshOK /\ RegisteredOnce
      /\ LockOK /\ ReservationOK
  BY DEF IInv
<1> USE <1>0, <1>a, ThreadsAssumption
        DEF Typed, CurOK, IssuedOK, StateOK, FreshOK, RegisteredOnce,
            Registered, HandlePcs, HoldingPcs, UnissuedPcs, FinalizingPcs,
            TrailerPcs, EndPcs, MkdirPcs, OwnHandles, At, Go, coordinator, flags, file, placing, handles
<1>1. CASE ArchiveCheck(t)
  BY <1>1 DEF ArchiveCheck
<1>2. CASE ArchiveWaits(t)
  BY <1>2 DEF ArchiveWaits, LockFree, BeingClosed
<1>3. CASE ArchiveRefused(t)
  BY <1>3 DEF ArchiveRefused, LockFree, Leave, BeingClosed
<1>4. CASE ArchiveProceeds(t)
  BY <1>4 DEF ArchiveProceeds, LockFree
<1>5. CASE ArchiveSeek(t)
  BY <1>5 DEF ArchiveSeek, Seek
<1>6. CASE ArchiveGone(t)
  BY <1>6 DEF ArchiveGone, Leave
<1>7. CASE ArchiveWrite(t)
  BY <1>7 DEF ArchiveWrite, WriteRecord
<1>8. CASE ArchiveDrop(t)
  BY <1>8 DEF ArchiveDrop, Leave
<1>9. CASE ArchiveUnmodified(t)
  BY <1>9 DEF ArchiveUnmodified
<1> QED
  BY <1>1, <1>2, <1>3, <1>4, <1>5, <1>6, <1>7, <1>8, <1>9
  DEF ArchiveStep

(* Registration, through the first step of a call.                          *)
LEMMA StartFresh ==
    ASSUME IInv, OwnHandles, NEW t \in Threads, Start(t)
    PROVE  FreshOK' /\ RegisteredOnce'
<1>0. Typed /\ filelist \in Seq(Members)
  BY DEF IInv, TypeOK, Typed
<1>a. CurOK /\ IssuedOK /\ StateOK /\ FreshOK /\ RegisteredOnce
      /\ LockOK /\ ReservationOK
  BY DEF IInv
<1> USE <1>0, <1>a, ThreadsAssumption
        DEF Typed, CurOK, IssuedOK, StateOK, FreshOK, RegisteredOnce,
            Registered, HandlePcs, HoldingPcs, UnissuedPcs, FinalizingPcs,
            TrailerPcs, EndPcs, MkdirPcs, OwnHandles, At, Go, coordinator, flags, file, placing, handles
<1>1. CASE StartOpen(t)
  BY <1>1 DEF StartOpen
<1>2. CASE StartWritestr(t)
  BY <1>2 DEF StartWritestr
<1>3. CASE \E h \in Handles : WriteData(t, h)
  BY <1>3 DEF WriteData, WriteRecord, Usable
<1>4. CASE \E h \in Handles : StartClose(t, h)
  BY <1>4 DEF StartClose, Usable
<1>5. CASE \E d \in Directories : StartMkdir(t, d)
  BY <1>5 DEF StartMkdir, Seek
<1>6. CASE StartRead(t)
  BY <1>6 DEF StartRead
<1>7. CASE StartCloseArchive(t)
  BY <1>7 DEF StartCloseArchive
<1> QED
  BY <1>1, <1>2, <1>3, <1>4, <1>5, <1>6, <1>7
  DEF Start

(* Handles that are not closed, through a step that is not about them.      *)
LEMMA ClosedKept ==
    ASSUME Typed, IssuedOK, ClosedOK, NEW t \in Threads,
           UNCHANGED <<wState, opener, issued, closed>>,
           \A u \in Threads \ {t} : pc'[u] = pc[u] /\ cur'[u] = cur[u],
           pc[t] \in ClosingPcs => pc'[t] \in ClosingPcs /\ cur'[t] = cur[t]
    PROVE  ClosedOK'
<1>1. ASSUME NEW h \in issued \ closed, wState[h] # "ACTIVE"
      PROVE  pc'[opener[h]] \in ClosingPcs /\ cur'[opener[h]] = h
  <2>1. opener[h] \in Threads
    BY <1>1 DEF Typed, IssuedOK
  <2>2. pc[opener[h]] \in ClosingPcs /\ cur[opener[h]] = h
    BY <1>1 DEF ClosedOK
  <2> QED
    BY <2>1, <2>2
<1> QED
  BY <1>1 DEF ClosedOK

(* Handles that are not closed, through ZipFile.open and writestr.          *)
LEMMA OpenClosed ==
    ASSUME IInv, NEW t \in Threads, OpenStep(t)
    PROVE  ClosedOK'
<1>0. Typed /\ CurOK /\ IssuedOK /\ ClosedOK
  BY DEF IInv, TypeOK, Typed
<1>1. CASE OpenReserve(t)
  <2>1. PICK h \in Unmade : opener' = [opener EXCEPT ![h] = t]
                            /\ cur' = [cur EXCEPT ![t] = h]
    BY <1>1 DEF OpenReserve
  <2>2. \A g \in issued : opener'[g] = opener[g]
    BY <1>0, <2>1 DEF Unmade, IssuedOK, Typed
  <2>3. pc[t] \notin ClosingPcs /\ pc' = [pc EXCEPT ![t] = "o_seek"]
        /\ UNCHANGED <<wState, issued, closed>>
    BY <1>1 DEF OpenReserve, At, Go, ClosingPcs, FinalizingPcs, TrailerPcs
  <2>4. ASSUME NEW g \in issued \ closed, wState[g] # "ACTIVE"
        PROVE  pc'[opener'[g]] \in ClosingPcs /\ cur'[opener'[g]] = g
    <3>1. opener[g] \in Threads /\ opener'[g] = opener[g]
      BY <1>0, <2>2, <2>4 DEF Typed, IssuedOK
    <3>2. pc[opener[g]] \in ClosingPcs /\ cur[opener[g]] = g /\ opener[g] # t
      BY <1>0, <2>3, <2>4 DEF ClosedOK
    <3> QED
      BY <1>0, <2>1, <2>3, <3>1, <3>2 DEF Typed
  <2> QED
    BY <1>0, <2>3, <2>4 DEF ClosedOK
<1>2. CASE OpenPublish(t)
  <2>1. /\ issued' = issued \cup {cur[t]} /\ UNCHANGED <<wState, opener, closed, cur>>
        /\ pc[t] \notin ClosingPcs /\ pc' = [pc EXCEPT ![t] = pc'[t]]
    BY <1>0, <1>2 DEF OpenPublish, At, Go, ClosingPcs, FinalizingPcs, TrailerPcs, Typed
  <2>2. cur[t] \in Handles /\ cur[t] \notin issued
    BY <1>0, <1>2 DEF OpenPublish, At, CurOK, IssuedOK, HandlePcs, HoldingPcs, UnissuedPcs
  <2>3. wState[cur[t]] = "ACTIVE"
    BY <1>0, <2>2 DEF ClosedOK
  <2>4. ASSUME NEW g \in issued \ closed, wState[g] # "ACTIVE"
        PROVE  pc'[opener[g]] \in ClosingPcs /\ cur[opener[g]] = g
    <3>1. opener[g] \in Threads
      BY <1>0, <2>4 DEF Typed, IssuedOK
    <3>2. pc[opener[g]] \in ClosingPcs /\ cur[opener[g]] = g /\ opener[g] # t
      BY <1>0, <2>1, <2>4 DEF ClosedOK
    <3> QED
      BY <1>0, <2>1, <3>1, <3>2 DEF Typed
  <2> QED
    BY <1>0, <2>1, <2>3, <2>4 DEF ClosedOK
<1>3. CASE LockWritestr(t) \/ OpenRefused(t) \/ OpenSeek(t) \/ OpenTell(t)
           \/ OpenFindsClosed(t) \/ OpenMark(t) \/ OpenHeader(t)
           \/ OpenHeaderFails(t) \/ OpenRelease(t) \/ WritestrData(t)
  <2>1. /\ UNCHANGED <<wState, opener, issued, closed, cur>>
        /\ \E l : pc' = [pc EXCEPT ![t] = l]
        /\ pc[t] \notin ClosingPcs
    BY <1>3 DEF LockWritestr, OpenRefused, OpenSeek, OpenTell, OpenFindsClosed,
       OpenMark, OpenHeader, OpenHeaderFails, OpenRelease, WritestrData, At, Go,
       Leave, handles, ClosingPcs, FinalizingPcs, TrailerPcs
  <2> QED
    BY <1>0, <2>1, ClosedKept DEF Typed
<1> QED
  BY <1>1, <1>2, <1>3 DEF OpenStep

(* Handles that are not closed, through ZipWriteFile.close.                 *)
LEMMA CloseClosed ==
    ASSUME IInv, NEW t \in Threads, CloseStep(t)
    PROVE  ClosedOK'
<1>0. Typed /\ CurOK /\ IssuedOK /\ ClosedOK /\ ReservationOK
  BY DEF IInv, TypeOK, Typed
<1>a. /\ cur[t] \in Handles /\ opener[cur[t]] = t /\ cur[t] \in issued
      /\ pc[t] \in HandlePcs \ UnissuedPcs
  <2>1. pc[t] \in HandlePcs \ UnissuedPcs
    BY DEF CloseStep, CloseReturns, CloseWaits, CloseProceeds, CloseFinalizing,
       CloseBegin, CloseStale, CloseTell, CloseSeek, CloseHeader, CloseBack,
       CloseFails, CloseRegister, CloseCommitted, CloseCommit, CloseFailed,
       CloseFail, CloseUnmark, CloseDone, At, HandlePcs, HoldingPcs, UnissuedPcs,
       FinalizingPcs, TrailerPcs, EndPcs
  <2> QED
    BY <1>0, <2>1 DEF CurOK, IssuedOK
<1>1. CASE CloseFinalizing(t) \/ CloseCommitted(t) \/ CloseFailed(t)
  <2>1. /\ UNCHANGED <<opener, issued, closed, cur>>
        /\ \E l \in ClosingPcs : pc' = [pc EXCEPT ![t] = l]
        /\ \E x : wState' = [wState EXCEPT ![cur[t]] = x]
    BY <1>1 DEF CloseFinalizing, CloseCommitted, CloseFailed, SetState, Go,
       ClosingPcs, FinalizingPcs
  <2>2. ASSUME NEW g \in issued \ closed, wState'[g] # "ACTIVE"
        PROVE  pc'[opener[g]] \in ClosingPcs /\ cur[opener[g]] = g
    <3>1. CASE g = cur[t]
      BY <1>0, <1>a, <2>1, <3>1 DEF Typed
    <3>2. CASE g # cur[t]
      <4>1. wState'[g] = wState[g] /\ opener[g] \in Threads
        BY <1>0, <2>1, <2>2, <3>2 DEF Typed, IssuedOK
      <4>2. pc[opener[g]] \in ClosingPcs /\ cur[opener[g]] = g /\ opener[g] # t
        BY <1>0, <2>2, <3>2, <4>1 DEF ClosedOK
      <4> QED
        BY <1>0, <2>1, <4>1, <4>2 DEF Typed
    <3> QED
      BY <3>1, <3>2
  <2>3. \A g \in Handles \ issued : wState'[g] = "ACTIVE"
    BY <1>0, <1>a, <2>1 DEF ClosedOK, Typed
  <2> QED
    BY <2>1, <2>2, <2>3 DEF ClosedOK
<1>2. CASE CloseStale(t)
  BY <1>0, <1>2 DEF CloseStale, Holds, At, ReservationOK, HoldingPcs, FinalizingPcs
<1>3. CASE CloseDone(t)
  <2>1. /\ UNCHANGED <<wState, opener, issued, cur>> /\ closed' = closed \cup {cur[t]}
        /\ \E l : pc' = [pc EXCEPT ![t] = l]
    BY <1>3 DEF CloseDone, Leave, Go
  <2>2. ASSUME NEW g \in issued \ closed', wState[g] # "ACTIVE"
        PROVE  pc'[opener[g]] \in ClosingPcs /\ cur[opener[g]] = g
    <3>1. g # cur[t] /\ opener[g] \in Threads
      BY <1>0, <2>1, <2>2 DEF Typed, IssuedOK
    <3>2. pc[opener[g]] \in ClosingPcs /\ cur[opener[g]] = g
      BY <1>0, <2>1, <2>2 DEF ClosedOK
    <3>3. opener[g] # t
      BY <3>1, <3>2
    <3> QED
      BY <1>0, <2>1, <3>1, <3>2, <3>3 DEF Typed
  <2> QED
    BY <1>0, <2>1, <2>2 DEF ClosedOK
<1>4. CASE CloseReturns(t) \/ CloseWaits(t) \/ CloseProceeds(t)
  <2>1. /\ UNCHANGED <<wState, opener, issued, closed, cur>>
        /\ \E l : pc' = [pc EXCEPT ![t] = l]
        /\ pc[t] \notin ClosingPcs
    BY <1>4 DEF CloseReturns, CloseWaits, CloseProceeds, At, Go, Leave, handles,
       ClosingPcs, FinalizingPcs, TrailerPcs
  <2> QED
    BY <1>0, <2>1, ClosedKept DEF Typed
<1>5. CASE CloseBegin(t) \/ CloseTell(t) \/ CloseSeek(t) \/ CloseHeader(t)
           \/ CloseBack(t) \/ CloseFails(t) \/ CloseRegister(t) \/ CloseCommit(t)
           \/ CloseFail(t) \/ CloseUnmark(t)
  <2>1. /\ UNCHANGED <<wState, opener, issued, closed, cur>>
        /\ \E l \in ClosingPcs : pc' = [pc EXCEPT ![t] = l]
    BY <1>5 DEF CloseBegin, CloseTell, CloseSeek, CloseHeader, CloseBack,
       CloseFails, CloseRegister, CloseCommit, CloseFail, CloseUnmark, At, Go,
       handles, ClosingPcs, FinalizingPcs, TrailerPcs
  <2> QED
    BY <1>0, <2>1, ClosedKept DEF Typed
<1> QED
  BY <1>1, <1>2, <1>3, <1>4, <1>5 DEF CloseStep

(* Handles that are not closed, through the other calls.                    *)
LEMMA OtherClosed ==
    ASSUME IInv, NEW t \in Threads,
           ReadOrMkdirStep(t) \/ ArchiveStep(t) \/ Start(t)
    PROVE  ClosedOK'
<1>0. Typed /\ IssuedOK /\ ClosedOK
  BY DEF IInv, TypeOK, Typed
<1> USE DEF At, Go, Leave, handles, ClosingPcs, FinalizingPcs, TrailerPcs
<1> DEFINE Other ==
        /\ UNCHANGED <<wState, opener, issued, closed>>
        /\ pc' = pc \/ \E l : pc' = [pc EXCEPT ![t] = l]
        /\ cur' = cur \/ \E m : cur' = [cur EXCEPT ![t] = m]
        /\ pc[t] \notin ClosingPcs
<1>1. CASE ReadOrMkdirStep(t)
  <2>1. Other
    BY <1>1 DEF ReadOrMkdirStep, MkdirRegister, MkdirWrite, MkdirEnd,
       MkdirFindsClosed, ReadSeek, ReadCell
  <2> QED
    BY <1>0, <2>1, ClosedKept DEF Typed
<1>2. CASE ArchiveStep(t)
  <2>1. Other
    BY <1>2 DEF ArchiveStep, ArchiveCheck, ArchiveWaits, ArchiveRefused,
       ArchiveProceeds, ArchiveUnmodified, ArchiveSeek, ArchiveGone, ArchiveWrite,
       ArchiveDrop
  <2> QED
    BY <1>0, <2>1, ClosedKept DEF Typed
<1>3. CASE Start(t)
  <2>1. Other
    BY <1>3 DEF Start, StartOpen, StartWritestr, WriteData, StartClose,
       StartMkdir, StartRead, StartCloseArchive
  <2> QED
    BY <1>0, <2>1, ClosedKept DEF Typed
<1> QED
  BY <1>1, <1>2, <1>3

(* Every step of a thread preserves the invariant.                           *)
LEMMA Preserves ==
    ASSUME IInv, OwnHandles, NEW t \in Threads, Step(t) \/ Start(t)
    PROVE  IInv'
<1> USE DEF IInv
<1>1. CASE OpenStep(t)
  BY <1>1, OpenTypes, OpenControl, OpenFresh, OpenClosed
<1>2. CASE CloseStep(t)
  BY <1>2, CloseTypes, CloseControl, CloseFresh, CloseClosed
<1>3. CASE ReadOrMkdirStep(t)
  BY <1>3, ReadOrMkdirTypes, ReadOrMkdirControl, ReadOrMkdirFresh, OtherClosed
<1>4. CASE ArchiveStep(t)
  BY <1>4, ArchiveTypes, ArchiveControl, ArchiveFresh, OtherClosed
<1>5. CASE Start(t)
  BY <1>5, StartTypes, StartControl, StartFresh, OtherClosed
<1> QED
  BY <1>1, <1>2, <1>3, <1>4, <1>5 DEF Step

(* The invariant holds at the start.                                         *)
LEMMA InitEstablishes == Init => IInv
<1> SUFFICES ASSUME Init PROVE IInv
  OBVIOUS
<1> USE ThreadsAssumption DEF Init, CoordinatorInit
<1>1. TypeOK
  <2>1. Typed
    BY DEF Typed, Pcs
  <2>2. disk \in [Addr -> CellValues] /\ got \in [Threads -> CellValues]
    BY DEF CellValues, Members
  <2>3. filelist \in Seq(Members)
    BY DEF Members
  <2> QED
    BY <2>1, <2>2, <2>3 DEF TypeOK, Typed, CoordinatorStates
<1>2. CurOK /\ StateOK /\ LockOK
  BY DEF CurOK, StateOK, LockOK, HandlePcs, HoldingPcs, UnissuedPcs,
         FinalizingPcs, TrailerPcs, EndPcs, MkdirPcs, LockedPcs
<1>3. IssuedOK /\ ReservationOK
  BY DEF IssuedOK, ReservationOK, HandlePcs, HoldingPcs, UnissuedPcs,
         FinalizingPcs, TrailerPcs, EndPcs
<1>4. Registered = {Old} /\ RegisteredOnce
  BY DEF Registered, RegisteredOnce
<1>6. ClosedOK
  BY DEF ClosedOK
<1>5. FreshOK
  BY <1>4 DEF FreshOK, HoldingPcs, UnissuedPcs, FinalizingPcs, TrailerPcs
<1> QED
  BY <1>1, <1>2, <1>3, <1>4, <1>5, <1>6 DEF IInv

(* A step that changes nothing preserves it.                                 *)
LEMMA StutterPreserves ==
    ASSUME IInv, UNCHANGED vars
    PROVE  IInv'
BY DEF IInv, TypeOK, CurOK, IssuedOK, StateOK, ReservationOK, LockOK, FreshOK,
       ClosedOK, RegisteredOnce, Registered, vars, coordinator, flags, file, placing,
       handles

(* The invariant holds in every reachable state: nobody writes to a handle   *)
(* unless the coordinator's reservation is that handle's.                    *)
THEOREM Invariance == ASSUME OwnHandles PROVE Spec => []IInv
<1>1. IInv /\ [Next]_vars => IInv'
  <2> SUFFICES ASSUME IInv, [Next]_vars PROVE IInv'
    OBVIOUS
  <2>1. CASE UNCHANGED vars
    BY <2>1, StutterPreserves
  <2>2. CASE Next
    <3> PICK t \in Threads : Step(t) \/ Start(t)
      BY <2>2 DEF Next
    <3> QED
      BY Preserves
  <2> QED
    BY <2>1, <2>2
<1> QED
  BY <1>1, InitEstablishes, PTL DEF Spec
-----------------------------------------------------------------------------

(* Every variable keeps its type.                                            *)
THEOREM TypeCorrect == ASSUME OwnHandles PROVE Spec => []TypeOK
<1>1. IInv => TypeOK
  BY DEF IInv
<1> QED
  BY <1>1, Invariance, PTL

(* Writers never overlap: ZipFile.open and writestr, in any number of        *)
(* threads, hand out a second handle only when the first is closed.          *)
THEOREM WritersTakeTurns == ASSUME OwnHandles PROVE Spec => []OneWriter
<1>1. IInv => OneWriter
  <2> SUFFICES ASSUME IInv PROVE OneWriter
    OBVIOUS
  <2>1. \A t \in Threads : pc[t] \in WriterPcs =>
            /\ reservation = cur[t]
            /\ cur[t] \in Handles /\ opener[cur[t]] = t
    BY DEF IInv, ReservationOK, CurOK, HandlePcs, HoldingPcs, UnissuedPcs,
           FinalizingPcs, WriterPcs, OpenPcs, TrailerPcs, CommitPcs
  <2>2. \A h \in Handles : Live(h) => reservation = h
    BY <2>1 DEF Live, IInv, ReservationOK
  <2> QED
    BY <2>1, <2>2 DEF OneWriter
<1> QED
  BY <1>1, Invariance, PTL

(* No member is put in the directory twice.                                  *)
THEOREM MembersRegisteredOnce == ASSUME OwnHandles PROVE Spec => []RegisteredOnce
<1>1. IInv => RegisteredOnce
  BY DEF IInv
<1> QED
  BY <1>1, Invariance, PTL
-----------------------------------------------------------------------------
(* The coordinator, the handles made and the list of members change only in *)
(* these steps.                                                             *)
LEMMA Quiet ==
    ASSUME NEW t \in Threads, Step(t) \/ Start(t)
    PROVE  \/ OpenReserve(t) \/ OpenRelease(t) \/ CloseBegin(t)
           \/ CloseRegister(t) \/ CloseCommit(t) \/ CloseFail(t)
           \/ MkdirRegister(t)
           \/ UNCHANGED <<coordState, reservation, opener, filelist>>
<1> USE DEF coordinator, handles
<1>1. CASE OpenStep(t)
  BY <1>1 DEF OpenStep, LockWritestr, OpenRefused, OpenSeek, OpenTell,
     OpenFindsClosed, OpenMark, OpenHeader, OpenHeaderFails, OpenPublish,
     WritestrData
<1>2. CASE CloseStep(t)
  BY <1>2 DEF CloseStep, CloseReturns, CloseWaits, CloseProceeds,
     CloseFinalizing, CloseStale, CloseTell, CloseSeek, CloseHeader, CloseBack,
     CloseFails, CloseCommitted, CloseFailed, CloseUnmark, CloseDone
<1>3. CASE ReadOrMkdirStep(t)
  BY <1>3 DEF ReadOrMkdirStep, MkdirWrite, MkdirEnd, MkdirFindsClosed,
     ReadSeek, ReadCell
<1>4. CASE ArchiveStep(t)
  BY <1>4 DEF ArchiveStep, ArchiveCheck, ArchiveWaits, ArchiveRefused,
     ArchiveProceeds, ArchiveUnmodified, ArchiveSeek, ArchiveGone, ArchiveWrite, ArchiveDrop
<1>5. CASE Start(t)
  BY <1>5 DEF Start, StartOpen, StartWritestr, WriteData, StartClose,
     StartMkdir, StartRead, StartCloseArchive
<1> QED
  BY <1>1, <1>2, <1>3, <1>4, <1>5 DEF Step

(* A step of a thread is a turn taken, given back or used to add a member,  *)
(* or nothing that the writers' turns tell apart.                            *)
LEMMA StepIsTurn ==
    ASSUME IInv, OwnHandles, NEW t \in Threads, Step(t) \/ Start(t)
    PROVE  [Turns!Next]_Turns!vars
<1> USE DEF Turns!Next, Turns!vars, Turns!Take, Turns!Add, Turns!Give
<1>0. Typed /\ CurOK /\ ReservationOK /\ FreshOK /\ filelist \in Seq(Members)
  BY DEF IInv, TypeOK, Typed
<1>1. CASE OpenReserve(t)
  <2>1. PICK h \in Unmade : Reserve(h) /\ opener' = [opener EXCEPT ![h] = t]
    BY <1>1 DEF OpenReserve
  <2>2. reservation = NoHandle /\ reservation' = h /\ h \in Handles
    BY <2>1, <1>0 DEF Reserve, Busy, ReservationOK, Unmade
  <2>3. h \notin Handles \ Unmade
    BY <2>1
  <2>4. (Handles \ Unmade)' = (Handles \ Unmade) \cup {h}
    BY <2>1, <1>0, ThreadsAssumption DEF Unmade, Typed
  <2>5. filelist' = filelist
    BY <1>1 DEF OpenReserve
  <2> QED
    BY <2>2, <2>3, <2>4, <2>5
<1>2. CASE OpenRelease(t)
  BY <1>0, <1>2 DEF OpenRelease, Release, Holds, handles, coordinator, Unmade,
     CurOK, HandlePcs, HoldingPcs, UnissuedPcs, At
<1>3. CASE CloseBegin(t)
  BY <1>3 DEF CloseBegin, BeginFinalization, handles, Unmade
<1>4. CASE CloseRegister(t)
  <2>1. /\ cur[t] \in Handles
        /\ reservation = cur[t] /\ cur[t] \notin Registered
    BY <1>0, <1>4 DEF CloseRegister, CurOK, ReservationOK, FreshOK, HandlePcs,
       HoldingPcs, FinalizingPcs, At
  <2>2. Registered' = Registered \cup {cur[t]}
    BY <1>0, <1>4, <2>1 DEF CloseRegister, Registered, Members
  <2>3. UNCHANGED <<reservation, opener>>
    BY <1>4 DEF CloseRegister, coordinator, handles
  <2>4. {h \in Handles : \E k \in DOMAIN filelist : filelist[k] = h}
            = Registered \cap Handles
    BY DEF Registered
  <2>5. {h \in Handles : \E k \in DOMAIN filelist : filelist[k] = h}'
            = Registered' \cap Handles
    BY DEF Registered
  <2> QED
    BY <2>1, <2>2, <2>3, <2>4, <2>5 DEF Unmade
<1>5. CASE CloseCommit(t)
  BY <1>0, <1>5 DEF CloseCommit, Commit, Holds, handles, coordinator, Unmade,
     CurOK, HandlePcs, HoldingPcs, At
<1>6. CASE CloseFail(t)
  BY <1>0, <1>6 DEF CloseFail, Fail, Holds, handles, coordinator, Unmade,
     CurOK, HandlePcs, HoldingPcs, At
<1>7. CASE MkdirRegister(t)
  <2>1. cur[t] \in Members \ Handles
    BY <1>0, <1>7, ThreadsAssumption
       DEF MkdirRegister, CurOK, MkdirPcs, At, Members
  <2>2. \A h \in Handles :
            (\E k \in DOMAIN filelist : filelist[k] = h)
               <=> (\E k \in DOMAIN filelist' : filelist'[k] = h)
    BY <1>0, <1>7, <2>1 DEF MkdirRegister
  <2>3. UNCHANGED <<reservation, opener>>
    BY <1>7 DEF MkdirRegister, coordinator, handles
  <2> QED
    BY <2>2, <2>3 DEF Unmade
<1>8. CASE UNCHANGED <<coordState, reservation, opener, filelist>>
  BY <1>8 DEF Unmade
<1> QED
  BY <1>1, <1>2, <1>3, <1>4, <1>5, <1>6, <1>7, <1>8, Quiet

(* The threads, their handles and the coordinator implement writers that     *)
(* take turns: a turn is never taken back, a member is added in its turn.    *)
THEOREM ThreadsTakeTurns ==
    ASSUME OwnHandles PROVE Spec => ImplementsTurns
<1>1. Init => Turns!Init
  BY ThreadsAssumption
     DEF Init, CoordinatorInit, Turns!Init, Unmade
<1>2. IInv /\ [Next]_vars => [Turns!Next]_Turns!vars
  <2> SUFFICES ASSUME IInv, [Next]_vars PROVE [Turns!Next]_Turns!vars
    OBVIOUS
  <2>1. CASE UNCHANGED vars
    BY <2>1 DEF vars, coordinator, handles, Turns!vars, Unmade
  <2>2. CASE Next
    BY <2>2, StepIsTurn DEF Next
  <2> QED
    BY <2>1, <2>2
<1> QED
  BY <1>1, <1>2, Invariance, PTL DEF Spec, ImplementsTurns, Turns!Spec
-----------------------------------------------------------------------------
(* Stale reservations, also when handles are shared between threads.         *)

IdleInv ==
    /\ pc = [t \in Threads |-> pc[t]]
    /\ coordState = "IDLE" => reservation = NoHandle

(* A step moves one thread; a step of the coordinator moves it.              *)
LEMMA OneThreadMoves ==
    ASSUME NEW t \in Threads, Step(t) \/ Start(t)
    PROVE  pc' = pc \/ \E l : Go(t, l)
<1> USE DEF Leave
<1>1. CASE OpenStep(t)
  BY <1>1 DEF OpenStep, LockWritestr, OpenReserve, OpenRefused, OpenSeek,
     OpenTell, OpenFindsClosed, OpenMark, OpenHeader, OpenHeaderFails,
     OpenRelease, OpenPublish, WritestrData
<1>2. CASE CloseStep(t)
  BY <1>2 DEF CloseStep, CloseReturns, CloseWaits, CloseProceeds,
     CloseFinalizing, CloseBegin, CloseStale, CloseTell, CloseSeek,
     CloseHeader, CloseBack, CloseFails, CloseRegister, CloseCommitted,
     CloseCommit, CloseFailed, CloseFail, CloseUnmark, CloseDone
<1>3. CASE ReadOrMkdirStep(t)
  BY <1>3 DEF ReadOrMkdirStep, MkdirRegister, MkdirWrite, MkdirEnd,
     MkdirFindsClosed, ReadSeek, ReadCell
<1>4. CASE ArchiveStep(t)
  BY <1>4 DEF ArchiveStep, ArchiveCheck, ArchiveWaits, ArchiveRefused,
     ArchiveProceeds, ArchiveUnmodified, ArchiveSeek, ArchiveGone, ArchiveWrite, ArchiveDrop
<1>5. CASE Start(t)
  BY <1>5 DEF Start, StartOpen, StartWritestr, WriteData, StartClose,
     StartMkdir, StartRead, StartCloseArchive
<1> QED
  BY <1>1, <1>2, <1>3, <1>4, <1>5 DEF Step

(* What a step does to the coordinator, it does for the reservation held, or *)
(* to make one when there is none.                                           *)
LEMMA CoordinatorMoves ==
    ASSUME IdleInv, NEW t \in Threads, Step(t) \/ Start(t),
           <<coordState, reservation>>' # <<coordState, reservation>>
    PROVE  /\ coordState' = "IDLE" => reservation' = NoHandle
           /\ pc'[t] # pc[t]
           /\ \/ At(t, "o_reserve") /\ reservation = NoHandle
              \/ Holds(cur[t])
<1> USE DEF IdleInv, At, Go, Leave, coordinator, Holds
<1>1. CASE OpenReserve(t)
  BY <1>1 DEF OpenReserve, Reserve, Busy
<1>2. CASE OpenRelease(t)
  BY <1>2 DEF OpenRelease, Release
<1>3. CASE CloseBegin(t)
  BY <1>3 DEF CloseBegin, BeginFinalization
<1>4. CASE CloseCommit(t)
  BY <1>4 DEF CloseCommit, Commit
<1>5. CASE CloseFail(t)
  BY <1>5 DEF CloseFail, Fail
<1> QED
  BY <1>1, <1>2, <1>3, <1>4, <1>5, Quiet DEF CloseRegister, MkdirRegister

(* A reservation that is no longer held never moves the coordinator.         *)
THEOREM StaleReservationsStayInert == Spec => StaleReservationsAreInert
<1> DEFINE Inert ==
        <<coordState, reservation>>' # <<coordState, reservation>> =>
            \E t \in Threads : /\ pc'[t] # pc[t]
                              /\ \/ At(t, "o_reserve") /\ reservation = NoHandle
                                 \/ Holds(cur[t])
<1>1. Init => IdleInv
  BY DEF Init, CoordinatorInit, IdleInv
<1>2. IdleInv /\ [Next]_vars => IdleInv' /\ [Inert]_vars
  <2> SUFFICES ASSUME IdleInv, [Next]_vars PROVE IdleInv' /\ [Inert]_vars
    OBVIOUS
  <2>1. CASE UNCHANGED vars
    BY <2>1 DEF IdleInv, vars, coordinator
  <2>2. CASE Next
    <3>1. PICK t \in Threads : Step(t) \/ Start(t)
      BY <2>2 DEF Next
    <3>2. pc' = [u \in Threads |-> pc'[u]]
      BY <3>1, OneThreadMoves DEF IdleInv, Go
    <3>3. CASE UNCHANGED <<coordState, reservation>>
      BY <3>2, <3>3 DEF IdleInv
    <3>4. CASE <<coordState, reservation>>' # <<coordState, reservation>>
      BY <3>1, <3>2, <3>4, CoordinatorMoves DEF IdleInv
    <3> QED
      BY <3>3, <3>4
  <2> QED
    BY <2>1, <2>2
<1> QED
  BY <1>1, <1>2, PTL DEF Spec, StaleReservationsAreInert

(***************************************************************************)
(* Where fp is.  Threads that write in one call keep the lock, and with it *)
(* readers away; threads that write through handles put each member behind *)
(* the others, although they move fp without the lock.                     *)
(***************************************************************************)
-----------------------------------------------------------------------------
(* Writing in one call.                                                     *)

(* All writing is done by writestr.                                         *)
NobodyOpens == \A t \in Threads : "open" \notin Calls[t]

(* A handle that the client holds.                                          *)
Active(h) == h \in issued /\ wState[h] = "ACTIVE"

(* writestr keeps the lock from its first step to its last.                 *)
Locked ==
    /\ \A t \in Threads :
          /\ "open" \notin Calls[t]
          /\ pc[t] \in {"o_reserve", "c_unmark", "c_done"} \cup HoldingPcs
          => lock = t
    /\ \A h \in Handles : Active(h) /\ "open" \notin Calls[opener[h]] =>
          /\ pc[opener[h]] \in {"s_write", "c_check", "c_final"}
          /\ cur[opener[h]] = h /\ lock = opener[h]

(* _writing is set before the handle can be used, and by nobody else unset. *)
Covered ==
    NobodyOpened =>
        /\ \A t \in Threads : "open" \notin Calls[t] /\ pc[t] \in {"o_header", "o_publish"}
                               => writing
        /\ WritingCoversWriter

BehindPcs == {"o_tell", "o_mark", "o_header", "o_publish", "s_write", "c_final",
              "c_begin", "c_tell", "c_header", "m_tell", "m_write", "m_end",
              "z_write"}
PlacedPcs == {"o_mark", "o_header", "o_publish", "s_write", "c_final", "c_begin",
              "c_tell", "c_seek"}

(* The first member is never written to, and readers are where it begins.   *)
OldKept ==
    /\ start_dir >= 1 /\ off[Old] = 0 /\ disk[0] = Old
    /\ \A t \in Threads :
          /\ pc[t] \in BehindPcs => pos >= 1
          /\ pc[t] \in PlacedPcs => off[cur[t]] >= 1
          /\ pc[t] = "r_read" => pos = 0
    /\ \A h \in Handles : Active(h) => pos >= 1 /\ off[h] >= 1
    /\ ReadsSeeTheirMember

-----------------------------------------------------------------------------
(* The lock, through ZipFile.open and writestr.                            *)
LEMMA OpenLocked ==
    ASSUME IInv, Locked, NEW t \in Threads, OpenStep(t)
    PROVE  Locked'
<1>0. Typed /\ lock \in Threads \cup {Nobody}
  BY DEF IInv, TypeOK, Typed
<1>a. CurOK /\ IssuedOK /\ StateOK /\ ReservationOK /\ LockOK
  BY DEF IInv
<1> USE <1>0, <1>a, ThreadsAssumption
        DEF Typed, CurOK, IssuedOK, StateOK, ReservationOK, LockOK, Locked, Active,
            HandlePcs, HoldingPcs, UnissuedPcs, FinalizingPcs, TrailerPcs,
            EndPcs, MkdirPcs, LockedPcs, At, Go, coordinator, flags, file,
            placing, handles
<1>1. CASE LockWritestr(t)
  BY <1>1 DEF LockWritestr, LockFree
<1>2. CASE OpenReserve(t)
  BY <1>2 DEF OpenReserve, LockFree, Unmade, Reserve, Busy
<1>3. CASE OpenRefused(t)
  BY <1>3 DEF OpenRefused, LockFree, Leave, Unmade, Busy
<1>4. CASE OpenSeek(t)
  BY <1>4 DEF OpenSeek, Seek
<1>5. CASE OpenTell(t)
  BY <1>5 DEF OpenTell
<1>6. CASE OpenFindsClosed(t)
  BY <1>6 DEF OpenFindsClosed, Leave
<1>7. CASE OpenMark(t)
  BY <1>7 DEF OpenMark
<1>8. CASE OpenHeader(t)
  BY <1>8 DEF OpenHeader, WriteRecord
<1>9. CASE OpenHeaderFails(t)
  BY <1>9 DEF OpenHeaderFails
<1>10. CASE OpenRelease(t)
  BY <1>10 DEF OpenRelease, LockFree, Leave, Release, Holds, NotifyAll
<1>11. CASE OpenPublish(t)
  BY <1>11 DEF OpenPublish
<1>12. CASE WritestrData(t)
  BY <1>12 DEF WritestrData, WriteRecord
<1> QED
  BY <1>1, <1>2, <1>3, <1>4, <1>5, <1>6, <1>7, <1>8, <1>9, <1>10, <1>11, <1>12
  DEF OpenStep

(* The lock, through ZipWriteFile.close.                                   *)
LEMMA CloseLocked ==
    ASSUME IInv, Locked, NEW t \in Threads, CloseStep(t)
    PROVE  Locked'
<1>0. Typed /\ lock \in Threads \cup {Nobody}
  BY DEF IInv, TypeOK, Typed
<1>a. CurOK /\ IssuedOK /\ StateOK /\ ReservationOK /\ LockOK
  BY DEF IInv
<1> USE <1>0, <1>a, ThreadsAssumption
        DEF Typed, CurOK, IssuedOK, StateOK, ReservationOK, LockOK, Locked, Active,
            HandlePcs, HoldingPcs, UnissuedPcs, FinalizingPcs, TrailerPcs,
            EndPcs, MkdirPcs, LockedPcs, At, Go, coordinator, flags, file,
            placing, handles
<1>1. CASE CloseReturns(t)
  BY <1>1 DEF CloseReturns, LockFree, Leave, Finished
<1>2. CASE CloseWaits(t)
  BY <1>2 DEF CloseWaits, LockFree
<1>3. CASE CloseProceeds(t)
  BY <1>3 DEF CloseProceeds, LockFree
<1>4. CASE CloseFinalizing(t)
  BY <1>4 DEF CloseFinalizing, SetState
<1>5. CASE CloseBegin(t)
  BY <1>5 DEF CloseBegin, LockFree, BeginFinalization, Holds
<1>6. CASE CloseStale(t)
  BY <1>6 DEF CloseStale, LockFree, Leave, Holds
<1>7. CASE CloseTell(t)
  BY <1>7 DEF CloseTell
<1>8. CASE CloseSeek(t)
  BY <1>8 DEF CloseSeek, Seek
<1>9. CASE CloseHeader(t)
  BY <1>9 DEF CloseHeader, WriteRecord
<1>10. CASE CloseBack(t)
  BY <1>10 DEF CloseBack, Seek
<1>11. CASE CloseFails(t)
  BY <1>11 DEF CloseFails
<1>12. CASE CloseRegister(t)
  BY <1>12 DEF CloseRegister
<1>13. CASE CloseCommitted(t)
  BY <1>13 DEF CloseCommitted, SetState
<1>14. CASE CloseCommit(t)
  BY <1>14 DEF CloseCommit, LockFree, Commit, Holds, NotifyAll
<1>15. CASE CloseFailed(t)
  BY <1>15 DEF CloseFailed, SetState
<1>16. CASE CloseFail(t)
  BY <1>16 DEF CloseFail, LockFree, Fail, Holds, NotifyAll
<1>17. CASE CloseUnmark(t)
  BY <1>17 DEF CloseUnmark
<1>18. CASE CloseDone(t)
  BY <1>18 DEF CloseDone, LockFree, Leave, NotifyAll
<1> QED
  BY <1>1, <1>2, <1>3, <1>4, <1>5, <1>6, <1>7, <1>8, <1>9, <1>10, <1>11, <1>12, <1>13, <1>14, <1>15, <1>16, <1>17, <1>18
  DEF CloseStep

(* The lock, through mkdir and read.                                       *)
LEMMA ReadOrMkdirLocked ==
    ASSUME IInv, Locked, NEW t \in Threads, ReadOrMkdirStep(t)
    PROVE  Locked'
<1>0. Typed /\ lock \in Threads \cup {Nobody}
  BY DEF IInv, TypeOK, Typed
<1>a. CurOK /\ IssuedOK /\ StateOK /\ ReservationOK /\ LockOK
  BY DEF IInv
<1> USE <1>0, <1>a, ThreadsAssumption
        DEF Typed, CurOK, IssuedOK, StateOK, ReservationOK, LockOK, Locked, Active,
            HandlePcs, HoldingPcs, UnissuedPcs, FinalizingPcs, TrailerPcs,
            EndPcs, MkdirPcs, LockedPcs, At, Go, coordinator, flags, file,
            placing, handles
<1>1. CASE MkdirRegister(t)
  BY <1>1 DEF MkdirRegister
<1>2. CASE MkdirWrite(t)
  BY <1>2 DEF MkdirWrite, WriteRecord
<1>3. CASE MkdirEnd(t)
  BY <1>3 DEF MkdirEnd, Leave
<1>4. CASE MkdirFindsClosed(t)
  BY <1>4 DEF MkdirFindsClosed, Leave
<1>5. CASE ReadSeek(t)
  BY <1>5 DEF ReadSeek, Seek
<1>6. CASE ReadCell(t)
  BY <1>6 DEF ReadCell, Leave
<1> QED
  BY <1>1, <1>2, <1>3, <1>4, <1>5, <1>6
  DEF ReadOrMkdirStep

(* The lock, through ZipFile.close.                                        *)
LEMMA ArchiveLocked ==
    ASSUME IInv, Locked, NEW t \in Threads, ArchiveStep(t)
    PROVE  Locked'
<1>0. Typed /\ lock \in Threads \cup {Nobody}
  BY DEF IInv, TypeOK, Typed
<1>a. CurOK /\ IssuedOK /\ StateOK /\ ReservationOK /\ LockOK
  BY DEF IInv
<1> USE <1>0, <1>a, ThreadsAssumption
        DEF Typed, CurOK, IssuedOK, StateOK, ReservationOK, LockOK, Locked, Active,
            HandlePcs, HoldingPcs, UnissuedPcs, FinalizingPcs, TrailerPcs,
            EndPcs, MkdirPcs, LockedPcs, At, Go, coordinator, flags, file,
            placing, handles
<1>1. CASE ArchiveCheck(t)
  BY <1>1 DEF ArchiveCheck
<1>2. CASE ArchiveWaits(t)
  BY <1>2 DEF ArchiveWaits, LockFree, BeingClosed
<1>3. CASE ArchiveRefused(t)
  BY <1>3 DEF ArchiveRefused, LockFree, Leave, BeingClosed
<1>4. CASE ArchiveProceeds(t)
  BY <1>4 DEF ArchiveProceeds, LockFree
<1>5. CASE ArchiveSeek(t)
  BY <1>5 DEF ArchiveSeek, Seek
<1>6. CASE ArchiveGone(t)
  BY <1>6 DEF ArchiveGone, Leave
<1>7. CASE ArchiveWrite(t)
  BY <1>7 DEF ArchiveWrite, WriteRecord
<1>8. CASE ArchiveDrop(t)
  BY <1>8 DEF ArchiveDrop, Leave
<1>9. CASE ArchiveUnmodified(t)
  BY <1>9 DEF ArchiveUnmodified
<1> QED
  BY <1>1, <1>2, <1>3, <1>4, <1>5, <1>6, <1>7, <1>8, <1>9
  DEF ArchiveStep

(* The lock, through the first step of a call.                             *)
LEMMA StartLocked ==
    ASSUME IInv, Locked, NEW t \in Threads, Start(t)
    PROVE  Locked'
<1>0. Typed /\ lock \in Threads \cup {Nobody}
  BY DEF IInv, TypeOK, Typed
<1>a. CurOK /\ IssuedOK /\ StateOK /\ ReservationOK /\ LockOK
  BY DEF IInv
<1> USE <1>0, <1>a, ThreadsAssumption
        DEF Typed, CurOK, IssuedOK, StateOK, ReservationOK, LockOK, Locked, Active,
            HandlePcs, HoldingPcs, UnissuedPcs, FinalizingPcs, TrailerPcs,
            EndPcs, MkdirPcs, LockedPcs, At, Go, coordinator, flags, file,
            placing, handles
<1>1. CASE StartOpen(t)
  BY <1>1 DEF StartOpen
<1>2. CASE StartWritestr(t)
  BY <1>2 DEF StartWritestr
<1>3. CASE \E h \in Handles : WriteData(t, h)
  BY <1>3 DEF WriteData, Usable, WriteRecord
<1>4. CASE \E h \in Handles : StartClose(t, h)
  BY <1>4 DEF StartClose, Usable
<1>5. CASE \E d \in Directories : StartMkdir(t, d)
  BY <1>5 DEF StartMkdir, Seek
<1>6. CASE StartRead(t)
  BY <1>6 DEF StartRead
<1>7. CASE StartCloseArchive(t)
  BY <1>7 DEF StartCloseArchive
<1> QED
  BY <1>1, <1>2, <1>3, <1>4, <1>5, <1>6, <1>7
  DEF Start

(* _writing, through ZipFile.open and writestr.                            *)
LEMMA OpenCovered ==
    ASSUME IInv, Locked, Covered, NEW t \in Threads, OpenStep(t)
    PROVE  Covered'
<1>0. Typed /\ lock \in Threads \cup {Nobody}
  BY DEF IInv, TypeOK, Typed
<1>a. CurOK /\ IssuedOK /\ StateOK /\ ReservationOK /\ LockOK /\ Locked
  BY DEF IInv
<1> USE <1>0, <1>a, ThreadsAssumption
        DEF Typed, CurOK, IssuedOK, StateOK, ReservationOK, LockOK, Locked, Covered,
            NobodyOpened, WritingCoversWriter, Active, HandlePcs, HoldingPcs, UnissuedPcs, FinalizingPcs, TrailerPcs,
            EndPcs, MkdirPcs, LockedPcs, At, Go, coordinator, flags, file,
            placing, handles
<1>1. CASE LockWritestr(t)
  BY <1>1 DEF LockWritestr, LockFree
<1>2. CASE OpenReserve(t)
  BY <1>2 DEF OpenReserve, LockFree, Unmade, Reserve, Busy
<1>3. CASE OpenRefused(t)
  BY <1>3 DEF OpenRefused, LockFree, Leave, Unmade, Busy
<1>4. CASE OpenSeek(t)
  BY <1>4 DEF OpenSeek, Seek
<1>5. CASE OpenTell(t)
  BY <1>5 DEF OpenTell
<1>6. CASE OpenFindsClosed(t)
  BY <1>6 DEF OpenFindsClosed, Leave
<1>7. CASE OpenMark(t)
  BY <1>7 DEF OpenMark
<1>8. CASE OpenHeader(t)
  BY <1>8 DEF OpenHeader, WriteRecord
<1>9. CASE OpenHeaderFails(t)
  BY <1>9 DEF OpenHeaderFails
<1>10. CASE OpenRelease(t)
  BY <1>10 DEF OpenRelease, LockFree, Leave, Release, Holds, NotifyAll
<1>11. CASE OpenPublish(t)
  BY <1>11 DEF OpenPublish
<1>12. CASE WritestrData(t)
  BY <1>12 DEF WritestrData, WriteRecord
<1> QED
  BY <1>1, <1>2, <1>3, <1>4, <1>5, <1>6, <1>7, <1>8, <1>9, <1>10, <1>11, <1>12
  DEF OpenStep

(* _writing, through ZipWriteFile.close.                                   *)
LEMMA CloseCovered ==
    ASSUME IInv, Locked, Covered, NEW t \in Threads, CloseStep(t)
    PROVE  Covered'
<1>0. Typed /\ lock \in Threads \cup {Nobody}
  BY DEF IInv, TypeOK, Typed
<1>a. CurOK /\ IssuedOK /\ StateOK /\ ReservationOK /\ LockOK /\ Locked
  BY DEF IInv
<1> USE <1>0, <1>a, ThreadsAssumption
        DEF Typed, CurOK, IssuedOK, StateOK, ReservationOK, LockOK, Locked, Covered,
            NobodyOpened, WritingCoversWriter, Active, HandlePcs, HoldingPcs, UnissuedPcs, FinalizingPcs, TrailerPcs,
            EndPcs, MkdirPcs, LockedPcs, At, Go, coordinator, flags, file,
            placing, handles
<1>1. CASE CloseReturns(t)
  BY <1>1 DEF CloseReturns, LockFree, Leave, Finished
<1>2. CASE CloseWaits(t)
  BY <1>2 DEF CloseWaits, LockFree
<1>3. CASE CloseProceeds(t)
  BY <1>3 DEF CloseProceeds, LockFree
<1>4. CASE CloseFinalizing(t)
  BY <1>4 DEF CloseFinalizing, SetState
<1>5. CASE CloseBegin(t)
  BY <1>5 DEF CloseBegin, LockFree, BeginFinalization, Holds
<1>6. CASE CloseStale(t)
  BY <1>6 DEF CloseStale, LockFree, Leave, Holds
<1>7. CASE CloseTell(t)
  BY <1>7 DEF CloseTell
<1>8. CASE CloseSeek(t)
  BY <1>8 DEF CloseSeek, Seek
<1>9. CASE CloseHeader(t)
  BY <1>9 DEF CloseHeader, WriteRecord
<1>10. CASE CloseBack(t)
  BY <1>10 DEF CloseBack, Seek
<1>11. CASE CloseFails(t)
  BY <1>11 DEF CloseFails
<1>12. CASE CloseRegister(t)
  BY <1>12 DEF CloseRegister
<1>13. CASE CloseCommitted(t)
  BY <1>13 DEF CloseCommitted, SetState
<1>14. CASE CloseCommit(t)
  BY <1>14 DEF CloseCommit, LockFree, Commit, Holds, NotifyAll
<1>15. CASE CloseFailed(t)
  BY <1>15 DEF CloseFailed, SetState
<1>16. CASE CloseFail(t)
  BY <1>16 DEF CloseFail, LockFree, Fail, Holds, NotifyAll
<1>17. CASE CloseUnmark(t)
  BY <1>17 DEF CloseUnmark
<1>18. CASE CloseDone(t)
  BY <1>18 DEF CloseDone, LockFree, Leave, NotifyAll
<1> QED
  BY <1>1, <1>2, <1>3, <1>4, <1>5, <1>6, <1>7, <1>8, <1>9, <1>10, <1>11, <1>12, <1>13, <1>14, <1>15, <1>16, <1>17, <1>18
  DEF CloseStep

(* _writing, through mkdir and read.                                       *)
LEMMA ReadOrMkdirCovered ==
    ASSUME IInv, Locked, Covered, NEW t \in Threads, ReadOrMkdirStep(t)
    PROVE  Covered'
<1>0. Typed /\ lock \in Threads \cup {Nobody}
  BY DEF IInv, TypeOK, Typed
<1>a. CurOK /\ IssuedOK /\ StateOK /\ ReservationOK /\ LockOK /\ Locked
  BY DEF IInv
<1> USE <1>0, <1>a, ThreadsAssumption
        DEF Typed, CurOK, IssuedOK, StateOK, ReservationOK, LockOK, Locked, Covered,
            NobodyOpened, WritingCoversWriter, Active, HandlePcs, HoldingPcs, UnissuedPcs, FinalizingPcs, TrailerPcs,
            EndPcs, MkdirPcs, LockedPcs, At, Go, coordinator, flags, file,
            placing, handles
<1>1. CASE MkdirRegister(t)
  BY <1>1 DEF MkdirRegister
<1>2. CASE MkdirWrite(t)
  BY <1>2 DEF MkdirWrite, WriteRecord
<1>3. CASE MkdirEnd(t)
  BY <1>3 DEF MkdirEnd, Leave
<1>4. CASE MkdirFindsClosed(t)
  BY <1>4 DEF MkdirFindsClosed, Leave
<1>5. CASE ReadSeek(t)
  BY <1>5 DEF ReadSeek, Seek
<1>6. CASE ReadCell(t)
  BY <1>6 DEF ReadCell, Leave
<1> QED
  BY <1>1, <1>2, <1>3, <1>4, <1>5, <1>6
  DEF ReadOrMkdirStep

(* _writing, through ZipFile.close.                                        *)
LEMMA ArchiveCovered ==
    ASSUME IInv, Locked, Covered, NEW t \in Threads, ArchiveStep(t)
    PROVE  Covered'
<1>0. Typed /\ lock \in Threads \cup {Nobody}
  BY DEF IInv, TypeOK, Typed
<1>a. CurOK /\ IssuedOK /\ StateOK /\ ReservationOK /\ LockOK /\ Locked
  BY DEF IInv
<1> USE <1>0, <1>a, ThreadsAssumption
        DEF Typed, CurOK, IssuedOK, StateOK, ReservationOK, LockOK, Locked, Covered,
            NobodyOpened, WritingCoversWriter, Active, HandlePcs, HoldingPcs, UnissuedPcs, FinalizingPcs, TrailerPcs,
            EndPcs, MkdirPcs, LockedPcs, At, Go, coordinator, flags, file,
            placing, handles
<1>1. CASE ArchiveCheck(t)
  BY <1>1 DEF ArchiveCheck
<1>2. CASE ArchiveWaits(t)
  BY <1>2 DEF ArchiveWaits, LockFree, BeingClosed
<1>3. CASE ArchiveRefused(t)
  BY <1>3 DEF ArchiveRefused, LockFree, Leave, BeingClosed
<1>4. CASE ArchiveProceeds(t)
  BY <1>4 DEF ArchiveProceeds, LockFree
<1>5. CASE ArchiveSeek(t)
  BY <1>5 DEF ArchiveSeek, Seek
<1>6. CASE ArchiveGone(t)
  BY <1>6 DEF ArchiveGone, Leave
<1>7. CASE ArchiveWrite(t)
  BY <1>7 DEF ArchiveWrite, WriteRecord
<1>8. CASE ArchiveDrop(t)
  BY <1>8 DEF ArchiveDrop, Leave
<1>9. CASE ArchiveUnmodified(t)
  BY <1>9 DEF ArchiveUnmodified
<1> QED
  BY <1>1, <1>2, <1>3, <1>4, <1>5, <1>6, <1>7, <1>8, <1>9
  DEF ArchiveStep

(* _writing, through the first step of a call.                             *)
LEMMA StartCovered ==
    ASSUME IInv, Locked, Covered, NEW t \in Threads, Start(t)
    PROVE  Covered'
<1>0. Typed /\ lock \in Threads \cup {Nobody}
  BY DEF IInv, TypeOK, Typed
<1>a. CurOK /\ IssuedOK /\ StateOK /\ ReservationOK /\ LockOK /\ Locked
  BY DEF IInv
<1> USE <1>0, <1>a, ThreadsAssumption
        DEF Typed, CurOK, IssuedOK, StateOK, ReservationOK, LockOK, Locked, Covered,
            NobodyOpened, WritingCoversWriter, Active, HandlePcs, HoldingPcs, UnissuedPcs, FinalizingPcs, TrailerPcs,
            EndPcs, MkdirPcs, LockedPcs, At, Go, coordinator, flags, file,
            placing, handles
<1>1. CASE StartOpen(t)
  BY <1>1 DEF StartOpen
<1>2. CASE StartWritestr(t)
  BY <1>2 DEF StartWritestr
<1>3. CASE \E h \in Handles : WriteData(t, h)
  BY <1>3 DEF WriteData, Usable, WriteRecord
<1>4. CASE \E h \in Handles : StartClose(t, h)
  BY <1>4 DEF StartClose, Usable
<1>5. CASE \E d \in Directories : StartMkdir(t, d)
  BY <1>5 DEF StartMkdir, Seek
<1>6. CASE StartRead(t)
  BY <1>6 DEF StartRead
<1>7. CASE StartCloseArchive(t)
  BY <1>7 DEF StartCloseArchive
<1> QED
  BY <1>1, <1>2, <1>3, <1>4, <1>5, <1>6, <1>7
  DEF Start

(* The first member, through ZipFile.open and writestr.                    *)
LEMMA OpenOldKept ==
    ASSUME IInv, NobodyOpens, Locked, OldKept, NEW t \in Threads, OpenStep(t)
    PROVE  OldKept'
<1>0. Typed /\ lock \in Threads \cup {Nobody} /\ pos \in Nat /\ start_dir \in Nat
      /\ disk \in [Addr -> CellValues] /\ off \in [Members -> Nat]
      /\ Old \in Members /\ 0 \in Addr
  BY ThreadsAssumption DEF IInv, TypeOK, Typed, Members, Addr
<1>a. CurOK /\ IssuedOK /\ StateOK /\ ReservationOK /\ LockOK /\ Locked
  BY DEF IInv
<1> USE <1>0, <1>a, ThreadsAssumption
        DEF Typed, CurOK, IssuedOK, StateOK, ReservationOK, LockOK, Locked, OldKept,
            BehindPcs, PlacedPcs, ReadsSeeTheirMember, Active, NobodyOpens,
            HandlePcs, HoldingPcs, UnissuedPcs, FinalizingPcs, TrailerPcs,
            EndPcs, MkdirPcs, LockedPcs, At, Go, coordinator, flags, file,
            placing, handles
<1>1. CASE LockWritestr(t)
  BY <1>1 DEF LockWritestr, LockFree
<1>2. CASE OpenReserve(t)
  BY <1>2 DEF OpenReserve, LockFree, Unmade, Reserve, Busy
<1>3. CASE OpenRefused(t)
  BY <1>3 DEF OpenRefused, LockFree, Leave, Unmade, Busy
<1>4. CASE OpenSeek(t)
  BY <1>4 DEF OpenSeek, Seek
<1>5. CASE OpenTell(t)
  BY <1>5 DEF OpenTell
<1>6. CASE OpenFindsClosed(t)
  BY <1>6 DEF OpenFindsClosed, Leave
<1>7. CASE OpenMark(t)
  BY <1>7 DEF OpenMark
<1>8. CASE OpenHeader(t)
  BY <1>8 DEF OpenHeader, WriteRecord
<1>9. CASE OpenHeaderFails(t)
  BY <1>9 DEF OpenHeaderFails
<1>10. CASE OpenRelease(t)
  BY <1>10 DEF OpenRelease, LockFree, Leave, Release, Holds, NotifyAll
<1>11. CASE OpenPublish(t)
  BY <1>11 DEF OpenPublish
<1>12. CASE WritestrData(t)
  BY <1>12 DEF WritestrData, WriteRecord
<1> QED
  BY <1>1, <1>2, <1>3, <1>4, <1>5, <1>6, <1>7, <1>8, <1>9, <1>10, <1>11, <1>12
  DEF OpenStep

(* The first member, through ZipWriteFile.close.                           *)
LEMMA CloseOldKept ==
    ASSUME IInv, NobodyOpens, Locked, OldKept, NEW t \in Threads, CloseStep(t)
    PROVE  OldKept'
<1>0. Typed /\ lock \in Threads \cup {Nobody} /\ pos \in Nat /\ start_dir \in Nat
      /\ disk \in [Addr -> CellValues] /\ off \in [Members -> Nat]
      /\ Old \in Members /\ 0 \in Addr
  BY ThreadsAssumption DEF IInv, TypeOK, Typed, Members, Addr
<1>a. CurOK /\ IssuedOK /\ StateOK /\ ReservationOK /\ LockOK /\ Locked
  BY DEF IInv
<1> USE <1>0, <1>a, ThreadsAssumption
        DEF Typed, CurOK, IssuedOK, StateOK, ReservationOK, LockOK, Locked, OldKept,
            BehindPcs, PlacedPcs, ReadsSeeTheirMember, Active, NobodyOpens,
            HandlePcs, HoldingPcs, UnissuedPcs, FinalizingPcs, TrailerPcs,
            EndPcs, MkdirPcs, LockedPcs, At, Go, coordinator, flags, file,
            placing, handles
<1>1. CASE CloseReturns(t)
  BY <1>1 DEF CloseReturns, LockFree, Leave, Finished
<1>2. CASE CloseWaits(t)
  BY <1>2 DEF CloseWaits, LockFree
<1>3. CASE CloseProceeds(t)
  BY <1>3 DEF CloseProceeds, LockFree
<1>4. CASE CloseFinalizing(t)
  BY <1>4 DEF CloseFinalizing, SetState
<1>5. CASE CloseBegin(t)
  BY <1>5 DEF CloseBegin, LockFree, BeginFinalization, Holds
<1>6. CASE CloseStale(t)
  BY <1>6 DEF CloseStale, LockFree, Leave, Holds
<1>7. CASE CloseTell(t)
  BY <1>7 DEF CloseTell
<1>8. CASE CloseSeek(t)
  BY <1>8 DEF CloseSeek, Seek
<1>9. CASE CloseHeader(t)
  BY <1>9 DEF CloseHeader, WriteRecord
<1>10. CASE CloseBack(t)
  BY <1>10 DEF CloseBack, Seek
<1>11. CASE CloseFails(t)
  BY <1>11 DEF CloseFails
<1>12. CASE CloseRegister(t)
  BY <1>12 DEF CloseRegister
<1>13. CASE CloseCommitted(t)
  BY <1>13 DEF CloseCommitted, SetState
<1>14. CASE CloseCommit(t)
  BY <1>14 DEF CloseCommit, LockFree, Commit, Holds, NotifyAll
<1>15. CASE CloseFailed(t)
  BY <1>15 DEF CloseFailed, SetState
<1>16. CASE CloseFail(t)
  BY <1>16 DEF CloseFail, LockFree, Fail, Holds, NotifyAll
<1>17. CASE CloseUnmark(t)
  BY <1>17 DEF CloseUnmark
<1>18. CASE CloseDone(t)
  BY <1>18 DEF CloseDone, LockFree, Leave, NotifyAll
<1> QED
  BY <1>1, <1>2, <1>3, <1>4, <1>5, <1>6, <1>7, <1>8, <1>9, <1>10, <1>11, <1>12, <1>13, <1>14, <1>15, <1>16, <1>17, <1>18
  DEF CloseStep

(* The first member, through mkdir and read.                               *)
LEMMA ReadOrMkdirOldKept ==
    ASSUME IInv, NobodyOpens, Locked, OldKept, NEW t \in Threads, ReadOrMkdirStep(t)
    PROVE  OldKept'
<1>0. Typed /\ lock \in Threads \cup {Nobody} /\ pos \in Nat /\ start_dir \in Nat
      /\ disk \in [Addr -> CellValues] /\ off \in [Members -> Nat]
      /\ Old \in Members /\ 0 \in Addr
  BY ThreadsAssumption DEF IInv, TypeOK, Typed, Members, Addr
<1>a. CurOK /\ IssuedOK /\ StateOK /\ ReservationOK /\ LockOK /\ Locked
  BY DEF IInv
<1> USE <1>0, <1>a, ThreadsAssumption
        DEF Typed, CurOK, IssuedOK, StateOK, ReservationOK, LockOK, Locked, OldKept,
            BehindPcs, PlacedPcs, ReadsSeeTheirMember, Active, NobodyOpens,
            HandlePcs, HoldingPcs, UnissuedPcs, FinalizingPcs, TrailerPcs,
            EndPcs, MkdirPcs, LockedPcs, At, Go, coordinator, flags, file,
            placing, handles
<1>1. CASE MkdirRegister(t)
  BY <1>1 DEF MkdirRegister
<1>2. CASE MkdirWrite(t)
  BY <1>2 DEF MkdirWrite, WriteRecord
<1>3. CASE MkdirEnd(t)
  BY <1>3 DEF MkdirEnd, Leave
<1>4. CASE MkdirFindsClosed(t)
  BY <1>4 DEF MkdirFindsClosed, Leave
<1>5. CASE ReadSeek(t)
  BY <1>5 DEF ReadSeek, Seek
<1>6. CASE ReadCell(t)
  BY <1>6 DEF ReadCell, Leave
<1> QED
  BY <1>1, <1>2, <1>3, <1>4, <1>5, <1>6
  DEF ReadOrMkdirStep

(* The first member, through ZipFile.close.                                *)
LEMMA ArchiveOldKept ==
    ASSUME IInv, NobodyOpens, Locked, OldKept, NEW t \in Threads, ArchiveStep(t)
    PROVE  OldKept'
<1>0. Typed /\ lock \in Threads \cup {Nobody} /\ pos \in Nat /\ start_dir \in Nat
      /\ disk \in [Addr -> CellValues] /\ off \in [Members -> Nat]
      /\ Old \in Members /\ 0 \in Addr
  BY ThreadsAssumption DEF IInv, TypeOK, Typed, Members, Addr
<1>a. CurOK /\ IssuedOK /\ StateOK /\ ReservationOK /\ LockOK /\ Locked
  BY DEF IInv
<1> USE <1>0, <1>a, ThreadsAssumption
        DEF Typed, CurOK, IssuedOK, StateOK, ReservationOK, LockOK, Locked, OldKept,
            BehindPcs, PlacedPcs, ReadsSeeTheirMember, Active, NobodyOpens,
            HandlePcs, HoldingPcs, UnissuedPcs, FinalizingPcs, TrailerPcs,
            EndPcs, MkdirPcs, LockedPcs, At, Go, coordinator, flags, file,
            placing, handles
<1>1. CASE ArchiveCheck(t)
  BY <1>1 DEF ArchiveCheck
<1>2. CASE ArchiveWaits(t)
  BY <1>2 DEF ArchiveWaits, LockFree, BeingClosed
<1>3. CASE ArchiveRefused(t)
  BY <1>3 DEF ArchiveRefused, LockFree, Leave, BeingClosed
<1>4. CASE ArchiveProceeds(t)
  BY <1>4 DEF ArchiveProceeds, LockFree
<1>5. CASE ArchiveSeek(t)
  BY <1>5 DEF ArchiveSeek, Seek
<1>6. CASE ArchiveGone(t)
  BY <1>6 DEF ArchiveGone, Leave
<1>7. CASE ArchiveWrite(t)
  BY <1>7 DEF ArchiveWrite, WriteRecord
<1>8. CASE ArchiveDrop(t)
  BY <1>8 DEF ArchiveDrop, Leave
<1>9. CASE ArchiveUnmodified(t)
  BY <1>9 DEF ArchiveUnmodified
<1> QED
  BY <1>1, <1>2, <1>3, <1>4, <1>5, <1>6, <1>7, <1>8, <1>9
  DEF ArchiveStep

(* The first member, through the first step of a call.                     *)
LEMMA StartOldKept ==
    ASSUME IInv, NobodyOpens, Locked, OldKept, NEW t \in Threads, Start(t)
    PROVE  OldKept'
<1>0. Typed /\ lock \in Threads \cup {Nobody} /\ pos \in Nat /\ start_dir \in Nat
      /\ disk \in [Addr -> CellValues] /\ off \in [Members -> Nat]
      /\ Old \in Members /\ 0 \in Addr
  BY ThreadsAssumption DEF IInv, TypeOK, Typed, Members, Addr
<1>a. CurOK /\ IssuedOK /\ StateOK /\ ReservationOK /\ LockOK /\ Locked
  BY DEF IInv
<1> USE <1>0, <1>a, ThreadsAssumption
        DEF Typed, CurOK, IssuedOK, StateOK, ReservationOK, LockOK, Locked, OldKept,
            BehindPcs, PlacedPcs, ReadsSeeTheirMember, Active, NobodyOpens,
            HandlePcs, HoldingPcs, UnissuedPcs, FinalizingPcs, TrailerPcs,
            EndPcs, MkdirPcs, LockedPcs, At, Go, coordinator, flags, file,
            placing, handles
<1>1. CASE StartOpen(t)
  BY <1>1 DEF StartOpen
<1>2. CASE StartWritestr(t)
  BY <1>2 DEF StartWritestr
<1>3. CASE \E h \in Handles : WriteData(t, h)
  BY <1>3 DEF WriteData, Usable, WriteRecord
<1>4. CASE \E h \in Handles : StartClose(t, h)
  BY <1>4 DEF StartClose, Usable
<1>5. CASE \E d \in Directories : StartMkdir(t, d)
  BY <1>5 DEF StartMkdir, Seek
<1>6. CASE StartRead(t)
  BY <1>6 DEF StartRead
<1>7. CASE StartCloseArchive(t)
  BY <1>7 DEF StartCloseArchive
<1> QED
  BY <1>1, <1>2, <1>3, <1>4, <1>5, <1>6, <1>7
  DEF Start

(* Every step of a thread preserves what keeps readers away from writers.   *)
LEMMA LockInit == Init => Locked /\ Covered /\ OldKept
<1> SUFFICES ASSUME Init PROVE Locked /\ Covered /\ OldKept
  OBVIOUS
<1> USE ThreadsAssumption DEF Init, HandlePcs, HoldingPcs, UnissuedPcs,
        FinalizingPcs, TrailerPcs, EndPcs, Active
<1>1. Locked /\ Covered
  BY DEF Locked, Covered, WritingCoversWriter
<1>2. OldKept
  BY DEF OldKept, BehindPcs, PlacedPcs, ReadsSeeTheirMember, Members, Addr
<1> QED
  BY <1>1, <1>2

LEMMA LockStep ==
    IInv /\ Locked /\ Covered /\ [Next]_vars => (Locked /\ Covered)'
<1> SUFFICES ASSUME IInv, Locked, Covered, [Next]_vars PROVE Locked' /\ Covered'
  OBVIOUS
<1>1. CASE UNCHANGED vars
  BY <1>1 DEF Locked, Covered, NobodyOpened, WritingCoversWriter, Active, vars,
     coordinator, flags, file, placing, handles
<1>2. CASE Next
  <2> PICK t \in Threads : Step(t) \/ Start(t)
    BY <1>2 DEF Next
  <2>1. CASE OpenStep(t)
    BY <2>1, OpenLocked, OpenCovered
  <2>2. CASE CloseStep(t)
    BY <2>2, CloseLocked, CloseCovered
  <2>3. CASE ReadOrMkdirStep(t)
    BY <2>3, ReadOrMkdirLocked, ReadOrMkdirCovered
  <2>4. CASE ArchiveStep(t)
    BY <2>4, ArchiveLocked, ArchiveCovered
  <2>5. CASE Start(t)
    BY <2>5, StartLocked, StartCovered
  <2> QED
    BY <2>1, <2>2, <2>3, <2>4, <2>5 DEF Step
<1> QED
  BY <1>1, <1>2

LEMMA LockAlways == ASSUME OwnHandles PROVE Spec => [](Locked /\ Covered)
<1>1. IInv /\ Locked /\ Covered /\ [Next]_vars => (Locked /\ Covered)'
  BY LockStep
<1>2. Init => Locked /\ Covered
  BY LockInit
<1> QED
  BY <1>1, <1>2, Invariance, PTL DEF Spec

LEMMA OldKeptStep ==
    ASSUME NobodyOpens
    PROVE  IInv /\ Locked /\ OldKept /\ [Next]_vars => OldKept'
<1> SUFFICES ASSUME IInv, Locked, OldKept, [Next]_vars PROVE OldKept'
  OBVIOUS
<1>1. CASE UNCHANGED vars
  BY <1>1 DEF OldKept, ReadsSeeTheirMember, Active, vars, coordinator, flags,
     file, placing, handles
<1>2. CASE Next
  <2> PICK t \in Threads : Step(t) \/ Start(t)
    BY <1>2 DEF Next
  <2> QED
    BY OpenOldKept, CloseOldKept, ReadOrMkdirOldKept, ArchiveOldKept, StartOldKept
       DEF Step
<1> QED
  BY <1>1, <1>2

(* Where all writing is done by writestr, a read of a member returns its    *)
(* bytes, whoever writes, makes directories or closes the archive meanwhile *)
(* and whatever fails (ZipFile.writestr, ClosableZipStream.read).           *)
THEOREM ReadersSeeTheirMember ==
    ASSUME OwnHandles, NobodyOpens PROVE Spec => []ReadsSeeTheirMember
<1>1. OldKept => ReadsSeeTheirMember
  BY DEF OldKept
<1>2. Init => OldKept
  BY LockInit
<1>3. IInv /\ (Locked /\ Covered) /\ OldKept /\ [Next]_vars => OldKept'
  BY OldKeptStep
<1> QED
  BY <1>1, <1>2, <1>3, LockAlways, Invariance, PTL DEF Spec

(* As long as all writing was done by writestr, _writing is never taken    *)
(* from a handle that can be written to (ZipWriteFile.close, ZipFile.writestr). *)
THEOREM WritingCoversStringsAlways ==
    ASSUME OwnHandles PROVE Spec => []WritingCoversStrings
<1>1. Locked /\ Covered => WritingCoversStrings
  BY DEF Covered, WritingCoversStrings
<1> QED
  BY <1>1, LockAlways, PTL

-----------------------------------------------------------------------------
(* Where members are put.                                                   *)

(* Members are added through open() or writestr, and not by mkdir, which    *)
(* lists a member before it writes it, nor while the archive is closed;     *)
(* and nobody reads, unless all writing is done by writestr.                *)
Tidy ==
    /\ \A t \in Threads : Calls[t] \cap {"mkdir", "closeArchive"} = {}
    /\ NobodyOpens \/ \A t \in Threads : "read" \notin Calls[t]

(* No thread is in a call that it does not make.                            *)
TidyPcs ==
    \A t \in Threads :
        /\ pc[t] \notin MkdirPcs \cup {"z_check", "z_guard", "z_wait", "z_lock",
                                       "z_write", "z_drop"}
        /\ pc[t] \in {"r_seek", "r_read"} => "read" \in Calls[t]

End(m) == off[m] + 1 + size[m]

WholeOnDisk(m) ==
    /\ End(m) <= FileCells
    /\ disk[off[m]] = m
    /\ size[m] = 1 => disk[off[m] + 1] = m

(* The member of a handle that is being written is behind all others, and   *)
(* fp is behind what was written of it.                                     *)
Last(h) == off[h] = start_dir /\ WholeOnDisk(h) /\ pos = End(h)

(* start_dir has moved behind it.                                           *)
Passed(h) ==
    /\ WholeOnDisk(h) /\ start_dir = End(h)
    /\ \A m \in Registered \ {h} : End(m) <= off[h]

MembersBelow == \A m \in Registered : WholeOnDisk(m) /\ End(m) <= start_dir

Unwritten == \A h \in Handles : h \notin issued => size[h] = 0

ActiveLast == \A h \in Handles : Active(h) => Last(h)

ThreadPlaced(t) ==
    /\ pc[t] = "o_tell" => pos = start_dir
    /\ pc[t] \in {"o_mark", "o_header"} => pos = start_dir /\ off[cur[t]] = pos
    /\ pc[t] \in {"o_publish", "s_write", "c_final", "c_begin", "c_tell"} =>
          Last(cur[t])
    /\ pc[t] = "s_write" => size[cur[t]] = 0
    /\ pc[t] \in {"c_seek", "c_header", "c_back", "c_register"} => Passed(cur[t])
    /\ pc[t] = "c_header" => pos = off[cur[t]]

ThreadsPlaced == \A t \in Threads : ThreadPlaced(t)

Positions == fpOpen /\ MembersBelow /\ Unwritten /\ ActiveLast /\ ThreadsPlaced

(* One thread writes one handle at a time.                                  *)
Sole ==
    /\ \A t, u \in Threads : pc[t] \in HoldingPcs /\ pc[u] \in HoldingPcs => t = u
    /\ \A h \in Handles : Active(h) =>
          /\ \A t \in Threads : pc[t] \in HoldingPcs => cur[t] = h
          /\ \A g \in Handles : Active(g) => g = h

LEMMA SoleWriter == ASSUME IInv PROVE Sole
<1>1. \A t \in Threads : pc[t] \in HoldingPcs =>
          reservation = cur[t] /\ cur[t] \in Handles /\ opener[cur[t]] = t
  BY DEF IInv, ReservationOK, CurOK, HandlePcs
<1>2. \A h \in Handles : Active(h) => reservation = h
  BY DEF IInv, ReservationOK, Active
<1> QED
  BY <1>1, <1>2 DEF Sole

(* Readers keep writers away.                                               *)
LEMMA NobodyWrites ==
    ASSUME IInv, Locked, NobodyOpens, NEW t \in Threads, pc[t] \in {"r_seek", "r_read"}
    PROVE  /\ \A u \in Threads : pc[u] \notin HoldingPcs
           /\ \A h \in Handles : ~Active(h)
<1>1. lock = t /\ pc[t] \notin HoldingPcs
  BY DEF IInv, LockOK, LockedPcs, HoldingPcs, UnissuedPcs, FinalizingPcs, TrailerPcs
<1>2. ASSUME NEW u \in Threads, pc[u] \in HoldingPcs PROVE FALSE
  BY <1>1, <1>2 DEF Locked, NobodyOpens
<1>3. ASSUME NEW h \in Handles, Active(h) PROVE FALSE
  <2>1. opener[h] \in Threads
    BY <1>3 DEF IInv, TypeOK, IssuedOK, Active
  <2> QED
    BY <1>1, <1>3, <2>1 DEF Locked, NobodyOpens
<1> QED
  BY <1>2, <1>3

(* Nothing moves, and no writer gets further.                               *)
StationPcs == {"o_tell", "o_mark", "o_header", "o_publish", "s_write", "c_final",
               "c_begin", "c_tell", "c_seek", "c_header", "c_back", "c_register"}

LEMMA Stay ==
    ASSUME Typed, Positions, NEW t \in Threads,
           UNCHANGED <<fpOpen, filelist, off, size, start_dir, disk, pos, issued,
                       wState, cur>>,
           \E l : l \notin StationPcs /\ pc' = [pc EXCEPT ![t] = l]
    PROVE  Positions'
<1>1. MembersBelow' /\ Unwritten' /\ ActiveLast'
  BY DEF Positions, MembersBelow, Unwritten, ActiveLast, Active, Registered, Last,
     WholeOnDisk, End
<1>2. \A u \in Threads : ThreadPlaced(u) /\ (pc'[u] = pc[u] \/ pc'[u] \notin StationPcs)
  BY DEF Positions, ThreadsPlaced, Typed
<1>3. \A h : (Last(h)' <=> Last(h)) /\ (Passed(h)' <=> Passed(h))
  BY DEF Last, Passed, WholeOnDisk, End, Registered
<1>4. ThreadsPlaced'
  BY <1>2, <1>3 DEF ThreadsPlaced, ThreadPlaced, StationPcs
<1> QED
  BY <1>1, <1>4 DEF Positions

LEMMA AppendRegistered ==
    ASSUME filelist \in Seq(Members), NEW m \in Members,
           filelist' = Append(filelist, m)
    PROVE  Registered' = Registered \cup {m}
<1>1. Len(filelist) \in Nat /\ DOMAIN filelist = 1 .. Len(filelist)
  OBVIOUS
<1>2. /\ DOMAIN filelist' = 1 .. Len(filelist) + 1
      /\ filelist'[Len(filelist) + 1] = m
      /\ \A k \in DOMAIN filelist : filelist'[k] = filelist[k]
  OBVIOUS
<1> QED
  BY <1>1, <1>2 DEF Registered

(* Nothing on the disk changes.                                             *)
LEMMA SameDisk ==
    ASSUME UNCHANGED <<filelist, off, size, start_dir, disk>>
    PROVE  /\ MembersBelow => MembersBelow'
           /\ \A h : /\ Passed(h)' <=> Passed(h)
                     /\ UNCHANGED pos => (Last(h)' <=> Last(h))
BY DEF MembersBelow, Registered, Passed, Last, WholeOnDisk, End

(* When nobody else writes, only one thread's place matters.                *)
LEMMA NobodyElse ==
    ASSUME Typed, NEW t \in Threads, NEW l, pc' = [pc EXCEPT ![t] = l],
           \A u \in Threads \ {t} : pc[u] \notin HoldingPcs, ThreadPlaced(t)'
    PROVE  ThreadsPlaced'
BY DEF Typed, ThreadsPlaced, ThreadPlaced, HoldingPcs, UnissuedPcs, FinalizingPcs,
       TrailerPcs

(* The calls, through ZipFile.open and writestr.                           *)
LEMMA OpenTidyPcs ==
    ASSUME Tidy, Typed, TidyPcs, NEW t \in Threads, OpenStep(t)
    PROVE  TidyPcs'
<1> USE ThreadsAssumption
        DEF Typed, Tidy, TidyPcs, MkdirPcs, At, Go, coordinator, flags, file,
            placing, handles
<1>1. CASE LockWritestr(t)
  BY <1>1 DEF LockWritestr, LockFree
<1>2. CASE OpenReserve(t)
  BY <1>2 DEF OpenReserve, LockFree, Unmade, Reserve, Busy
<1>3. CASE OpenRefused(t)
  BY <1>3 DEF OpenRefused, LockFree, Leave, Unmade, Busy
<1>4. CASE OpenSeek(t)
  BY <1>4 DEF OpenSeek, Seek
<1>5. CASE OpenTell(t)
  BY <1>5 DEF OpenTell
<1>6. CASE OpenFindsClosed(t)
  BY <1>6 DEF OpenFindsClosed, Leave
<1>7. CASE OpenMark(t)
  BY <1>7 DEF OpenMark
<1>8. CASE OpenHeader(t)
  BY <1>8 DEF OpenHeader, WriteRecord
<1>9. CASE OpenHeaderFails(t)
  BY <1>9 DEF OpenHeaderFails
<1>10. CASE OpenRelease(t)
  BY <1>10 DEF OpenRelease, LockFree, Leave, Release, Holds, NotifyAll
<1>11. CASE OpenPublish(t)
  BY <1>11 DEF OpenPublish
<1>12. CASE WritestrData(t)
  BY <1>12 DEF WritestrData, WriteRecord
<1> QED
  BY <1>1, <1>2, <1>3, <1>4, <1>5, <1>6, <1>7, <1>8, <1>9, <1>10, <1>11, <1>12
  DEF OpenStep

(* The calls, through ZipWriteFile.close.                                  *)
LEMMA CloseTidyPcs ==
    ASSUME Tidy, Typed, TidyPcs, NEW t \in Threads, CloseStep(t)
    PROVE  TidyPcs'
<1> USE ThreadsAssumption
        DEF Typed, Tidy, TidyPcs, MkdirPcs, At, Go, coordinator, flags, file,
            placing, handles
<1>1. CASE CloseReturns(t)
  BY <1>1 DEF CloseReturns, LockFree, Leave, Finished
<1>2. CASE CloseWaits(t)
  BY <1>2 DEF CloseWaits, LockFree
<1>3. CASE CloseProceeds(t)
  BY <1>3 DEF CloseProceeds, LockFree
<1>4. CASE CloseFinalizing(t)
  BY <1>4 DEF CloseFinalizing, SetState
<1>5. CASE CloseBegin(t)
  BY <1>5 DEF CloseBegin, LockFree, BeginFinalization, Holds
<1>6. CASE CloseStale(t)
  BY <1>6 DEF CloseStale, LockFree, Leave, Holds
<1>7. CASE CloseTell(t)
  BY <1>7 DEF CloseTell
<1>8. CASE CloseSeek(t)
  BY <1>8 DEF CloseSeek, Seek
<1>9. CASE CloseHeader(t)
  BY <1>9 DEF CloseHeader, WriteRecord
<1>10. CASE CloseBack(t)
  BY <1>10 DEF CloseBack, Seek
<1>11. CASE CloseFails(t)
  BY <1>11 DEF CloseFails
<1>12. CASE CloseRegister(t)
  BY <1>12 DEF CloseRegister
<1>13. CASE CloseCommitted(t)
  BY <1>13 DEF CloseCommitted, SetState
<1>14. CASE CloseCommit(t)
  BY <1>14 DEF CloseCommit, LockFree, Commit, Holds, NotifyAll
<1>15. CASE CloseFailed(t)
  BY <1>15 DEF CloseFailed, SetState
<1>16. CASE CloseFail(t)
  BY <1>16 DEF CloseFail, LockFree, Fail, Holds, NotifyAll
<1>17. CASE CloseUnmark(t)
  BY <1>17 DEF CloseUnmark
<1>18. CASE CloseDone(t)
  BY <1>18 DEF CloseDone, LockFree, Leave, NotifyAll
<1> QED
  BY <1>1, <1>2, <1>3, <1>4, <1>5, <1>6, <1>7, <1>8, <1>9, <1>10, <1>11, <1>12, <1>13, <1>14, <1>15, <1>16, <1>17, <1>18
  DEF CloseStep

(* The calls, through mkdir and read.                                      *)
LEMMA ReadOrMkdirTidyPcs ==
    ASSUME Tidy, Typed, TidyPcs, NEW t \in Threads, ReadOrMkdirStep(t)
    PROVE  TidyPcs'
<1> USE ThreadsAssumption
        DEF Typed, Tidy, TidyPcs, MkdirPcs, At, Go, coordinator, flags, file,
            placing, handles
<1>1. CASE MkdirRegister(t)
  BY <1>1 DEF MkdirRegister
<1>2. CASE MkdirWrite(t)
  BY <1>2 DEF MkdirWrite, WriteRecord
<1>3. CASE MkdirEnd(t)
  BY <1>3 DEF MkdirEnd, Leave
<1>4. CASE MkdirFindsClosed(t)
  BY <1>4 DEF MkdirFindsClosed, Leave
<1>5. CASE ReadSeek(t)
  BY <1>5 DEF ReadSeek, Seek
<1>6. CASE ReadCell(t)
  BY <1>6 DEF ReadCell, Leave
<1> QED
  BY <1>1, <1>2, <1>3, <1>4, <1>5, <1>6
  DEF ReadOrMkdirStep

(* The calls, through ZipFile.close.                                       *)
LEMMA ArchiveTidyPcs ==
    ASSUME Tidy, Typed, TidyPcs, NEW t \in Threads, ArchiveStep(t)
    PROVE  TidyPcs'
<1> USE ThreadsAssumption
        DEF Typed, Tidy, TidyPcs, MkdirPcs, At, Go, coordinator, flags, file,
            placing, handles
<1>1. CASE ArchiveCheck(t)
  BY <1>1 DEF ArchiveCheck
<1>2. CASE ArchiveWaits(t)
  BY <1>2 DEF ArchiveWaits, LockFree, BeingClosed
<1>3. CASE ArchiveRefused(t)
  BY <1>3 DEF ArchiveRefused, LockFree, Leave, BeingClosed
<1>4. CASE ArchiveProceeds(t)
  BY <1>4 DEF ArchiveProceeds, LockFree
<1>5. CASE ArchiveSeek(t)
  BY <1>5 DEF ArchiveSeek, Seek
<1>6. CASE ArchiveGone(t)
  BY <1>6 DEF ArchiveGone, Leave
<1>7. CASE ArchiveWrite(t)
  BY <1>7 DEF ArchiveWrite, WriteRecord
<1>8. CASE ArchiveDrop(t)
  BY <1>8 DEF ArchiveDrop, Leave
<1>9. CASE ArchiveUnmodified(t)
  BY <1>9 DEF ArchiveUnmodified
<1> QED
  BY <1>1, <1>2, <1>3, <1>4, <1>5, <1>6, <1>7, <1>8, <1>9
  DEF ArchiveStep

(* The calls, through the first step of a call.                            *)
LEMMA StartTidyPcs ==
    ASSUME Tidy, Typed, TidyPcs, NEW t \in Threads, Start(t)
    PROVE  TidyPcs'
<1> USE ThreadsAssumption
        DEF Typed, Tidy, TidyPcs, MkdirPcs, At, Go, coordinator, flags, file,
            placing, handles
<1>1. CASE StartOpen(t)
  BY <1>1 DEF StartOpen
<1>2. CASE StartWritestr(t)
  BY <1>2 DEF StartWritestr
<1>3. CASE \E h \in Handles : WriteData(t, h)
  BY <1>3 DEF WriteData, Usable, WriteRecord
<1>4. CASE \E h \in Handles : StartClose(t, h)
  BY <1>4 DEF StartClose, Usable
<1>5. CASE \E d \in Directories : StartMkdir(t, d)
  BY <1>5 DEF StartMkdir, Seek
<1>6. CASE StartRead(t)
  BY <1>6 DEF StartRead
<1>7. CASE StartCloseArchive(t)
  BY <1>7 DEF StartCloseArchive
<1> QED
  BY <1>1, <1>2, <1>3, <1>4, <1>5, <1>6, <1>7
  DEF Start

(* Positions, through ZipFile.open and writestr.                           *)
LEMMA OpenPositions ==
    ASSUME IInv, OwnHandles, Tidy, TidyPcs, Positions, Locked, NEW t \in Threads, OpenStep(t)
    PROVE  Positions'
<1>0. Typed /\ lock \in Threads \cup {Nobody} /\ pos \in Nat /\ start_dir \in Nat
      /\ disk \in [Addr -> CellValues] /\ off \in [Members -> Nat]
      /\ size \in [Members -> {0, 1}] /\ filelist \in Seq(Members)
      /\ Handles \subseteq Members /\ Registered \subseteq Members
  BY DEF IInv, TypeOK, Typed, Members, Registered
<1>a. CurOK /\ IssuedOK /\ StateOK /\ ReservationOK /\ LockOK /\ FreshOK /\ Sole
  BY SoleWriter DEF IInv
<1>c. Typed /\ Positions
  BY <1>0
<1> USE <1>0, <1>a, ThreadsAssumption
        DEF Typed, CurOK, IssuedOK, StateOK, ReservationOK, LockOK, FreshOK, Sole,
            Tidy, TidyPcs, Positions, MembersBelow, Unwritten, ActiveLast,
            ThreadsPlaced, ThreadPlaced, Registered, Last, Passed, WholeOnDisk, End,
            Active, NobodyOpens, Addr, HandlePcs, HoldingPcs, UnissuedPcs, FinalizingPcs, TrailerPcs,
            EndPcs, MkdirPcs, LockedPcs, At, Go, coordinator, flags, file,
            placing, handles
<1>1. CASE LockWritestr(t)
  <2>1. /\ UNCHANGED <<fpOpen, filelist, off, size, start_dir, disk, pos, issued,
                      wState, cur>>
        /\ \E l : l \notin StationPcs /\ pc' = [pc EXCEPT ![t] = l]
    BY <1>1 DEF LockWritestr, LockFree, StationPcs
  <2> HIDE <1>0, <1>a, ThreadsAssumption
  <2> HIDE DEF Typed, Positions
  <2> QED
    BY <2>1, <1>c, Stay
<1>2. CASE OpenReserve(t)
  BY <1>2 DEF OpenReserve, LockFree, Unmade, Reserve, Busy
<1>3. CASE OpenRefused(t)
  <2>1. /\ UNCHANGED <<fpOpen, filelist, off, size, start_dir, disk, pos, issued,
                      wState, cur>>
        /\ \E l : l \notin StationPcs /\ pc' = [pc EXCEPT ![t] = l]
    BY <1>3 DEF OpenRefused, LockFree, Leave, StationPcs
  <2> HIDE <1>0, <1>a, ThreadsAssumption
  <2> HIDE DEF Typed, Positions
  <2> QED
    BY <2>1, <1>c, Stay
<1>4. CASE OpenSeek(t)
  BY <1>4 DEF OpenSeek, Seek
<1>5. CASE OpenTell(t)
  <2>a. cur[t] \in Members /\ cur[t] \notin Registered /\ pos = start_dir
    BY <1>5 DEF OpenTell
  <2>0. fpOpen' /\ \A u \in Threads \ {t} : pc[u] \notin HoldingPcs
    BY <1>5 DEF OpenTell
  <2>1. MembersBelow'
    BY <1>5, <2>a DEF OpenTell
  <2>2. Unwritten'
    BY <1>5, <2>a DEF OpenTell
  <2>3. ActiveLast'
    BY <1>5, <2>a DEF OpenTell
  <2>4. ThreadsPlaced'
    <3>1. ThreadPlaced(t)'
      BY <1>5, <2>a DEF OpenTell
    <3> HIDE DEF ThreadPlaced, ThreadsPlaced
    <3> QED BY <1>5, <2>0, <3>1, NobodyElse DEF OpenTell
  <2> QED
    BY <2>0, <2>1, <2>2, <2>3, <2>4
<1>6. CASE OpenFindsClosed(t)
  BY <1>6 DEF OpenFindsClosed, Leave
<1>7. CASE OpenMark(t)
  BY <1>7 DEF OpenMark
<1>8. CASE OpenHeader(t)
  <2>0. fpOpen'
    BY <1>8 DEF OpenHeader, WriteRecord
  <2>1. MembersBelow'
    BY <1>8 DEF OpenHeader, WriteRecord
  <2>2. Unwritten'
    BY <1>8 DEF OpenHeader, WriteRecord
  <2>3. ActiveLast'
    BY <1>8 DEF OpenHeader, WriteRecord
  <2>4. ThreadsPlaced'
    BY <1>8 DEF OpenHeader, WriteRecord
  <2> QED
    BY <2>0, <2>1, <2>2, <2>3, <2>4
<1>9. CASE OpenHeaderFails(t)
  <2>1. /\ UNCHANGED <<fpOpen, filelist, off, size, start_dir, disk, pos, issued,
                      wState, cur>>
        /\ \E l : l \notin StationPcs /\ pc' = [pc EXCEPT ![t] = l]
    BY <1>9 DEF OpenHeaderFails, StationPcs
  <2> HIDE <1>0, <1>a, ThreadsAssumption
  <2> HIDE DEF Typed, Positions
  <2> QED
    BY <2>1, <1>c, Stay
<1>10. CASE OpenRelease(t)
  <2>1. /\ UNCHANGED <<fpOpen, filelist, off, size, start_dir, disk, pos, issued,
                      wState, cur>>
        /\ \E l : l \notin StationPcs /\ pc' = [pc EXCEPT ![t] = l]
    BY <1>10 DEF OpenRelease, Leave, StationPcs
  <2> HIDE <1>0, <1>a, ThreadsAssumption
  <2> HIDE DEF Typed, Positions
  <2> QED
    BY <2>1, <1>c, Stay
<1>11. CASE OpenPublish(t)
  BY <1>11 DEF OpenPublish
<1>12. CASE WritestrData(t)
  <2>a. /\ cur[t] \in Handles /\ cur[t] \in issued /\ cur[t] \notin Registered
        /\ Last(cur[t]) /\ size[cur[t]] = 0 /\ pos = start_dir + 1
        /\ pos \in Addr /\ disk' = [disk EXCEPT ![pos] = cur[t]] /\ pos' = pos + 1
        /\ size' = [size EXCEPT ![cur[t]] = 1]
    <3>1. /\ pc[t] = "s_write" /\ pos \in Addr /\ disk' = [disk EXCEPT ![pos] = cur[t]]
          /\ pos' = pos + 1 /\ size' = [size EXCEPT ![cur[t]] = 1]
      BY <1>12 DEF WritestrData, WriteRecord
    <3>2. ThreadPlaced(t)
      OBVIOUS
    <3>3. cur[t] \in Handles /\ cur[t] \in issued /\ cur[t] \notin Registered
      <4> HIDE DEF Positions
      <4> QED BY <3>1
    <3>4. Last(cur[t]) /\ size[cur[t]] = 0
      <4> HIDE DEF Last
      <4> QED BY <3>1, <3>2
    <3>5. pos = start_dir + 1
      BY <3>3, <3>4
    <3> HIDE DEF Last
    <3> QED BY <3>1, <3>3, <3>4, <3>5
  <2>0. fpOpen' /\ \A u \in Threads \ {t} : pc[u] \notin HoldingPcs
    BY <1>12 DEF WritestrData, WriteRecord
  <2>1. MembersBelow'
    BY <1>12, <2>a DEF WritestrData, WriteRecord
  <2>2. Unwritten'
    BY <1>12, <2>a DEF WritestrData, WriteRecord
  <2>3. ActiveLast'
    BY <1>12, <2>a DEF WritestrData, WriteRecord
  <2>4. ThreadsPlaced'
    <3>1. ThreadPlaced(t)'
      BY <1>12, <2>a DEF WritestrData, WriteRecord
    <3> HIDE DEF ThreadPlaced, ThreadsPlaced
    <3> QED BY <1>12, <2>0, <3>1, NobodyElse DEF WritestrData, WriteRecord
  <2> QED
    BY <2>0, <2>1, <2>2, <2>3, <2>4
<1> QED
  BY <1>1, <1>2, <1>3, <1>4, <1>5, <1>6, <1>7, <1>8, <1>9, <1>10, <1>11, <1>12
  DEF OpenStep

(* Positions, through ZipWriteFile.close.                                  *)
LEMMA ClosePositions ==
    ASSUME IInv, OwnHandles, Tidy, TidyPcs, Positions, Locked, NEW t \in Threads, CloseStep(t)
    PROVE  Positions'
<1>0. Typed /\ lock \in Threads \cup {Nobody} /\ pos \in Nat /\ start_dir \in Nat
      /\ disk \in [Addr -> CellValues] /\ off \in [Members -> Nat]
      /\ size \in [Members -> {0, 1}] /\ filelist \in Seq(Members)
      /\ Handles \subseteq Members /\ Registered \subseteq Members
  BY DEF IInv, TypeOK, Typed, Members, Registered
<1>a. CurOK /\ IssuedOK /\ StateOK /\ ReservationOK /\ LockOK /\ FreshOK /\ Sole
  BY SoleWriter DEF IInv
<1>b. \A m \in Members : End(m) \in Int
  BY <1>0 DEF End
<1>c. Typed /\ Positions
  BY <1>0
<1> USE <1>0, <1>a, ThreadsAssumption
        DEF Typed, CurOK, IssuedOK, StateOK, ReservationOK, LockOK, FreshOK, Sole,
            Tidy, TidyPcs, Positions, MembersBelow, Unwritten, ActiveLast,
            ThreadsPlaced, ThreadPlaced, Registered, Last, Passed, WholeOnDisk, End,
            Active, NobodyOpens, Addr, HandlePcs, HoldingPcs, UnissuedPcs, FinalizingPcs, TrailerPcs,
            EndPcs, MkdirPcs, LockedPcs, At, Go, coordinator, flags, file,
            placing, handles
<1>1. CASE CloseReturns(t)
  <2>1. /\ UNCHANGED <<fpOpen, filelist, off, size, start_dir, disk, pos, issued,
                      wState, cur>>
        /\ \E l : l \notin StationPcs /\ pc' = [pc EXCEPT ![t] = l]
    BY <1>1 DEF CloseReturns, Leave, StationPcs
  <2> HIDE <1>0, <1>a, ThreadsAssumption
  <2> HIDE DEF Typed, Positions
  <2> QED
    BY <2>1, <1>c, Stay
<1>2. CASE CloseWaits(t)
  <2>1. /\ UNCHANGED <<fpOpen, filelist, off, size, start_dir, disk, pos, issued,
                      wState, cur>>
        /\ \E l : l \notin StationPcs /\ pc' = [pc EXCEPT ![t] = l]
    BY <1>2 DEF CloseWaits, StationPcs
  <2> HIDE <1>0, <1>a, ThreadsAssumption
  <2> HIDE DEF Typed, Positions
  <2> QED
    BY <2>1, <1>c, Stay
<1>3. CASE CloseProceeds(t)
  BY <1>3 DEF CloseProceeds, LockFree
<1>4. CASE CloseFinalizing(t)
  BY <1>4 DEF CloseFinalizing, SetState
<1>5. CASE CloseBegin(t)
  BY <1>5 DEF CloseBegin, LockFree, BeginFinalization, Holds
<1>6. CASE CloseStale(t)
  <2>1. /\ UNCHANGED <<fpOpen, filelist, off, size, start_dir, disk, pos, issued,
                      wState, cur>>
        /\ \E l : l \notin StationPcs /\ pc' = [pc EXCEPT ![t] = l]
    BY <1>6 DEF CloseStale, Leave, StationPcs
  <2> HIDE <1>0, <1>a, ThreadsAssumption
  <2> HIDE DEF Typed, Positions
  <2> QED
    BY <2>1, <1>c, Stay
<1>7. CASE CloseTell(t)
  <2>a. Last(cur[t]) /\ pos >= start_dir /\ cur[t] \in Members
    BY <1>7 DEF CloseTell
  <2>0. fpOpen' /\ \A u \in Threads \ {t} : pc[u] \notin HoldingPcs
    BY <1>7 DEF CloseTell
  <2>1. MembersBelow'
    <3>1. UNCHANGED <<filelist, off, size, disk>> /\ start_dir' = pos
      BY <1>7 DEF CloseTell
    <3>2. ASSUME NEW m \in Registered PROVE (WholeOnDisk(m) /\ End(m) <= start_dir)'
      <4>1. MembersBelow /\ m \in Members
        OBVIOUS
      <4>2. WholeOnDisk(m) /\ End(m) <= start_dir
        BY <4>1
      <4>3. End(m) \in Int
        <5> HIDE <1>0, <1>a, ThreadsAssumption
        <5> HIDE DEF Positions, MembersBelow, End
        <5> QED BY <4>1, <1>b
      <4> HIDE DEF Positions, MembersBelow
      <4> QED BY <2>a, <3>1, <4>2, <4>3
    <3>3. Registered' = Registered
      BY <3>1
    <3> HIDE DEF WholeOnDisk, End, Registered, Positions
    <3> QED BY <3>2, <3>3
  <2>2. Unwritten'
    BY <1>7, <2>a DEF CloseTell
  <2>3. ActiveLast'
    BY <1>7, <2>a DEF CloseTell
  <2>4. ThreadsPlaced'
    <3>1. ThreadPlaced(t)'
      BY <1>7, <2>a DEF CloseTell
    <3> HIDE DEF ThreadPlaced, ThreadsPlaced
    <3> QED BY <1>7, <2>0, <3>1, NobodyElse DEF CloseTell
  <2> QED
    BY <2>0, <2>1, <2>2, <2>3, <2>4
<1>8. CASE CloseSeek(t)
  <2>a. /\ UNCHANGED <<filelist, off, size, start_dir, disk, cur>> /\ fpOpen'
        /\ pc[t] = "c_seek" /\ pc' = [pc EXCEPT ![t] = "c_header"] /\ pos' = off[cur[t]]
        /\ \A u \in Threads \ {t} : pc[u] \notin HoldingPcs
    BY <1>8 DEF CloseSeek, Seek
  <2>1. MembersBelow'
    BY <2>a, SameDisk
  <2>2. Unwritten' /\ ActiveLast'
    BY <1>8 DEF CloseSeek, Seek
  <2>3. Passed(cur[t])
    BY <2>a
  <2>4. Passed(cur[t])'
    <3> HIDE DEF Passed
    <3> QED BY <2>a, <2>3, SameDisk
  <2>5. ThreadPlaced(t)'
    <3> HIDE DEF Passed
    <3> QED BY <2>a, <2>4
  <2>6. ThreadsPlaced'
    <3>1. (\E l : pc' = [pc EXCEPT ![t] = l])
          /\ \A u \in Threads \ {t} : pc[u] \notin HoldingPcs
      BY <2>a
    <3> HIDE DEF ThreadPlaced, ThreadsPlaced, HoldingPcs
    <3> QED BY <2>5, <3>1, NobodyElse
  <2> QED
    BY <2>a, <2>1, <2>2, <2>6
<1>9. CASE CloseHeader(t)
  <2>a. /\ UNCHANGED <<filelist, off, size, start_dir, cur, issued, wState>> /\ fpOpen'
        /\ pc[t] = "c_header" /\ pc' = [pc EXCEPT ![t] = "c_back"]
        /\ pos \in Addr /\ disk' = [disk EXCEPT ![pos] = cur[t]]
        /\ \A u \in Threads \ {t} : pc[u] \notin HoldingPcs
    BY <1>9 DEF CloseHeader, WriteRecord
  <2>b. /\ pos = off[cur[t]] /\ Passed(cur[t]) /\ cur[t] \in Handles /\ cur[t] \in Members
        /\ cur[t] \notin Registered /\ \A h \in Handles : ~Active(h)
    <3>1. pos = off[cur[t]] /\ Passed(cur[t]) /\ cur[t] \in Handles
      <4>1. ThreadPlaced(t)
        OBVIOUS
      <4> HIDE DEF Passed
      <4> QED BY <2>a, <4>1
    <3>2. cur[t] \in Members /\ cur[t] \notin Registered
      <4> HIDE DEF Positions
      <4> QED BY <2>a, <3>1
    <3>3. \A h \in Handles : ~Active(h)
      <4> HIDE DEF Positions
      <4> QED BY <2>a
    <3> QED BY <3>1, <3>2, <3>3
  <2>1. MembersBelow'
    <3> SUFFICES ASSUME NEW m \in Registered PROVE (WholeOnDisk(m) /\ End(m) <= start_dir)'
      BY <2>a
    <3>1. WholeOnDisk(m) /\ End(m) <= start_dir /\ m \in Members
      OBVIOUS
    <3>2. End(m) <= pos
      BY <2>b
    <3> QED
      BY <2>a, <3>1, <3>2
  <2>2. Unwritten' /\ ActiveLast'
    BY <2>a, <2>b
  <2>3. Passed(cur[t])'
    <3>1. WholeOnDisk(cur[t])'
      BY <2>a, <2>b
    <3> QED
      BY <2>a, <2>b, <3>1
  <2>4. ThreadPlaced(t)'
    <3> HIDE DEF Passed
    <3> QED BY <2>a, <2>3
  <2>5. ThreadsPlaced'
    <3>1. (\E l : pc' = [pc EXCEPT ![t] = l])
          /\ \A u \in Threads \ {t} : pc[u] \notin HoldingPcs
      BY <2>a
    <3> HIDE DEF ThreadPlaced, ThreadsPlaced, HoldingPcs
    <3> QED BY <2>4, <3>1, NobodyElse
  <2> QED
    BY <2>a, <2>1, <2>2, <2>5
<1>10. CASE CloseBack(t)
  BY <1>10 DEF CloseBack, Seek
<1>11. CASE CloseFails(t)
  <2>1. /\ UNCHANGED <<fpOpen, filelist, off, size, start_dir, disk, pos, issued,
                      wState, cur>>
        /\ \E l : l \notin StationPcs /\ pc' = [pc EXCEPT ![t] = l]
    BY <1>11 DEF CloseFails, StationPcs
  <2> HIDE <1>0, <1>a, ThreadsAssumption
  <2> HIDE DEF Typed, Positions
  <2> QED
    BY <2>1, <1>c, Stay
<1>12. CASE CloseRegister(t)
  <2>a. /\ UNCHANGED <<off, size, start_dir, disk, pos, issued, wState, cur>> /\ fpOpen'
        /\ pc[t] = "c_register" /\ pc' = [pc EXCEPT ![t] = "c_committed"]
        /\ filelist' = Append(filelist, cur[t]) /\ cur[t] \in Members
    BY <1>12 DEF CloseRegister
  <2>b. Registered' = Registered \cup {cur[t]}
    <3>1. filelist \in Seq(Members)
      OBVIOUS
    <3> HIDE DEF Registered
    <3> QED BY <2>a, <3>1, AppendRegistered
  <2>1. MembersBelow'
    <3>1. WholeOnDisk(cur[t]) /\ End(cur[t]) <= start_dir
      BY <2>a
    <3>2. \A m : (WholeOnDisk(m)' <=> WholeOnDisk(m)) /\ End(m)' = End(m)
      BY <2>a
    <3>3. ASSUME NEW m \in Registered \cup {cur[t]}
          PROVE  WholeOnDisk(m) /\ End(m) <= start_dir
      <4>1. MembersBelow
        OBVIOUS
      <4> HIDE DEF WholeOnDisk, End, Registered, Positions, ThreadsPlaced, ActiveLast
      <4> QED BY <3>1, <4>1
    <3> HIDE DEF WholeOnDisk, End, Registered
    <3> QED BY <2>a, <2>b, <3>2, <3>3
  <2>2. Unwritten' /\ ActiveLast'
    BY <2>a
  <2>4. ThreadsPlaced'
    <3>1. (\E l : pc' = [pc EXCEPT ![t] = l])
          /\ \A u \in Threads \ {t} : pc[u] \notin HoldingPcs
      BY <2>a
    <3>2. ThreadPlaced(t)'
      BY <2>a
    <3> HIDE DEF ThreadPlaced, ThreadsPlaced, HoldingPcs
    <3> QED BY <3>1, <3>2, NobodyElse
  <2> QED
    BY <2>a, <2>1, <2>2, <2>4
<1>13. CASE CloseCommitted(t)
  BY <1>13 DEF CloseCommitted, SetState
<1>14. CASE CloseCommit(t)
  BY <1>14 DEF CloseCommit, LockFree, Commit, Holds, NotifyAll
<1>15. CASE CloseFailed(t)
  BY <1>15 DEF CloseFailed, SetState
<1>16. CASE CloseFail(t)
  BY <1>16 DEF CloseFail, LockFree, Fail, Holds, NotifyAll
<1>17. CASE CloseUnmark(t)
  <2>1. /\ UNCHANGED <<fpOpen, filelist, off, size, start_dir, disk, pos, issued,
                      wState, cur>>
        /\ \E l : l \notin StationPcs /\ pc' = [pc EXCEPT ![t] = l]
    BY <1>17 DEF CloseUnmark, StationPcs
  <2> HIDE <1>0, <1>a, ThreadsAssumption
  <2> HIDE DEF Typed, Positions
  <2> QED
    BY <2>1, <1>c, Stay
<1>18. CASE CloseDone(t)
  <2>1. /\ UNCHANGED <<fpOpen, filelist, off, size, start_dir, disk, pos, issued,
                      wState, cur>>
        /\ \E l : l \notin StationPcs /\ pc' = [pc EXCEPT ![t] = l]
    BY <1>18 DEF CloseDone, Leave, StationPcs
  <2> HIDE <1>0, <1>a, ThreadsAssumption
  <2> HIDE DEF Typed, Positions
  <2> QED
    BY <2>1, <1>c, Stay
<1> QED
  BY <1>1, <1>2, <1>3, <1>4, <1>5, <1>6, <1>7, <1>8, <1>9, <1>10, <1>11, <1>12, <1>13, <1>14, <1>15, <1>16, <1>17, <1>18
  DEF CloseStep

(* Positions, through mkdir and read.                                      *)
LEMMA ReadOrMkdirPositions ==
    ASSUME IInv, OwnHandles, Tidy, TidyPcs, Positions, Locked, NEW t \in Threads, ReadOrMkdirStep(t)
    PROVE  Positions'
<1>0. Typed /\ lock \in Threads \cup {Nobody} /\ pos \in Nat /\ start_dir \in Nat
      /\ disk \in [Addr -> CellValues] /\ off \in [Members -> Nat]
      /\ size \in [Members -> {0, 1}] /\ filelist \in Seq(Members)
      /\ Handles \subseteq Members /\ Registered \subseteq Members
  BY DEF IInv, TypeOK, Typed, Members, Registered
<1>a. CurOK /\ IssuedOK /\ StateOK /\ ReservationOK /\ LockOK /\ FreshOK /\ Sole
  BY SoleWriter DEF IInv
<1> USE <1>0, <1>a, ThreadsAssumption
        DEF Typed, CurOK, IssuedOK, StateOK, ReservationOK, LockOK, FreshOK, Sole,
            Tidy, TidyPcs, Positions, MembersBelow, Unwritten, ActiveLast,
            ThreadsPlaced, ThreadPlaced, Registered, Last, Passed, WholeOnDisk, End,
            Active, NobodyOpens, Addr, HandlePcs, HoldingPcs, UnissuedPcs, FinalizingPcs, TrailerPcs,
            EndPcs, MkdirPcs, LockedPcs, At, Go, coordinator, flags, file,
            placing, handles
<1>1. CASE MkdirRegister(t)
  BY <1>1 DEF MkdirRegister
<1>2. CASE MkdirWrite(t)
  BY <1>2 DEF MkdirWrite, WriteRecord
<1>3. CASE MkdirEnd(t)
  BY <1>3 DEF MkdirEnd, Leave
<1>4. CASE MkdirFindsClosed(t)
  BY <1>4 DEF MkdirFindsClosed, Leave
<1>5. CASE ReadSeek(t)
  <2>a. NobodyOpens /\ Locked
    BY <1>5 DEF ReadSeek, Seek
  <2>b. pc[t] \in {"r_seek", "r_read"} /\ fpOpen'
        /\ UNCHANGED <<filelist, off, size, start_dir, disk, issued, wState, cur>>
    BY <1>5 DEF ReadSeek, Seek
  <2>c. (\A u \in Threads : pc[u] \notin HoldingPcs) /\ (\A h \in Handles : ~Active(h))
    <3> HIDE DEF Active, HoldingPcs
    <3> QED BY <2>a, <2>b, NobodyWrites
  <2>1. MembersBelow'
    BY <2>b, SameDisk
  <2>2. Unwritten'
    BY <2>b
  <2>3. ActiveLast'
    BY <2>b, <2>c
  <2>4. ThreadsPlaced'
    <3>1. ThreadPlaced(t)'
      BY <1>5 DEF ReadSeek, Seek
    <3>2. \E l : pc' = [pc EXCEPT ![t] = l]
      BY <1>5 DEF ReadSeek, Seek
    <3> HIDE DEF ThreadPlaced, ThreadsPlaced, HoldingPcs
    <3> QED BY <2>c, <3>1, <3>2, NobodyElse
  <2> QED BY <2>b, <2>1, <2>2, <2>3, <2>4
<1>6. CASE ReadCell(t)
  <2>a. NobodyOpens /\ Locked
    BY <1>6 DEF ReadCell, Leave
  <2>b. pc[t] \in {"r_seek", "r_read"} /\ fpOpen'
        /\ UNCHANGED <<filelist, off, size, start_dir, disk, issued, wState, cur>>
    BY <1>6 DEF ReadCell, Leave
  <2>c. (\A u \in Threads : pc[u] \notin HoldingPcs) /\ (\A h \in Handles : ~Active(h))
    <3> HIDE DEF Active, HoldingPcs
    <3> QED BY <2>a, <2>b, NobodyWrites
  <2>1. MembersBelow'
    BY <2>b, SameDisk
  <2>2. Unwritten'
    BY <2>b
  <2>3. ActiveLast'
    BY <2>b, <2>c
  <2>4. ThreadsPlaced'
    <3>1. ThreadPlaced(t)'
      BY <1>6 DEF ReadCell, Leave
    <3>2. \E l : pc' = [pc EXCEPT ![t] = l]
      BY <1>6 DEF ReadCell, Leave
    <3> HIDE DEF ThreadPlaced, ThreadsPlaced, HoldingPcs
    <3> QED BY <2>c, <3>1, <3>2, NobodyElse
  <2> QED BY <2>b, <2>1, <2>2, <2>3, <2>4
<1> QED
  BY <1>1, <1>2, <1>3, <1>4, <1>5, <1>6
  DEF ReadOrMkdirStep

(* Positions, through ZipFile.close.                                       *)
LEMMA ArchivePositions ==
    ASSUME IInv, OwnHandles, Tidy, TidyPcs, Positions, Locked, NEW t \in Threads, ArchiveStep(t)
    PROVE  Positions'
<1>0. Typed /\ lock \in Threads \cup {Nobody} /\ pos \in Nat /\ start_dir \in Nat
      /\ disk \in [Addr -> CellValues] /\ off \in [Members -> Nat]
      /\ size \in [Members -> {0, 1}] /\ filelist \in Seq(Members)
      /\ Handles \subseteq Members /\ Registered \subseteq Members
  BY DEF IInv, TypeOK, Typed, Members, Registered
<1>a. CurOK /\ IssuedOK /\ StateOK /\ ReservationOK /\ LockOK /\ FreshOK /\ Sole
  BY SoleWriter DEF IInv
<1> USE <1>0, <1>a, ThreadsAssumption
        DEF Typed, CurOK, IssuedOK, StateOK, ReservationOK, LockOK, FreshOK, Sole,
            Tidy, TidyPcs, Positions, MembersBelow, Unwritten, ActiveLast,
            ThreadsPlaced, ThreadPlaced, Registered, Last, Passed, WholeOnDisk, End,
            Active, NobodyOpens, Addr, HandlePcs, HoldingPcs, UnissuedPcs, FinalizingPcs, TrailerPcs,
            EndPcs, MkdirPcs, LockedPcs, At, Go, coordinator, flags, file,
            placing, handles
<1>1. CASE ArchiveCheck(t)
  BY <1>1 DEF ArchiveCheck
<1>2. CASE ArchiveWaits(t)
  BY <1>2 DEF ArchiveWaits, LockFree, BeingClosed
<1>3. CASE ArchiveRefused(t)
  BY <1>3 DEF ArchiveRefused, LockFree, Leave, BeingClosed
<1>4. CASE ArchiveProceeds(t)
  BY <1>4 DEF ArchiveProceeds, LockFree
<1>5. CASE ArchiveSeek(t)
  BY <1>5 DEF ArchiveSeek, Seek
<1>6. CASE ArchiveGone(t)
  BY <1>6 DEF ArchiveGone, Leave
<1>7. CASE ArchiveWrite(t)
  BY <1>7 DEF ArchiveWrite, WriteRecord
<1>8. CASE ArchiveDrop(t)
  BY <1>8 DEF ArchiveDrop, Leave
<1>9. CASE ArchiveUnmodified(t)
  BY <1>9 DEF ArchiveUnmodified
<1> QED
  BY <1>1, <1>2, <1>3, <1>4, <1>5, <1>6, <1>7, <1>8, <1>9
  DEF ArchiveStep

(* Positions, through the first step of a call.                            *)
LEMMA StartPositions ==
    ASSUME IInv, OwnHandles, Tidy, TidyPcs, Positions, Locked, NEW t \in Threads, Start(t)
    PROVE  Positions'
<1>0. Typed /\ lock \in Threads \cup {Nobody} /\ pos \in Nat /\ start_dir \in Nat
      /\ disk \in [Addr -> CellValues] /\ off \in [Members -> Nat]
      /\ size \in [Members -> {0, 1}] /\ filelist \in Seq(Members)
      /\ Handles \subseteq Members /\ Registered \subseteq Members
  BY DEF IInv, TypeOK, Typed, Members, Registered
<1>a. CurOK /\ IssuedOK /\ StateOK /\ ReservationOK /\ LockOK /\ FreshOK /\ Sole
  BY SoleWriter DEF IInv
<1>c. Typed /\ Positions /\ ClosedOK
  BY <1>0 DEF IInv
<1> USE <1>0, <1>a, ThreadsAssumption
        DEF Typed, CurOK, IssuedOK, StateOK, ReservationOK, LockOK, FreshOK, Sole,
            Tidy, TidyPcs, Positions, MembersBelow, Unwritten, ActiveLast,
            ThreadsPlaced, ThreadPlaced, Registered, Last, Passed, WholeOnDisk, End,
            Active, NobodyOpens, Addr, HandlePcs, HoldingPcs, UnissuedPcs, FinalizingPcs, TrailerPcs,
            EndPcs, MkdirPcs, LockedPcs, At, Go, coordinator, flags, file,
            placing, handles
<1>1. CASE StartOpen(t)
  <2>1. /\ UNCHANGED <<fpOpen, filelist, off, size, start_dir, disk, pos, issued,
                      wState, cur>>
        /\ \E l : l \notin StationPcs /\ pc' = [pc EXCEPT ![t] = l]
    BY <1>1 DEF StartOpen, StationPcs
  <2> HIDE <1>0, <1>a, ThreadsAssumption
  <2> HIDE DEF Typed, Positions
  <2> QED
    BY <2>1, <1>c, Stay
<1>2. CASE StartWritestr(t)
  <2>1. /\ UNCHANGED <<fpOpen, filelist, off, size, start_dir, disk, pos, issued,
                      wState, cur>>
        /\ \E l : l \notin StationPcs /\ pc' = [pc EXCEPT ![t] = l]
    BY <1>2 DEF StartWritestr, StationPcs
  <2> HIDE <1>0, <1>a, ThreadsAssumption
  <2> HIDE DEF Typed, Positions
  <2> QED
    BY <2>1, <1>c, Stay
<1>3. CASE \E h \in Handles : WriteData(t, h)
  <2>0. PICK h \in Handles : WriteData(t, h)
    BY <1>3
  <2>c. Active(h)
    BY ONLY <2>0, <1>c, OwnHandles
       DEF ClosedOK, ClosingPcs, FinalizingPcs, TrailerPcs, WriteData, Usable, OwnHandles,
           At, Active
  <2>a. /\ UNCHANGED <<filelist, off, start_dir, cur, pc, issued, wState>> /\ fpOpen'
        /\ pos \in Addr /\ disk' = [disk EXCEPT ![pos] = h] /\ pos' = pos + 1
        /\ pc[t] = "idle" /\ opener[h] = t /\ size[h] = 0
        /\ size' = [size EXCEPT ![h] = 1]
    BY <2>0 DEF WriteData, WriteRecord, Usable, OwnHandles
  <2>b. /\ Last(h) /\ h \in Members /\ h \notin Registered /\ pos = start_dir + 1
        /\ \A u \in Threads : pc[u] \notin HoldingPcs
    BY <2>a, <2>c
  <2>1. MembersBelow'
    <3>0. Registered' = Registered
      BY ONLY <2>a DEF Registered
    <3>1. ASSUME NEW m \in Registered PROVE (WholeOnDisk(m) /\ End(m) <= start_dir)'
      <4>1. WholeOnDisk(m) /\ End(m) <= start_dir /\ m \in Members
        OBVIOUS
      <4> QED
        BY SMTT(30), ZenonT(30), <2>a, <2>b, <4>1
    <3> QED
      BY ONLY <3>0, <3>1 DEF MembersBelow
  <2>2. Unwritten'
    BY <2>a, <2>b, <2>c
  <2>3. ActiveLast'
    BY <2>a, <2>b, <2>c
  <2>4. ThreadsPlaced'
    BY <2>a, <2>b, <2>c
  <2> QED
    BY <2>a, <2>1, <2>2, <2>3, <2>4
<1>4. CASE \E h \in Handles : StartClose(t, h)
  <2>0. PICK h \in Handles : StartClose(t, h)
    BY <1>4
  <2>a. /\ UNCHANGED <<filelist, off, size, start_dir, disk, pos, issued, wState>> /\ fpOpen'
        /\ pc[t] = "idle" /\ pc' = [pc EXCEPT ![t] = "c_check"]
        /\ cur' = [cur EXCEPT ![t] = h]
    BY <2>0 DEF StartClose
  <2>1. MembersBelow' /\ \A g \in Handles : (Last(g)' <=> Last(g)) /\ (Passed(g)' <=> Passed(g))
    BY <2>a, SameDisk
  <2>2. Unwritten'
    BY <2>a
  <2>3. ActiveLast'
    <3> HIDE DEF Last
    <3> QED BY <2>a, <2>1
  <2>4. ThreadsPlaced'
    <3> SUFFICES ASSUME NEW u \in Threads PROVE ThreadPlaced(u)'
      OBVIOUS
    <3>1. ThreadPlaced(u) /\ (pc[u] \in HoldingPcs => cur[u] \in Handles)
      OBVIOUS
    <3> HIDE DEF Last, Passed
    <3> QED BY <2>a, <2>1, <3>1
  <2> QED
    BY <2>a, <2>1, <2>2, <2>3, <2>4
<1>5. CASE \E d \in Directories : StartMkdir(t, d)
  BY <1>5 DEF StartMkdir, Seek
<1>6. CASE StartRead(t)
  <2>1. /\ UNCHANGED <<fpOpen, filelist, off, size, start_dir, disk, pos, issued,
                      wState, cur>>
        /\ \E l : l \notin StationPcs /\ pc' = [pc EXCEPT ![t] = l]
    BY <1>6 DEF StartRead, StationPcs
  <2> HIDE <1>0, <1>a, ThreadsAssumption
  <2> HIDE DEF Typed, Positions
  <2> QED
    BY <2>1, <1>c, Stay
<1>7. CASE StartCloseArchive(t)
  BY <1>7 DEF StartCloseArchive
<1> QED
  BY <1>1, <1>2, <1>3, <1>4, <1>5, <1>6, <1>7
  DEF Start

(* Every step of a thread keeps members behind one another.                 *)
PlacementInv == TidyPcs /\ Positions

LEMMA PlacementInit == Init => PlacementInv
<1> SUFFICES ASSUME Init PROVE PlacementInv
  OBVIOUS
<1>1. Registered = {Old} /\ Old \in Members /\ Handles \subseteq Members
      /\ 0 \in Addr /\ FileCells >= 1
  BY ThreadsAssumption DEF Init, Registered, Members, Addr
<1>2. \A m \in Members : off[m] = 0 /\ size[m] = 0
  BY DEF Init
<1>3. MembersBelow
  BY <1>1, <1>2 DEF Init, MembersBelow, WholeOnDisk, End
<1>4. TidyPcs
  BY DEF Init, TidyPcs, MkdirPcs
<1>5. Unwritten
  BY <1>1, <1>2 DEF Unwritten
<1>6. ActiveLast /\ ThreadsPlaced
  BY DEF Init, ActiveLast, ThreadsPlaced, ThreadPlaced, Active
<1> QED
  BY <1>3, <1>4, <1>5, <1>6 DEF PlacementInv, Positions, Init

LEMMA PlacementStep ==
    ASSUME OwnHandles, Tidy
    PROVE  IInv /\ Locked /\ PlacementInv /\ [Next]_vars
           => PlacementInv'
<1> SUFFICES ASSUME IInv, Locked, PlacementInv, [Next]_vars
             PROVE  PlacementInv'
  OBVIOUS
<1>a. Typed
  BY DEF IInv, TypeOK, Typed
<1> USE <1>a DEF PlacementInv
<1>1. CASE UNCHANGED vars
  <2>1. UNCHANGED <<pc, cur, fpOpen, pos, start_dir, disk, filelist, off, size, wState, issued>>
    BY <1>1 DEF vars, flags, file, placing, handles
  <2> QED
    BY <2>1 DEF TidyPcs, Positions, MembersBelow, Unwritten, ActiveLast,
       ThreadsPlaced, ThreadPlaced, Registered, Last, Passed, WholeOnDisk, End, Active
<1>2. CASE Next
  <2> PICK t \in Threads : Step(t) \/ Start(t)
    BY <1>2 DEF Next
  <2>1. CASE OpenStep(t)
    BY <2>1, OpenTidyPcs, OpenPositions
  <2>2. CASE CloseStep(t)
    BY <2>2, CloseTidyPcs, ClosePositions
  <2>3. CASE ReadOrMkdirStep(t)
    BY <2>3, ReadOrMkdirTidyPcs, ReadOrMkdirPositions
  <2>4. CASE ArchiveStep(t)
    BY <2>4, ArchiveTidyPcs, ArchivePositions
  <2>5. CASE Start(t)
    BY <2>5, StartTidyPcs, StartPositions
  <2> QED
    BY <2>1, <2>2, <2>3, <2>4, <2>5 DEF Step
<1> QED
  BY <1>1, <1>2

(* Where the client is Tidy every listed member is on the disk where its    *)
(* ZipInfo says, for any number of threads and handles and any failing      *)
(* open or close (ZipFile._open_to_write, ZipWriteFile.close).              *)
THEOREM MembersIntactIfTidy ==
    ASSUME OwnHandles, Tidy PROVE Spec => []MembersIntact
<1>1. PlacementInv => MembersIntact
  BY DEF PlacementInv, Positions, MembersBelow, WholeOnDisk, Registered, MembersIntact
<1>2. Locked /\ Covered => Locked
  OBVIOUS
<1>3. IInv /\ Locked /\ PlacementInv /\ [Next]_vars
      => PlacementInv'
  BY PlacementStep
<1> QED
  BY <1>1, <1>2, <1>3, PlacementInit, LockAlways, Invariance, PTL DEF Spec
=============================================================================
