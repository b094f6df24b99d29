---------------------------- MODULE WriterThreads ----------------------------
(***************************************************************************)
(* One ZipFile object shared by threads.  A step is what a thread does      *)
(* between two points where another can run: a critical section of the     *)
(* archive's RLock, one operation on fp, or one assignment.  Writing a      *)
(* member, unlike reading one, does not hold the lock, except in writestr. *)
(*                                                                         *)
(* Source: zipfile/file.py (open, _open_to_write, writestr, mkdir, close), *)
(* zipfile/write.py (ZipWriteFile) and zipfile/io_wrappers.py              *)
(* (ClosableZipStream), over WriteCoordinator.  The file holds one cell per *)
(* record, and a cell holds the member it was written for.                 *)
(***************************************************************************)
EXTENDS WriteCoordinator, Integers, Sequences

CONSTANTS
    Threads,
    Nobody,         \* the lock is free; the opener of a handle not yet made
    Calls,          \* the calls each thread makes
    SharedHandles,  \* those that other threads than their openers may use
    Faults,         \* the I/O failures that may happen
    Directories,    \* members that mkdir makes
    Old,            \* a member that was in the archive when it was opened
    Directory,      \* the central directory and end record
    Free,           \* a cell not written yet
    FileCells       \* bound: length of the file

CallKinds == {"open", "close", "writestr", "mkdir", "closeArchive", "read"}
Members == Handles \cup Directories \cup {Old}
Addr == 0 .. (FileCells - 1)
CellValues == Members \cup {Directory, Free}

ASSUME ThreadsAssumption ==
    /\ Nobody \notin Threads
    /\ NoHandle \notin Handles \cup Directories \cup {Old}
    /\ Calls \in [Threads -> SUBSET CallKinds]
    /\ SharedHandles \subseteq Handles
    /\ Faults \subseteq {"header", "final"}
    /\ Old \notin Handles /\ Old \notin Directories
    /\ Handles \cap Directories = {}
    /\ Directory \notin Members /\ Free \notin Members
    /\ FileCells \in Nat \ {0}

VARIABLES
    lock,       \* owner of the archive's RLock between steps
    pc, cur,    \* what each thread is doing, and to which member
    fpOpen,     \* ZipFile.fp is not None
    writing,    \* _writing
    active,     \* _active_writer
    didModify,  \* _didModify
    pos,        \* fp's position
    start_dir,  \* start_dir
    disk,       \* the file's cells
    filelist,   \* filelist
    off, size,  \* header_offset and payload cells of each member
    wState,     \* ZipWriteFile._state of each handle
    opener,     \* the thread that opened each handle
    issued,     \* handles that open() has returned
    closed,     \* handles whose IOBase is closed
    got         \* what each thread's last read() returned

flags == <<fpOpen, writing, active, didModify>>
file == <<pos, start_dir, disk>>
placing == <<off, size>>
handles == <<wState, opener, issued, closed>>
vars == <<coordinator, lock, pc, cur, flags, file, filelist, placing, handles,
          got>>

(* An archive that holds one member, opened for appending.                  *)
Init ==
    /\ CoordinatorInit
    /\ lock = Nobody
    /\ pc = [t \in Threads |-> "idle"]
    /\ cur = [t \in Threads |-> NoHandle]
    /\ fpOpen = TRUE /\ writing = FALSE /\ active = NoHandle
    /\ didModify = FALSE
    /\ pos = 1 /\ start_dir = 1
    /\ disk = [a \in Addr |-> IF a = 0 THEN Old ELSE Free]
    /\ filelist = <<Old>>
    /\ off = [m \in Members |-> 0]
    /\ size = [m \in Members |-> 0]
    /\ wState = [h \in Handles |-> "ACTIVE"]
    /\ opener = [h \in Handles |-> Nobody]
    /\ issued = {} /\ closed = {}
    /\ got = [t \in Threads |-> Old]

-----------------------------------------------------------------------------
At(t, l) == pc[t] = l
Go(t, l) == pc' = [pc EXCEPT ![t] = l]

(* The lock can be taken, or is held already (it is reentrant).             *)
LockFree(t) == lock \in {Nobody, t}

(* The call returns or raises; the with-blocks on its way release the lock. *)
Leave(t) == Go(t, "idle") /\ lock' = IF lock = t THEN Nobody ELSE lock

(* One record for member m is written at fp's position.                     *)
WriteRecord(m) ==
    /\ pos \in Addr
    /\ disk' = [disk EXCEPT ![pos] = m]
    /\ pos' = pos + 1
    /\ UNCHANGED start_dir

Seek(p) == pos' = p /\ UNCHANGED <<start_dir, disk>>

-----------------------------------------------------------------------------
(* ZipFile.open(name, "w").  ZipFile.write makes the same call, if the        *)
(* coordinator is IDLE (ensure_readable) and _writing is not set.           *)

StartOpen(t) ==
    /\ At(t, "idle") /\ "open" \in Calls[t]
    /\ fpOpen
    /\ Go(t, "o_reserve")
    /\ UNCHANGED <<coordinator, lock, cur, flags, file, filelist, placing,
                   handles, got>>

(* writestr looks at fp and _writing, then keeps the lock to its end.       *)
StartWritestr(t) ==
    /\ At(t, "idle") /\ "writestr" \in Calls[t]
    /\ fpOpen /\ ~writing
    /\ Go(t, "s_lock")
    /\ UNCHANGED <<coordinator, lock, cur, flags, file, filelist, placing,
                   handles, got>>

(* Mutant: the lock is let go as soon as fp has been looked at.             *)
LockWritestrBriefly(t) ==
    /\ At(t, "s_lock") /\ lock = Nobody
    /\ Go(t, IF fpOpen THEN "o_reserve" ELSE "idle")
    /\ UNCHANGED <<coordinator, lock, cur, flags, file, filelist, placing,
                   handles, got>>

LockWritestr(t) ==
    /\ At(t, "s_lock") /\ lock = Nobody
    /\ IF fpOpen THEN Go(t, "o_reserve") /\ lock' = t
                 ELSE Go(t, "idle") /\ UNCHANGED lock
    /\ UNCHANGED <<coordinator, cur, flags, file, filelist, placing, handles,
                   got>>

Unmade == {h \in Handles : opener[h] = Nobody}

OpenReserve(t) ==
    /\ At(t, "o_reserve") /\ LockFree(t)
    /\ \E h \in Unmade :
          /\ Reserve(h)
          /\ cur' = [cur EXCEPT ![t] = h]
          /\ opener' = [opener EXCEPT ![h] = t]
    /\ Go(t, "o_seek")
    /\ UNCHANGED <<lock, flags, file, filelist, placing, wState, issued, closed,
                   got>>

(* reserve() raises, or (bound) no more handles are made.                   *)
OpenRefused(t) ==
    /\ At(t, "o_reserve") /\ LockFree(t)
    /\ Busy \/ Unmade = {}
    /\ Leave(t)
    /\ UNCHANGED <<coordinator, cur, flags, file, filelist, placing, handles,
                   got>>

OpenSeek(t) ==
    /\ At(t, "o_seek") /\ fpOpen
    /\ Seek(start_dir)
    /\ Go(t, "o_tell")
    /\ UNCHANGED <<coordinator, lock, cur, flags, filelist, placing, handles,
                   got>>

OpenTell(t) ==
    /\ At(t, "o_tell") /\ fpOpen
    /\ off' = [off EXCEPT ![cur[t]] = pos]
    /\ didModify' = TRUE
    /\ Go(t, "o_mark")
    /\ UNCHANGED <<coordinator, lock, cur, fpOpen, writing, active, file,
                   filelist, size, handles, got>>

(* The archive was closed meanwhile: the call raises, still reserved.       *)
OpenFindsClosed(t) ==
    /\ pc[t] \in {"o_seek", "o_tell"} /\ ~fpOpen
    /\ Leave(t)
    /\ UNCHANGED <<coordinator, cur, flags, file, filelist, placing, handles,
                   got>>

(* The constructor of ZipWriteFile sets _writing, then writes the header.   *)
OpenMark(t) ==
    /\ At(t, "o_mark")
    /\ writing' = TRUE
    /\ Go(t, "o_header")
    /\ UNCHANGED <<coordinator, lock, cur, fpOpen, active, didModify, file,
                   filelist, placing, handles, got>>

OpenHeader(t) ==
    /\ At(t, "o_header") /\ fpOpen
    /\ WriteRecord(cur[t])
    /\ Go(t, "o_publish")
    /\ UNCHANGED <<coordinator, lock, cur, flags, filelist, placing, handles,
                   got>>

OpenHeaderFails(t) ==
    /\ At(t, "o_header")
    /\ "header" \in Faults \/ ~fpOpen
    /\ Go(t, "o_release")
    /\ UNCHANGED <<coordinator, lock, cur, flags, file, filelist, placing,
                   handles, got>>

OpenRelease(t) ==
    /\ At(t, "o_release") /\ LockFree(t)
    /\ Release(cur[t])
    /\ Leave(t)
    /\ UNCHANGED <<cur, flags, file, filelist, placing, handles, got>>

(* Mutant: open() registers the member, as mkdir() does, and so does close. *)
OpenPublishRegisters(t) ==
    /\ At(t, "o_publish")
    /\ active' = cur[t]
    /\ issued' = issued \cup {cur[t]}
    /\ filelist' = Append(filelist, cur[t])
    /\ Go(t, IF lock = t THEN "s_write" ELSE "idle")
    /\ UNCHANGED <<coordinator, lock, cur, fpOpen, writing, didModify, file,
                   placing, wState, opener, closed, got>>

(* open() returns the handle, to its caller or to writestr.                 *)
OpenPublish(t) ==
    /\ At(t, "o_publish")
    /\ active' = cur[t]
    /\ issued' = issued \cup {cur[t]}
    /\ Go(t, IF lock = t THEN "s_write" ELSE "idle")
    /\ UNCHANGED <<coordinator, lock, cur, fpOpen, writing, didModify, file,
                   filelist, placing, wState, opener, closed, got>>

-----------------------------------------------------------------------------
(* ZipWriteFile.write and close                                             *)

(* The handles a thread may use: its own, and those that are shared.        *)
Usable(t, h) == h \in issued /\ (h \in SharedHandles \/ opener[h] = t)

(* Only a handle that is closed is refused: one that another thread is       *)
(* closing can be written to.  Bound: one payload cell a member.            *)
WriteData(t, h) ==
    /\ At(t, "idle") /\ "open" \in Calls[t]
    /\ Usable(t, h) /\ h \notin closed
    /\ fpOpen
    /\ size[h] = 0
    /\ WriteRecord(h)
    /\ size' = [size EXCEPT ![h] = 1]
    /\ UNCHANGED <<coordinator, lock, pc, cur, flags, filelist, off, handles,
                   got>>

(* The with-block of writestr closes the handle even if write() raises.     *)
WritestrData(t) ==
    /\ At(t, "s_write")
    /\ IF fpOpen THEN /\ WriteRecord(cur[t])
                      /\ size' = [size EXCEPT ![cur[t]] = 1]
                 ELSE UNCHANGED <<file, size>>
    /\ Go(t, "c_check")
    /\ UNCHANGED <<coordinator, lock, cur, flags, filelist, off, handles, got>>

StartClose(t, h) ==
    /\ At(t, "idle") /\ "close" \in Calls[t]
    /\ Usable(t, h)
    /\ cur' = [cur EXCEPT ![t] = h]
    /\ Go(t, "c_check")
    /\ UNCHANGED <<coordinator, lock, flags, file, filelist, placing, handles,
                   got>>

Finished(h) == wState[h] \in {"COMMITTED", "FAILED"}

(* Under the condition: a handle that is closed already returns or raises,  *)
(* one that is being closed is waited for.                                  *)
CloseReturns(t) ==
    /\ At(t, "c_check") \/ (At(t, "c_wait") /\ t \notin waiting)
    /\ LockFree(t)
    /\ Finished(cur[t])
    /\ Leave(t)
    /\ UNCHANGED <<coordinator, cur, flags, file, filelist, placing, handles,
                   got>>

CloseWaits(t) ==
    /\ At(t, "c_check") \/ (At(t, "c_wait") /\ t \notin waiting)
    /\ LockFree(t)
    /\ wState[cur[t]] = "FINALIZING"
    /\ waiting' = waiting \cup {t}
    /\ Go(t, "c_wait")
    /\ UNCHANGED <<coordState, reservation, lock, cur, flags, file, filelist,
                   placing, handles, got>>

CloseProceeds(t) ==
    /\ At(t, "c_check") /\ LockFree(t)
    /\ wState[cur[t]] = "ACTIVE"
    /\ Go(t, "c_final")
    /\ UNCHANGED <<coordinator, lock, cur, flags, file, filelist, placing,
                   handles, got>>

SetState(t, s) == wState' = [wState EXCEPT ![cur[t]] = s]

(* Outside the condition again.                                             *)
CloseFinalizing(t) ==
    /\ At(t, "c_final")
    /\ SetState(t, "FINALIZING")
    /\ Go(t, "c_begin")
    /\ UNCHANGED <<coordinator, lock, cur, flags, file, filelist, placing,
                   opener, issued, closed, got>>

CloseBegin(t) ==
    /\ At(t, "c_begin") /\ LockFree(t)
    /\ BeginFinalization(cur[t])
    /\ Go(t, "c_tell")
    /\ UNCHANGED <<lock, cur, flags, file, filelist, placing, handles, got>>

(* _require raises, before the try: the handle stays FINALIZING.            *)
CloseStale(t) ==
    /\ At(t, "c_begin") /\ LockFree(t)
    /\ ~Holds(cur[t])
    /\ Leave(t)
    /\ UNCHANGED <<coordinator, cur, flags, file, filelist, placing, handles,
                   got>>

(* The trailer: start_dir moves behind the payload, the header is written   *)
(* again in its place, and fp goes to the new start_dir.                    *)
CloseTell(t) ==
    /\ At(t, "c_tell") /\ fpOpen
    /\ start_dir' = pos
    /\ Go(t, "c_seek")
    /\ UNCHANGED <<coordinator, lock, cur, flags, pos, disk, filelist, placing,
                   handles, got>>

CloseSeek(t) ==
    /\ At(t, "c_seek") /\ fpOpen
    /\ Seek(off[cur[t]])
    /\ Go(t, "c_header")
    /\ UNCHANGED <<coordinator, lock, cur, flags, filelist, placing, handles,
                   got>>

CloseHeader(t) ==
    /\ At(t, "c_header") /\ fpOpen
    /\ WriteRecord(cur[t])
    /\ Go(t, "c_back")
    /\ UNCHANGED <<coordinator, lock, cur, flags, filelist, placing, handles,
                   got>>

CloseBack(t) ==
    /\ At(t, "c_back") /\ fpOpen
    /\ Seek(start_dir)
    /\ Go(t, "c_register")
    /\ UNCHANGED <<coordinator, lock, cur, flags, filelist, placing, handles,
                   got>>

(* An operation on fp raises, or fp is None.                                *)
CloseFails(t) ==
    /\ pc[t] \in {"c_tell", "c_seek", "c_header", "c_back"}
    /\ "final" \in Faults \/ ~fpOpen
    /\ Go(t, "f_state")
    /\ UNCHANGED <<coordinator, lock, cur, flags, file, filelist, placing,
                   handles, got>>

CloseRegister(t) ==
    /\ At(t, "c_register")
    /\ filelist' = Append(filelist, cur[t])
    /\ Go(t, "c_committed")
    /\ UNCHANGED <<coordinator, lock, cur, flags, file, placing, handles, got>>

CloseCommitted(t) ==
    /\ At(t, "c_committed")
    /\ SetState(t, "COMMITTED")
    /\ Go(t, "c_commit")
    /\ UNCHANGED <<coordinator, lock, cur, flags, file, filelist, placing,
                   opener, issued, closed, got>>

(* Mutant: the lock is released with the reservation, not with the call.    *)
CloseCommitUnlocks(t) ==
    /\ At(t, "c_commit") /\ LockFree(t)
    /\ Commit(cur[t]) /\ Go(t, "c_unmark")
    /\ lock' = Nobody
    /\ UNCHANGED <<cur, flags, file, filelist, placing, handles, got>>

CloseCommit(t) ==
    /\ At(t, "c_commit") /\ LockFree(t)
    /\ \/ Commit(cur[t]) /\ Go(t, "c_unmark")
       \/ ~Holds(cur[t]) /\ Go(t, "f_state") /\ UNCHANGED coordinator
    /\ UNCHANGED <<lock, cur, flags, file, filelist, placing, handles, got>>

CloseFailed(t) ==
    /\ At(t, "f_state")
    /\ SetState(t, "FAILED")
    /\ Go(t, "f_fail")
    /\ UNCHANGED <<coordinator, lock, cur, flags, file, filelist, placing,
                   opener, issued, closed, got>>

(* fail() raises for a stale reservation; the finally block runs all the    *)
(* same.                                                                    *)
CloseFail(t) ==
    /\ At(t, "f_fail") /\ LockFree(t)
    /\ IF Holds(cur[t]) THEN Fail(cur[t]) ELSE UNCHANGED coordinator
    /\ Go(t, "c_unmark")
    /\ UNCHANGED <<lock, cur, flags, file, filelist, placing, handles, got>>

CloseUnmark(t) ==
    /\ At(t, "c_unmark")
    /\ writing' = FALSE
    /\ Go(t, "c_done")
    /\ UNCHANGED <<coordinator, lock, cur, fpOpen, active, didModify, file,
                   filelist, placing, handles, got>>

(* super().close() follows the critical section at once.                    *)
CloseDone(t) ==
    /\ At(t, "c_done") /\ LockFree(t)
    /\ active' = NoHandle
    /\ NotifyAll
    /\ closed' = closed \cup {cur[t]}
    /\ Leave(t)
    /\ UNCHANGED <<coordState, reservation, cur, fpOpen, writing, didModify,
                   file, filelist, placing, wState, opener, issued, got>>

-----------------------------------------------------------------------------
(* ZipFile.mkdir: under the lock, whoever is writing.  Bound: each directory *)
(* is made once.                                                             *)

StartMkdir(t, d) ==
    /\ At(t, "idle") /\ "mkdir" \in Calls[t]
    /\ lock = Nobody /\ fpOpen
    /\ \A k \in DOMAIN filelist : filelist[k] # d
    /\ lock' = t
    /\ cur' = [cur EXCEPT ![t] = d]
    /\ Seek(start_dir)
    /\ Go(t, "m_tell")
    /\ UNCHANGED <<coordinator, flags, filelist, placing, handles, got>>

MkdirRegister(t) ==
    /\ At(t, "m_tell") /\ fpOpen
    /\ off' = [off EXCEPT ![cur[t]] = pos]
    /\ didModify' = TRUE
    /\ filelist' = Append(filelist, cur[t])
    /\ Go(t, "m_write")
    /\ UNCHANGED <<coordinator, lock, cur, fpOpen, writing, active, file, size,
                   handles, got>>

MkdirWrite(t) ==
    /\ At(t, "m_write") /\ fpOpen
    /\ WriteRecord(cur[t])
    /\ Go(t, "m_end")
    /\ UNCHANGED <<coordinator, lock, cur, flags, filelist, placing, handles,
                   got>>

MkdirEnd(t) ==
    /\ At(t, "m_end") /\ fpOpen
    /\ start_dir' = pos
    /\ Leave(t)
    /\ UNCHANGED <<coordinator, cur, flags, pos, disk, filelist, placing,
                   handles, got>>

MkdirFindsClosed(t) ==
    /\ pc[t] \in {"m_tell", "m_write", "m_end"} /\ ~fpOpen
    /\ Leave(t)
    /\ UNCHANGED <<coordinator, cur, flags, file, filelist, placing, handles,
                   got>>

-----------------------------------------------------------------------------
(* ClosableZipStream.read, on the member that was in the archive.           *)

StartRead(t) ==
    /\ At(t, "idle") /\ "read" \in Calls[t]
    /\ lock = Nobody /\ ~writing
    /\ lock' = t
    /\ Go(t, "r_seek")
    /\ UNCHANGED <<coordinator, cur, flags, file, filelist, placing, handles,
                   got>>

ReadSeek(t) ==
    /\ At(t, "r_seek")
    /\ Seek(off[Old])
    /\ Go(t, "r_read")
    /\ UNCHANGED <<coordinator, lock, cur, flags, filelist, placing, handles,
                   got>>

ReadCell(t) ==
    /\ At(t, "r_read")
    /\ pos \in Addr
    /\ got' = [got EXCEPT ![t] = disk[pos]]
    /\ pos' = pos + 1
    /\ Leave(t)
    /\ UNCHANGED <<coordinator, cur, flags, start_dir, disk, filelist, placing,
                   handles>>

-----------------------------------------------------------------------------
(* ZipFile.close                                                            *)

StartCloseArchive(t) ==
    /\ At(t, "idle") /\ "closeArchive" \in Calls[t]
    /\ fpOpen
    /\ Go(t, "z_check")
    /\ UNCHANGED <<coordinator, lock, cur, flags, file, filelist, placing,
                   handles, got>>

(* _writing is looked at without the lock.                                  *)
ArchiveCheck(t) ==
    /\ At(t, "z_check")
    /\ Go(t, IF writing THEN "z_guard" ELSE "z_lock")
    /\ UNCHANGED <<coordinator, lock, cur, flags, file, filelist, placing,
                   handles, got>>

BeingClosed == active # NoHandle /\ wState[active] = "FINALIZING"

(* With the lock, a writer that is closing is waited for ...                *)
ArchiveWaits(t) ==
    /\ \/ At(t, "z_guard") /\ BeingClosed
       \/ At(t, "z_wait") /\ t \notin waiting
    /\ LockFree(t)
    /\ writing
    /\ waiting' = waiting \cup {t}
    /\ Go(t, "z_wait")
    /\ UNCHANGED <<coordState, reservation, lock, cur, flags, file, filelist,
                   placing, handles, got>>

(* ... and one that is not makes the call raise.                            *)
ArchiveRefused(t) ==
    /\ At(t, "z_guard") /\ LockFree(t)
    /\ writing /\ ~BeingClosed
    /\ Leave(t)
    /\ UNCHANGED <<coordinator, cur, flags, file, filelist, placing, handles,
                   got>>

ArchiveProceeds(t) ==
    /\ At(t, "z_guard") \/ (At(t, "z_wait") /\ t \notin waiting)
    /\ LockFree(t)
    /\ ~writing
    /\ Go(t, "z_lock")
    /\ UNCHANGED <<coordinator, lock, cur, flags, file, filelist, placing,
                   handles, got>>

(* No directory is written if nothing was.                                  *)
ArchiveUnmodified(t) ==
    /\ At(t, "z_lock") /\ ~didModify
    /\ Go(t, "z_drop")
    /\ UNCHANGED <<coordinator, lock, cur, flags, file, filelist, placing,
                   handles, got>>

ArchiveSeek(t) ==
    /\ At(t, "z_lock") /\ lock = Nobody
    /\ didModify /\ fpOpen
    /\ lock' = t
    /\ Seek(start_dir)
    /\ Go(t, "z_write")
    /\ UNCHANGED <<coordinator, cur, flags, filelist, placing, handles, got>>

(* Another thread has closed the archive: the call raises, or returns.      *)
ArchiveGone(t) ==
    /\ At(t, "z_lock") /\ lock = Nobody
    /\ didModify /\ ~fpOpen
    /\ Leave(t)
    /\ UNCHANGED <<coordinator, cur, flags, file, filelist, placing, handles,
                   got>>

(* The directory is written, the lock released, and only then fp dropped.   *)
ArchiveWrite(t) ==
    /\ At(t, "z_write")
    /\ IF fpOpen THEN WriteRecord(Directory) ELSE UNCHANGED file
    /\ lock' = Nobody
    /\ Go(t, "z_drop")
    /\ UNCHANGED <<coordinator, cur, flags, filelist, placing, handles, got>>

ArchiveDrop(t) ==
    /\ At(t, "z_drop")
    /\ fpOpen' = FALSE
    /\ Leave(t)
    /\ UNCHANGED <<coordinator, cur, writing, active, didModify, file, filelist,
                   placing, handles, got>>

-----------------------------------------------------------------------------
OpenStep(t) ==
    \/ LockWritestr(t) \/ OpenReserve(t) \/ OpenRefused(t) \/ OpenSeek(t)
    \/ OpenTell(t) \/ OpenFindsClosed(t) \/ OpenMark(t) \/ OpenHeader(t)
    \/ OpenHeaderFails(t) \/ OpenRelease(t) \/ OpenPublish(t)
    \/ WritestrData(t)

CloseStep(t) ==
    \/ CloseReturns(t) \/ CloseWaits(t) \/ CloseProceeds(t)
    \/ CloseFinalizing(t) \/ CloseBegin(t) \/ CloseStale(t) \/ CloseTell(t)
    \/ CloseSeek(t) \/ CloseHeader(t) \/ CloseBack(t) \/ CloseFails(t)
    \/ CloseRegister(t) \/ CloseCommitted(t) \/ CloseCommit(t)
    \/ CloseFailed(t) \/ CloseFail(t) \/ CloseUnmark(t) \/ CloseDone(t)

ReadOrMkdirStep(t) ==
    \/ MkdirRegister(t) \/ MkdirWrite(t) \/ MkdirEnd(t)
    \/ MkdirFindsClosed(t)
    \/ ReadSeek(t) \/ ReadCell(t)

ArchiveStep(t) ==
    \/ ArchiveCheck(t) \/ ArchiveWaits(t) \/ ArchiveRefused(t)
    \/ ArchiveProceeds(t) \/ ArchiveUnmodified(t) \/ ArchiveSeek(t)
    \/ ArchiveGone(t) \/ ArchiveWrite(t) \/ ArchiveDrop(t)

(* A thread goes on with the call it is in ...                              *)
Step(t) == OpenStep(t) \/ CloseStep(t) \/ ReadOrMkdirStep(t) \/ ArchiveStep(t)

(* ... or makes the next one.                                               *)
Start(t) ==
    \/ StartOpen(t) \/ StartWritestr(t)
    \/ \E h \in Handles : WriteData(t, h) \/ StartClose(t, h)
    \/ \E d \in Directories : StartMkdir(t, d)
    \/ StartRead(t) \/ StartCloseArchive(t)

Next == \E t \in Threads : Step(t) \/ Start(t)

Spec == Init /\ [][Next]_vars

(* Python schedules every thread that can run, and gives the lock in the    *)
(* end to a thread that waits for it; the client closes every handle that   *)
(* open() returned to it, as a with-block does.                             *)
Fairness ==
    /\ \A t \in Threads : SF_vars(Step(t))
    /\ \A t \in Threads, h \in Handles :
          SF_vars(wState[h] = "ACTIVE" /\ StartClose(t, h))

FairSpec == Spec /\ Fairness
-----------------------------------------------------------------------------
(* Invariants                                                               *)

OpenPcs == {"o_seek", "o_tell", "o_mark", "o_header", "o_publish", "s_write"}
TrailerPcs == {"c_tell", "c_seek", "c_header", "c_back"}
CommitPcs == {"c_register", "c_committed", "c_commit"}
WriterPcs == OpenPcs \cup TrailerPcs \cup CommitPcs

Pcs == WriterPcs \cup
    {"idle", "s_lock", "o_reserve", "o_release", "c_check", "c_wait", "c_final",
     "c_begin", "f_state", "f_fail", "c_unmark", "c_done", "m_tell", "m_write",
     "m_end", "r_seek", "r_read", "z_check", "z_guard", "z_wait", "z_lock",
     "z_write", "z_drop"}

TypeOK ==
    /\ coordState \in CoordinatorStates
    /\ reservation \in Handles \cup {NoHandle}
    /\ waiting \subseteq Threads
    /\ lock \in Threads \cup {Nobody}
    /\ pc \in [Threads -> Pcs]
    /\ cur \in [Threads -> Members \cup {NoHandle}]
    /\ fpOpen \in BOOLEAN /\ writing \in BOOLEAN /\ didModify \in BOOLEAN
    /\ active \in Members \cup {NoHandle}
    /\ pos \in Nat /\ start_dir \in Nat
    /\ disk \in [Addr -> CellValues]
    /\ filelist \in Seq(Members)
    /\ off \in [Members -> Nat]
    /\ size \in [Members -> {0, 1}]
    /\ wState \in [Handles -> {"ACTIVE", "FINALIZING", "COMMITTED", "FAILED"}]
    /\ opener \in [Handles -> Threads \cup {Nobody}]
    /\ issued \subseteq Handles /\ closed \subseteq Handles
    /\ got \in [Threads -> CellValues]

(* The handle h is written to, or will be by the client that holds it.      *)
Live(h) == \/ h \in issued /\ wState[h] = "ACTIVE"
           \/ \E t \in Threads : pc[t] \in WriterPcs /\ cur[t] = h

(* Writers never overlap: from reserve() to commit() at most one handle is  *)
(* being written, by one thread, whichever calls of the other threads fail, *)
(* if every thread closes the handles that it opened, and no others.        *)
OneWriter ==
    /\ \A g, h \in Handles : Live(g) /\ Live(h) => g = h
    /\ \A t, u \in Threads :
          pc[t] \in WriterPcs /\ pc[u] \in WriterPcs => t = u

(* A member is put in the directory once, although its thread may call      *)
(* close() again.  (Of two threads that close one handle, each may register *)
(* it: close() marks the handle FINALIZING after the critical section that  *)
(* looked at its state.)                                                    *)
RegisteredOnce ==
    \A j, k \in DOMAIN filelist : filelist[j] = filelist[k] => j = k

(* The records of every registered member are where its ZipInfo says,       *)
(* although no writer holds the lock while it moves fp and writes.          *)
MembersIntact ==
    \A k \in DOMAIN filelist :
        LET m == filelist[k]
        IN  /\ disk[off[m]] = m
            /\ size[m] = 1 => disk[off[m] + 1] = m

(* While a client can write to a handle, _writing is set, so that readers   *)
(* and ZipFile.close are refused.                                           *)
WritingCoversWriter ==
    \A h \in issued : wState[h] = "ACTIVE" => writing

(* Threads that use writestr() and mkdir() never take the protection of    *)
(* _writing from each other; that threads which write through handles do   *)
(* is another matter (see ZipWriteFile.close).                             *)
NobodyOpened == \A h \in issued : "open" \notin Calls[opener[h]]
WritingCoversStrings == NobodyOpened => WritingCoversWriter

(* A read of a member returns that member's bytes.                          *)
ReadsSeeTheirMember == \A t \in Threads : got[t] = Old

-----------------------------------------------------------------------------
(* Action and liveness properties                                           *)

(* A reservation that is no longer held, whoever still has its handle and  *)
(* however late it calls, never moves the coordinator: only the thread that *)
(* reserves, and threads that act for the held reservation, do.             *)
StaleReservationsAreInert ==
    [][<<coordState, reservation>>' # <<coordState, reservation>> =>
          \E t \in Threads : /\ pc'[t] # pc[t]
                            /\ \/ At(t, "o_reserve") /\ reservation = NoHandle
                               \/ Holds(cur[t])]_vars

(* A second closer found the handle ACTIVE before the first had finished,   *)
(* marked it FINALIZING after that, and was refused by the coordinator:     *)
(* nobody is going to finish the handle again.                              *)
Abandoned == \E h \in Handles : wState[h] = "FINALIZING" /\ reservation # h

(* Every call returns or raises: no close() waits for ever for a handle or  *)
(* for the writer, and no wake-up is lost, also when threads close each     *)
(* other's handles, but for a handle that such a race has abandoned.        *)
EveryCallReturns ==
    \A t \in Threads : ~At(t, "idle") ~> At(t, "idle") \/ Abandoned

-----------------------------------------------------------------------------
(* Writers take turns: see SingleWriter.                                    *)

Turns == INSTANCE SingleWriter WITH
    Writers <- Handles, NoWriter <- NoHandle,
    holder <- reservation,
    used <- Handles \ Unmade,
    added <- {h \in Handles : \E k \in DOMAIN filelist : filelist[k] = h}

(* The coordinator makes writers take turns.                                *)
ImplementsTurns == Turns!Spec
=============================================================================
