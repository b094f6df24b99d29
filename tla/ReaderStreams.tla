---------------------------- MODULE ReaderStreams ----------------------------
(***************************************************************************)
(* The streams that ZipFile.open(..., "r") hands out, and the one file     *)
(* object that they and the archive share: who takes a reference to it,    *)
(* who drops it, and who closes it, when threads open members, read, close *)
(* each other's streams and close the archive.                             *)
(*                                                                         *)
(* Source: zipfile/file.py (_open_to_read, close, _fpclose, the end of the *)
(* constructor) and zipfile/io_wrappers.py (ClosableZipStream).  A step is *)
(* one access to a shared attribute.  In a build with the interpreter lock *)
(* a thread is not interrupted between two accesses without a call between *)
(* them ("gil"); in a free-threaded build it may be ("free").              *)
(***************************************************************************)
EXTENDS Integers, FiniteSets

CONSTANTS
    Threads,
    Closers,   \* the threads that may close an archive that can be written
    Streams,   \* the ClosableZipStream objects; each is opened once
    Archive,   \* the archive, as a user of the file
    Maker,     \* the thread that makes the ZipFile
    Nobody,    \* "no thread"
    Build,     \* the interpreter: "gil" or "free"
    Faults     \* "interrupt": an exception out of nowhere, as Ctrl-C is one

Users == Streams \cup {Archive}

ASSUME StreamsAssumption ==
    /\ IsFiniteSet(Streams) /\ Archive \notin Streams
    /\ Nobody \notin Threads
    /\ Closers \subseteq Threads /\ Maker \in Threads
    /\ Build \in {"gil", "free"}
    /\ Faults \subseteq {"interrupt"}

VARIABLES
    fp,          \* ZipFile.fp is not None
    filePassed,  \* _filePassed: the client brought the file object
    writable,    \* mode is not "r"
    modified,    \* _didModify
    writing,     \* _writing
    refCnt,      \* _fileRefCnt
    closes,      \* how often fp.close() was called
    stage,       \* how far each user of the file has come with it
    issued,      \* the streams that open() has returned
    lock,        \* the thread that holds _lock from one step to the next
    pc,          \* where each thread is in its call
    cur,         \* the user of the file that its call is about
    reg,         \* the value of _fileRefCnt that it has loaded
    file,        \* its argument or local variable for the file is not None
    struck       \* history: faults that have happened

archive == <<fp, filePassed, writable, modified, writing>>
count == <<refCnt, closes, stage>>
thread == <<pc, cur, reg, file>>
vars == <<archive, count, issued, lock, thread, struck>>

(* A user's reference: not taken yet; taken, but the object that will drop *)
(* it is not made; in use; given up by its object; dropped.                *)
Stages == {"new", "counted", "open", "taken", "dropped"}

Labels == {"make", "idle",
           "o_fp", "o_load", "o_store", "o_arg", "o_make", "o_check", "o_undo",
           "r_data", "k_take", "k_assert", "k_load", "k_store", "k_test", "k_close",
           "z_lock", "z_write", "z_exit", "z_read", "z_drop"}

(* Mutant: the count is got by a call before it is lowered.                 *)
UninterruptedButDrops == {"o_load", "o_store", "o_arg", "k_test",
                          "z_read", "z_drop"}

(* At these a thread has made no call since its last step.                  *)
Uninterrupted == {"o_load", "o_store", "o_arg", "k_load", "k_store", "k_test",
                  "z_read", "z_drop"}

Init ==
    /\ fp = TRUE /\ refCnt = 1
    /\ filePassed \in BOOLEAN
    /\ writable \in BOOLEAN
    /\ modified \in {FALSE, writable}
    /\ writing = FALSE
    /\ closes = 0
    /\ stage = [u \in Users |-> IF u = Archive THEN "open" ELSE "new"]
    /\ issued = {}
    /\ lock = Nobody
    /\ pc = [t \in Threads |-> IF t = Maker THEN "make" ELSE "idle"]
    /\ cur = [t \in Threads |-> Archive]
    /\ reg = [t \in Threads |-> 0]
    /\ file = [t \in Threads |-> FALSE]
    /\ struck = {}

-----------------------------------------------------------------------------
Runs(t) ==
    Build = "gil" => \A u \in Threads \ {t} : pc[u] \notin Uninterrupted

At(t, label) == pc[t] = label /\ Runs(t)
LockFree(t) == lock \in {Nobody, t}

(* A call goes on, begins (with the user u of the file), or ends.           *)
Go(t, label) == pc' = [pc EXCEPT ![t] = label]
Begin(t, u, label) == Go(t, label) /\ cur' = [cur EXCEPT ![t] = u]
Return(t) ==
    /\ Begin(t, Archive, "idle")
    /\ reg' = [reg EXCEPT ![t] = 0] /\ file' = [file EXCEPT ![t] = FALSE]

(* Calls begin when the archive's constructor has returned.                 *)
Starts(t) == At(t, "idle") /\ pc[Maker] # "make"

(* The end of ZipFile.__init__: the archive's directory is read ...         *)
Construct(t) ==
    /\ At(t, "make")
    /\ Return(t)
    /\ UNCHANGED <<archive, count, issued, lock, struck>>

(* ... or it is no archive, and the constructor gives the file back.        *)
ConstructFails(t) ==
    /\ At(t, "make")
    /\ fp' = FALSE
    /\ stage' = [stage EXCEPT ![Archive] = "taken"]
    /\ file' = [file EXCEPT ![t] = TRUE]
    /\ Go(t, "k_assert")
    /\ UNCHANGED <<filePassed, writable, modified, writing, refCnt, closes,
                   issued, lock, cur, reg, struck>>

-----------------------------------------------------------------------------
(* ZipFile.open(name, "r"): refused when the archive is closed or being     *)
(* written.                                                                 *)
StartOpen(t, s) ==
    /\ Starts(t)
    /\ fp /\ ~writing
    /\ stage[s] = "new" /\ \A u \in Threads : cur[u] # s
    /\ Begin(t, s, "o_fp")
    /\ UNCHANGED <<archive, count, issued, lock, reg, file, struck>>

(* _open_to_read asserts that the archive is still open ...                 *)
OpenAsserts(t) ==
    /\ At(t, "o_fp")
    /\ IF fp THEN Go(t, "o_load") /\ UNCHANGED <<cur, reg, file>> ELSE Return(t)
    /\ UNCHANGED <<archive, count, issued, lock, struck>>

(* ... counts the stream ...                                                *)
OpenLoads(t) ==
    /\ At(t, "o_load")
    /\ reg' = [reg EXCEPT ![t] = refCnt]
    /\ Go(t, "o_store")
    /\ UNCHANGED <<archive, count, issued, lock, cur, file, struck>>

OpenStores(t) ==
    /\ At(t, "o_store")
    /\ refCnt' = reg[t] + 1
    /\ stage' = [stage EXCEPT ![cur[t]] = "counted"]
    /\ Go(t, "o_arg")
    /\ UNCHANGED <<archive, closes, issued, lock, cur, reg, file, struck>>

(* ... and passes the file to its constructor ...                           *)
OpenPasses(t) ==
    /\ At(t, "o_arg")
    /\ file' = [file EXCEPT ![t] = fp]
    /\ Go(t, "o_make")
    /\ UNCHANGED <<archive, count, issued, lock, cur, reg, struck>>

OpenMakes(t) ==
    /\ At(t, "o_make") /\ file[t]
    /\ stage' = [stage EXCEPT ![cur[t]] = "open"]
    /\ Go(t, "o_check")
    /\ UNCHANGED <<archive, refCnt, closes, issued, lock, cur, reg, file, struck>>

(* ... which raises on None, or before it is done: the call of it is not in *)
(* the try that drops the reference.                                        *)
OpenMakeFails(t) ==
    /\ At(t, "o_make")
    /\ \/ ~file[t] /\ UNCHANGED struck
       \/ "interrupt" \in Faults /\ struck' = struck \cup {"interrupt"}
    /\ Return(t)
    /\ UNCHANGED <<archive, count, issued, lock>>

(* The local header is read, the password looked at, the ZipExtFile made ...*)
OpenReturns(t) ==
    /\ At(t, "o_check") /\ LockFree(t) /\ ~writing
    /\ issued' = issued \cup {cur[t]}
    /\ Return(t)
    /\ UNCHANGED <<archive, count, lock, struck>>

(* Mutant: an exception leaves the stream open.                             *)
OpenFailsOpen(t) ==
    /\ At(t, "o_check") /\ LockFree(t)
    /\ stage' = [stage EXCEPT ![cur[t]] = "taken"]
    /\ Return(t)
    /\ UNCHANGED <<archive, refCnt, closes, issued, lock, struck>>

(* ... or something is wrong with them, and the stream is closed again.     *)
OpenFails(t) ==
    /\ At(t, "o_check") /\ LockFree(t)
    /\ Go(t, "o_undo")
    /\ UNCHANGED <<archive, count, issued, lock, cur, reg, file, struck>>

-----------------------------------------------------------------------------
(* ClosableZipStream.read and seek: under the lock from the check to the    *)
(* end; refused when the stream is closed or the archive being written.     *)
Read(t, s) ==
    /\ Starts(t) /\ LockFree(t)
    /\ s \in issued /\ stage[s] = "open" /\ ~writing
    /\ lock' = t
    /\ Begin(t, s, "r_data")
    /\ UNCHANGED <<archive, count, issued, reg, file, struck>>

ReadReturns(t) ==
    /\ At(t, "r_data")
    /\ lock' = Nobody
    /\ Return(t)
    /\ UNCHANGED <<archive, count, issued, struck>>

-----------------------------------------------------------------------------
(* ClosableZipStream.close: any thread may close a stream, and again.       *)
StartClose(t, s) ==
    /\ Starts(t)
    /\ s \in issued
    /\ Begin(t, s, "k_take")
    /\ UNCHANGED <<archive, count, issued, lock, reg, file, struck>>

(* The first to take the file from the stream goes on to drop it.           *)
Takes(t) ==
    /\ IF stage[cur[t]] = "open"
       THEN /\ stage' = [stage EXCEPT ![cur[t]] = "taken"]
            /\ file' = [file EXCEPT ![t] = TRUE]
            /\ Go(t, "k_assert")
            /\ UNCHANGED <<cur, reg>>
       ELSE Return(t) /\ UNCHANGED stage
    /\ UNCHANGED <<archive, refCnt, closes, issued, lock, struck>>

(* Mutant: the lock is not taken.                                           *)
CloseTakesUnlocked(t) == (At(t, "k_take") \/ At(t, "o_undo")) /\ Takes(t)

CloseTakes(t) ==
    /\ At(t, "k_take") \/ At(t, "o_undo")
    /\ LockFree(t)
    /\ Takes(t)

-----------------------------------------------------------------------------
(* ZipFile._fpclose: there must be a reference to drop ...                  *)
DropAsserts(t) ==
    /\ At(t, "k_assert")
    /\ IF refCnt > 0 THEN Go(t, "k_load") /\ UNCHANGED <<cur, reg, file>>
       ELSE Return(t)
    /\ UNCHANGED <<archive, count, issued, lock, struck>>

DropLoads(t) ==
    /\ At(t, "k_load")
    /\ reg' = [reg EXCEPT ![t] = refCnt]
    /\ Go(t, "k_store")
    /\ UNCHANGED <<archive, count, issued, lock, cur, file, struck>>

DropStores(t) ==
    /\ At(t, "k_store")
    /\ refCnt' = reg[t] - 1
    /\ stage' = [stage EXCEPT ![cur[t]] = "dropped"]
    /\ Go(t, "k_test")
    /\ UNCHANGED <<archive, closes, issued, lock, cur, reg, file, struck>>

(* Mutant: a file is closed when one reference is left, the archive's.      *)
LastIsArchive == refCnt <= 1 /\ ~filePassed

(* ... and the one who drops the last closes the file, unless it is the     *)
(* client's.                                                                *)
IsLast == refCnt = 0 /\ ~filePassed

DropTests(t) ==
    /\ At(t, "k_test")
    /\ IF IsLast THEN Go(t, "k_close") /\ UNCHANGED <<cur, reg, file>>
       ELSE Return(t)
    /\ UNCHANGED <<archive, count, issued, lock, struck>>

(* fp.close() raises if fp is None.                                         *)
DropCloses(t) ==
    /\ At(t, "k_close")
    /\ closes' = IF file[t] THEN closes + 1 ELSE closes
    /\ Return(t)
    /\ UNCHANGED <<archive, refCnt, stage, issued, lock, struck>>

-----------------------------------------------------------------------------
(* ZipFile.close, by a call, a with statement or __del__.  It returns if fp *)
(* is None and raises while a handle is open; else there may be a directory *)
(* to write.                                                                *)
CloseArchive(t) ==
    /\ Starts(t)
    /\ writable => t \in Closers
    /\ fp /\ ~writing
    /\ Begin(t, Archive, IF writable /\ modified THEN "z_lock" ELSE "z_read")
    /\ UNCHANGED <<archive, count, issued, lock, reg, file, struck>>

ArchiveLocks(t) ==
    /\ At(t, "z_lock") /\ LockFree(t)
    /\ lock' = t
    /\ Go(t, "z_write")
    /\ UNCHANGED <<archive, count, issued, cur, reg, file, struck>>

(* Whether the directory could be written or not, finally comes next.       *)
ArchiveWrites(t) ==
    /\ At(t, "z_write")
    /\ lock' = Nobody
    /\ Go(t, "z_exit")
    /\ UNCHANGED <<archive, count, issued, cur, reg, file, struck>>

ArchiveReads(t) ==
    /\ At(t, "z_exit") \/ At(t, "z_read")
    /\ file' = [file EXCEPT ![t] = fp]
    /\ Go(t, "z_drop")
    /\ UNCHANGED <<archive, count, issued, lock, cur, reg, struck>>

ArchiveDrops(t) ==
    /\ At(t, "z_drop")
    /\ fp' = FALSE
    /\ stage' = [stage EXCEPT ![Archive] = IF @ = "open" THEN "taken" ELSE @]
    /\ Go(t, "k_assert")
    /\ UNCHANGED <<filePassed, writable, modified, writing, refCnt, closes,
                   issued, lock, cur, reg, file, struck>>

-----------------------------------------------------------------------------
(* A write handle is opened, or closed (see WriterThreads).                 *)
WriterComesOrGoes ==
    /\ \A t \in Threads : Runs(t)
    /\ writing \/ (fp /\ writable /\ pc[Maker] # "make")
    /\ writing' = ~writing
    /\ modified' = TRUE
    /\ UNCHANGED <<fp, filePassed, writable, count, issued, lock, thread, struck>>

(* What a thread does that is in a call.                                    *)
Step(t) ==
    \/ Construct(t) \/ ConstructFails(t)
    \/ OpenAsserts(t) \/ OpenLoads(t) \/ OpenStores(t) \/ OpenPasses(t)
    \/ OpenMakes(t) \/ OpenMakeFails(t) \/ OpenReturns(t) \/ OpenFails(t)
    \/ ReadReturns(t)
    \/ CloseTakes(t)
    \/ DropAsserts(t) \/ DropLoads(t) \/ DropStores(t) \/ DropTests(t) \/ DropCloses(t)
    \/ ArchiveLocks(t) \/ ArchiveWrites(t) \/ ArchiveReads(t) \/ ArchiveDrops(t)

Next ==
    \/ WriterComesOrGoes
    \/ \E t \in Threads :
          \/ Step(t)
          \/ \E s \in Streams : StartOpen(t, s) \/ Read(t, s) \/ StartClose(t, s)
          \/ CloseArchive(t)

Spec == Init /\ [][Next]_vars
-----------------------------------------------------------------------------
(* Properties.  They are those of a build with the interpreter lock: without *)
(* it two threads may both load the reference count before one stores it.   *)

TypeOK ==
    /\ fp \in BOOLEAN /\ filePassed \in BOOLEAN /\ writable \in BOOLEAN
    /\ modified \in BOOLEAN /\ writing \in BOOLEAN
    /\ refCnt \in 0 .. Cardinality(Users) /\ closes \in Nat
    /\ stage \in [Users -> Stages]
    /\ issued \subseteq Streams
    /\ lock \in Threads \cup {Nobody}
    /\ pc \in [Threads -> Labels]
    /\ cur \in [Threads -> Users]
    /\ reg \in [Threads -> Int]
    /\ file \in [Threads -> BOOLEAN]
    /\ struck \subseteq Faults

(* The file is open under every stream that is not closed, and under every *)
(* read that has begun, whatever other threads close meanwhile, and also   *)
(* when the archive is closed; a file that the client brought stays open.  *)
StreamsHaveTheirFile ==
    closes > 0 =>
        /\ ~filePassed /\ ~fp
        /\ \A s \in Streams : stage[s] # "open"
        /\ \A t \in Threads : pc[t] # "r_data"

(* When the archive and all streams are closed and no call is under way,   *)
(* the file that the archive opened is closed, and so is not leaked,       *)
(* whether open() succeeded or failed on the way.  A stream interrupted    *)
(* while it is made is left out: its reference is never dropped.           *)
NoReferenceLeaks ==
    /\ "interrupt" \notin struck
    /\ ~fp /\ \A s \in Streams : stage[s] # "open"
    /\ \A t \in Threads : pc[t] = "idle"
    => filePassed \/ closes = 1

(* Who has a reference to the file.                                         *)
Holders == {u \in Users : stage[u] \in {"counted", "open", "taken"}}

Sharing == INSTANCE CountedFile WITH users <- Holders, closings <- closes

(* The archive and its streams implement a file that its last user closes, *)
(* once: see CountedFile.                                                  *)
ImplementsSharing == Sharing!Spec
=============================================================================
