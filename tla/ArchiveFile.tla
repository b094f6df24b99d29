----------------------------- MODULE ArchiveFile -----------------------------
(***************************************************************************)
(* One ZipFile object over one file, used by one thread: every public call *)
(* that changes the archive is an action, together with the ways it can    *)
(* fail part-way, the crash of the process, and the sessions that follow.  *)
(*                                                                         *)
(* Source: zipfile/file.py (ZipFile), zipfile/write.py (ZipWriteFile) and  *)
(* zipfile/write_coordinator.py.  The file is the array of cells of        *)
(* ArchiveLayout.  What threads do to each other is in WriterThreads.      *)
(***************************************************************************)
EXTENDS ArchiveLayout

CONSTANTS
    Dirs,         \* the Infos that describe directories (mkdir)
    NoWriter,     \* "no write handle is open"
    Streams,      \* values of "seekable" a fresh archive may be given
    MaxHandles,   \* bound: write handles opened over all sessions
    MaxPayload,   \* bound: payload cells of one member
    MaxSessions,  \* bound: ZipFile objects opened one after the other
    MaxStruck,    \* bound: kinds of failing calls in one behaviour
    Faults,       \* the failures the environment may inject
    Client        \* the unusual things the client may do

FaultKinds == {"refuse", "header", "short", "final", "mkdir", "end", "crash"}
ClientKinds == {"mkdirWhileOpen", "reuse", "prepend"}
Handle == [info : Infos, serial : Nat, size : Nat]

ASSUME ArchiveAssumption ==
    /\ Dirs \subseteq Infos
    /\ NoWriter \notin Handle
    /\ Streams \subseteq BOOLEAN
    /\ MaxHandles \in Nat /\ MaxPayload \in Nat
    /\ MaxSessions \in Nat /\ MaxStruck \in Nat
    /\ Faults \subseteq FaultKinds
    /\ Client \subseteq ClientKinds

VARIABLES
    disk,       \* the file's cells
    pos,        \* fp's position
    status,     \* "open"; or fp is None and the file is "absent", as a close()
                \* that returned left it ("closed"), or another one ("stale")
    mode,       \* ZipFile.mode ("x" is "w" on a file that does not exist)
    seekable,   \* _seekable
    filelist,   \* filelist, the ZipInfo objects in order
    zinfo,      \* the placing fields of every ZipInfo object
    start_dir,  \* start_dir
    didModify,  \* _didModify
    writing,    \* _writing
    coord,      \* WriteCoordinator._state (FINALIZING never outlives a call)
    writer,     \* the write handle the client holds open
    opened,     \* write handles opened so far
    sessions,   \* ZipFile objects made so far
    struck      \* history: the kinds of calls that have failed

archive == <<status, mode, seekable, start_dir, didModify>>
entries == <<filelist, zinfo>>
handle == <<writing, coord, writer, opened>>
tally == <<sessions, struck>>
vars == <<disk, pos, archive, entries, handle, tally>>

Listed == {filelist[k] : k \in DOMAIN filelist}
Blank == [off |-> 0, size |-> 0, crc |-> 0, dd |-> FALSE]

Init ==
    /\ disk = [a \in Addr |-> Hole]
    /\ pos = 0
    /\ status = "absent"
    /\ mode = "r"
    /\ seekable = TRUE
    /\ filelist = <<>>
    /\ zinfo = [i \in Infos |-> Blank]
    /\ start_dir = 0
    /\ didModify = FALSE
    /\ writing = FALSE
    /\ coord = "IDLE"
    /\ writer = NoWriter
    /\ opened = 0
    /\ sessions = 0
    /\ struck = {}

(* A call fails in the way k, which is remembered.                          *)
Strike(k) ==
    /\ k \in Faults
    /\ struck' = struck \cup {k}
    /\ Cardinality(struck') <= MaxStruck

-----------------------------------------------------------------------------
(* ZipFile(file, mode)                                                      *)

NewZipFile ==
    /\ status # "open"
    /\ sessions < MaxSessions
    /\ sessions' = sessions + 1
    /\ status' = "open"
    /\ writing' = FALSE /\ coord' = "IDLE" /\ writer' = NoWriter
    /\ UNCHANGED <<opened, struck>>

(* "w": the file is truncated, or is a stream that may not be seekable.     *)
Create ==
    /\ NewZipFile
    /\ mode' = "w"
    /\ seekable' \in Streams
    /\ disk' = [a \in Addr |-> Hole]
    /\ pos' = 0 /\ start_dir' = 0
    /\ didModify' = TRUE
    /\ filelist' = <<>> /\ zinfo' = [i \in Infos |-> Blank]

(* _RealGetContents: the lists are filled from the file's directory, as far *)
(* as its records can be read.                                              *)
RealGetContents ==
    LET dir == Directory(disk)
    IN  /\ filelist' = [k \in DOMAIN dir |-> dir[k].name]
        /\ zinfo' = [i \in Infos |->
              LET ks == {k \in DOMAIN dir : dir[k].name = i}
              IN  IF ks = {} THEN Blank ELSE dir[MaxOf(ks)].meta]

(* "r" and "a" on a file that parses.  Reading leaves fp past the directory,*)
(* appending puts it at the directory's start.                              *)
OpenExisting ==
    /\ NewZipFile
    /\ Parses(disk) /\ RealGetContents
    /\ start_dir' = DirectoryStart(disk)
    /\ mode' \in {"r", "a"}
    /\ pos' = IF mode' = "a" THEN start_dir' ELSE LastEndRecord(disk)
    /\ seekable' = TRUE
    /\ didModify' = FALSE
    /\ UNCHANGED disk

(* Mutant: the file is not sought to its end before it is appended to.      *)
AppendAtFront ==
    /\ NewZipFile
    /\ ~Parses(disk) /\ RealGetContents
    /\ mode' = "a"
    /\ pos' = 0 /\ start_dir' = 0
    /\ seekable' = TRUE
    /\ didModify' = TRUE
    /\ UNCHANGED disk

(* "a" on a file that does not parse, or an empty one: the archive is       *)
(* appended to whatever the file holds.  The entries read before the record *)
(* that raised BadZipFile stay listed.                                      *)
AppendAfterGarbage ==
    /\ NewZipFile
    /\ ~Parses(disk) /\ RealGetContents
    /\ mode' = "a"
    /\ pos' = FileLength(disk) /\ start_dir' = FileLength(disk)
    /\ FileLength(disk) + Len(filelist') < DiskCells
    /\ seekable' = TRUE
    /\ didModify' = TRUE
    /\ UNCHANGED disk

-----------------------------------------------------------------------------
(* ZipFile.open(zinfo, "w") and the constructor of ZipWriteFile             *)

(* Mutant: fp is not sought to start_dir before a record is written.        *)
UnsoughtWritePos == pos

(* Where a new record goes: fp is sought to start_dir when it can be.       *)
WritePos == IF seekable THEN start_dir ELSE pos

(* Bound: room for n more cells, one directory record per member and the   *)
(* end record.                                                              *)
Room(p, n) == p + n + Len(filelist) + 2 <= DiskCells

MayWrite(i) ==
    /\ status = "open"
    /\ i \in Listed => "reuse" \in Client

ResetInfo(i, p) ==
    [zinfo EXCEPT ![i] = [off |-> p, size |-> 0, crc |-> 0, dd |-> ~seekable]]

OpenWriter(i) ==
    /\ MayWrite(i) /\ mode # "r"
    /\ coord = "IDLE"                                   \* reserve()
    /\ opened < MaxHandles /\ Room(WritePos, 2)
    /\ coord' = "ACTIVE"
    /\ zinfo' = ResetInfo(i, WritePos)
    /\ disk' = Put(disk, WritePos, <<LocalHeader(i, 0)>>)
    /\ pos' = WritePos + 1
    /\ didModify' = TRUE /\ writing' = TRUE
    /\ opened' = opened + 1
    /\ writer' = [info |-> i, serial |-> opened + 1, size |-> 0]
    /\ UNCHANGED <<status, mode, seekable, start_dir, filelist, tally>>

(* The call raises after reserve() and before the header: ZIP64 is needed   *)
(* but not allowed ("size"), _writecheck refuses ("check", always in mode   *)
(* "r"), or the encryption arguments are wrong ("password").  Nothing gives *)
(* the reservation back.                                                    *)
OpenWriterRefused(i, stage) ==
    /\ MayWrite(i)
    /\ coord = "IDLE"
    /\ Strike("refuse")
    /\ mode = "r" => stage = "check"
    /\ coord' = "ACTIVE"
    /\ zinfo' = [zinfo EXCEPT ![i].size = 0, ![i].crc = 0, ![i].dd = ~seekable,
                              ![i].off = IF stage = "size" THEN @ ELSE WritePos]
    /\ pos' = IF stage = "size" THEN pos ELSE WritePos
    /\ didModify' = (didModify \/ stage = "password")
    /\ UNCHANGED <<disk, status, mode, seekable, start_dir, filelist, writing,
                   writer, opened, sessions>>

(* Writing the local header raises: the reservation is released, _writing   *)
(* stays set, and no handle is returned.                                    *)
OpenWriterHeaderFails(i) ==
    /\ MayWrite(i) /\ mode # "r"
    /\ coord = "IDLE"
    /\ Strike("header")
    /\ opened < MaxHandles
    /\ Room(WritePos, 2)
    /\ opened' = opened + 1
    /\ zinfo' = ResetInfo(i, WritePos)
    /\ \E torn \in BOOLEAN :
          /\ disk' = IF torn THEN Put(disk, WritePos, <<Junk>>) ELSE disk
          /\ pos' = IF torn THEN WritePos + 1 ELSE WritePos
    /\ didModify' = TRUE /\ writing' = TRUE
    /\ UNCHANGED <<status, mode, seekable, start_dir, filelist, coord, writer,
                   sessions>>

-----------------------------------------------------------------------------
(* ZipWriteFile.write and close                                             *)

WriteData ==
    /\ status = "open" /\ writer # NoWriter
    /\ writer.size < MaxPayload /\ Room(pos, 2)
    /\ disk' = Put(disk, pos, <<Payload(writer.serial)>>)
    /\ pos' = pos + 1
    /\ writer' = [writer EXCEPT !.size = @ + 1]
    /\ UNCHANGED <<archive, entries, writing, coord, opened, tally>>

(* write() counts the payload before it writes it and ignores how much fp   *)
(* took, so a short write, or one that raises, leaves the count too high.   *)
WriteLost ==
    /\ status = "open" /\ writer # NoWriter
    /\ Strike("short")
    /\ writer.size < MaxPayload /\ Room(pos, 2)
    /\ writer' = [writer EXCEPT !.size = @ + 1]
    /\ UNCHANGED <<disk, pos, archive, entries, writing, coord, opened,
                   sessions>>

(* Mutants: the sizes are counted wrong.                                    *)
FinalMetaShort == [zinfo[writer.info] EXCEPT !.size = writer.size - 1,
                                             !.crc = writer.serial]
FinalMetaLong == [zinfo[writer.info] EXCEPT !.size = writer.size + 1,
                                            !.crc = writer.serial]

(* _update_metadata                                                         *)
FinalMeta == [zinfo[writer.info] EXCEPT !.size = writer.size,
                                        !.crc = writer.serial]

(* Mutant: a new member goes to the front of the directory.                 *)
RegisterFirst(i) == <<i>> \o filelist

(* _register_entry                                                          *)
Register(i) == Append(filelist, i)

(* Mutants: commit() keeps the reservation, or _writing is not reset.       *)
CommitKeepsReservation ==
    writing' = FALSE /\ writer' = NoWriter /\ UNCHANGED coord
CommitKeepsWriting ==
    coord' = "IDLE" /\ writer' = NoWriter /\ UNCHANGED writing

(* commit() and the end of close(): the archive is free for other calls.    *)
Commit == coord' = "IDLE" /\ writing' = FALSE /\ writer' = NoWriter

(* close(): the sizes are filled in, then the trailer is written: the local *)
(* header again, in its place, or a data descriptor behind the payload.     *)
CloseWriter ==
    /\ status = "open" /\ writer # NoWriter
    /\ zinfo' = [zinfo EXCEPT ![writer.info] = FinalMeta]
    /\ IF FinalMeta.dd
       THEN /\ disk' = Put(disk, pos, <<Descriptor(writer.serial)>>)
            /\ pos' = pos + 1
       ELSE /\ disk' = Put(disk, FinalMeta.off,
                           <<LocalHeader(writer.info, writer.serial)>>)
            /\ pos' = pos                               \* seek(start_dir)
    /\ start_dir' = pos'
    /\ filelist' = Register(writer.info)
    /\ Commit
    /\ UNCHANGED <<status, mode, seekable, didModify, opened, tally>>

(* close() raises: while the last payload is written, when the sizes turn   *)
(* out to need ZIP64, or in the trailer.  fail() parks the coordinator.     *)
CloseWriterFails(stage) ==
    /\ status = "open" /\ writer # NoWriter
    /\ Strike("final")
    /\ zinfo' = IF stage = "payload" THEN zinfo
                ELSE [zinfo EXCEPT ![writer.info] = FinalMeta]
    /\ \/ /\ stage = "sizes"
          /\ UNCHANGED <<disk, pos, start_dir>>
       \/ /\ stage = "payload" \/ (stage = "trailer" /\ FinalMeta.dd)
          /\ disk' \in {disk, Put(disk, pos, <<Junk>>)}
          /\ pos' = IF disk' = disk THEN pos ELSE pos + 1
          /\ UNCHANGED start_dir
       \/ /\ stage = "trailer" /\ ~FinalMeta.dd
          /\ start_dir' = pos
          /\ disk' \in {disk, Put(disk, FinalMeta.off, <<Junk>>)}
          /\ pos' = FinalMeta.off
    /\ coord' = "FAILED" /\ writing' = FALSE /\ writer' = NoWriter
    /\ UNCHANGED <<status, mode, seekable, didModify, filelist, opened,
                   sessions>>

-----------------------------------------------------------------------------
(* ZipFile.mkdir asks neither the coordinator nor _writing.                 *)

MkdirAllowed(i) ==
    /\ MayWrite(i)
    /\ writer # NoWriter => "mkdirWhileOpen" \in Client
    /\ Room(WritePos, 2)

Mkdir(i) ==
    /\ MkdirAllowed(i) /\ mode # "r"
    /\ zinfo' = [zinfo EXCEPT ![i].off = WritePos]
    /\ filelist' = Register(i)
    /\ disk' = Put(disk, WritePos, <<LocalHeader(i, 0)>>)
    /\ pos' = WritePos + 1 /\ start_dir' = WritePos + 1
    /\ didModify' = TRUE
    /\ UNCHANGED <<status, mode, seekable, handle, tally>>

(* _writecheck refuses a directory in an archive opened for reading, after  *)
(* its header_offset is set.                                                *)
MkdirRefused(i) ==
    /\ MkdirAllowed(i) /\ mode = "r"
    /\ zinfo' = [zinfo EXCEPT ![i].off = WritePos]
    /\ pos' = WritePos
    /\ UNCHANGED <<disk, archive, filelist, handle, tally>>

(* The header is written last, so a write that raises leaves the directory  *)
(* registered.                                                              *)
MkdirFails(i) ==
    /\ MkdirAllowed(i) /\ mode # "r"
    /\ Strike("mkdir")
    /\ zinfo' = [zinfo EXCEPT ![i].off = WritePos]
    /\ filelist' = Register(i)
    /\ pos' = WritePos
    /\ didModify' = TRUE
    /\ UNCHANGED <<disk, status, mode, seekable, start_dir, handle, sessions>>

-----------------------------------------------------------------------------
(* Reading a member to its end moves fp; it is refused while _writing.      *)
ReadMember(i) ==
    /\ status = "open" /\ seekable
    /\ ~writing
    /\ i \in Listed
    /\ Intact(disk, i, zinfo[i])
    /\ pos' = zinfo[i].off + 1 + zinfo[i].size
    /\ UNCHANGED <<disk, archive, entries, handle, tally>>

SetComment ==
    /\ status = "open" /\ ~didModify
    /\ didModify' = TRUE
    /\ UNCHANGED <<disk, pos, status, mode, seekable, start_dir, entries,
                   handle, tally>>

(* The records _write_end_record writes, for a directory that starts at p.  *)
EndCells(p) ==
    [k \in 1 .. Len(filelist) |-> CentralRecord(filelist[k], zinfo[filelist[k]])]
    \o <<EndRecord(p + Len(filelist) - start_dir, start_dir)>>

(* Mutant: an archive without members is left without an end record.        *)
RewritesIfFilled == mode # "r" /\ didModify /\ filelist # <<>>

Rewrites == mode # "r" /\ didModify

(* ZipFile.close, refused while _writing.                                   *)
Close ==
    /\ status = "open" /\ ~writing
    /\ IF Rewrites
       THEN LET end == WritePos + Len(filelist) + 1
                full == Put(disk, WritePos, EndCells(WritePos))
            IN  /\ disk' = IF mode = "a" THEN Truncate(full, end) ELSE full
                /\ pos' = end
       ELSE UNCHANGED <<disk, pos>>
    /\ status' = "closed"
    /\ UNCHANGED <<mode, seekable, start_dir, didModify, entries, handle,
                   tally>>

(* What Prepend leaves in front of the archive.                             *)
Prepended == disk[0] = Stub

(* The end record is cut short after n cells; fp is closed all the same.    *)
(* Not in an archive with data in front of it: the records written anew, at *)
(* their true offsets, would be found through the old end record, and their *)
(* offsets shifted once more.                                               *)
CloseFails(n) ==
    /\ status = "open" /\ ~writing
    /\ "end" \in Faults /\ ~Prepended
    /\ Rewrites
    /\ n \in 0 .. Len(filelist)
    /\ disk' = Put(disk, WritePos, SubSeq(EndCells(WritePos), 1, n))
    /\ pos' = WritePos + n
    /\ status' = "stale"
    /\ UNCHANGED <<mode, seekable, start_dir, didModify, entries, handle,
                   tally>>

(* The process dies, or the program drops an archive it cannot close.       *)
Crash ==
    /\ status = "open"
    /\ "crash" \in Faults
    /\ status' = "stale"
    /\ UNCHANGED <<disk, pos, mode, seekable, start_dir, didModify, entries,
                   handle, tally>>

(* Between sessions another program puts data in front of the archive, as a *)
(* self-extracting stub does; no offset in the file is adjusted.            *)
Prepend ==
    /\ status = "closed" /\ "prepend" \in Client
    /\ disk[DiskCells - 1] = Hole
    /\ disk' = [a \in Addr |-> IF a = 0 THEN Stub ELSE disk[a - 1]]
    /\ status' = "stale"
    /\ UNCHANGED <<pos, mode, seekable, start_dir, didModify, entries, handle,
                   tally>>

-----------------------------------------------------------------------------
Stages == {"size", "check", "password"}
FinalStages == {"payload", "sizes", "trailer"}

Next ==
    \/ Create \/ OpenExisting \/ AppendAfterGarbage
    \/ \E i \in Infos \ Dirs :
          \/ OpenWriter(i)
          \/ \E stage \in Stages : OpenWriterRefused(i, stage)
          \/ OpenWriterHeaderFails(i)
    \/ WriteData \/ WriteLost
    \/ CloseWriter
    \/ \E stage \in FinalStages : CloseWriterFails(stage)
    \/ \E i \in Dirs : Mkdir(i) \/ MkdirRefused(i) \/ MkdirFails(i)
    \/ \E i \in Infos : ReadMember(i)
    \/ SetComment
    \/ Close
    \/ \E n \in 0 .. DiskCells : CloseFails(n)
    \/ Crash
    \/ Prepend

Spec == Init /\ [][Next]_vars
-----------------------------------------------------------------------------
(* Invariants                                                               *)

TypeOK ==
    /\ disk \in [Addr -> Cell]
    /\ pos \in Nat /\ start_dir \in Nat
    /\ status \in {"absent", "open", "closed", "stale"}
    /\ mode \in {"r", "w", "a"}
    /\ seekable \in BOOLEAN /\ didModify \in BOOLEAN /\ writing \in BOOLEAN
    /\ filelist \in Seq(Infos)
    /\ zinfo \in [Infos -> Meta]
    /\ coord \in {"IDLE", "ACTIVE", "FAILED"}
    /\ writer \in Handle \cup {NoWriter}
    /\ opened \in Nat /\ sessions \in Nat
    /\ struck \subseteq FaultKinds

(* No call has lost payload without a word, or registered a directory whose *)
(* header it could not write.                                               *)
NothingCutShort == struck \cap {"short", "mkdir"} = {}

(* Every member in filelist, which is what close() will put in the central *)
(* directory, can be found on the disk where its ZipInfo says: no later    *)
(* open, write, close, mkdir or failure of one has touched its cells.      *)
CommittedIntact ==
    NothingCutShort /\ status \in {"open", "closed"} =>
        \A i \in Listed : Intact(disk, i, zinfo[i])

(* Members occupy disjoint stretches of the file, in directory order, all  *)
(* of them below start_dir, where the next record or the directory goes.   *)
MembersDisjoint ==
    NothingCutShort /\ status = "open" =>
        \A k \in DOMAIN filelist :
            LET z == zinfo[filelist[k]]
            IN  /\ EndOf(z) <= start_dir
                /\ \A j \in DOMAIN filelist :
                      j > k => EndOf(z) <= zinfo[filelist[j]].off

(* After a close() that returned, the file parses and its directory lists  *)
(* exactly the members the archive had in memory, with the same placing,   *)
(* whatever failed before.  A stream whose last handle failed to close is  *)
(* left out: start_dir is then not where the directory goes.               *)
ClosedArchiveParses ==
    status = "closed" /\ (seekable \/ "final" \notin struck) =>
        /\ Parses(disk)
        /\ Directory(disk) = [k \in DOMAIN filelist |->
               [name |-> filelist[k], meta |-> zinfo[filelist[k]]]]

(* However a session ended (closed, crashed anywhere, close() cut short),  *)
(* a file that still parses never lists a member that cannot be read: a    *)
(* directory of an earlier session is not found again over newer bytes.    *)
NoPhantomMembers ==
    NothingCutShort /\ status \in {"closed", "stale"} /\ Parses(disk) =>
        \A k \in DOMAIN Directory(disk) :
            Opens(disk, Directory(disk), DirectoryStart(disk), k)

(* The coordinator refuses a new write handle exactly while the client     *)
(* holds one it can still close, which is what reserve() says when it      *)
(* refuses, until an open() or a close() for writing has failed.           *)
ReservationNamesAHandle ==
    struck \cap {"refuse", "final"} = {} /\ status = "open" =>
        (coord # "IDLE" <=> writer # NoWriter)

(* _writing, for which open(), writestr() and close() refuse, is set       *)
(* exactly while the client holds a write handle it can still close, until *)
(* a local header could not be written.                                    *)
WritingNamesAHandle ==
    "header" \notin struck /\ status = "open" =>
        (writing <=> writer # NoWriter)

-----------------------------------------------------------------------------
(* Action properties                                                        *)

(* Within a session the directory only grows at its end, and what it says  *)
(* of a member already in it never changes.                                *)
CommittedNeverChanges ==
    [][status = "open" /\ status' = "open" =>
          /\ Len(filelist) <= Len(filelist')
          /\ \A k \in DOMAIN filelist :
                /\ filelist'[k] = filelist[k]
                /\ zinfo'[filelist[k]] = zinfo[filelist[k]]]_vars

(* Whatever goes wrong with one member (its payload cut short, its header  *)
(* not written), the members that could be read before still can.          *)
DamageIsContained ==
    [][status = "open" /\ status' = "open" =>
          \A i \in Listed : Intact(disk, i, zinfo[i])
                              => Intact(disk', i, zinfo'[i])]_vars

-----------------------------------------------------------------------------
(* The contents a reader would find, and the promise about them.            *)

(* An entry's name and the payload of its member, -1 if it cannot be read.  *)
Fetch[x \in [name : Infos, meta : Meta]] ==
    [name |-> x.name,
     payload |-> IF Intact(disk, x.name, x.meta) THEN x.meta.crc ELSE -1]

Phase == IF status = "open" THEN "open"
         ELSE IF Parses(disk) THEN "sealed" ELSE "lost"

Members ==
    IF status = "open"
    THEN [k \in DOMAIN filelist |->
             Fetch[[name |-> filelist[k], meta |-> zinfo[filelist[k]]]]]
    ELSE [k \in DOMAIN Directory(disk) |-> Fetch[Directory(disk)[k]]]

Promise == INSTANCE ArchiveContents WITH
    Names <- Infos, Payloads <- -1 .. MaxHandles,
    phase <- Phase, members <- Members

(* The archive implements an append-only list of members: see               *)
(* ArchiveContents.  A member cut short is one that cannot be read, from   *)
(* when it is added.                                                        *)
ImplementsContents == Promise!Spec
=============================================================================
