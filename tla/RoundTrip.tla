------------------------------ MODULE RoundTrip ------------------------------
(***************************************************************************)
(* The life of members from open(name, "w") to the read() of a later       *)
(* session: which numbers need ZIP64, what an encryption scheme does to a  *)
(* member and its ZipInfo, what the directory says of them, and whether    *)
(* what was written comes back.  ZipInfo objects of one archive may be     *)
(* used to write another, as programs do that copy or filter archives.     *)
(*                                                                         *)
(* Source: zipfile/file.py, zipfile/write.py, zipfile/ext.py and           *)
(* cryptography/.  Calls do not fail here but for the reasons the code has *)
(* itself (ArchiveFile has the others), and one thread makes them.         *)
(***************************************************************************)
EXTENDS ZipRecords, FiniteSets

CONSTANTS
    Schemes,      \* encryption of a member: "none", "zip", "aes" (version
                  \* left to the default), "aes1", "aes2"
    Bodies,       \* what a member holds: its size, and compressed
    Hints,        \* values of ZipInfo.file_size when a member is opened
    Slack,        \* 20: a compressed member may be larger by one in Slack
    NoHandle,     \* "no write handle is open"
    MaxWrites,    \* bound: members opened for writing
    MaxSessions   \* bound: ZipFile objects

ASSUME RoundTripAssumption ==
    /\ Schemes \subseteq {"none", "zip", "aes", "aes1", "aes2"}
    /\ Bodies \subseteq [fsize : Nat \ {0}, psize : Nat \ {0}]
    /\ Hints \subseteq Nat /\ Slack \in Nat \ {0}
    /\ MaxWrites \in Nat /\ MaxSessions \in Nat

VARIABLES
    disk,       \* the file's cells; position p is disk[p + 1]
    mode,       \* "w", "a" or "r", and "closed" when there is no ZipFile
    seekable,   \* _seekable
    allow64,    \* _allowZip64
    filelist,   \* filelist
    endOffsets, \* _end_offset of every ZipInfo of filelist
    start_dir,  \* start_dir
    didModify,  \* _didModify
    reserved,   \* the coordinator is not IDLE
    handle,     \* the open ZipWriteFile
    kept,       \* ZipInfo of an earlier archive, for use in this one,
    keptEnd,    \* and its _end_offset
    truth,      \* history: what was written, for every entry of filelist
    sealed,     \* history: close() has returned, and nothing of a failed member
                \* lies behind start_dir in a file that is not truncated
    prefix,     \* history: cells put in front of the file since then
    writes, sessions

settings == <<seekable, allow64>>
reusable == <<kept, keptEnd>>
directory == <<filelist, endOffsets, start_dir, truth>>
ghosts == <<sealed, prefix, writes, sessions>>
vars == <<disk, mode, settings, reusable, directory, didModify, reserved, handle, ghosts>>

NoEnd == -1  \* an _end_offset that is None

Init ==
    /\ disk = <<>> /\ mode = "closed"
    /\ seekable = TRUE /\ allow64 = TRUE
    /\ filelist = <<>> /\ endOffsets = <<>> /\ start_dir = 0 /\ truth = <<>>
    /\ didModify = FALSE /\ reserved = FALSE
    /\ handle = NoHandle /\ kept = NewInfo /\ keptEnd = NoEnd
    /\ sealed = FALSE /\ prefix = 0 /\ writes = 0 /\ sessions = 0

(* d after the cells s are written at position p.                           *)
Put(d, p, s) == SubSeq(d, 1, p) \o s \o SubSeq(d, p + Len(s) + 1, Len(d))

(* Where a record goes: fp is sought to start_dir when it can be.           *)
WritePos == IF seekable THEN start_dir ELSE Len(disk)

-----------------------------------------------------------------------------
(* ZipFile(file, mode)                                                      *)

NewZipFile ==
    /\ mode = "closed" /\ sessions < MaxSessions
    /\ sessions' = sessions + 1
    /\ allow64' \in BOOLEAN
    /\ reserved' = FALSE /\ handle' = NoHandle
    /\ sealed' = FALSE /\ prefix' = 0
    /\ UNCHANGED writes

(* What a new write does not reset of a ZipInfo that was used before; it    *)
(* does not reset _end_offset either.                                       *)
Reusable(z) == [NewInfo EXCEPT !.extra = z.extra, !.vendor = z.vendor,
                               !.version = z.version, !.raw = z.raw]

(* "w": another file; the client may have kept a ZipInfo of the last one.   *)
Create ==
    /\ NewZipFile
    /\ mode' = "w" /\ seekable' \in BOOLEAN
    /\ disk' = <<>> /\ filelist' = <<>> /\ endOffsets' = <<>>
    /\ start_dir' = 0 /\ truth' = <<>>
    /\ didModify' = TRUE
    /\ \/ kept' = NewInfo /\ keptEnd' = NoEnd
       \/ \E i \in DOMAIN filelist :
             kept' = Reusable(filelist[i]) /\ keptEnd' = endOffsets[i]

OpenExisting ==
    /\ NewZipFile
    /\ sealed /\ CanBeRead(disk)
    /\ mode' \in {"r", "a"} /\ seekable' = TRUE
    /\ filelist' = GetContents(disk)
    /\ start_dir' = StartDir(EndRecData(disk))
    /\ endOffsets' = EndOffsets(filelist', start_dir')
    /\ didModify' = FALSE
    /\ kept' = NewInfo /\ keptEnd' = NoEnd
    /\ UNCHANGED <<disk, truth>>

-----------------------------------------------------------------------------
(* _open_to_write and the constructor of ZipWriteFile                       *)

(* The encryption header: one cell for ZipCrypto's 12 bytes, whose check    *)
(* byte is that of the time, or for the salt and the verifier of AES.       *)
EncryptionHeader(scheme) ==
    CASE scheme = "none" -> <<>>
      [] scheme = "zip" -> <<[kind |-> "keys"]>>
      [] OTHER -> <<[kind |-> "salt"]>>

(* update_zipinfo: ZipCrypto wants a data descriptor, AES its extra field;  *)
(* a version the archive leaves open is left as it is.                      *)
UpdateZipInfo(z, scheme) ==
    CASE scheme = "none" -> z
      [] scheme = "zip" -> [z EXCEPT !.dd = TRUE]
      [] scheme = "aes" -> [z EXCEPT !.vendor = TRUE]
      [] scheme = "aes1" -> [z EXCEPT !.vendor = TRUE, !.version = 1]
      [] scheme = "aes2" -> [z EXCEPT !.vendor = TRUE, !.version = 2]

(* The size is a guess, and compression may make it larger.                 *)
NeedsZip64(hint, force) == force \/ hint + hint \div Slack > Zip64Limit

(* ZIP64 is needed for the size, or, to _writecheck, for what else there is.*)
TooLarge(hint, force) ==
    /\ ~allow64
    /\ \/ NeedsZip64(hint, force)
       \/ Len(filelist) >= CountLimit
       \/ hint > Zip64Limit
       \/ WritePos > Zip64Limit

MayOpen(force) ==
    /\ mode \in {"w", "a"} /\ ~reserved
    /\ writes < MaxWrites
    /\ force => allow64

(* reuse: with the ZipInfo that was kept, which serves for one member.      *)
OpenToWrite(reuse, scheme, hint, force) ==
    /\ MayOpen(force)
    /\ ~TooLarge(hint, force)
    /\ IF reuse THEN kept' = NewInfo /\ keptEnd' = NoEnd
                ELSE UNCHANGED reusable
    /\ LET info == IF reuse THEN kept ELSE NewInfo
           clean == [info EXCEPT !.fsize = hint, !.dd = ~seekable,
                                 !.enc = (scheme # "none"), !.off = WritePos]
           z == UpdateZipInfo(clean, scheme)
           zip64 == NeedsZip64(hint, force)
           cells == FileHeader(z, zip64) \o EncryptionHeader(scheme)
       IN  /\ disk' = Put(disk, WritePos, cells)
           /\ handle' = [info |-> z, zip64 |-> zip64, scheme |-> scheme,
                         recast |-> info.vendor /\ scheme \in {"none", "zip"},
                         end |-> IF reuse THEN keptEnd ELSE NoEnd,
                         next |-> WritePos + Len(cells)]
    /\ reserved' = TRUE /\ didModify' = TRUE
    /\ writes' = writes + 1
    /\ UNCHANGED <<mode, settings, directory, sealed, prefix, sessions>>

(* LargeZipFile; reserve() has been called, and nothing gives it back.      *)
OpenTooLarge(hint, force) ==
    /\ MayOpen(force)
    /\ TooLarge(hint, force)
    /\ reserved' = TRUE
    /\ UNCHANGED <<disk, mode, settings, reusable, directory, didModify, handle, ghosts>>

-----------------------------------------------------------------------------
(* ZipWriteFile.write and close, as one step                                *)

Chunk(serial, k, cipher, body) ==
    [kind |-> "data", serial |-> serial, k |-> k, cipher |-> cipher, of |-> body]
Cipher(scheme) == IF scheme \in {"none", "zip"} THEN scheme ELSE "aes"
Hmac(serial) == [kind |-> "hmac", serial |-> serial]

(* The payload of a member, and what its encryptor's flush() adds to it.    *)
Payload(body) ==
    LET cipher == Cipher(handle.scheme)
    IN  [k \in 1 .. body.psize |-> Chunk(writes, k, cipher, body)]
        \o IF cipher = "aes" THEN <<Hmac(writes)>> ELSE <<>>

(* _update_metadata; the CRC of a payload is its serial number.             *)
FinalInfo(body) ==
    [handle.info EXCEPT
        !.csize = Len(EncryptionHeader(handle.scheme)) + Len(Payload(body)),
        !.fsize = body.fsize, !.crc = writes]

(* _validate_sizes                                                          *)
SizesFit(body) ==
    \/ handle.zip64
    \/ /\ body.fsize <= Zip64Limit
       /\ FinalInfo(body).csize <= Zip64Limit

CloseHandle(body) ==
    /\ handle # NoHandle /\ SizesFit(body)
    /\ LET z == FinalInfo(body)
           filled == Put(disk, handle.next, Payload(body))
           end == handle.next + Len(Payload(body))
       IN  /\ IF z.dd
              THEN /\ disk' = Put(filled, end, <<Descriptor(z, handle.zip64)>>)
                   /\ start_dir' = end + 1
              ELSE /\ disk' = Put(filled, z.off, FileHeader(z, handle.zip64))
                   /\ start_dir' = end
           /\ filelist' = Append(filelist, z)
           /\ endOffsets' = Append(endOffsets, handle.end)
           /\ truth' = Append(truth, [serial |-> writes, scheme |-> handle.scheme,
                                      body |-> body, recast |-> handle.recast])
    /\ handle' = NoHandle /\ reserved' = FALSE
    /\ UNCHANGED <<mode, settings, reusable, didModify, ghosts>>

(* RuntimeError: the member is larger than was said when it was opened.  It *)
(* is not listed, and the coordinator stays FAILED.                         *)
CloseHandleFails(body) ==
    /\ handle # NoHandle /\ ~SizesFit(body)
    /\ disk' = Put(disk, handle.next, Payload(body))
    /\ handle' = NoHandle
    /\ UNCHANGED <<mode, settings, reusable, directory, didModify, reserved, ghosts>>

-----------------------------------------------------------------------------
(* ZipFile.close                                                            *)

(* Setting comment makes close() write the directory anew.                  *)
SetComment ==
    /\ mode = "a" /\ ~didModify
    /\ didModify' = TRUE
    /\ UNCHANGED <<disk, mode, settings, reusable, directory, reserved, handle, ghosts>>

(* The directory's size is what lies between start_dir and fp.              *)
DirectorySize == WritePos + Len(DirectoryCells(filelist)) - start_dir
Rewrites == mode \in {"w", "a"} /\ didModify
EndTooLarge ==
    /\ Rewrites /\ ~allow64
    /\ EndNeedsZip64(Len(filelist), DirectorySize, start_dir)

Close ==
    /\ mode # "closed" /\ handle = NoHandle
    /\ ~EndTooLarge
    /\ LET records == DirectoryCells(filelist)
                      \o EndRecords(Len(filelist), DirectorySize, start_dir)
           written == Put(disk, WritePos, records)
       IN  disk' = IF ~Rewrites THEN disk
                   ELSE IF mode = "a"
                        THEN SubSeq(written, 1, WritePos + Len(records))
                        ELSE written
    /\ sealed' = (mode = "w" => start_dir = Len(disk))
    /\ mode' = "closed"
    /\ UNCHANGED <<settings, reusable, directory, didModify, reserved, handle, prefix,
                   writes, sessions>>

(* LargeZipFile: the directory is written, its end record is not.           *)
CloseTooLarge ==
    /\ mode # "closed" /\ handle = NoHandle
    /\ EndTooLarge
    /\ disk' = Put(disk, WritePos, DirectoryCells(filelist))
    /\ mode' = "closed"
    /\ UNCHANGED <<settings, reusable, directory, didModify, reserved, handle, ghosts>>

(* Another program puts data in front of the file.                          *)
Prepend ==
    /\ mode = "closed" /\ sealed /\ prefix = 0
    /\ disk' = <<[kind |-> "junk"]>> \o disk
    /\ prefix' = 1
    /\ UNCHANGED <<mode, settings, reusable, directory, didModify, reserved, handle,
                   sealed, writes, sessions>>

Next ==
    \/ Create \/ OpenExisting
    \/ \E hint \in Hints, force \in BOOLEAN :
          \/ \E reuse \in BOOLEAN, scheme \in Schemes :
                OpenToWrite(reuse, scheme, hint, force)
          \/ OpenTooLarge(hint, force)
    \/ \E body \in Bodies : CloseHandle(body) \/ CloseHandleFails(body)
    \/ SetComment
    \/ Close \/ CloseTooLarge
    \/ Prepend

Spec == Init /\ [][Next]_vars

-----------------------------------------------------------------------------
(* Reading a member: setup_decrypter, the decrypter and check_integrity.    *)

Raises == -1   \* the call raises
Garbage == -2  \* bytes that are not those of any member

(* _encryption_frame_for_entry: a member's own version tells AES.           *)
Frame(z) == IF ~z.enc THEN "none" ELSE IF z.version # 0 THEN "aes" ELSE "zip"
HeaderLength(frame) == IF frame = "none" THEN 0 ELSE 1
TrailerLength(frame) == IF frame = "aes" THEN 1 ELSE 0

(* Whether the password is taken: the right one for what is there always,  *)
(* any other by chance.                                                     *)
AesAccepts(header, pwd) ==
    IF header.kind = "salt" /\ pwd = "right" THEN {TRUE} ELSE BOOLEAN

(* The check byte is compared with that of _raw_time, which a ZipInfo has   *)
(* that was read, or without a data descriptor with that of the CRC.        *)
ZipCryptoAccepts(z, header, pwd) ==
    IF z.dd /\ ~z.raw THEN {FALSE}
    ELSE IF header.kind = "keys" /\ pwd = "right" /\ z.dd THEN {TRUE}
    ELSE BOOLEAN

Accepted(z, header, pwd) ==
    CASE Frame(z) = "none" -> {TRUE}
      [] Frame(z) = "aes" -> AesAccepts(header, pwd)
      [] Frame(z) = "zip" -> ZipCryptoAccepts(z, header, pwd)

(* What the cells of a payload decrypt and decompress to.                   *)
Content(z, cells, pwd) ==
    LET first == cells[1]
    IN  IF /\ cells # <<>> /\ first.kind = "data"
           /\ cells = [k \in 1 .. first.of.psize |->
                         Chunk(first.serial, k, Frame(z), first.of)]
           /\ z.fsize = first.of.fsize
           /\ Frame(z) # "none" => pwd = "right"
        THEN first.serial
        ELSE Garbage

(* Mutant: the HMAC is not compared.                                        *)
IntegrityWithoutHmac(z, content, trailer) ==
    IF z.version = 0 THEN content = z.crc
    ELSE /\ Frame(z) = "aes"
         /\ z.version = 1 => content = z.crc

(* check_integrity: the HMAC for AES, the CRC for all but AE-2.             *)
Integrity(z, content, trailer) ==
    IF z.version = 0 THEN content = z.crc
    ELSE /\ Frame(z) = "aes"
         /\ trailer = Hmac(content)
         /\ z.version = 1 => content = z.crc

(* The member is longer than its _end_offset allows; if this is also the    *)
(* place of its header, there is only a warning.                            *)
Overlaps(z, start, end) ==
    end # NoEnd /\ start + z.csize > end /\ end # z.off

(* What open() and read() may give for the ZipInfo z, whose _end_offset is  *)
(* end, over the cells d.                                                   *)
ReadOutcomes(d, z, end, pwd) ==
    LET local == d[z.off + 1]
        start == z.off + 1 + Len(local.extra)
        h == HeaderLength(Frame(z))
        t == TrailerLength(Frame(z))
        cells == SubSeq(d, start + h + 1, start + z.csize - t)
        content == Content(z, cells, pwd)
    IN  IF \/ local.kind # "local" \/ Overlaps(z, start, end)
           \/ z.ctype # Method \/ z.csize < h + t
        THEN {Raises}
        ELSE {IF ok /\ Integrity(z, content, d[start + z.csize])
              THEN content ELSE Raises : ok \in Accepted(z, d[start + 1], pwd)}

-----------------------------------------------------------------------------
(* Properties                                                               *)

(* The directory as a reader has it: of the open archive, unless it is a   *)
(* stream that cannot be read at all, or of the file; and its _end_offsets. *)
Entries == CASE mode # "closed" /\ seekable -> filelist
             [] mode = "closed" /\ sealed /\ CanBeRead(disk) -> GetContents(disk)
             [] OTHER -> <<>>
EntryEnds(zs) ==
    IF mode = "closed" THEN EndOffsets(zs, StartDir(EndRecData(disk))) ELSE endOffsets

(* The local header and the trailer say of a member what the directory     *)
(* says: in narrow fields or, where these hold the sentinel, in the ZIP64  *)
(* field; the descriptor is wide if there is one.  (For programs that read *)
(* the archive as a stream.)                                                *)
LocalRecordsAgree(d, z) ==
    LET local == d[z.off + 1]
        wide == {k \in DOMAIN local.extra : local.extra[k].id = "zip64"}
        size(n, k) == IF n = FieldMax
                      THEN local.extra[CHOOSE w \in wide : TRUE].values[k] ELSE n
        trailer == d[z.off + 1 + Len(local.extra) + z.csize + 1]
    IN  IF z.dd
        THEN /\ trailer.kind = "desc" /\ (trailer.wide <=> wide # {})
             /\ trailer.fsize = z.fsize /\ trailer.csize = z.csize
             /\ ~trailer.wide => z.fsize <= FieldMax /\ z.csize <= FieldMax
        ELSE size(local.fsize, 1) = z.fsize /\ size(local.csize, 2) = z.csize

(* A closed archive can be read, and its records say of every member where *)
(* it is and how large, however large, and of the directory the same; with *)
(* data put in front as well.                                               *)
RecordsSpeakTrue ==
    mode = "closed" /\ sealed =>
        /\ CanBeRead(disk)
        /\ StartDir(EndRecData(disk)) = start_dir + prefix
        /\ Len(GetContents(disk)) = Len(filelist)
        /\ LET zs == GetContents(disk)
           IN  \A i \in DOMAIN filelist :
                   /\ zs[i].off = filelist[i].off + prefix
                   /\ zs[i].fsize = truth[i].body.fsize
                   /\ zs[i].csize = filelist[i].csize
                   /\ LocalRecordsAgree(disk, zs[i])

(* The ZipInfo was read from an earlier archive, in which its member ended  *)
(* before the one that was written with it now does; no later session has   *)
(* it so.                                                                   *)
Outgrown(i) ==
    LET z == Entries[i]
    IN  /\ mode = "w"
        /\ Overlaps(z, z.off + 1 + Len(disk[z.off + 1].extra), EntryEnds(Entries)[i])

(* With the right password a member comes back as it was written, in the   *)
(* session that wrote it, in later ones, and after the directory has been  *)
(* written again, with the ZipInfo of another member as well.  Left out are *)
(* an AES member's ZipInfo used for one that is not; members whose ZipInfo  *)
(* is complete only when it is read back; and, in the session that writes   *)
(* them, members that have outgrown the one their ZipInfo was read for.     *)
ContentComesBack ==
    handle = NoHandle =>
        LET zs == Entries
            ends == EntryEnds(zs)
        IN  \A i \in DOMAIN zs :
                LET z == zs[i]
                    unfinished == /\ z.enc /\ z.version = 0
                                  /\ z.vendor \/ ~z.raw
                IN  \/ truth[i].recast \/ unfinished
                    \/ ReadOutcomes(disk, z, ends[i], "right") = {truth[i].serial}
                    \/ Outgrown(i)

(* Whatever the password, read() returns nothing but what was written, and *)
(* for any other password than the right one it does not return at all.     *)
OnlyTheWrittenIsTrusted ==
    handle = NoHandle =>
        LET zs == Entries
            ends == EntryEnds(zs)
        IN  \A i \in DOMAIN zs :
                LET z == zs[i]
                    end == ends[i]
                    outcomes(pwd) == ReadOutcomes(disk, z, end, pwd)
                IN  /\ outcomes("right") \subseteq {truth[i].serial, Raises}
                    /\ z.enc => outcomes("wrong") = {Raises}
=============================================================================
