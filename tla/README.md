# ziplet in TLA+

A verification development for `src/src/ziplet`, a thread-aware ZIP library in
Python (reading, writing, encryption, extraction under a policy). It consists of
TLA+ modules translated from the source, small instances that TLC checks, and
proofs that TLAPS checks. `PROJECT.json` says, for every definition that models
code, which lines it stands for; paths below are relative to
`src/src/ziplet/` unless they begin with `src/`.

- [The system](#the-system): its parts, their state, what is hard about them
- [The modules](#the-modules): what models what, and how
- [The runs](#the-runs): what TLC checks, the bounds, the fairness
- [The theorems](#the-theorems): what is proved, from what, and how
- [Known deviations](#known-deviations): where the code does not do what one expects
- [Not modelled](#not-modelled), and the [plan](#plan)


## The system

A `ZipFile` sits over one file object `fp`. Everything that is open on the
archive (write handles, read streams) shares `fp` and its position with it, and
one `RLock` (`ZipFile._lock`, with the condition `_write_condition`). Calls and
shared attributes are the only way the parts interact; there are no threads,
timers or messages of the library's own. Concurrency comes from client threads,
failure from `fp` (a call that raises, or takes only part of the bytes) and from
the death of the process.

| Part | State | Operations | Correct if |
|---|---|---|---|
| `ZipFile`, writing (`zipfile/file.py`) | `fp` and its position, `mode`, `start_dir`, `filelist`/`NameToInfo`, `_didModify`, `_writing`, `_active_writer`, `_comment` | constructor per mode, `open(…, "w")`, `writestr`, `write`, `mkdir`, `comment`, `close` | a member that was committed stays readable whatever is done or fails later; a close that returned leaves a file that lists exactly the committed members; an interrupted session never yields a directory that names unreadable members |
| `WriteCoordinator` (`zipfile/write_coordinator.py`) | `_state`, `_reservation`, the condition's waiters | `reserve`, `begin_finalization`, `commit`, `fail`, `release` | at most one writer at any time; a stale reservation changes nothing; nobody waits for ever |
| `ZipWriteFile` (`zipfile/write.py`) | its `_state`, sizes, CRC, reservation | constructor, `write`, `close` | the member registered is the one written; it is registered once, whoever closes it |
| `ClosableZipStream`, `Tellable` (`zipfile/io_wrappers.py`) | own position, reference count `_fileRefCnt` on `fp`, shared lock | `read`, `seek`, `close`; `tell` on streams that cannot | a read returns the bytes of its own member, whatever other readers and the writer do with `fp`; `fp` is closed once, by the last user |
| `ZipExtFile` (`zipfile/ext.py`) | decompressor, read buffer and offset, CRC, bytes left, seek position | `read`, `read1`, `peek`, `readline`, `seek`, `tell` | it behaves as one sequence of bytes, of which the CRC covers what was read in order |
| `ZipInfo`, extra fields (`zipfile/info.py`) | the fields of a member | headers and central records, decoding of extra fields | what is written is what is read back, also at the 32-bit limits |
| End record, ZIP64, prepended data (`zipfile/file.py`) | - | `_EndRecData`, `_RealGetContents`, `_end_offset`, `_write_end_record` | the directory found is the one that was written last; offsets are relative to where the archive starts |
| Extraction under a policy (`zipfile/file.py`, `assessment.py`, `validators.py`, `extract.py`, `inspection.py`) | quotas, verdicts | `_extract_with_policy` | no quota is exceeded, whatever the headers declare; a refusal leaves what the policy says |
| Materialisation (`materialize.py`, `secure_fs.py`) | files of the target directory | create, write, rename, clean up | a member that fails leaves nothing half-written under its final name |
| Encryption (`cryptography/`) | cipher, MAC and header state of one member | header, encrypt, decrypt, flush/verify | nothing is trusted before it is authenticated; each member starts from its own state |
| Compression registry (`compression/`) | registered methods; decompressor state | register, look up, compress, decompress | lookups find what was registered; input is not fed past the end |
| Path and glob (`zipfile/path/`) | the class of the `ZipFile`, cached name sets | `iterdir`, `exists`, `joinpath`, `parent`, `inject`, `glob` | implied directories are complete and not invented, whatever was asked before the last write |
| Package surface, constants, exceptions | none | - | - |

What is hard:

- *Atomicity.* `_writing`, `start_dir`, `_active_writer` and the position of `fp`
  are shared, but a write handle takes the lock only inside the coordinator's
  operations; check and use lie in different critical sections (`close()` of a
  handle, `ZipFile.close()`, `open()` for writing).
- *Partial failure.* Every operation is a sequence of assignments and writes with
  `raise` between them. What a half-done `open`, `write`, `close` or `mkdir`
  leaves behind decides whether later calls damage the archive.
- *Crash.* Appending overwrites the old central directory with new members;
  the new one is written on close. A crash in between must not resurrect a
  directory over bytes that are no longer its members'; and what can still be read
  of a damaged directory is taken over by a session that appends behind it.
- *Waiting.* Two closers wait on one condition variable.
- *Shared ownership.* The archive and its streams count their references to `fp`
  without a lock; constructors that raise give back what they have taken.
- *Objects that are used again.* A `ZipInfo` read from one archive may be written to
  another, with other encryption and another length; a `ZipFile` changes its class when a `Path` is made.
- *Two ways to the same entry.* `filelist` has every entry, `NameToInfo` the last one of
  each name; inspection uses the one, extraction the other.
- *Boundaries.* How far the end record is searched for, the 32-bit fields, data
  in front of the archive, seeks relative to a buffer.

The list with lines, and the properties that cover each item, is under
`hazards` in `PROJECT.json`.


## The modules

```
ArchiveContents   what an archive promises: an append-only list of members
      ^ (refinement)
ArchiveFile       one ZipFile, one client, failures, crashes, sessions
      | EXTENDS                                    ^ MCArchiveFile
      |                                            ^ ArchiveFileProofs (TLAPS)
ArchiveLayout     what the bytes mean: cells, members, the directory

SingleWriter      what the coordination promises: writers take turns
      ^ (refinement)
WriterThreads     one ZipFile shared by threads    ^ MCWriterThreads, MCThreadGroups
      | EXTENDS                                    ^ WriterThreadsProofs (TLAPS)
WriteCoordinator  the reservation and its condition variable

CountedFile       what sharing a file promises: its last user closes it, once
      ^ (refinement)
ReaderStreams     read streams, threads, the count ^ MCReaderStreams
                                                   ^ ReaderStreamsProofs (TLAPS)

RoundTrip         written, listed, read, written anew  ^ MCRoundTrip
      | EXTENDS                                    ^ RoundTripProofs (TLAPS), which
      |                                              EXTENDS FoldTheorems (TLAPS)
ZipRecords        the numbers of the records, narrow and ZIP64, and the end records

MemberBytes       what a member opened for reading promises: bytes and a position
      ^ (refinement)
ExtFile           one ZipExtFile, one client       ^ MCExtFile
                                                   ^ ExtFileProofs (TLAPS), which
                                                     EXTENDS FoldTheorems (TLAPS)

MemberDelivery    what an extraction promises: members whole or not at all
      ^ (refinement)
PolicyExtraction  extract, extractall, inspect     ^ MCPolicyExtraction
                                                   ^ ExtractionProofs (TLAPS), which
                                                     EXTENDS FoldTheorems (TLAPS)

PathDirs          Path, CompleteDirs, FastLookup   ^ MCPathDirs
                                                   ^ PathDirsProofs (TLAPS), which
                                                     EXTENDS FoldTheorems (TLAPS)
```

The families look at the same code at different grains. `ArchiveFile` makes each
public call one step and keeps all of the file's contents, with failures and
crashes; `WriterThreads` cuts the same calls at every point where another
thread can run and keeps only as much of the file as tells members apart;
`ReaderStreams` cuts finer still, at each access to a shared attribute, and keeps of
the file only whether it is open; `RoundTrip` takes calls whole again, lets
nothing fail, and keeps the numbers that the others leave out.

### ArchiveLayout

A file is a function from addresses to *cells*, one per record the code writes
in one piece: local header, payload chunk, data descriptor, central directory
record, end record, or junk left by a torn write. Reading a directory back is
defined the way `_RealGetContents` does it: the last end record within reach of
the end of the file (`TailCells` stands for the longest comment), the shift for
data in front of the archive, offsets adjusted by it, and `_end_offset`, which
says where the member after this one begins. `Directory` is what has been appended to
`filelist` when `_RealGetContents` returns, or raises at a record that is none: all entries
of a file that parses (`Parses`), the first ones of a file that does not. `Opens` is what opening a member
for reading checks. A checksum is the serial number of the handle that wrote the
payload: two payloads agree only if they are the same, so a CRC collision is
outside the model.

### ArchiveFile

| Action | Code |
|---|---|
| `Create`, `OpenExisting`, `AppendAfterGarbage` | `ZipFile.__init__` in modes `w`/`x`, `r`/`a`, and `a` on a file that is no archive, or no longer one: the entries read before `BadZipFile` stay listed |
| `OpenWriter`; `OpenWriterRefused`, `OpenWriterHeaderFails` | `_open_to_write` and the constructor of `ZipWriteFile`; each point at which they can raise |
| `WriteData`, `WriteLost` | `ZipWriteFile.write`; the count goes up before `fp` takes the bytes |
| `CloseWriter`, `CloseWriterFails` | `ZipWriteFile.close`; failing in the last payload, in the size check or in the trailer |
| `Mkdir`, `MkdirRefused`, `MkdirFails` | `ZipFile.mkdir` |
| `ReadMember`, `SetComment` | a read to the end of a member (moves `fp`); the `comment` setter |
| `Close`, `CloseFails` | `ZipFile.close` with `_write_end_record`; cut short after any number of records |
| `Crash`, `Prepend` | the process dies; between sessions another program puts data in front of the archive |

`Faults` and `Client` choose what may go wrong and which unusual calls the
client makes. `struck` remembers the kinds of fault that have happened: up to
`MaxStruck` of them meet in a behaviour (`Strike`), and a property that the code fails
after one kind says so (`tally`) and holds after all others. State not in the model:
`NameToInfo` (a function of `filelist`), timestamps, modes and permissions.

### WriterThreads, WriteCoordinator

Each thread has a program counter `pc` and the handle (or directory) its call
works on, `cur`. One step is one critical section of the lock, one operation on
`fp`, or one assignment that another thread can see; the labels begin with
the call: `o_` open for writing, `s_` writestr, `c_` and `f_` close of a handle
and its failure path, `m_` mkdir, `r_` read, `z_` archive close. The lock is
reentrant (`LockFree`) and is held between steps only by the calls that hold it
across `fp` operations in the code: `writestr`, `mkdir`, a read, and the last
part of archive close. `WriteCoordinator` holds the coordinator's operations;
each runs under the lock and so is part of one step of its caller. A handle
stands for its own reservation too, since each `open` makes a fresh one. The
condition variable is the set `waiting`: `wait` puts a thread in, `notify_all`
empties it, and a woken thread evaluates its predicate again.

Threads may share a handle (`SharedHandles`). A close that comes after another
has begun raises in `begin_finalization` and leaves the handle `FINALIZING`;
`Abandoned` names that state. A handle can be written to until it is `closed`, while another
thread is closing it too. `StartOpen` stands for `ZipFile.write` as well, which asks
`ensure_readable` and `_writing` first and then opens, or makes a directory, as other threads do without
asking. `_didModify` decides whether `close()` of the archive writes a directory (`ArchiveSeek`) or
only drops the file (`ArchiveUnmodified`).

### ReaderStreams

Users of the file are the archive and its streams. `stage` says how far each has
come: reference not taken, counted, in use, given up by its object, dropped.
Labels: `o_` open for reading, `k_` close of a stream and `_fpclose`, `z_` archive
close, `r_` a read. `Build` is the interpreter: with its lock a thread keeps
running between two accesses that no call separates (`Uninterrupted`), so that
`self._fileRefCnt += 1` is not torn; without it (`"free"`) any step may come in
between.

| Action | Code |
|---|---|
| `Construct`, `ConstructFails` | the end of `ZipFile.__init__`, which gives the file back if it raises |
| `StartOpen`, `OpenAsserts` … `OpenReturns`; `OpenFails`, `OpenMakeFails` | `_open_to_read`: the count goes up, the stream is made, the header is checked; where it raises, the stream is closed |
| `Read`, `ReadReturns` | `ClosableZipStream.read` under the lock |
| `StartClose`, `CloseTakes`, `CloseTakesUnlocked` | `ClosableZipStream.close`, of which two may run at once |
| `DropAsserts` … `DropTests`, `DropCloses` | `_fpclose` |
| `CloseArchive`, `ArchiveLocks` … `ArchiveDrops` | `ZipFile.close` |

### ZipRecords, RoundTrip

`ZipRecords` has the numbers of a member's local header, data descriptor and
central record, of the ZIP64 and AES extra fields, and of the end records, written
and decoded with a limit of 4 and a widest narrow value of 6 in the place of
`ZIP64_LIMIT` and 0xFFFFFFFF. `RoundTrip` writes a file of cells with them: one
for each record, extra field, unit of payload and of encryption header or
trailer, so that offsets count what the code's count. A key or a checksum is the serial number of
the member it is of. `truth` remembers what was written to each entry.

| Action | Code |
|---|---|
| `Create`, `OpenExisting` | `ZipFile.__init__` |
| `OpenToWrite`, `OpenTooLarge` | `_open_to_write`, `_writecheck`, the encryptor's header and its `update_zipinfo`, with a new `ZipInfo` or one of an earlier archive (`Reusable`) |
| `CloseHandle`, `CloseHandleFails` | `write` and `close` of `ZipWriteFile`; a member larger than its header has room for |
| `SetComment`, `Close`, `CloseTooLarge` | the `comment` setter; `ZipFile.close` and `_write_end_record`; `LargeZipFile` |
| `Prepend` | another program puts data in front of the closed file |

`_end_offset` is kept beside each `ZipInfo` (`endOffsets`, `keptEnd`): reading a directory sets it
(`EndOffsets`), nothing resets it, and `Overlaps` is the check against it.
Reading is `ReadOutcomes`: what `open()` and `read()` may give, given the right password or
another one, from the choice of the decrypter to the check at the end. A wrong
password may pass the first check of either scheme by chance; what stops it
then is the CRC or the HMAC.

### ExtFile

One member opened for reading. Its compressed data is a sequence of *units*, each
with the `bytes` it decompresses to (none, for a header or the end-of-stream
marker) and with `ends`, whether the compressed stream ends with it, so that compressed
and decompressed sizes differ, a stream may end in the middle of a read of raw data or
after it, or not at all, and the ZipInfo may be wrong about either. A unit of a stored member
is a byte. A CRC is the sequence of bytes it was fed and an HMAC the sequence of
units: two agree only if what they were made from does. `Entries` lists the
members that the client may meet, sound and damaged. The state `st` has the
attributes that `read_init` sets, under their names; of the decompressor it has
the input and output not used yet.

| Action | Code |
|---|---|
| `Read`, `Read1`, `ReadAll`, `Peek`, `PeekBuffer`, `ReadLine`, `Close` | the call up to its first turn of a loop |
| `Fill` | one turn: `_read1`, with `_read2` and, at the end, `check_integrity` |
| `FillFindsDamage` | the turn raises `EOFError` or `BadZipFile` |
| `FillRefused`, `TrailerRefused`, `SeekBackRefused`, `SeekDirectRefused` | `ClosableZipStream.read` or `seek` refuses, because a writer is open |
| `ReadReturns`, `Read1Returns`, `PeekReturns` | the end of the call |
| `SeekInBuffer`, `SeekDirect`, `SeekBack`, `SeekAhead`, `SeekOn`, `SeekReturns` | the four ways `seek` goes |

### PolicyExtraction

The destination `fs` says what is at each path (nothing, a directory, a file and
whose, a link, a FIFO). Members have a target, a kind, the size their header
declares, the data that reading them gives, and how the reading ends: with all
of it, with an exception that the extraction catches, or with one that it
does not. What the checks that look at nothing but the member find (names,
extensions, ratio, encoding of the name, the custom validator) is the member's
`findings`; those that depend on limits, on other members or on the destination
are spelt out in `Findings`. That a member never gives more data than its
header declares is `ExtFile!TypeOK` (proved, `TypeCorrect`), and an assumption here.

| Action | Code |
|---|---|
| `Assess` | one turn of the loop of `_extract_with_policy` up to the verdict; `_assess_member`, `_evaluate_extract_member`, `_effective_violations` |
| `Prepare`; `StartLegacy` | `_prepare_policy_target`; a member extracted without a policy |
| `MakeParents`, `ParentsFail` | `_secure_mkdirs` |
| `MakeDirectory`, `DirectoryFails` | `_materialize_directory` |
| `RemoveOld`, `RemoveOldFails`, `MakeLink`, `LinkFails` | `_materialize_symlink`, `_materialize_special`: what is there is removed, then the new one made |
| `OpenTemp`, `Copy`, `CopyFails`, `ReadRaises`, `Commit`, `CommitFails` | `_materialize_regular_file`, with `_ExtractionQuotaWriter` chunk by chunk, and `os.replace` |
| `Return` | the result, or an `ExtractionError` |
| `Crash`, `OtherProgram` | the process dies; another program makes a file |

`archive` is `filelist`. `members` is what is extracted for each of its entries: the entry itself, if the
client passes the ZipInfos, or the last one of its name (`ByName`), if it passes the names or nothing.
`Inspection` is the loop of `inspect` over `archive` and the destination as it was. `before` and
`found` are history variables.

### PathDirs

A name is the sequence of the parts between its slashes; between two slashes, behind the last
or before the first there may be nothing, which is `Empty`. The state is the class
that `make` has given the `ZipFile`, its names, the two caches of `FastLookup`, and
the location of the one `Path` the client holds. Actions are `Make`, `WriteStr`,
`OpenForWriting`, `Inject`, and the ways to go on: `IterDir`, `GoTo` (`joinpath`),
`GoUp` (`parent`), `Ask` (`exists` and what else looks a name up, and so fills a
cache).

### ArchiveContents, SingleWriter, CountedFile, MemberBytes, MemberDelivery

The abstract specifications. `ArchiveContents`: a list of members that only grows
while the archive is open, is found unchanged after a close, and of which an
interrupted session leaves an intact first part, if anything; if that cannot be opened, it
is taken up when the file is appended to (`Salvage`). The refinement maps
the list to what would be found, payload included: the entries of
`filelist` while the archive is open, what can be read of the directory in the file when it is not.
`MemberBytes`: a read returns the bytes at the position and moves it past them, and
returns fewer than it was asked for only at the end; a seek, or a call that is
refused, only moves. The refinement maps the bytes to what is really in the
archive, the position to `tell()` between calls. `SingleWriter`: writers take turns,
a member is added by the writer whose turn it is and once, nobody gets a second
turn. The refinement maps the turn to the reservation. `CountedFile`: users of a file, which
may come as long as the archive is one of them; when none is left the file
is closed, once. The refinement maps the users to those whose reference has been taken and
not dropped. `MemberDelivery`: one
member after the other delivers all of its data to one file at once, or leaves
all files as they are. The refinement maps a file to the member it is of only if
it holds all of that member's data, and knows as whole only those that can be
read to the end.


## The runs

| Run | Question | Properties |
|---|---|---|
| `ArchiveFile` | On a file or a stream: do refused calls, failing headers and handles, short writes, a failing mkdir, a torn close, a crash anywhere, and data put in front of the file ever cost a committed member, or more than the member they happen to? Is what a damaged file still lists intact, does it stay so when the file is appended to, and is it found again? Does the coordinator say it is busy exactly while a handle is open? | `TypeOK`, `CommittedIntact`, `MembersDisjoint`, `ClosedArchiveParses`, `NoPhantomMembers`, `ReservationNamesAHandle`, `WritingNamesAHandle`, `CommittedNeverChanges`, `DamageIsContained`, `ImplementsContents` |
| `Writers` | Two threads with handles and one with `writestr`, headers and trailers that fail: do writers ever overlap? | `TypeOK`, `OneWriter`, `RegisteredOnce`, `MembersIntact`, `ImplementsTurns` |
| `Strings` | One group of threads (`OneGroup`) calls `writestr`, `mkdir` and archive close against a reader: is what is read what was asked for, and is every open writer visible? Another group closes each other's handles: does a late close move the coordinator? | `ReadsSeeTheirMember`, `WritingCoversStrings`, `StaleReservationsAreInert` |
| `CloseWaits` | Two threads close one handle and one of them the archive: does every call return, or wait only for a handle that a race has left `FINALIZING`? | `EveryCallReturns` |
| `ReaderStreams` | Threads that open, read and close each other's streams and the archive, with calls of `open` that raise or are interrupted: is the file open under every stream, and closed once and not leaked? | `TypeOK`, `StreamsHaveTheirFile`, `NoReferenceLeaks`, `ImplementsSharing` |
| `RoundTrip` | Members of every encryption, below, at and above the limits, written, listed, read, listed again, moved, and written with the ZipInfo of another archive, which may be of a shorter member: do the records say the truth, does the content come back, and nothing else? | `RecordsSpeakTrue`, `ContentComesBack`, `OnlyTheWrittenIsTrusted` |
| `ExtFile` | A member of any kind, sound or damaged, read, peeked into and sought in any order, refused by an open writer at any point: is it one sequence of bytes, and verified at its end? | `TypeOK`, `CrcCoversPrefix`, `EndMeansVerified`, `SoundMembersNeverFail`, `EveryTurnAdvances`, `ImplementsBytes` |
| `Extraction` | Archives that lie about sizes, fail, clash with each other or with the destination, have two entries of a name, extracted by names or by ZipInfos, under nine policies, with disks that fill up, a crash at any step and another program: what ends up on disk, and did inspection foretell it? | `TypeOK`, `DiskWithinLimit`, `NothingIsOverwritten`, `InspectionForetells`, `ImplementsDelivery` |
| `PathDirs` | A client walks an archive and writes to it in between: does it see the tree of the present entries, and can it reach each? Does `inject` complete the archive? | `ViewIsTheTree`, `EveryEntryIsReached`, `InjectedIsComplete` |
| `StaleCleanup`, `ReaderRace`, `TypedQuota` | The three deviations the documentation speaks of; TLC finds a counterexample to each | one property each |

`NoPhantomMembers` and `CommittedIntact` are the two that took most thought. A
crash during an append leaves the *old* end record in the file while new members
overwrite the *old* directory in front of it. It is the check that every record
between the directory's start and the end record is a directory record
(`Parses`) that saves the reader, and the invariant says that it always
does: if what is left parses, every member it lists can be opened. If it does not parse, the
next session in mode `a` still lists the records in front of the damage, and
`CommittedIntact` says that those are members too.
`ContentComesBack` is the one that found most: its three exceptions and two of the
guards it rests on (`sealed`) are under Known deviations.

### Bounds, and why they are enough

| Bound | Value | What it still allows |
|---|---|---|
| `Infos` | two files, one directory | two members at once, one of them failing, and a directory between them |
| `MaxHandles` | 2 | a handle after a failed one, a handle in the second session over the old directory |
| `MaxSessions` | 3, the third only as `MCThird` says: to append to what an interrupted session has left, when nothing failed before but handles | write, close or crash, append to what is left, close or crash again; the second session leaves a directory of which only the first records can be read, the third appends to it |
| `MaxPayload` | 1 | empty and non-empty members; every boundary between records is met |
| `DiskCells` | 9 | the longest archive these bounds give, plus one cell of prepended data; `Room` keeps handles from running into the end |
| `MaxStruck` | 2 | two kinds of fault meet, in either order, one of them any number of times; crashes and closes cut short do not count |
| `TailCells` | 9 | the search reaches the whole file (see Known deviations for a shorter reach) |
| threads | 2 or 3 (`Strings`: groups of 3 and 2) | two writers and a third party; the code treats threads alike, so a race needs two, or three with a waiter |
| `FileCells` | 8 or 9 | header and payload for every handle, a directory, the old member, the end records |
| `Content` | four bytes, `MinRead` 2, `MaxRead` 3, `MaxSeekRead` 2 | a read of raw data ends before, at and after the one for the decompressed bytes asked for, twice in a member; a seek takes two steps |
| `ReaderStreams` | 3 threads, 3 streams, one of the threads closes the archive (`Closers`) | a stream being opened, one being closed twice, and the archive being closed, at once; the theorems hold for any number |
| `RoundTrip`: `Zip64Limit`, `FieldMax`, `CountLimit` | 4, 6, 1 | every size, offset and count below, at and above the limit, at the sentinel and above it |
| … `Bodies`, `Hints`, `Slack` | four bodies, 0 and 4, 4 | bodies that compress, do not, and grow; hints that reserve a ZIP64 field or not; the estimate `file_size * 1.05` becomes one in `Slack` |
| … `MaxWrites`, `MaxSessions`, `TailCells` | 2, 3, 1 | written, listed and read, then appended to, or copied with the `ZipInfo` read back; an end record behind a comment |
| `MCNames`, `MCParts` | seven names, two parts | a file and a directory of one name, three levels, double and leading slashes |
| `PathDirs`: `MaxEntries`, `MaxParts`, `MaxSessions` | 3, 3, 2 | listings asked, written to, asked again; written in one session, read with caches in the next |
| `Requests`, `Targets` | 0-3 and 5; -1 to 5 | nothing, less and more than the buffer holds, more than there is; before, behind and at both ends |
| `MCEntries` | 39 members | every compression and encryption, with the end marker in its own unit or with the last bytes, a header unit; a changed byte, a stream cut or too long, a file cut short |
| `MCArchives` | 13 archives of two or three entries | entries of one name and different sizes or findings, two members with one target, a member whose target is what another is renamed to, a file where a directory is needed and the reverse, a directory behind its files, links and FIFOs and what comes after them, each way of ending a read first and in the middle |
| `MCPolicies` | the default scaled down (2 entries, 2 bytes a member, 3 in all), preview, skip, warn with replace and with rename; no limits with rename, replace and skip; no policy | each `OverwritePolicy` and `ViolationAction`, limits that are met exactly and crossed by the second and the third member |
| `MCInitial` | five destinations | empty, the target and its first other name taken, a directory with a file, a link inside and one that leads outside |
| `MCOthers` | four paths | another program takes a target, the name of a rename, a parent |

In `ExtFile` the client drops a member when a call has found damage (`Ready`): what
further calls return is under Known deviations.

`Files` and `Names`/`ThreeNames` are symmetries of ZipInfo objects and of handles:
no definition distinguishes two of them, and no run with a liveness property
uses them. Threads are not symmetric, because they make different calls; the streams of `ReaderStreams` are.
`CHECK_DEADLOCK FALSE` appears in every configuration: when handles and sessions
are used up, the client has nothing left to do, and stops. That no thread is
stuck in a call is what `EveryCallReturns` says.

### Fairness

`FairSpec` is used by `CloseWaits` only. `SF_vars(Step(t))`: a thread in a call
goes on as long as it can again and again; strong, because the lock it needs may
be taken and released in between, and CPython grants a contended lock
eventually. `SF_vars(… StartClose(t, h))`: the client closes the handles it was
given, which `with` blocks do; without that a closer of the archive may rightly
be refused, but nobody waits for it, as `ZipFile.close` waits only for a handle
that is being closed. In this run the handle is shared: its two closers may
both find it `ACTIVE`, one of them raises and leaves it `FINALIZING`, and who closes
it, or the archive, after that waits for ever (Known deviations).
`EveryCallReturns` says that a call returns or this state (`Abandoned`) has come about, and so that
no other order of waits and wake-ups loses one. Nothing else is fair: no thread has to start a call. That a call on a `ZipExtFile`
ends needs no fairness: `EveryTurnAdvances` says of each turn of a loop that it
uses up raw data, or delivers some, or is the last, and both are finite.


## The theorems

`WriterThreadsProofs` proves, for every number of threads, handles and
directories, every assignment of calls to threads and every set of faults:

| Theorem | Statement |
|---|---|
| `TypeCorrect` | `Spec => []TypeOK` |
| `WritersTakeTurns` | `Spec => []OneWriter` |
| `MembersRegisteredOnce` | `Spec => []RegisteredOnce` |
| `ThreadsTakeTurns` | `Spec => ImplementsTurns`: the coordinated threads implement `SingleWriter` |
| `StaleReservationsStayInert` | `Spec => StaleReservationsAreInert` |

All but the last assume `OwnHandles` (`SharedHandles = {}`: a handle is written to and closed by the thread that
opened it, as often as it likes): with shared handles `RegisteredOnce` is false, and TLC shows it (see
below). The last needs no such assumption: it is about what the coordinator itself
guarantees. `ThreadsAssumption` says only that the names of the model are
distinct and `Calls` and `Faults` have their types.

*The argument.* None of the properties is inductive: that two threads are never
between `reserve` and `commit` together does not follow from the program
counters. `IInv` ties them to the coordinator. `ReservationOK`: a thread at any
label between `reserve` and the end of the reservation holds it, and so does
every handle that `open` returned and nobody began to close. As there is one
reservation, `OneWriter` follows. To keep `ReservationOK` across a `close` one
must know how far the close has come (`StateOK`), that a thread works on its own
handle (`CurOK`, where `OwnHandles` is used), that a handle being opened is not
yet issued (`IssuedOK`), and that `mkdir` and readers, which also move things,
own the lock (`LockOK`). `FreshOK` adds what `RegisteredOnce` needs: a member
about to be registered is not in `filelist`. The proof has one lemma for each
group of actions (`Open…`, `Close…`, `ReadOrMkdir…`, `Archive…`, `Start…`) and each part
of the invariant (`…Types`, `…Control`, `…Fresh`); in each, one step per action.
`ThreadsTakeTurns` uses the invariant once more: `StepIsTurn` shows that a step
that changes the reservation, the set of made handles or `filelist` is a `Take`,
an `Add` or a `Give` of `SingleWriter`.

Its second half is about where `fp` is. It proves, with
`OwnHandles` and as generally otherwise:

| Theorem | Assumed | Statement |
|---|---|---|
| `MembersIntactIfTidy` | `Tidy` | `Spec => []MembersIntact` |
| `ReadersSeeTheirMember` | `NobodyOpens` | `Spec => []ReadsSeeTheirMember` |
| `WritingCoversStringsAlways` | nothing | `Spec => []WritingCoversStrings` |

`NobodyOpens`: all writing is done by `writestr`. `Tidy`: nobody calls `mkdir` or closes the archive,
and nobody reads unless `NobodyOpens`. Neither can go: `mkdir` lists a member before it
writes it; a reader that has passed its check moves `fp` under a writer (`ReaderRace`); and a
`writestr` that gets the lock while the archive is being closed is lost
(Known deviations).

*The argument.* `Locked`: a thread that never calls `open` keeps the lock from `reserve` to the end of its call,
and as long as its handle can be written to. So nobody else is between two operations on `fp` or unsets
`_writing` (`Covered`), and whatever is written goes behind the first member, which the readers read
(`OldKept`). Threads that do use `open` have no lock while they move `fp`; what protects them is that one handle is written
at a time (`Sole`, from `ReservationOK`). `Positions` then says, for each label, where `fp` and
`start_dir` are: at the end of the members listed when a header is to be written, behind what was written of the
handle while it is open (`Last`), and with `start_dir` moved behind it while its trailer
is written (`Passed`). A member is listed when all of it lies below `start_dir`.

`ReaderStreamsProofs` proves, for every number of threads and streams, with or
without interrupts:

| Theorem | Statement |
|---|---|
| `TypeCorrect` | `OneCloser => (Spec => []TypeOK)` |
| `StreamsKeepTheirFile` | `OneCloser => (Spec => []StreamsHaveTheirFile)` |
| `ReferencesAreReturned` | `OneCloser => (Spec => []NoReferenceLeaks)` |
| `SharedFileIsCounted` | `OneCloser => (Spec => ImplementsSharing)`: the streams implement `CountedFile` |

`OneCloser`: a build with the interpreter lock, and at most one thread that closes
an archive which can be written. Without the first, TLC finds a torn count; without
the second, two closers that both drop the archive's reference (Known deviations).

*The argument.* `ReferenceOK` is the heart of `IInv`: `_fileRefCnt` is the number of
users whose stage is between taken and dropped. It survives the load and store of
the count because only one thread is between two accesses that no call
separates, and what it loaded is still true (`AloneOK`). That each
user is in at most one call that takes or drops its reference (`StageOK`, `CallOK`,
`CloserOK`) makes a drop mean one user less. `LastOK` then says what is known once a
thread has seen the count at zero: no user is left, so none can come, and the
close it is about to make is the first; and when no user is left, the file is closed or
a thread is about to. There is one lemma for each action, with a
step for each part of `IInv`.

`ArchiveFileProofs` proves, for any
ZipInfos, any length of the file, and any bounds on handles, payloads, sessions and
faults:

| Theorem | Assumed | Statement |
|---|---|---|
| `ReservationNamesAHandleAlways` | nothing | `Spec => []ReservationNamesAHandle` |
| `WritingNamesAHandleAlways` | nothing | `Spec => []WritingNamesAHandle` |
| `CommittedNeverChangesUnlessReused` | no listed ZipInfo is written again (`"reuse"`) | `Spec => CommittedNeverChanges` |
| `TypeOKWhateverFails` | `Client = {}` | `Spec => []TypeOK` |
| `CommittedIntactWhateverFails` | `Client = {}` | `Spec => []CommittedIntact` |
| `MembersDisjointWhateverFails` | `Client = {}` | `Spec => []MembersDisjoint` |
| `ClosedArchiveParsesWhateverFails` | `Client = {}`, `TailCells >= DiskCells` | `Spec => []ClosedArchiveParses` |
| `NoPhantomMembersWhateverFails` | `Client = {}` | `Spec => []NoPhantomMembers` |
| `ImplementsContentsUninterrupted` | `Client = {}`, `Uninterrupted` | `Spec => ImplementsContents` |

`Client = {}` leaves out the three unusual clients and nothing else: every fault of the model, crashes and
a `close()` cut short at any record included, may happen in any number and order. Two of the clients must be left out, because the
properties are false with them (Known deviations); for data put in front of the archive the evidence is TLC's. `TailCells >=
DiskCells`, that the search for the end record reaches the whole file, is needed too: with a shorter
reach, what a failed handle leaves behind the end record hides it. `Uninterrupted` leaves out crashes and closes
cut short, and the lost payload and the failed directory, with which a member in the list cannot be read. With
crashes the refinement is only model-checked (`ArchiveFile`); what the proofs say of them is that
what is found can be opened, is intact and stays so, not that it is a first part of the list that was.

*The argument.* `Places` is inductive. `MembersPlaced` says of each member that it is
intact and lies below `start_dir` and before all members behind it in the list. A step keeps
that if it leaves the cells below `start_dir` alone (`Undisturbed`, `MembersStay`), and every
write does, since it goes to `WritePos`, to `pos` or into the handle's own header: that all
three are at or above `start_dir` is `PlacingOK` and, while a handle is open,
`WriterOK`, which also says that the payload written so far ends at `pos`. A member that joins begins at
or above `start_dir` (`MemberJoins`). For the archive to be found again one needs `Saved`:
unless it was modified since, the directory on the disk is the one in memory (`Own`). `close()`
makes it so (`DirectoryWritten`, `ClosedIsSaved`), because whatever end record a later search finds
is the one just written: what is behind it is truncated, or (`NoRecordsYet`) never held a
record.

After a crash the search finds an end record of an earlier session, or of this one behind half of its
records. So the invariant has to speak of every end record that is still on the disk, not of the last one only
(`Relics`). `Remains`: a record that would be read from it, in front of the first cell that is none (`Reached`), tells
the truth: its member is intact, below where the directory starts, behind the members of the records
before it, and has a name of its own. Members written later lie above `start_dir`, so they
can only harm the directories that end there, and those `Overtaken` describes: either the first record of such a directory
has been written over, so that nothing of it is read, or the directory starts where records go now, and what is left of its records is
what this session's `close()` would write in their place. This is why a directory whose first half is new and
whose second half is old still speaks of members that exist. With `Remains`, `OpenExisting` and `AppendAfterGarbage` establish
`MembersPlaced` for whatever they read (`EntriesSound`, `ReadBack`), `DiskAfterCut` and `ClosingRemains` say what a
`close()` leaves at each point, and `RelicsStep` that a step which writes at or above `start_dir` keeps `Relics`.

The least and the
greatest element of a set of addresses, which the file's length, the search for the end record
and `EndOffset` choose, exist by well-founded induction on intervals (`HasLeast`, `HasGreatest`). There is a
lemma for each action (`…Keeps`), with a step for each part of `Places`. For the refinement, `View` says
that what a reader finds is the list in memory, and each step is then one of
`ArchiveContents` or leaves that list alone.

The first three theorems of the table come from weaker types (`Loose`,
offsets may be any integers) and so need no assumption on faults.

`ExtractionProofs` proves, for any destination, archives, policies, faults and
other programs:

| Theorem | Assumed | Statement |
|---|---|---|
| `TypeOKAlways` | nothing | `Spec => []TypeOK` |
| `DiskWithinLimitAlways` | nothing | `Spec => []DiskWithinLimit` |
| `NothingIsOverwrittenAlways` | nothing | `Spec => []NothingIsOverwritten` |
| `ImplementsDeliveryAlways` | nothing | `Spec => ImplementsDelivery`: members are delivered whole or not at all |
| `InspectionForetellsIfSteady` | `Steady` | `Spec => []InspectionForetells` |

`ExtractionAssumption`, which TLC evaluates on the run, types the constants and
bounds three things: that a member never gives more than its header declares
(`TypeCorrect` of `ExtFileProofs`), that the files there at first are nobody's members, and that no link
points to a link; and that two entries of one name have one target. `Steady` is what the proof of `InspectionForetells` brought to light: the
property fails in two situations that the run's policies do not reach (Known deviations, the last two rows
about `Extraction`), and holds in all others.

*The argument.* `Shape` adds to the types which kind of member can be at which step, and that the
temporary file holds the chunks read so far. `Quota` says that what is in the
files made is covered by `written` where members are counted, and by the sum of the
sizes of the members gone through where `_assess_member` refuses what exceeds the limit by its headers; each
member leaves at most one file (`Whole`, `Safe`), so a file that takes another's place is not counted
twice. `Safe` says that under `Protects` the target of a member that is being made is nobody's
file, neither one that was there nor one of this call. For the refinement, `Whole` says that each file of
a member is as long as the member's data, and that the member's reading ended well. `Foresight`
says that targets and sizes so far are those of the inspection, that links are where they were and that what was
there still exists, so that each `Findings` is the inspection's or has `overwrite` besides. The
inspection meant there is that of what is extracted (`Rehearsal`). It says the same as
`Inspection`, which goes over `filelist`, of every entry that is not `Shadowed` by a later one of its name, because
entries of one name have one target; only the sums of sizes differ behind a shadowed one.

`ExtFileProofs` proves, for any members, sound or damaged in any way, whatever their content and however it is
cut into units, any sizes of reads and peeks, any seeks and any refusals by an open writer:

| Theorem | Assumed | Statement |
|---|---|---|
| `TypeCorrect` | nothing | `Spec => []TypeOK` |
| `CrcAlwaysCoversPrefix` | nothing | `Spec => []CrcCoversPrefix` |
| `EndIsVerifiedIfMacsAreHonest` | `HonestMacs` | `Spec => []EndMeansVerified` |
| `SoundMembersPassIfUnpadded` | `Unpadded` | `Spec => []SoundMembersNeverFail` |
| `EveryTurnAlwaysAdvances` | nothing | `Spec => []EveryTurnAdvances` |
| `MembersAreBytes` | nothing | `Spec => ImplementsBytes`: a member is one sequence of bytes with a position |

`ExtAssumption` types the constants; it also says that a stored member's units are single bytes and that
`MAX_N` (2^31 - 1 in the code) exceeds the member, because a `read(-1)` is taken to have asked for that many
bytes; longer members are not covered. `HonestMacs`: a member of the AE-2 kind has no CRC, so that nothing relates its
bytes to its ZipInfo but the HMAC, which must have been made for data that decompresses to what the
ZipInfo describes. `Unpadded`: nothing follows the end of a compressed stream; it excludes the padding of
Known deviations. TLC evaluates both on the run's members (`MembersAreOrdinary`). One thing was
wrong in the model until its proof was tried: `EveryTurnAdvances` did not count a turn that only takes a
unit without bytes from the decompressor's own input as progress. The code makes such
turns, and they end, because that input shrinks; the property says so now, and the run has such members (`Gap`).

*The argument.* `Inv` is `Types` and, until damage was found, `InStep`: every stage of the pipeline is at
the same place in the member. `RawInStep`: the raw stream, the decrypter and `_compress_left` are at
the same unit, so that what is decrypted is decrypted in its turn. `KeptFollows`: input and output
that the decompressor keeps are what follows the bytes it has given. `GivenIsKnown`:
buffer and CRC are the slices of the member (`Span`) that `_left` says. `EndIsReached`: `_eof` was set by a turn
whose check passed. `CallInStep`: what the call has gathered are the bytes from its beginning
to the position, and `need` is what is missing. `Decompressed` is what one call of a decompressor does, for any
input; `Turn` what one `_read1` does, for a stored and for a compressed member (`StoredTurn`,
`CompressedTurn`), and `TurnTaken` that a turn taken keeps `InStep`. There is a lemma for each action (`…Keeps`). For the
refinement, `Quiet`, `Moves`, `Reads`, `Peeks` and `Damages` say what a step may do to position, state of the
member and result; each step is one of these, and each of these is a step of `MemberBytes` or leaves it alone.

`RoundTripProofs` proves, for any limits of the records, any sizes of members before and after
compression, any hints and slack, any set of schemes, and any numbers of members, sessions and cells put in front:

| Theorem | Assumed | Statement |
|---|---|---|
| `RecordsAlwaysSpeakTrue` | nothing | `Spec => []RecordsSpeakTrue` |
| `ContentAlwaysComesBack` | nothing | `Spec => []ContentComesBack` |
| `TrustIsEarned` | nothing | `Spec => []OnlyTheWrittenIsTrusted` |

`RecordsAssumption` says of the limits that they are numbers and that `Zip64Limit` is below
`FieldMax`, as 2^31 - 1 and 2^32 - 1 are: a number that needs no ZIP64 field is never the sentinel.
`RoundTripAssumption` says that bodies are not empty, before and after compression. What `ContentComesBack` leaves out
(a ZipInfo used again with another scheme, a member not yet read back, and, in the session that writes it, one
that has outgrown the member its ZipInfo was read for) is in its statement, not
in an assumption: it is false without each (Known deviations).

*The argument.* It goes from one record to the archive. A directory record decodes to the
`ZipInfo` it was written from, up to what `_decodeExtra` changes (`Decoded`): the ZIP64 field has the numbers that
do not fit, in the order in which they are asked for (`FsizeAt`, `CsizeAt`, `OffAt`), whichever
of the three are there; the AES field gives back the method and the version
(`NumbersComeBack`, `LastAesCounts`, `DecodesBack`); an older ZIP64
field that the `ZipInfo` was read with is stripped before a new one is added. A whole directory splits into its records, because each fixed
part is known from the extra fields behind it (`DirectoryIsRead`). `Layout` is a complete
archive: members, a directory of `zs`, its end records, with any number of cells put in front of all
of it; reading one finds the end record whatever `TailCells` is, and the ZIP64 end record if there is
one (`EndIsFound`), and returns `zs` moved by what was put in front (`LayoutReads`).

`Inv` is inductive. `Below`: each member of `filelist` lies whole and below `start_dir` (`Member`: the local
record and its fields, the encryption header, the payload in order, the HMAC, the descriptor), its `ZipInfo` says so
(`InfoOK`), and nothing below `start_dir` can be taken for a record of the directory. `Session`: an open handle has its header at
`start_dir`, as its `ZipInfo` says it was written, and what goes with each mode. `Listed`: a file whose
`close()` returned, and one that was opened and not changed since, is a `Layout` of `ZipInfo`s that agree
with `filelist`, which is why reopening it establishes `Below` again, with the `ZipInfo`s of the reader. Whether the header has a ZIP64 field is decided at the opening, from a hint; `_validate_sizes`
(`SizesFit`) at the close refuses what has become too large for the header, and that is
all that makes `FinalInfoIs` true. There is a lemma for each action (`…Keeps`). `EndsInv` says the rest: in mode `a` an `_end_offset`
is none, or where the next member or the directory begins (`EndOffsetsAre`), so the check against it refuses nothing; in
mode `w` it may be that of any earlier archive.
`ReadOutcomes` then computes to what was written, because the frame a reader
takes for the member (`Frame`) has the header and the trailer of the scheme it was written with in all
cases but the two left out; and to an exception for a wrong password, because the first
check may pass but the CRC is that of the true content, or there is an HMAC.

`PathDirsProofs` proves, for any parts and names, however many of their parts are
empty, and any numbers of entries and sessions:

| Theorem | Assumed | Statement |
|---|---|---|
| `InjectionCompletesArchives` | nothing | `Spec => []InjectedIsComplete` |
| `PathsShowTheTree` | nothing | `Spec => []ViewIsTheTree` |
| `EntriesCanBeReached` | nothing | `Spec => []EveryEntryIsReached` |

*The argument.* `Inv` says that a cache is either not set or holds what would be computed
now (`CachesAreFresh`): only a `ZipFile` opened for reading gets the class that has
caches, which is decided once, by `make`, and nothing is written in that mode. The rest is about names. What
`_parents` goes through are the beginnings of a name that end in a part, so
the implied directories of a set of names are closed under the directory above, and
completing a completed set adds nothing. From the directory above, `joinpath`
gives the name back, with the slash that `resolve_dir` adds if there is no file of that name. The last part of a name that
is not empty exists as a greatest number below a bound (`GreatestIn`).

`FoldTheorems` holds the lemmas about two operators of the community modules, and about slices of
sequences. For `SumFunctionOnSet`, which the quotas need: the sum over no index, over one more, of two functions
that agree, of a part, and of the first n elements of a sequence. For `FlattenSeq`, which
joins the bytes of units: what it gives for no sequence, for one more behind, for two parts, for a part (`FlattenSlice`), and its type.
Both are a `CHOOSE` of a recursive function; that one exists is shown by minimal counterexample over the
number of elements (`SumsExist`, `JoinsExist`), and so is each other fact. `WalkExists` of `ExtractionProofs` does the same for
the loop of `inspect`.

*Only model-checked.* `ArchiveFile` with prepended data, its refinement to `ArchiveContents` with crashes and
closes cut short, and `DamageIsContained`;
and liveness, which is out of the prover's reach.


## Known deviations

Three of them are runs that TLC is expected to refute, because the repository's
own words speak about them (`findings` in `PROJECT.json`):

- **`StaleCleanup`**. `ZipWriteFile.close` commits, and only then clears `_writing`
  and `_active_writer` (`zipfile/write.py:228`), by which time they may be those of
  the handle another thread opened in between.
- **`ReaderRace`**. `_open_to_write` seeks `fp` without the lock and before `_writing`
  is set (`zipfile/file.py:1466`); a reader that has passed its check reads at the
  writer's position.
- **`TypedQuota`**. A regular file whose external attributes have a file type, as
  those have that `ZipFile.write` made, is charged 0 bytes (`zipfile/file.py:1743`; its
  `bytes_written` is 0 too). Under `on_violation=WARN`, where the declared sizes only
  warn, such members together exceed `max_total_uncompressed_size`, which is
  said to be enforced "against actual bytes written" (`src/README.md:248`).
  `DiskWithinLimit` is the limit with this case left out.

For the others no line of the repository promises otherwise, or the promise is a
matter of reading; the passing runs leave the fault or the client's choice out,
and the hazards say so. Each is reproduced by a configuration that differs from
the run named only in what the table says. (Constants not mentioned are as in the run;
`ArchiveFile` without faults and client choices is meant by *plain*.)

| What happens | From | Change | Violates |
|---|---|---|---|
| `open` for writing raises between `reserve()` and the `try` that gives the reservation back (`zipfile/file.py:1446`-`1494`): every later writer is refused, with no handle open | plain | `Faults = {"refuse"}` | `ReservationNamesAHandle` |
| a handle fails to close: the coordinator stays `FAILED`, and no further member can be added | plain | `Faults = {"final"}` | `ReservationNamesAHandle` |
| the local header cannot be written: `_writing` stays set (`zipfile/write.py:125`) and `close()` refuses until another handle was opened and closed | plain | `Faults = {"header"}` | `WritingNamesAHandle` |
| `fp.write` takes part of the payload, or raises after the sizes were counted (`zipfile/write.py:174`); `close` commits the member | plain | `Faults = {"short"}` | `CommittedIntact` |
| `mkdir` registers the directory before it writes the header (`zipfile/file.py:2405`) and the write raises | plain | `Faults = {"mkdir"}` | `CommittedIntact` |
| a stream that cannot be sought, after a handle that failed to close: `start_dir` is not where the directory goes (`zipfile/file.py:2478`) | plain | `Streams = {FALSE}`, `Faults = {"final"}` | `ClosedArchiveParses` |
| a handle fails to close in mode `w`: its bytes stay behind the end record and can push it out of the search (`zipfile/file.py:360`) | plain | `Faults = {"final"}`, `TailCells = 0`, `MaxPayload = 2` | `ClosedArchiveParses` |
| `mkdir` (`zipfile/file.py:2396`) asks neither the coordinator nor `_writing`: under an open handle it writes its header over the handle's, and the handle's close writes over the directory's | plain | `Client = {"mkdirWhileOpen"}` | `CommittedIntact` |
| a ZipInfo that is listed already is opened for writing again, which resets its offset and sizes (`zipfile/file.py:1448`) | plain | `Client = {"reuse"}` | `CommittedNeverChanges` |
| two threads close one handle: both register the member (`zipfile/write.py:207`) | `Strings` | `RegisteredOnce` as the invariant | `RegisteredOnce` |
| … and the one that comes late raises outside the `try` (`zipfile/write.py:209`): the handle stays `FINALIZING`, and a third close of it waits for ever | `CloseWaits` | `EveryCallReturns` without `Abandoned` | that |
| `mkdir`, or a `writestr` that waited, gets the lock between the end of the directory's write and the loss of `fp` (`zipfile/file.py:2450`) | `Strings` | `MembersIntact` as the invariant | `MembersIntact` |
| `ZipFile.close()` has seen `_writing` unset, a handle is opened, and loses its file (`zipfile/file.py:2433`), although `close()` raises "If a write handle is still open on the archive" (`:2428`) | `CloseWaits` | the invariant `~fpOpen => \A h \in issued : wState[h] # "ACTIVE"` | that |
| the count of references is raised and lowered without the lock (`zipfile/file.py:1337`, `:2537`), though streams are "thread-safe" (`zipfile/io_wrappers.py:10`): in a free-threaded build two threads load it before one stores | `ReaderStreams` | `Build = "free"` | `ImplementsSharing` |
| a stream whose constructor is interrupted after the count went up (`zipfile/file.py:1337`-`1344`) is never dropped | `ReaderStreams` | `NoReferenceLeaks` without `struck` | `NoReferenceLeaks` |
| two threads close an archive that can be written: both drop its reference | `ReaderStreams` | `Closers <- MCThreads` | `NoReferenceLeaks` |
| the `ZipInfo` of an AES member, written again with `encryption=None` ("`None` for a plaintext member", `src/README.md:196`) or ZipCrypto, keeps its AES field (`zipfile/info.py:533`): the new member cannot be read | `RoundTrip` | `ContentComesBack` without `truth[i].recast` | `ContentComesBack` |
| a member just written with ZipCrypto (no `_raw_time` yet) or with AES of the default version cannot be read in the same session | `RoundTrip` | `ContentComesBack` without `unfinished` | `ContentComesBack` |
| a `ZipInfo` read from an archive has an `_end_offset` (`zipfile/file.py:870`), the "Start of the next local header or central directory" (`zipfile/info.py:295`). `_open_to_write` resets the other fields that place a member (`:1448`-`:1467`), not this one: written with it into another archive, a member that is larger or lies further behind ends behind it, and reading it in the same session raises `BadZipFile`, "Overlapped entries" (`:1374`-`:1388`); opened anew the archive is sound | `RoundTrip` | `ContentComesBack` without `Outgrown(i)` | `ContentComesBack` |
| `allowZip64=False`, and the directory or an offset passes the limit: `close()` raises when the old directory is overwritten (`zipfile/file.py:2489`), and the archive is lost | `RoundTrip` | `sealed` set by `CloseTooLarge` | `RecordsSpeakTrue` |
| a seek in a stored member is refused by an open writer: the CRC has been given up already (`zipfile/ext.py:743`), and the member is read to its end unverified | `ExtFile` | `EndMeansVerified` with `skipped \subseteq {"refused seek"}` | that |
| the HMAC cannot be read, because a writer is open (`zipfile/ext.py:344`): the next read returns the end, unverified | `ExtFile` | the same with `"refused trailer"` | that |
| a read is refused after the buffer was dropped (`zipfile/ext.py:474`): the next one continues behind the bytes lost | `ExtFile` | `Move` of `MemberBytes` without the change of place | `ImplementsBytes` |
| an encrypted LZMA member with padding after its end marker: "Read it all so the HMAC covers the full compressed byte stream" (`zipfile/ext.py:331`) feeds it to a decompressor that has finished, which raises `EOFError` | `ExtFile` | the entry `Sound("lzma", "aes2", Append(Dense, [bytes \|-> <<>>, ends \|-> FALSE]))`, a read that takes one unit less (`MaxRead = 2`), and no `MembersAreOrdinary` | `SoundMembersNeverFail` |
| the last bytes of a compressed member, asked for exactly, are returned before the end of the stream is seen, and so before they are verified; so does a second read after one that raised `BadZipFile` return the end | `ExtFile` | `Len(last.bytes) <= last.asked` in `EndMeansVerified`; `Ready` without `~broken` | `EndMeansVerified` |
| reading a member raises `EOFError` or a codec's own error, which are not caught (`zipfile/file.py:1766`): the call ends without a result, later members are not extracted | `Extraction` | the invariant `pc = "raised" => policy.legacy` | that |
| a directory member listed behind one of its files is found to exist, and is refused as an overwrite though inspection found nothing (`zipfile/file.py:1894`) | `Extraction` | `Others = {}`, `found[k] = Inspection[k]` in `InspectionForetells` | that |
| `extractall` looks names up in `NameToInfo` (`zipfile/file.py:1599`, `:1627`), where the last entry of a name is, and so extracts that one for each of them, with or without a policy; `inspect` goes over `filelist` (`:949`). Two entries of one name are no error (`src/tests/unit/zipfile/test_inspection.py:14` writes `same.txt` twice). A finding in the earlier one is not found again, because that one is not extracted, and the sizes add up to something else | `Extraction` | `InspectionForetells` without `~Shadowed(k)` | `InspectionForetells` |
| a file that another program makes during the call is replaced or removed, whatever the policy says of overwriting | `Extraction` | the action property `Protects => \A p : fs[p] = SomeFile => fs'[p] = SomeFile` | that |
| a link or FIFO cannot be made after what it replaces was removed (`zipfile/file.py:2139`) | `Extraction` | `Faults = {"link"}`; the invariant `\A p : before[p].kind = "file" /\ fs[p].kind = "none" => pc = "link"` | that |
| … and, if violations are only warned of, a later member no longer finds there what `inspect` found | `Extraction` | `Faults = {"link"}`, `on = "warn"`, `overwrite = "error"`; a FIFO and then a file for an existing file | `InspectionForetells` |
| a link that dangles does not exist (`zipfile/file.py:2016`), so a member is renamed to its name and replaces it, and later members go to the link's own name, not where it led | `Extraction` | `overwrite = "rename"` with `rejectDuplicates`; `a` a file, `a.1` a link to nothing at `b`, members for `a`, `a.1` and `b` | `InspectionForetells` |

Three that need no configuration to be seen, and follow from definitions of
`PathDirs`. `inject` on an archive that was already wrapped writes nothing, because
`namelist` lists the implied directories as if they were there, although it is to "Write directory
entries for any directories implied by *zf*" (`zipfile/path/__init__.py:163`);
`injected` is history of the other case only. A name with a leading slash is no
child of any directory that `iterdir` reaches from the root (`Relative`, `Plain`). A `Path` that
was made for a name keeps it: when the name becomes an implied directory later, the `Path` still
asks for a file, and `exists` says no.

One more is excluded in the model itself: a `close()` cut short in an archive
that has data in front of it writes records with true offsets, which are
found through the old end record and shifted again. `CloseFails` has the
guard `~Prepended` for this reason; without it `NoPhantomMembers` fails.


## Not modelled

- *The bytes of records, compression, ciphers.* Arithmetic on long byte strings is
  beyond TLC, and known-answer tests serve it better. Payloads are serial
  numbers.
- *Text.* File-name encodings, dates, `repr`, names, suffixes and relative paths of
  a `Path`, glob translation (a pattern becomes a regular expression).
- *Compression registry.* A dictionary filled at import and looked up; the
  protocol of a decompressor (bounded output, input kept, the end) is in `ExtFile`.
- *Extraction.* Links to links and links that stand for a parent directory (that
  `_secure_mkdirs` refuses a link is modelled); permissions; member names of which
  nothing is left after cleaning; the moments at which names for RENAME run out
  (`NamesLeft`). Directories above a target are one level and made in one step.
  `assess()` and the lists in which `inspect` sums up its findings.
- *The file system underneath.* `fp` is an array with a position; writes are atomic
  per record except where an action tears them, and are not reordered (the code
  never syncs, so the operating system could; nothing in the code deals with it).
- *`wait_for_finalization`* of the coordinator: nothing in the package calls it. `ensure_readable`
  is called by `ZipFile.write` only (`zipfile/file.py:2264`), which then opens a handle or makes a directory; it changes
  nothing, and both are modelled for clients who did not ask (`StartOpen`, `StartMkdir`), so that its
  refusal takes behaviours away and adds none.
- *Package surface.* Re-exports, constants and exception classes: no state.


## Plan

Order: the most shared state first; each step is a component module, its MC
module and a run.

1. **ArchiveFile, WriterThreads, ExtFile, PolicyExtraction and what they extend or
   refine**: done, as above.
2. **ReaderStreams, ZipRecords and RoundTrip, PathDirs**: done, as above. `RoundTrip` took in what
   was planned as separate modules for the end record and for encryption: the
   hazards lie between the two.
3. The constructor of `ZipExtFile` and the refusals of `_open_to_read` (flags,
   password, names that differ) as actions of `ExtFile`.
4. **Proofs**: every invariant that a run checks is a theorem, for `ArchiveFile` with `Client = {}`.
   Left are the action property `DamageIsContained`; data in front of the archive; and `ImplementsContents` with
   crashes, for which `Relics` must also say that of two end records on the disk the directory of the
   one is a first part of the other's, or has been written over. All of these modules are free of `RECURSIVE`.

Components share runs where their questions allow it, so that the
set of runs stays small enough to be repeated on every change.
