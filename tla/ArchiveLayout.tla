---------------------------- MODULE ArchiveLayout ----------------------------
(***************************************************************************)
(* What the bytes of a ZIP file mean, at the grain the archive code keeps: *)
(* a file is an array of CELLS, one cell per record the code writes in one *)
(* piece (a local header, a chunk of payload, a data descriptor, one       *)
(* central directory record, the end record).  The operators say how a     *)
(* record is laid down and how ZipFile._RealGetContents reads the          *)
(* directory of a file back.                                               *)
(***************************************************************************)
EXTENDS Integers, Sequences, FiniteSets

CONSTANTS
    Infos,      \* ZipInfo objects; an object stands for its member name too
    DiskCells,  \* bound: length of the longest file
    TailCells   \* cells the search for the end record reaches back over

ASSUME LayoutAssumption ==
    /\ DiskCells \in Nat \ {0}
    /\ TailCells \in Nat

Addr == 0 .. (DiskCells - 1)

-----------------------------------------------------------------------------
(* Cells.  A checksum identifies a payload: 0 for the empty payload of a   *)
(* directory, and the serial number of the write handle that produced it.  *)

Hole == [kind |-> "hole"]      \* past the end of the file
Junk == [kind |-> "junk"]      \* the remains of a write that failed
Stub == [kind |-> "stub"]      \* what another program put before the archive

LocalHeader(i, crc) == [kind |-> "lfh", name |-> i, crc |-> crc]
Payload(crc)        == [kind |-> "data", crc |-> crc]
Descriptor(crc)     == [kind |-> "desc", crc |-> crc]
CentralRecord(i, z) == [kind |-> "cd", name |-> i, meta |-> z]
EndRecord(n, off)   == [kind |-> "eocd", size |-> n, off |-> off]

(* The fields of a ZipInfo that place and check its member: header_offset, *)
(* compress_size, CRC and use_data_descriptor.                             *)
Meta == [off : Nat, size : Nat, crc : Nat, dd : BOOLEAN]

Cell == {Hole, Junk, Stub}
        \cup [kind : {"lfh"}, name : Infos, crc : Nat]
        \cup [kind : {"data", "desc"}, crc : Nat]
        \cup [kind : {"cd"}, name : Infos, meta : Meta]
        \cup [kind : {"eocd"}, size : Nat, off : Nat]

(* The first cell after the member described by z.                          *)
EndOf(z) == z.off + 1 + z.size + (IF z.dd THEN 1 ELSE 0)

(* d after the cells s are written at position p.                           *)
Put(d, p, s) ==
    [a \in DOMAIN d |-> IF p <= a /\ a < p + Len(s) THEN s[a - p + 1] ELSE d[a]]

(* d after truncate() at position p.                                        *)
Truncate(d, p) == [a \in DOMAIN d |-> IF p <= a THEN Hole ELSE d[a]]

(* The member that z describes is on the disk: header, payload, trailer.    *)
Intact(d, i, z) ==
    /\ d[z.off] = LocalHeader(i, IF z.dd THEN 0 ELSE z.crc)
    /\ \A a \in (z.off + 1) .. (z.off + z.size) : d[a] = Payload(z.crc)
    /\ z.dd => d[z.off + z.size + 1] = Descriptor(z.crc)

-----------------------------------------------------------------------------
(* Reading the directory of a file.                                         *)

MaxOf(S) == CHOOSE x \in S : \A y \in S : y <= x
MinOf(S) == CHOOSE x \in S : \A y \in S : x <= y

FileLength(d) ==
    CHOOSE n \in 0 .. DiskCells :
        /\ n > 0 => d[n - 1] # Hole
        /\ \A a \in n .. (DiskCells - 1) : d[a] = Hole

(* The end record may be followed by a comment, so the last one is searched *)
(* for from the end of the file, but no further than the longest comment   *)
(* goes.                                                                   *)
IsEndRecord(d, e) ==
    /\ d[e].kind = "eocd"
    /\ \A a \in (e + 1) .. (DiskCells - 1) : d[a].kind # "eocd"
    /\ e + 1 + TailCells >= FileLength(d)
LastEndRecord(d) == CHOOSE e \in DOMAIN d : IsEndRecord(d, e)

(* Where the directory starts, and how far the archive is shifted by data  *)
(* put in front of it.                                                     *)
DirectoryStart(d) == LET e == LastEndRecord(d) IN e - d[e].size
Shift(d) == DirectoryStart(d) - d[LastEndRecord(d)].off

Parses(d) ==
    \E e \in DOMAIN d :
        /\ IsEndRecord(d, e)
        /\ e - d[e].size >= 0
        /\ \A a \in (e - d[e].size) .. (e - 1) : d[a].kind = "cd"

(* An end record is found, and its directory would not begin before the     *)
(* file: records are then read, up to the first cell that is none.          *)
HasDirectory(d) == \E e \in DOMAIN d : IsEndRecord(d, e) /\ e - d[e].size >= 0
RecordsBefore(d, e) ==
    LET start == e - d[e].size
    IN  MaxOf({0} \cup {n \in 1 .. d[e].size :
                  \A a \in start .. (start + n - 1) : d[a].kind = "cd"})

(* Mutant: the offsets are taken from the records as they are.              *)
UnshiftedEntry(d, k) ==
    LET rec == d[DirectoryStart(d) + k - 1]
    IN  [name |-> rec.name, meta |-> rec.meta]

(* What the k-th directory record says, its offset adjusted.                *)
Entry(d, k) ==
    LET rec == d[DirectoryStart(d) + k - 1]
    IN  [name |-> rec.name, meta |-> [rec.meta EXCEPT !.off = @ + Shift(d)]]

(* The entries that are read of a file: all, if it parses; the first ones,  *)
(* up to the record that raises BadZipFile, if it does not.                 *)
Directory(d) ==
    IF HasDirectory(d)
    THEN [k \in 1 .. RecordsBefore(d, LastEndRecord(d)) |-> Entry(d, k)]
    ELSE <<>>

(* _end_offset of the k-th directory record: where the member that follows *)
(* it in the file begins (ties in directory order), or the directory.      *)
EndOffset(dir, start, k) ==
    MinOf({start} \cup
          {dir[j].meta.off : j \in {m \in DOMAIN dir :
              \/ dir[m].meta.off > dir[k].meta.off
              \/ dir[m].meta.off = dir[k].meta.off /\ m > k}})

(* Opening the k-th member of a parsed file for reading finds its header,  *)
(* does not run into the next member, and its payload checks.              *)
Opens(d, dir, start, k) ==
    /\ Intact(d, dir[k].name, dir[k].meta)
    /\ dir[k].meta.off + 1 + dir[k].meta.size <= EndOffset(dir, start, k)
=============================================================================
