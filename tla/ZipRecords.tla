----------------------------- MODULE ZipRecords -----------------------------
(***************************************************************************)
(* How the numbers of an archive travel through its records and back: the  *)
(* local header, the central directory record and the extra fields of a    *)
(* ZipInfo (zipfile/info.py), the end records and the search for them      *)
(* (zipfile/file.py).  A narrow field holds a number up to FieldMax, which *)
(* itself means "look in the ZIP64 field".  A file is a sequence of cells: *)
(* one for a record and one for each extra field of it.                    *)
(***************************************************************************)
EXTENDS Integers, Sequences, SequencesExt

CONSTANTS
    Zip64Limit,  \* ZIP64_LIMIT
    FieldMax,    \* 0xFFFFFFFF, the sentinel of a narrow field
    CountLimit,  \* ZIP_FILECOUNT_LIMIT, which is also the sentinel 0xFFFF
    TailCells    \* ZIP_MAX_COMMENT: how far from the end one looks

ASSUME RecordsAssumption ==
    /\ {Zip64Limit, FieldMax, CountLimit, TailCells} \subseteq Nat
    /\ Zip64Limit < FieldMax

(* Compression methods: the member's own, and the one that stands for AES. *)
Method == "deflated"
AesMethod == "WZ_AES_COMPRESS_TYPE"

(* The ZipInfo of a new member; version 0 is None, bad is BadZipFile raised *)
(* by a decoder, raw says that _raw_time has a value.                       *)
NewInfo == [enc |-> FALSE, dd |-> FALSE, ctype |-> Method, crc |-> 0,
            csize |-> 0, fsize |-> 0, off |-> 0, extra |-> <<>>,
            vendor |-> FALSE, version |-> 0, raw |-> FALSE, bad |-> FALSE]

Zip64Field(vs) == [id |-> "zip64", values |-> vs]
AesField(v, c) == [id |-> "aes", version |-> v, ctype |-> c]
Rest(n) == [k \in 1 .. n |-> [kind |-> "rest"]]

-----------------------------------------------------------------------------
(* Writing records                                                          *)

(* The sizes in a local header, and its ZIP64 field.                        *)
Zip64Local(zip64, fsize, csize) ==
    LET needs == fsize > Zip64Limit \/ csize > Zip64Limit
    IN  [fsize |-> IF needs THEN FieldMax ELSE fsize,
         csize |-> IF needs THEN FieldMax ELSE csize,
         extra |-> IF zip64 THEN <<Zip64Field(<<fsize, csize>>)>> ELSE <<>>]

(* Mutant: AE-1 gives up its CRC as AE-2 does.                              *)
EncodeExtraWithoutCrc(z, crc) ==
    IF z.vendor
    THEN LET v == IF z.version = 0 THEN 2 ELSE z.version
         IN  [extra |-> <<AesField(v, z.ctype)>>, crc |-> 0, ctype |-> AesMethod]
    ELSE [extra |-> <<>>, crc |-> crc, ctype |-> z.ctype]

(* encode_extra: the AES field hides the method, and AE-2 the CRC.          *)
EncodeExtra(z, crc) ==
    IF z.vendor
    THEN LET v == IF z.version = 0 THEN 2 ELSE z.version
         IN  [extra |-> <<AesField(v, z.ctype)>>,
              crc |-> IF v = 2 THEN 0 ELSE crc, ctype |-> AesMethod]
    ELSE [extra |-> <<>>, crc |-> crc, ctype |-> z.ctype]

(* FileHeader: with a data descriptor to come, CRC and sizes are 0.  The   *)
(* extra field the ZipInfo was read with is not repeated here.              *)
FileHeader(z, zip64) ==
    LET sizes == IF z.dd THEN Zip64Local(zip64, 0, 0)
                 ELSE Zip64Local(zip64, z.fsize, z.csize)
        aes == EncodeExtra(z, IF z.dd THEN 0 ELSE z.crc)
        extra == sizes.extra \o aes.extra
    IN  <<[kind |-> "local", dd |-> z.dd, fsize |-> sizes.fsize,
           csize |-> sizes.csize, crc |-> aes.crc, extra |-> extra]>>
        \o Rest(Len(extra))

(* data_descriptor: wide or narrow as the local header has a ZIP64 field.  *)
Descriptor(z, zip64) ==
    [kind |-> "desc", wide |-> zip64, fsize |-> z.fsize, csize |-> z.csize]

IsWide(n) == n > Zip64Limit
Narrow(n) == IF IsWide(n) THEN FieldMax ELSE n

Wide(n) == IF IsWide(n) THEN <<n>> ELSE <<>>

(* Mutant: the ZIP64 field has the offset in front of the sizes.            *)
WideNumbersOffsetFirst(z) == Wide(z.off) \o Wide(z.fsize) \o Wide(z.csize)

(* The numbers of a directory record that go to its ZIP64 field, in order. *)
WideNumbers(z) == Wide(z.fsize) \o Wide(z.csize) \o Wide(z.off)

(* _Extra.strip: an extra field without its ZIP64 part.                     *)
Stripped(extra) ==
    FlattenSeq([k \in DOMAIN extra |->
                   IF extra[k].id = "zip64" THEN <<>> ELSE <<extra[k]>>])

(* central_directory: the extra fields the ZipInfo was read with are kept, *)
(* but for the ZIP64 field, and an AES field is added after them.           *)
CentralDirectory(z) ==
    LET zip64 == IF WideNumbers(z) = <<>> THEN <<>>
                 ELSE <<Zip64Field(WideNumbers(z))>>
        aes == EncodeExtra(z, z.crc)
        extra == zip64 \o Stripped(z.extra) \o aes.extra
    IN  <<[kind |-> "central", enc |-> z.enc, dd |-> z.dd,
           fsize |-> Narrow(z.fsize), csize |-> Narrow(z.csize),
           off |-> Narrow(z.off), crc |-> aes.crc, ctype |-> aes.ctype,
           extra |-> extra]>>
        \o Rest(Len(extra))

DirectoryCells(zs) == FlattenSeq([i \in DOMAIN zs |-> CentralDirectory(zs[i])])

(* _write_end_record needs ZIP64 for what a narrow field cannot say.        *)
EndNeedsZip64(count, size, off) ==
    count > CountLimit \/ off > Zip64Limit \/ size > Zip64Limit

EndRecords(count, size, off) ==
    LET least(a, b) == IF a < b THEN a ELSE b
    IN  (IF EndNeedsZip64(count, size, off)
         THEN <<[kind |-> "end64", count |-> count, size |-> size, off |-> off],
                [kind |-> "locator", at |-> off + size]>>
         ELSE <<>>)
        \o <<[kind |-> "end", count |-> least(count, CountLimit),
              size |-> least(size, FieldMax), off |-> least(off, FieldMax)]>>

-----------------------------------------------------------------------------
(* Reading records                                                          *)

(* The values of the ZIP64 field belong to the fields that hold the        *)
(* sentinel, in order.                                                      *)
DecodeZip64(z, values) ==
    LET f == IF z.fsize = FieldMax THEN 1 ELSE 0
        c == IF z.csize = FieldMax THEN f + 1 ELSE f
        o == IF z.off = FieldMax THEN c + 1 ELSE c
    IN  IF o > Len(values) THEN [z EXCEPT !.bad = TRUE]
        ELSE [z EXCEPT !.fsize = IF f > 0 THEN values[f] ELSE @,
                       !.csize = IF c > f THEN values[c] ELSE @,
                       !.off = IF o > c THEN values[o] ELSE @]

DecodeAes(z, x) ==
    [z EXCEPT !.vendor = TRUE, !.version = x.version, !.ctype = x.ctype]

DecodeField(z, x) ==
    IF x.id = "zip64" THEN DecodeZip64(z, x.values) ELSE DecodeAes(z, x)

(* _decodeExtra: one field after the other, a later one overrides.          *)
DecodeExtra(z) ==
    LET decoded[n \in 0 .. Len(z.extra)] ==
            IF n = 0 THEN z ELSE DecodeField(decoded[n - 1], z.extra[n])
    IN  decoded[Len(z.extra)]

(* One turn of the loop in _RealGetContents.                                *)
ReadRecord(c, concat) ==
    LET z == DecodeExtra([NewInfo EXCEPT
                 !.enc = c.enc, !.dd = c.dd, !.ctype = c.ctype, !.crc = c.crc,
                 !.csize = c.csize, !.fsize = c.fsize, !.off = c.off,
                 !.extra = c.extra, !.raw = TRUE])
    IN  [z EXCEPT !.off = @ + concat]

NotAZip == [size |-> -1, off |-> -1, location |-> -1]

(* _EndRecData64: the ZIP64 end record is where the locator says, or, in a *)
(* file that has grown at the front, right before the locator.              *)
EndRecData64(d, e) ==
    LET at == e - 2
        reloff == d[e].at
        start == IF d[reloff + 1].kind = "end64" THEN reloff ELSE at
        rec == d[start + 1]
    IN  IF /\ reloff <= at /\ start = at
           /\ rec.kind = "end64"
           /\ rec.off + rec.size = reloff
        THEN [size |-> rec.size, off |-> rec.off, location |-> at]
        ELSE NotAZip

(* _EndRecData: the last end record, no further from the end than TailCells.     *)
EndRecData(d) ==
    LET ends == {e \in DOMAIN d : d[e].kind = "end" /\ Len(d) - e <= TailCells}
    IN  IF ends = {} THEN NotAZip
        ELSE LET e == CHOOSE x \in ends : \A y \in ends : y <= x
             IN  IF e > 2 /\ d[e - 1].kind = "locator"
                 THEN EndRecData64(d, e - 1)
                 ELSE [size |-> d[e].size, off |-> d[e].off, location |-> e - 1]

(* Where the directory starts, and what that says of data in front.         *)
StartDir(end) == end.location - end.size
Concat(end) == StartDir(end) - end.off

(* The fixed parts of the records of a directory.                           *)
CentralOnly(cells) ==
    FlattenSeq([k \in DOMAIN cells |->
                   IF cells[k].kind = "central" THEN <<cells[k]>> ELSE <<>>])

DirectoryAt(d, end) ==
    CentralOnly(SubSeq(d, StartDir(end) + 1, StartDir(end) + end.size))

(* _RealGetContents                                                         *)
GetContents(d) ==
    LET end == EndRecData(d)
        cells == DirectoryAt(d, end)
    IN  [i \in DOMAIN cells |-> ReadRecord(cells[i], Concat(end))]

(* Where every member must end: at the next local header in the file, the  *)
(* last one at the directory.                                               *)
EndOffsets(zs, start) ==
    LET behind(i) == {zs[j].off : j \in {k \in DOMAIN zs :
                         \/ zs[k].off > zs[i].off
                         \/ zs[k].off = zs[i].off /\ k > i}}
    IN  [i \in DOMAIN zs |-> IF behind(i) = {} THEN start ELSE Min(behind(i))]

CanBeRead(d) ==
    LET end == EndRecData(d)
        zs == GetContents(d)
    IN  /\ end # NotAZip /\ StartDir(end) >= 0
        /\ \A p \in StartDir(end) + 1 .. StartDir(end) + end.size :
              d[p].kind \in {"central", "rest"}
        /\ \A i \in DOMAIN zs : ~zs[i].bad
=============================================================================
