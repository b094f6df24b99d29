-------------------------- MODULE ArchiveFileProofs --------------------------
(***************************************************************************)
(* Proofs about ArchiveFile, for any ZipInfos, lengths of files, numbers   *)
(* of handles and sessions, and any faults that a theorem does not exclude.*)
(***************************************************************************)
EXTENDS ArchiveFile, FiniteSetTheorems, SequenceTheorems, WellFoundedInduction, TLAPS

-----------------------------------------------------------------------------
(* Numbers and sequences                                                    *)

(* The prefixes 0 .. x of a bounded set are well-founded under inclusion,   *)
(* and so the numbers x are under the order.                                *)
LEMMA HasLeast ==
    ASSUME NEW S, S \subseteq Nat, S # {}
    PROVE  \E x \in S : \A y \in S : x <= y
<1>1. PICK n \in S : TRUE
  OBVIOUS
<1> DEFINE U == 0 .. n
           T == {0 .. x : x \in S \cap U}
           R == StrictSubsetOrdering(U)
<1>2. IsFiniteSet(U)
  BY <1>1, FS_Interval
<1>3. IsWellFoundedOn(R, SUBSET U)
  <2> HIDE DEF U
  <2>1. FiniteSubsetsOf(U) = SUBSET U
    BY <1>2, FS_FiniteSubsetsOfFinite
  <2> QED BY <2>1, FS_StrictSubsetOrderingWellFounded
<1>4. T \subseteq SUBSET U /\ T # {}
  BY <1>1
<1>5. PICK m \in T : \A k \in T : <<k, m>> \notin R
  <2> HIDE DEF R, T, U
  <2> QED BY <1>3, <1>4, WFMin
<1>6. PICK x \in S \cap U : m = 0 .. x
  OBVIOUS
<1>7. ASSUME NEW y \in S, y < x PROVE FALSE
  <2>1. y \in U /\ (0 .. y) \in T
    BY <1>1, <1>6, <1>7
  <2>2. 0 .. y \subseteq 0 .. x
    BY <1>6, <1>7
  <2>3. x \in 0 .. x /\ x \notin 0 .. y
    BY <1>6, <1>7
  <2>4. <<0 .. y, m>> \in R
    <3> HIDE DEF T, U
    <3>1. m \in SUBSET U /\ 0 .. y \in SUBSET U
      BY <1>4, <2>1
    <3> QED BY <3>1, <1>6, <2>2, <2>3 DEF StrictSubsetOrdering
  <2> QED BY <2>1, <2>4, <1>5
<1> QED BY <1>6, <1>7

LEMMA HasGreatest ==
    ASSUME NEW S, S \subseteq Nat, S # {}, NEW b \in Nat, \A x \in S : x <= b
    PROVE  \E x \in S : \A y \in S : y <= x
<1> DEFINE T == {b - x : x \in S}
<1>1. T \subseteq Nat /\ T # {}
  <2>1. ASSUME NEW x \in S PROVE b - x \in Nat
    <3>1. x \in Nat /\ x <= b
      OBVIOUS
    <3> QED BY <3>1
  <2> QED BY <2>1
<1>2. PICK t \in T : \A u \in T : t <= u
  <2> HIDE DEF T
  <2> QED BY <1>1, HasLeast
<1>3. PICK x \in S : t = b - x
  OBVIOUS
<1>4. ASSUME NEW y \in S PROVE y <= x
  <2>1. b - y \in T
    OBVIOUS
  <2>2. b - x <= b - y
    BY <2>1, <1>2, <1>3
  <2>3. x \in Nat /\ y \in Nat
    OBVIOUS
  <2> HIDE DEF T
  <2> QED BY <2>2, <2>3
<1> QED BY <1>3, <1>4

LEMMA Index ==
    ASSUME NEW x \in Int, NEW d \in Int, NEW m \in Int, d <= x, x <= d + m - 1
    PROVE  x - d + 1 \in 1 .. m /\ d + (x - d + 1) - 1 = x
OBVIOUS

LEMMA SameInterval ==
    ASSUME NEW m \in Nat, NEW n \in Nat, 1 .. m = 1 .. n
    PROVE  m = n
<1>1. \A j \in Nat \ {0} : j <= m <=> j <= n
  OBVIOUS
<1>2. m <= n /\ n <= m
  BY <1>1
<1> QED BY <1>2

LEMMA FileLengthType ==
    ASSUME NEW d
    PROVE  /\ FileLength(d) \in 0 .. DiskCells
           /\ \A a \in FileLength(d) .. (DiskCells - 1) : d[a] = Hole
<1> DEFINE S == {n \in 1 .. DiskCells : d[n - 1] # Hole}
           OK(n) == /\ n > 0 => d[n - 1] # Hole
                    /\ \A a \in n .. (DiskCells - 1) : d[a] = Hole
<1> USE LayoutAssumption
<1>1. CASE S = {}
  <2>1. \A a \in 0 .. (DiskCells - 1) : d[a] = Hole
    <3> TAKE a \in 0 .. (DiskCells - 1)
    <3>1. a + 1 \in 1 .. DiskCells /\ (a + 1) - 1 = a
      OBVIOUS
    <3> QED BY <3>1, <1>1
  <2>2. OK(0) /\ 0 \in 0 .. DiskCells
    BY <2>1
  <2> QED BY <2>2 DEF FileLength
<1>2. CASE S # {}
  <2>1. PICK n \in S : \A m \in S : m <= n
    <3>1. S \subseteq Nat /\ \A m \in S : m <= DiskCells
      OBVIOUS
    <3> HIDE DEF S
    <3> QED BY <1>2, <3>1, HasGreatest
  <2>2. ASSUME NEW a \in n .. (DiskCells - 1) PROVE d[a] = Hole
    <3>1. a + 1 \in 1 .. DiskCells /\ (a + 1) - 1 = a /\ a + 1 > n
      OBVIOUS
    <3> QED BY <3>1, <2>1
  <2>3. OK(n) /\ n \in 0 .. DiskCells
    BY <2>2
  <2> QED BY <2>3 DEF FileLength
<1> QED BY <1>1, <1>2

-----------------------------------------------------------------------------
(* Cells.  A start_dir behind fp, or a record with a negative offset, is    *)
(* not excluded here: that these do not come about depends on the sessions. *)

LooseMeta == [off : Int, size : Nat, crc : Nat, dd : BOOLEAN]
LooseCell == {Hole, Junk, Stub}
             \cup [kind : {"lfh"}, name : Infos, crc : Nat]
             \cup [kind : {"data", "desc"}, crc : Nat]
             \cup [kind : {"cd"}, name : Infos, meta : LooseMeta]
             \cup [kind : {"eocd"}, size : Int, off : Int]
LooseDisk == [Addr -> LooseCell]

LEMMA CellFields ==
    ASSUME NEW c \in LooseCell
    PROVE  /\ c.kind = "cd" => c.name \in Infos /\ c.meta \in LooseMeta
           /\ c.kind = "eocd" => c.size \in Int /\ c.off \in Int
BY DEF LooseCell, Hole, Junk, Stub

LEMMA CellTypes ==
    /\ Hole \in LooseCell /\ Junk \in LooseCell /\ Stub \in LooseCell
    /\ \A i \in Infos, c \in Nat : LocalHeader(i, c) \in LooseCell
    /\ \A c \in Nat : Payload(c) \in LooseCell /\ Descriptor(c) \in LooseCell
    /\ \A i \in Infos, z \in LooseMeta : CentralRecord(i, z) \in LooseCell
    /\ \A n \in Int, o \in Int : EndRecord(n, o) \in LooseCell
BY DEF LooseCell, LocalHeader, Payload, Descriptor, CentralRecord, EndRecord

LEMMA PutType ==
    ASSUME NEW C, NEW d \in [Addr -> C], NEW p \in Int, NEW s \in Seq(C)
    PROVE  Put(d, p, s) \in [Addr -> C]
<1> SUFFICES ASSUME NEW a \in Addr, p <= a, a < p + Len(s)
             PROVE  s[a - p + 1] \in C
  BY DEF Put
<1>1. a - p + 1 \in 1 .. Len(s)
  BY DEF Addr
<1> QED BY <1>1

LEMMA PutOneType ==
    ASSUME NEW C, NEW d \in [Addr -> C], NEW p \in Int, NEW c \in C
    PROVE  Put(d, p, <<c>>) \in [Addr -> C]
<1>1. <<c>> \in Seq(C)
  OBVIOUS
<1> QED BY <1>1, PutType

LEMMA TruncateType ==
    ASSUME NEW C, NEW d \in [Addr -> C], NEW p \in Int, Hole \in C
    PROVE  Truncate(d, p) \in [Addr -> C]
BY DEF Truncate

LEMMA GreatestIn ==
    ASSUME NEW n \in Nat, NEW ks, ks \subseteq 1 .. n, ks # {}
    PROVE  MaxOf(ks) \in ks
<1>1. ks \subseteq Nat /\ \A x \in ks : x <= n
  OBVIOUS
<1>2. PICK x \in ks : \A y \in ks : y <= x
  BY <1>1, HasGreatest
<1> QED BY <1>2 DEF MaxOf

(* The end record found is the only one there is to be found.               *)
LEMMA EndRecordFound ==
    ASSUME NEW d \in LooseDisk, HasDirectory(d)
    PROVE  LET e == LastEndRecord(d)
           IN  /\ e \in Addr /\ IsEndRecord(d, e)
               /\ \A f \in Addr : IsEndRecord(d, f) => f = e
               /\ d[e].kind = "eocd" /\ d[e].size \in Int /\ d[e].off \in Int
               /\ e - d[e].size >= 0
<1>1. PICK e \in DOMAIN d : IsEndRecord(d, e) /\ e - d[e].size >= 0
  BY DEF HasDirectory
<1>2. DOMAIN d = Addr
  BY DEF LooseDisk
<1>3. ASSUME NEW f \in DOMAIN d, IsEndRecord(d, f) PROVE f = e
  <2> e \in Int /\ f \in Int /\ e \in 0 .. (DiskCells - 1) /\ f \in 0 .. (DiskCells - 1)
    BY <1>2 DEF Addr
  <2>1. ~ f < e
    BY <1>1, <1>3, LayoutAssumption DEF IsEndRecord
  <2>2. ~ e < f
    BY <1>1, <1>3, LayoutAssumption DEF IsEndRecord
  <2> QED BY <2>1, <2>2
<1>4. LastEndRecord(d) = e
  BY <1>1, <1>3 DEF LastEndRecord
<1>5. d[e].kind = "eocd" /\ d[e] \in LooseCell
  BY <1>1, <1>2 DEF IsEndRecord, LooseDisk
<1>6. d[e].size \in Int /\ d[e].off \in Int
  BY <1>5, CellFields
<1> QED BY <1>1, <1>2, <1>3, <1>4, <1>5, <1>6

(* A file that parses holds all the records its end record announces.       *)
LEMMA WholeDirectory ==
    ASSUME NEW d \in LooseDisk, Parses(d)
    PROVE  LET e == LastEndRecord(d)
           IN  /\ HasDirectory(d)
               /\ \A a \in (e - d[e].size) .. (e - 1) : d[a].kind = "cd"
<1>1. PICK e \in DOMAIN d :
          /\ IsEndRecord(d, e)
          /\ e - d[e].size >= 0
          /\ \A a \in (e - d[e].size) .. (e - 1) : d[a].kind = "cd"
  BY DEF Parses
<1>2. HasDirectory(d)
  BY <1>1 DEF HasDirectory
<1>3. e = LastEndRecord(d)
  BY <1>1, <1>2, EndRecordFound DEF LooseDisk
<1> QED BY <1>1, <1>2, <1>3

(* As many records are read as there are without a gap.                     *)
LEMMA RecordsCounted ==
    ASSUME NEW d, NEW e \in Int, d[e].size \in Int
    PROVE  LET n == RecordsBefore(d, e)
               s == e - d[e].size
           IN  /\ n \in Nat /\ (n > 0 => n <= d[e].size)
               /\ \A a \in s .. (s + n - 1) : d[a].kind = "cd"
               /\ \A k \in 1 .. d[e].size :
                     (\A a \in s .. (s + k - 1) : d[a].kind = "cd") => k <= n
<1> DEFINE s == e - d[e].size
           S == {0} \cup {n \in 1 .. d[e].size :
                             \A a \in s .. (s + n - 1) : d[a].kind = "cd"}
           m == IF d[e].size >= 0 THEN d[e].size ELSE 0
<1>1. S \subseteq Nat /\ S # {} /\ m \in Nat /\ \A x \in S : x <= m
  OBVIOUS
<1>2. PICK x \in S : \A y \in S : y <= x
  <2> HIDE DEF S, m
  <2> QED BY <1>1, HasGreatest
<1>3. RecordsBefore(d, e) = MaxOf(S)
  BY DEF RecordsBefore
<1>4. MaxOf(S) \in S /\ \A y \in S : y <= MaxOf(S)
  <2> HIDE DEF S
  <2> QED BY <1>2 DEF MaxOf
<1> DEFINE n == MaxOf(S)
<1>5. \A k \in 1 .. d[e].size :
         (\A a \in s .. (s + k - 1) : d[a].kind = "cd") => k <= n
  <2>1. \A k \in 1 .. d[e].size :
           (\A a \in s .. (s + k - 1) : d[a].kind = "cd") => k \in S
    OBVIOUS
  <2> HIDE DEF S
  <2> QED BY <1>4, <2>1
<1>6. n \in Nat /\ (n > 0 => n <= d[e].size)
      /\ \A a \in s .. (s + n - 1) : d[a].kind = "cd"
  <2>1. n \in S
    BY <1>4
  <2> HIDE DEF n
  <2>2. CASE n = 0
    <3>1. s .. (s + n - 1) = {}
      BY <2>2
    <3> QED BY <2>2, <3>1
  <2>3. CASE n # 0
    BY <2>1, <2>3
  <2> QED BY <2>2, <2>3
<1> HIDE DEF S
<1> QED BY <1>3, <1>5, <1>6

(* What is read from a directory.                                           *)
LEMMA DirectoryType ==
    ASSUME NEW d \in LooseDisk
    PROVE  /\ Parses(d) => DirectoryStart(d) \in Nat /\ LastEndRecord(d) \in Nat
           /\ \E n \in Nat : DOMAIN Directory(d) = 1 .. n
           /\ \A k \in DOMAIN Directory(d) :
                 /\ Directory(d)[k].name \in Infos
                 /\ Directory(d)[k].meta \in LooseMeta
<1>0. Parses(d) => HasDirectory(d)
  BY WholeDirectory
<1>a. CASE ~HasDirectory(d)
  <2>1. Directory(d) = <<>>
    BY <1>a DEF Directory
  <2>2. DOMAIN Directory(d) = 1 .. 0
    BY <2>1
  <2>3. DOMAIN Directory(d) = {}
    BY <2>2
  <2> QED BY <1>0, <1>a, <2>2, <2>3
<1>b. CASE HasDirectory(d)
  <2> DEFINE e == LastEndRecord(d)
             m == d[e].size
             n == RecordsBefore(d, e)
  <2>1. /\ e \in Addr /\ m \in Int /\ d[e].off \in Int /\ e - m >= 0
    BY <1>b, EndRecordFound
  <2>2. e \in 0 .. (DiskCells - 1) /\ e \in Nat
    BY <2>1 DEF Addr
  <2>3. /\ n \in Nat /\ (n > 0 => n <= m)
        /\ \A a \in (e - m) .. ((e - m) + n - 1) : d[a].kind = "cd"
    BY <2>1, <2>2, RecordsCounted
  <2>4. DirectoryStart(d) = e - m /\ Shift(d) = e - m - d[e].off
    BY DEF DirectoryStart, Shift
  <2>5. Directory(d) = [k \in 1 .. n |-> Entry(d, k)]
    BY <1>b DEF Directory
  <2> HIDE DEF e, m, n
  <2>6. DirectoryStart(d) \in Nat /\ Shift(d) \in Int
    BY <2>1, <2>2, <2>4 DEF m
  <2>7. ASSUME NEW k \in 1 .. n
        PROVE  Directory(d)[k].name \in Infos /\ Directory(d)[k].meta \in LooseMeta
    <3> DEFINE a == e - m + k - 1
               rec == d[a]
    <3>1. a \in (e - m) .. ((e - m) + n - 1) /\ a \in Addr
      <4>1. /\ m \in Int /\ e \in Int /\ k \in Int /\ 1 <= k /\ k <= n /\ n <= m
            /\ e - m >= 0 /\ e <= DiskCells - 1 /\ DiskCells \in Int
        BY <2>1, <2>2, <2>3, LayoutAssumption
      <4> QED BY <4>1, <2>3 DEF Addr
    <3>2. rec.kind = "cd" /\ rec \in LooseCell
      BY <2>3, <3>1 DEF LooseDisk
    <3>3. rec.name \in Infos /\ rec.meta \in LooseMeta
      BY <3>2, CellFields
    <3>4. Directory(d)[k] = [name |-> rec.name,
                             meta |-> [rec.meta EXCEPT !.off = @ + Shift(d)]]
      BY <2>4, <2>5 DEF Entry
    <3> HIDE DEF rec
    <3> QED BY <2>6, <3>3, <3>4 DEF LooseMeta
  <2> QED BY <2>2, <2>3, <2>5, <2>6, <2>7 DEF e
<1> QED BY <1>a, <1>b

-----------------------------------------------------------------------------
(* Types, whatever happens                                                  *)

LooseFile ==
    /\ disk \in LooseDisk
    /\ pos \in Int /\ start_dir \in Int
    /\ filelist \in Seq(Infos)
    /\ zinfo \in [Infos -> LooseMeta]

Control ==
    /\ status \in {"absent", "open", "closed", "stale"}
    /\ mode \in {"r", "w", "a"}
    /\ seekable \in BOOLEAN /\ didModify \in BOOLEAN /\ writing \in BOOLEAN
    /\ coord \in {"IDLE", "ACTIVE", "FAILED"}
    /\ writer \in Handle \cup {NoWriter}
    /\ opened \in Nat /\ sessions \in Nat
    /\ struck \subseteq FaultKinds

Loose == LooseFile /\ Control

USE DEF archive, entries, handle, tally

LEMMA BlankType == Blank \in LooseMeta
BY DEF Blank, LooseMeta

LEMMA WritePosType == Loose => WritePos \in Int
BY DEF Loose, LooseFile, Control, WritePos

LEMMA EndCellsType ==
    ASSUME Loose, NEW p \in Int
    PROVE  /\ EndCells(p) \in Seq(LooseCell)
           /\ Len(EndCells(p)) = Len(filelist) + 1
           /\ \A n \in 0 .. Len(filelist) : SubSeq(EndCells(p), 1, n) \in Seq(LooseCell)
<1> DEFINE records == [k \in 1 .. Len(filelist) |->
                          CentralRecord(filelist[k], zinfo[filelist[k]])]
           end == EndRecord(p + Len(filelist) - start_dir, start_dir)
<1>1. filelist \in Seq(Infos) /\ Len(filelist) \in Nat
  BY DEF Loose, LooseFile, Control
<1>2. records \in Seq(LooseCell) /\ Len(records) = Len(filelist)
  <2>1. ASSUME NEW k \in 1 .. Len(filelist)
        PROVE  CentralRecord(filelist[k], zinfo[filelist[k]]) \in LooseCell
    <3>1. filelist[k] \in Infos
      BY <1>1
    <3>2. zinfo[filelist[k]] \in LooseMeta
      BY <3>1 DEF Loose, LooseFile, Control
    <3> QED BY <3>1, <3>2, CellTypes
  <2>2. records \in [1 .. Len(filelist) -> LooseCell]
    BY <2>1
  <2> QED BY <1>1, <2>2, IsASeq
<1>3. end \in LooseCell
  BY <1>1, CellTypes DEF Loose, LooseFile, Control
<1>4. EndCells(p) = records \o <<end>>
  BY DEF EndCells
<1> HIDE DEF records, end
<1>5. <<end>> \in Seq(LooseCell) /\ Len(<<end>>) = 1
  BY <1>3
<1>6. EndCells(p) \in Seq(LooseCell) /\ Len(EndCells(p)) = Len(filelist) + 1
  BY <1>2, <1>4, <1>5, ConcatProperties
<1>7. ASSUME NEW n \in 0 .. Len(filelist)
      PROVE  SubSeq(EndCells(p), 1, n) \in Seq(LooseCell)
  <2>1. n \in 0 .. Len(EndCells(p)) /\ 1 \in 1 .. Len(EndCells(p)) + 1
    BY <1>1, <1>6
  <2> QED BY <1>6, <2>1, SubSeqProperties
<1> QED BY <1>6, <1>7

LEMMA GetContentsLoose ==
    ASSUME Loose, RealGetContents
    PROVE  filelist' \in Seq(Infos) /\ zinfo' \in [Infos -> LooseMeta]
<1> DEFINE dir == Directory(disk)
<1>1. disk \in LooseDisk
  BY DEF Loose, LooseFile, Control
<1>3. PICK n \in Nat : DOMAIN dir = 1 .. n
  BY <1>1, DirectoryType
<1>4. \A k \in 1 .. n : dir[k].name \in Infos /\ dir[k].meta \in LooseMeta
  BY <1>1, <1>3, DirectoryType
<1> HIDE DEF dir
<1>5. filelist' \in Seq(Infos)
  <2>1. filelist' = [k \in 1 .. n |-> dir[k].name]
    BY <1>3 DEF RealGetContents, dir
  <2>2. filelist' \in [1 .. n -> Infos]
    BY <2>1, <1>4
  <2> QED BY <2>2
<1>6. zinfo' \in [Infos -> LooseMeta]
  <2> DEFINE ks(i) == {k \in DOMAIN dir : dir[k].name = i}
  <2>1. zinfo' = [i \in Infos |-> IF ks(i) = {} THEN Blank ELSE dir[MaxOf(ks(i))].meta]
    BY DEF RealGetContents, dir
  <2>2. ASSUME NEW i \in Infos, ks(i) # {} PROVE dir[MaxOf(ks(i))].meta \in LooseMeta
    <3>1. ks(i) \subseteq 1 .. n
      BY <1>3
    <3>2. MaxOf(ks(i)) \in ks(i)
      <4> HIDE DEF ks
      <4> QED BY <3>1, <2>2, GreatestIn
    <3> QED BY <3>1, <3>2, <1>4
  <2> QED BY <2>1, <2>2, BlankType
<1> QED BY <1>5, <1>6

LEMMA LooseInit == Init => Loose
<1> SUFFICES ASSUME Init PROVE Loose
  OBVIOUS
<1>1. disk \in LooseDisk
  BY CellTypes DEF Init, LooseDisk
<1>2. zinfo \in [Infos -> LooseMeta]
  BY BlankType DEF Init
<1>3. filelist \in Seq(Infos)
  BY DEF Init
<1>4. Control
  BY DEF Init, Control
<1> QED BY <1>1, <1>2, <1>3, <1>4 DEF Init, Loose, LooseFile

(* What the calls make of one cell or one ZipInfo.                          *)
LEMMA LooseParts ==
    ASSUME Loose
    PROVE  /\ \A p \in Int, c \in LooseCell : Put(disk, p, <<c>>) \in LooseDisk
           /\ \A i \in Infos, p \in Int : ResetInfo(i, p) \in [Infos -> LooseMeta]
           /\ \A i \in Infos, p \in Int :
                 [zinfo EXCEPT ![i].off = p] \in [Infos -> LooseMeta]
           /\ \A i \in Infos : Register(i) \in Seq(Infos)
           /\ writer # NoWriter =>
                 /\ writer.info \in Infos /\ writer.serial \in Nat /\ writer.size \in Nat
                 /\ FinalMeta \in LooseMeta
                 /\ [zinfo EXCEPT ![writer.info] = FinalMeta] \in [Infos -> LooseMeta]
<1>1. \A p \in Int, c \in LooseCell : Put(disk, p, <<c>>) \in LooseDisk
  <2>1. disk \in [Addr -> LooseCell]
    BY DEF Loose, LooseFile, LooseDisk
  <2> HIDE DEF LooseCell
  <2> QED BY <2>1, PutOneType DEF LooseDisk
<1>2. \A i \in Infos : Register(i) \in Seq(Infos)
  BY DEF Loose, LooseFile, Control, Register
<1>3. \A i \in Infos, p \in Int : ResetInfo(i, p) \in [Infos -> LooseMeta]
  BY DEF Loose, LooseFile, Control, ResetInfo, LooseMeta
<1>4. \A i \in Infos, p \in Int :
          [zinfo EXCEPT ![i].off = p] \in [Infos -> LooseMeta]
  BY DEF Loose, LooseFile, Control, LooseMeta
<1>5. ASSUME writer # NoWriter
      PROVE  /\ writer.info \in Infos /\ writer.serial \in Nat /\ writer.size \in Nat
             /\ FinalMeta \in LooseMeta
             /\ [zinfo EXCEPT ![writer.info] = FinalMeta] \in [Infos -> LooseMeta]
  <2>1. writer.info \in Infos /\ writer.serial \in Nat /\ writer.size \in Nat
    BY <1>5 DEF Loose, LooseFile, Control, Handle
  <2>2. zinfo[writer.info] \in LooseMeta
    BY <2>1 DEF Loose, LooseFile, Control
  <2>3. FinalMeta \in LooseMeta
    BY <2>1, <2>2 DEF FinalMeta, LooseMeta
  <2>4. [zinfo EXCEPT ![writer.info] = FinalMeta] \in [Infos -> LooseMeta]
    <3> HIDE DEF LooseMeta
    <3> QED BY <2>1, <2>3 DEF Loose, LooseFile, Control
  <2> QED BY <2>1, <2>3, <2>4
<1> QED BY <1>1, <1>2, <1>3, <1>4, <1>5

LEMMA ControlStep ==
    ASSUME Control, [Next]_vars
    PROVE  Control'
<1> USE DEF Control
<1>1. ASSUME NEW k, k \in Faults, struck' = struck \cup {k}
      PROVE  struck' \subseteq FaultKinds
  BY <1>1, ArchiveAssumption
<1>2. CASE Create \/ OpenExisting \/ AppendAfterGarbage
  <2>1. NewZipFile /\ (didModify' = TRUE \/ didModify' = FALSE) /\ seekable' \in BOOLEAN
    BY <1>2, ArchiveAssumption DEF Create, OpenExisting, AppendAfterGarbage
  <2>2. mode' \in {"r", "w", "a"}
    BY <1>2 DEF Create, OpenExisting, AppendAfterGarbage
  <2> HIDE DEF Control
  <2>3. status' = "open" /\ coord' = "IDLE" /\ writer' = NoWriter /\ opened' = opened
        /\ sessions' = sessions + 1 /\ struck' = struck /\ writing' = FALSE
    BY <2>1 DEF NewZipFile
  <2>4. didModify' \in BOOLEAN /\ writing' \in BOOLEAN
    BY <2>1, <2>3
  <2> QED BY <2>1, <2>2, <2>3, <2>4 DEF Control
<1>5. ASSUME NEW i \in Infos, OpenWriter(i) PROVE Control'
  <2>1. [info |-> i, serial |-> opened + 1, size |-> 0] \in Handle
    BY DEF Handle
  <2> QED BY <1>5, <2>1 DEF OpenWriter
<1>6. ASSUME NEW i \in Infos, NEW stage \in Stages, OpenWriterRefused(i, stage)
      PROVE  Control'
  BY <1>6, <1>1 DEF OpenWriterRefused, Strike
<1>7. ASSUME NEW i \in Infos, OpenWriterHeaderFails(i) PROVE Control'
  BY <1>7, <1>1 DEF OpenWriterHeaderFails, Strike
<1>8. ASSUME writer # NoWriter
      PROVE  [writer EXCEPT !.size = @ + 1] \in Handle
  BY <1>8 DEF Handle
<1>9. CASE WriteData
  BY <1>8, <1>9 DEF WriteData
<1>10. CASE WriteLost
  BY <1>1, <1>8, <1>10 DEF WriteLost, Strike
<1>11. CASE CloseWriter
  BY <1>11 DEF CloseWriter, Commit
<1>12. ASSUME NEW stage \in FinalStages, CloseWriterFails(stage) PROVE Control'
  BY <1>12, <1>1 DEF CloseWriterFails, Strike
<1>13. ASSUME NEW i \in Infos, Mkdir(i) \/ MkdirRefused(i) PROVE Control'
  BY <1>13 DEF Mkdir, MkdirRefused
<1>14. ASSUME NEW i \in Infos, MkdirFails(i) PROVE Control'
  BY <1>14, <1>1 DEF MkdirFails, Strike
<1>15. ASSUME NEW i \in Infos, ReadMember(i) PROVE Control'
  BY <1>15 DEF ReadMember
<1>16. CASE SetComment
  BY <1>16 DEF SetComment
<1>17. CASE Close
  BY <1>17 DEF Close
<1>18. ASSUME NEW n, CloseFails(n) PROVE Control'
  BY <1>18 DEF CloseFails
<1>19. CASE Crash
  BY <1>19 DEF Crash
<1>20. CASE Prepend
  BY <1>20 DEF Prepend
<1>21. CASE UNCHANGED vars
  BY <1>21 DEF vars
<1> QED
  BY <1>2, <1>5, <1>6, <1>7, <1>9, <1>10, <1>11, <1>12, <1>13, <1>14,
     <1>15, <1>16, <1>17, <1>18, <1>19, <1>20, <1>21, ArchiveAssumption DEF Next

LEMMA LooseSession ==
    ASSUME Loose, Create \/ OpenExisting \/ AppendAfterGarbage
    PROVE  LooseFile'
<1>1. CASE Create
  <2>1. disk' \in LooseDisk
    BY <1>1, CellTypes DEF Create, LooseDisk
  <2>2. zinfo' \in [Infos -> LooseMeta]
    BY <1>1, BlankType DEF Create
  <2>3. filelist' \in Seq(Infos)
    BY <1>1 DEF Create
  <2> QED BY <1>1, <2>1, <2>2, <2>3 DEF Create, LooseFile
<1>2. CASE OpenExisting
  <2>1. filelist' \in Seq(Infos) /\ zinfo' \in [Infos -> LooseMeta]
    BY <1>2, GetContentsLoose DEF OpenExisting
  <2>2. LastEndRecord(disk) \in Nat /\ start_dir' \in Nat
    BY <1>2, DirectoryType DEF OpenExisting, Loose, LooseFile
  <2>3. pos' \in Int /\ disk' = disk /\ disk \in LooseDisk
    BY <1>2, <2>1, <2>2 DEF OpenExisting, Loose, LooseFile
  <2> QED BY <2>1, <2>2, <2>3 DEF LooseFile
<1>3. CASE AppendAfterGarbage
  <2>1. FileLength(disk) \in Nat
    BY FileLengthType, LayoutAssumption
  <2>2. zinfo' \in [Infos -> LooseMeta] /\ filelist' \in Seq(Infos)
    BY <1>3, GetContentsLoose DEF AppendAfterGarbage
  <2> QED BY <1>3, <2>1, <2>2 DEF AppendAfterGarbage, Loose, LooseFile
<1> QED BY <1>1, <1>2, <1>3

LEMMA LooseStep ==
    ASSUME Loose, [Next]_vars
    PROVE  Loose'
<1> USE DEF Control, LooseFile, Loose
<1> SUFFICES LooseFile'
  BY ControlStep
<1> HIDE DEF Control, LooseFile, Loose
<1>1. CASE Create \/ OpenExisting \/ AppendAfterGarbage
  BY <1>1, LooseSession
<1>a. WritePos \in Int
  BY WritePosType
<1>b. LooseFile
  BY DEF Loose
<1> HIDE DEF LooseCell, LooseMeta, LooseDisk
<1>2. ASSUME NEW i \in Infos, OpenWriter(i) PROVE LooseFile'
  BY <1>2, <1>a, <1>b, LooseParts, CellTypes DEF OpenWriter, LooseFile
<1>3. ASSUME NEW i \in Infos, NEW stage \in Stages, OpenWriterRefused(i, stage)
      PROVE  LooseFile'
  <2>1. zinfo \in [Infos -> LooseMeta] /\ zinfo[i] \in LooseMeta /\ seekable \in BOOLEAN
    BY <1>b DEF LooseFile, Loose, Control
  <2> DEFINE off == IF stage = "size" THEN zinfo[i].off ELSE WritePos
             z == [zinfo[i] EXCEPT !.size = 0, !.crc = 0, !.dd = ~seekable, !.off = off]
  <2>2. off \in Int
    BY <2>1, <1>a DEF LooseMeta
  <2>3. z \in LooseMeta
    <3> HIDE DEF off
    <3> QED BY <2>1, <2>2 DEF LooseMeta
  <2>4. zinfo' = [zinfo EXCEPT ![i] = z]
    BY <1>3, <2>1 DEF OpenWriterRefused, LooseMeta
  <2>5. zinfo' \in [Infos -> LooseMeta]
    <3> HIDE DEF z
    <3> QED BY <2>1, <2>3, <2>4
  <2> QED BY <1>3, <2>5, <1>a, <1>b DEF OpenWriterRefused, LooseFile
<1>4. ASSUME NEW i \in Infos, OpenWriterHeaderFails(i) PROVE LooseFile'
  BY <1>4, <1>a, <1>b, LooseParts, CellTypes DEF OpenWriterHeaderFails, LooseFile
<1>5. CASE WriteData
  BY <1>5, <1>b, LooseParts, CellTypes DEF WriteData, LooseFile
<1>6. CASE WriteLost
  BY <1>6, <1>b DEF WriteLost, LooseFile
<1>7. CASE CloseWriter
  <2>1. writer # NoWriter /\ pos \in Int
    BY <1>7, <1>b DEF CloseWriter, LooseFile
  <2>2. writer.info \in Infos /\ writer.serial \in Nat /\ FinalMeta \in LooseMeta
    BY <2>1, LooseParts
  <2>3. FinalMeta.off \in Int
    BY <2>2 DEF LooseMeta
  <2>4. disk' \in LooseDisk /\ pos' \in Int
    BY <1>7, <2>1, <2>2, <2>3, LooseParts, CellTypes DEF CloseWriter
  <2>5. zinfo' \in [Infos -> LooseMeta] /\ filelist' \in Seq(Infos)
    BY <1>7, <2>1, <2>2, LooseParts DEF CloseWriter
  <2>6. start_dir' = pos'
    BY <1>7 DEF CloseWriter
  <2> QED BY <2>4, <2>5, <2>6 DEF LooseFile
<1>8. ASSUME NEW stage \in FinalStages, CloseWriterFails(stage) PROVE LooseFile'
  <2>1. writer # NoWriter /\ pos \in Int /\ start_dir \in Int /\ disk \in LooseDisk
    BY <1>8, <1>b DEF CloseWriterFails, LooseFile
  <2>2. writer.info \in Infos /\ FinalMeta \in LooseMeta
    BY <2>1, LooseParts
  <2>3. FinalMeta.off \in Int
    BY <2>2 DEF LooseMeta
  <2>4. Put(disk, pos, <<Junk>>) \in LooseDisk /\ Put(disk, FinalMeta.off, <<Junk>>) \in LooseDisk
    BY <2>1, <2>3, LooseParts, CellTypes
  <2>5. disk' \in LooseDisk /\ pos' \in Int /\ start_dir' \in Int
    BY <1>8, <2>1, <2>3, <2>4 DEF CloseWriterFails
  <2>6. zinfo' \in [Infos -> LooseMeta]
    BY <1>8, <1>b, <2>1, LooseParts DEF CloseWriterFails, LooseFile
  <2>7. filelist' \in Seq(Infos)
    BY <1>8, <1>b DEF CloseWriterFails, LooseFile
  <2> QED BY <2>5, <2>6, <2>7 DEF LooseFile
<1>9. ASSUME NEW i \in Infos, Mkdir(i) PROVE LooseFile'
  <2>1. LocalHeader(i, 0) \in LooseCell
    BY CellTypes
  <2>2. disk' \in LooseDisk /\ zinfo' \in [Infos -> LooseMeta] /\ filelist' \in Seq(Infos)
    BY <1>9, <1>a, <2>1, LooseParts DEF Mkdir
  <2>3. pos' \in Int /\ start_dir' \in Int
    <3>1. pos' = WritePos + 1 /\ start_dir' = WritePos + 1
      BY <1>9 DEF Mkdir
    <3> QED BY <1>a, <3>1
  <2> QED BY <2>2, <2>3 DEF LooseFile
<1>10. ASSUME NEW i \in Infos, MkdirRefused(i) \/ MkdirFails(i) PROVE LooseFile'
  <2>1. zinfo' \in [Infos -> LooseMeta] /\ filelist' \in Seq(Infos)
    <3>1. /\ zinfo' = [zinfo EXCEPT ![i].off = WritePos]
          /\ filelist' = filelist \/ filelist' = Register(i)
      BY <1>10 DEF MkdirRefused, MkdirFails
    <3>2. filelist \in Seq(Infos)
      BY <1>b DEF LooseFile
    <3> QED BY <1>a, <3>1, <3>2, LooseParts
  <2>2. disk' \in LooseDisk /\ pos' \in Int /\ start_dir' \in Int
    <3>1. pos' = WritePos /\ start_dir' = start_dir /\ disk' = disk
      BY <1>10 DEF MkdirRefused, MkdirFails
    <3> QED BY <1>a, <1>b, <3>1 DEF LooseFile
  <2> QED BY <2>1, <2>2 DEF LooseFile
<1>11. ASSUME NEW i \in Infos, ReadMember(i) PROVE LooseFile'
  <2>1. zinfo[i] \in LooseMeta
    BY <1>b DEF LooseFile
  <2>2. zinfo[i].off \in Int /\ zinfo[i].size \in Int
    BY <2>1 DEF LooseMeta
  <2>3. pos' \in Int
    BY <1>11, <2>2 DEF ReadMember
  <2> QED BY <1>11, <2>3, <1>b DEF ReadMember, LooseFile
<1>12. CASE SetComment
  BY <1>12, <1>b DEF SetComment, LooseFile
<1>13. ASSUME NEW n \in 0 .. Len(filelist)
       PROVE  /\ Put(disk, WritePos, EndCells(WritePos)) \in LooseDisk
              /\ Put(disk, WritePos, SubSeq(EndCells(WritePos), 1, n)) \in LooseDisk
  BY <1>a, <1>b, PutType, EndCellsType DEF LooseFile, LooseDisk
<1>14. CASE Close
  <2>1. Len(filelist) \in Nat
    BY <1>b DEF LooseFile
  <2>2. Put(disk, WritePos, EndCells(WritePos)) \in LooseDisk
    BY <1>13, <2>1
  <2>3. ASSUME NEW p \in Int
        PROVE  Truncate(Put(disk, WritePos, EndCells(WritePos)), p) \in LooseDisk
    BY <2>2, TruncateType, CellTypes DEF LooseDisk
  <2>4. disk' \in LooseDisk /\ pos' \in Int
    <3>1. CASE Rewrites
      <4> DEFINE end == WritePos + Len(filelist) + 1
      <4>1. end \in Int
        BY <1>a, <2>1
      <4>2. disk' = IF mode = "a" THEN Truncate(Put(disk, WritePos, EndCells(WritePos)), end)
                    ELSE Put(disk, WritePos, EndCells(WritePos))
        BY <1>14, <3>1 DEF Close
      <4>3. pos' = end
        BY <1>14, <3>1 DEF Close
      <4> QED BY <2>2, <2>3, <4>1, <4>2, <4>3
    <3>2. CASE ~Rewrites
      BY <1>14, <1>b, <3>2 DEF Close, LooseFile
    <3> QED BY <3>1, <3>2
  <2> QED BY <1>14, <1>b, <2>4 DEF Close, LooseFile
<1>15. ASSUME NEW n, CloseFails(n) PROVE LooseFile'
  <2>1. n \in 0 .. Len(filelist) /\ n \in Int
    BY <1>15, <1>b DEF CloseFails, LooseFile
  <2> QED BY <1>15, <1>13, <1>a, <1>b, <2>1 DEF CloseFails, LooseFile
<1>16. CASE Crash
  BY <1>16, <1>b DEF Crash, LooseFile
<1>17. CASE Prepend
  <2>1. \A a \in Addr : a # 0 => a - 1 \in Addr
    BY LayoutAssumption DEF Addr
  <2>2. disk' \in LooseDisk
    <3>1. disk \in LooseDisk /\ disk' = [a \in Addr |-> IF a = 0 THEN Stub ELSE disk[a - 1]]
      BY <1>17, <1>b DEF Prepend, LooseFile
    <3>2. Stub \in LooseCell
      BY CellTypes
    <3> QED BY <2>1, <3>1, <3>2 DEF LooseDisk
  <2> QED BY <1>17, <2>2, <1>b DEF Prepend, LooseFile
<1>18. CASE UNCHANGED vars
  BY <1>18, <1>b DEF vars, LooseFile
<1> QED
  BY <1>1, <1>2, <1>3, <1>4, <1>5, <1>6, <1>7, <1>8, <1>9, <1>10, <1>11, <1>12,
     <1>14, <1>15, <1>16, <1>17, <1>18, ArchiveAssumption DEF Next

-----------------------------------------------------------------------------
(* The coordinator, _writing and the handle of the client                   *)

LEMMA ControlInit == Init => Control
BY LooseInit DEF Loose

LEMMA HandleStep ==
    ASSUME Control, ReservationNamesAHandle, WritingNamesAHandle, [Next]_vars
    PROVE  ReservationNamesAHandle' /\ WritingNamesAHandle'
<1> USE DEF ReservationNamesAHandle, WritingNamesAHandle
<1>1. CASE Create \/ OpenExisting \/ AppendAfterGarbage
  <2>1. NewZipFile
    BY <1>1 DEF Create, OpenExisting, AppendAfterGarbage
  <2> QED BY <2>1 DEF NewZipFile
<1>2. ASSUME NEW i \in Infos, OpenWriter(i)
      PROVE  ReservationNamesAHandle' /\ WritingNamesAHandle'
  <2>1. writer' \in Handle
    BY <1>2 DEF OpenWriter, Handle, Control
  <2>2. writer' # NoWriter
    BY <2>1, ArchiveAssumption
  <2> QED BY <1>2, <2>2 DEF OpenWriter
<1>3. ASSUME NEW i \in Infos, NEW stage \in Stages, OpenWriterRefused(i, stage)
      PROVE  ReservationNamesAHandle' /\ WritingNamesAHandle'
  BY <1>3 DEF OpenWriterRefused, Strike
<1>4. ASSUME NEW i \in Infos, OpenWriterHeaderFails(i)
      PROVE  ReservationNamesAHandle' /\ WritingNamesAHandle'
  BY <1>4 DEF OpenWriterHeaderFails, Strike
<1>5. CASE WriteData \/ WriteLost
  <2>1. /\ writer # NoWriter /\ writer' = [writer EXCEPT !.size = @ + 1]
        /\ writing' = writing /\ coord' = coord /\ status' = status
    BY <1>5 DEF WriteData, WriteLost
  <2>2. struck \subseteq struck'
    BY <1>5 DEF WriteData, WriteLost, Strike
  <2>3. writer' \in Handle
    BY <2>1 DEF Handle, Control
  <2>4. writer' # NoWriter
    BY <2>3, ArchiveAssumption
  <2> QED BY <2>1, <2>2, <2>4
<1>6. CASE CloseWriter
  BY <1>6 DEF CloseWriter, Commit
<1>7. ASSUME NEW stage \in FinalStages, CloseWriterFails(stage)
      PROVE  ReservationNamesAHandle' /\ WritingNamesAHandle'
  BY <1>7 DEF CloseWriterFails, Strike
<1>8. ASSUME NEW i \in Infos, Mkdir(i) \/ MkdirRefused(i) \/ MkdirFails(i)
      PROVE  ReservationNamesAHandle' /\ WritingNamesAHandle'
  BY <1>8 DEF Mkdir, MkdirRefused, MkdirFails, Strike
<1>9. ASSUME NEW i \in Infos, ReadMember(i)
      PROVE  ReservationNamesAHandle' /\ WritingNamesAHandle'
  BY <1>9 DEF ReadMember
<1>10. CASE SetComment
  BY <1>10 DEF SetComment
<1>11. ASSUME NEW n, Close \/ CloseFails(n) \/ Crash \/ Prepend
       PROVE  ReservationNamesAHandle' /\ WritingNamesAHandle'
  BY <1>11 DEF Close, CloseFails, Crash, Prepend
<1>12. CASE UNCHANGED vars
  BY <1>12 DEF vars
<1> QED
  BY <1>1, <1>2, <1>3, <1>4, <1>5, <1>6, <1>7, <1>8, <1>9, <1>10, <1>11, <1>12,
     ArchiveAssumption DEF Next

(* Whatever fails otherwise, reserve() refuses a writer exactly while the   *)
(* client holds a handle, until an open() or a close() for writing fails.   *)
THEOREM ReservationNamesAHandleAlways == Spec => []ReservationNamesAHandle
<1>1. Init => Control /\ ReservationNamesAHandle /\ WritingNamesAHandle
  BY ControlInit DEF Init, ReservationNamesAHandle, WritingNamesAHandle
<1>2. Control /\ ReservationNamesAHandle /\ WritingNamesAHandle /\ [Next]_vars
      => (Control /\ ReservationNamesAHandle /\ WritingNamesAHandle)'
  BY ControlStep, HandleStep
<1> QED BY <1>1, <1>2, PTL DEF Spec

(* Whatever fails otherwise, _writing is set exactly while the client holds *)
(* a handle, until a local header cannot be written.                        *)
THEOREM WritingNamesAHandleAlways == Spec => []WritingNamesAHandle
<1>1. Init => Control /\ ReservationNamesAHandle /\ WritingNamesAHandle
  BY ControlInit DEF Init, ReservationNamesAHandle, WritingNamesAHandle
<1>2. Control /\ ReservationNamesAHandle /\ WritingNamesAHandle /\ [Next]_vars
      => (Control /\ ReservationNamesAHandle /\ WritingNamesAHandle)'
  BY ControlStep, HandleStep
<1> QED BY <1>1, <1>2, PTL DEF Spec

-----------------------------------------------------------------------------
(* What the directory says of a member                                      *)

(* The member being written is not in the directory, and is no directory.   *)
UnlistedWriter ==
    status = "open" /\ writer # NoWriter =>
        writer.info \in Infos \ Dirs /\ writer.info \notin Listed

(* The directory before a step is the front of the one after it.            *)
Front == /\ Len(filelist) <= Len(filelist')
         /\ \A k \in DOMAIN filelist : filelist'[k] = filelist[k]

Kept == /\ Front
        /\ \A k \in DOMAIN filelist : zinfo'[filelist[k]] = zinfo[filelist[k]]

LEMMA RegisterFront ==
    ASSUME NEW i \in Infos, filelist \in Seq(Infos), filelist' = Register(i)
    PROVE  Front /\ Listed' = Listed \cup {i}
<1>1. /\ Len(filelist') = Len(filelist) + 1
      /\ DOMAIN filelist' = 1 .. (Len(filelist) + 1)
      /\ \A k \in 1 .. Len(filelist) : filelist'[k] = filelist[k]
      /\ filelist'[Len(filelist) + 1] = i
  BY DEF Register
<1>2. DOMAIN filelist = 1 .. Len(filelist) /\ Len(filelist) \in Nat
  OBVIOUS
<1>3. DOMAIN filelist' = DOMAIN filelist \cup {Len(filelist) + 1}
  BY <1>1, <1>2
<1> QED BY <1>1, <1>2, <1>3 DEF Front, Listed

LEMMA SameFront ==
    ASSUME filelist \in Seq(Infos), filelist' = filelist
    PROVE  Front /\ Listed' = Listed
BY DEF Front, Listed

LEMMA DirectoryStep ==
    ASSUME Loose, UnlistedWriter, [Next]_vars, "reuse" \notin Client
    PROVE  /\ UnlistedWriter'
           /\ status = "open" /\ status' = "open" => Kept
<1> DEFINE Goal == /\ UnlistedWriter'
                   /\ status = "open" /\ status' = "open" => Kept
<1>0. /\ filelist \in Seq(Infos) /\ zinfo \in [Infos -> LooseMeta]
      /\ writer \in Handle \cup {NoWriter}
  BY DEF Loose, LooseFile, Control
<1>a. \A k \in DOMAIN filelist : filelist[k] \in Listed /\ filelist[k] \in Infos
  BY <1>0 DEF Listed
<1>1. CASE Create \/ OpenExisting \/ AppendAfterGarbage
  <2>1. NewZipFile
    BY <1>1 DEF Create, OpenExisting, AppendAfterGarbage
  <2>2. status # "open" /\ writer' = NoWriter
    BY <2>1 DEF NewZipFile
  <2> QED BY <2>2 DEF UnlistedWriter
<1>2. ASSUME NEW i \in Infos \ Dirs,
             \/ OpenWriter(i)
             \/ \E stage \in Stages : OpenWriterRefused(i, stage)
             \/ OpenWriterHeaderFails(i)
      PROVE  Goal
  <2>1. /\ i \notin Listed /\ filelist' = filelist
        /\ \A k \in Infos : k # i => zinfo'[k] = zinfo[k]
        /\ \/ writer' = writer
           \/ writer' = [info |-> i, serial |-> opened + 1, size |-> 0]
        /\ status' = status
    BY <1>2, <1>0 DEF OpenWriter, OpenWriterRefused, OpenWriterHeaderFails, MayWrite,
                      ResetInfo
  <2>2. Front /\ Listed' = Listed
    BY <2>1, <1>0, SameFront
  <2> QED BY <2>1, <2>2, <1>a DEF UnlistedWriter, Kept
<1>3. CASE WriteData \/ WriteLost
  <2>1. filelist' = filelist /\ zinfo' = zinfo /\ status' = status
    BY <1>3 DEF WriteData, WriteLost
  <2>2. writer # NoWriter /\ writer' = [writer EXCEPT !.size = @ + 1]
    BY <1>3 DEF WriteData, WriteLost
  <2>3. writer'.info = writer.info
    BY <2>2, <1>0 DEF Handle
  <2>4. Front /\ Listed' = Listed
    BY <2>1, <1>0, SameFront
  <2> QED BY <2>1, <2>2, <2>3, <2>4 DEF UnlistedWriter, Kept
<1>4. CASE CloseWriter
  <2>1. writer # NoWriter /\ status = "open" /\ writer' = NoWriter
    BY <1>4 DEF CloseWriter, Commit
  <2>2. writer.info \in Infos /\ writer.info \notin Listed
    BY <2>1 DEF UnlistedWriter
  <2>3. zinfo' = [zinfo EXCEPT ![writer.info] = FinalMeta]
        /\ filelist' = Register(writer.info)
    BY <1>4 DEF CloseWriter
  <2>4. Front
    BY <2>2, <2>3, <1>0, RegisterFront
  <2>5. \A k \in DOMAIN filelist : zinfo'[filelist[k]] = zinfo[filelist[k]]
    BY <2>2, <2>3, <1>0, <1>a
  <2> QED BY <2>1, <2>4, <2>5 DEF UnlistedWriter, Kept
<1>5. ASSUME NEW stage \in FinalStages, CloseWriterFails(stage) PROVE Goal
  <2>1. /\ writer # NoWriter /\ status = "open" /\ writer' = NoWriter
        /\ filelist' = filelist
        /\ zinfo' = zinfo \/ zinfo' = [zinfo EXCEPT ![writer.info] = FinalMeta]
    BY <1>5 DEF CloseWriterFails
  <2>2. writer.info \in Infos /\ writer.info \notin Listed
    BY <2>1 DEF UnlistedWriter
  <2>3. Front
    BY <2>1, <1>0, SameFront
  <2>4. \A k \in DOMAIN filelist : zinfo'[filelist[k]] = zinfo[filelist[k]]
    BY <2>1, <2>2, <1>0, <1>a
  <2> QED BY <2>1, <2>3, <2>4 DEF UnlistedWriter, Kept
<1>6. ASSUME NEW i \in Dirs, Mkdir(i) \/ MkdirRefused(i) \/ MkdirFails(i)
      PROVE  Goal
  <2>1. /\ i \notin Listed /\ status' = status /\ writer' = writer
        /\ zinfo' = [zinfo EXCEPT ![i].off = WritePos]
        /\ filelist' = filelist \/ filelist' = Register(i)
    BY <1>6 DEF Mkdir, MkdirRefused, MkdirFails, MkdirAllowed, MayWrite
  <2>2. i \in Infos
    BY ArchiveAssumption
  <2>3. Front /\ Listed' \subseteq Listed \cup {i}
    BY <2>1, <2>2, <1>0, SameFront, RegisterFront
  <2>4. \A k \in DOMAIN filelist : zinfo'[filelist[k]] = zinfo[filelist[k]]
    BY <2>1, <2>2, <1>0, <1>a
  <2> QED BY <2>1, <2>3, <2>4 DEF UnlistedWriter, Kept
<1>7. ASSUME NEW n,
             \/ \E i \in Infos : ReadMember(i)
             \/ SetComment \/ Close \/ CloseFails(n) \/ Crash \/ Prepend
             \/ UNCHANGED vars
      PROVE  Goal
  <2>1. /\ filelist' = filelist /\ zinfo' = zinfo /\ writer' = writer
        /\ status' = status \/ status' # "open"
    BY <1>7 DEF ReadMember, SetComment, Close, CloseFails, Crash, Prepend, vars
  <2>2. Front /\ Listed' = Listed
    BY <2>1, <1>0, SameFront
  <2> QED BY <2>1, <2>2 DEF UnlistedWriter, Kept
<1> QED
  BY <1>1, <1>2, <1>3, <1>4, <1>5, <1>6, <1>7 DEF Next

(* As long as no ZipInfo is used twice, and whatever fails: within a        *)
(* session the directory only grows at its end, and what it says of a       *)
(* member in it stays as it is.                                             *)
THEOREM CommittedNeverChangesUnlessReused ==
    ASSUME "reuse" \notin Client
    PROVE  Spec => CommittedNeverChanges
<1> DEFINE Inv == Loose /\ UnlistedWriter
<1>1. Init => Inv
  BY LooseInit DEF Init, UnlistedWriter
<1>2. Inv /\ [Next]_vars => Inv'
  BY LooseStep, DirectoryStep
<1>3. Inv /\ [Next]_vars =>
          [status = "open" /\ status' = "open" =>
             /\ Len(filelist) <= Len(filelist')
             /\ \A k \in DOMAIN filelist :
                   /\ filelist'[k] = filelist[k]
                   /\ zinfo'[filelist[k]] = zinfo[filelist[k]]]_vars
  BY DirectoryStep DEF Kept, Front
<1> QED BY <1>1, <1>2, <1>3, PTL DEF Spec, CommittedNeverChanges

(***************************************************************************)
(* Where the members are put and what the sessions leave on the disk,      *)
(* whatever fails: calls, close() of the archive, the process.  What is    *)
(* left out is what the client must not do (Client is empty): make a       *)
(* directory under an open handle, use a ZipInfo twice, put data in front. *)
(***************************************************************************)
-----------------------------------------------------------------------------
(* The inductive invariant                                                  *)

(* fp is where records may go, with room for the directory.                 *)
PlacingOK ==
    status = "open" =>
        /\ ~seekable => mode = "w" /\ start_dir <= pos
        /\ mode # "r" => WritePos + Len(filelist) + 1 <= DiskCells

(* The member being written lies behind all others, and fp at its end.      *)
WriterOK ==
    status = "open" /\ writer # NoWriter =>
        LET z == zinfo[writer.info]
        IN  /\ mode # "r" /\ didModify /\ writing /\ coord = "ACTIVE"
            /\ start_dir <= z.off /\ z.off < pos
            /\ pos + Len(filelist) + 3 <= DiskCells
            /\ z.dd = ~seekable /\ (seekable => z.off = start_dir)
            /\ \A a \in z.off .. (pos - 1) : disk[a].kind \notin {"cd", "eocd"}
            /\ NothingCutShort =>
                  /\ pos = z.off + 1 + writer.size
                  /\ disk[z.off] = LocalHeader(writer.info, 0)
                  /\ \A a \in (z.off + 1) .. (pos - 1) :
                        disk[a] = Payload(writer.serial)

(* The k-th member is where its ZipInfo says, below what comes behind it.   *)
Placed(k) ==
    LET z == zinfo[filelist[k]]
    IN  /\ Intact(disk, filelist[k], z)
        /\ EndOf(z) <= start_dir
        /\ \A j \in DOMAIN filelist : j > k => EndOf(z) <= zinfo[filelist[j]].off

MembersPlaced == NothingCutShort => \A k \in DOMAIN filelist : Placed(k)

DirectoriesAreBlank ==
    \A i \in Dirs : zinfo[i].size = 0 /\ zinfo[i].crc = 0 /\ ~zinfo[i].dd

(* A file being written from nothing holds no directory yet.                *)
NoRecordsYet ==
    status = "open" /\ mode = "w" =>
        \A a \in Addr : disk[a].kind \notin {"cd", "eocd"}

(* What close() writes of the members.                                      *)
Own == [k \in DOMAIN filelist |->
           [name |-> filelist[k], meta |-> zinfo[filelist[k]]]]

(* Unless it was modified since, the directory on the disk is the archive's,*)
(* and so is the one that a close() leaves, if it can be read.              *)
Saved ==
    /\ status = "open" /\ (mode = "r" \/ ~didModify) => Parses(disk)
    /\ \/ status = "open" /\ (mode = "r" \/ ~didModify)
       \/ status = "closed" /\ Parses(disk)
       => DirectoryStart(disk) = start_dir /\ Directory(disk) = Own
    /\ status = "closed" /\ ~Parses(disk) => Directory(disk) = <<>>

(* The directory that ends at e, any end record that is still on the disk:  *)
(* where it starts, its k-th record, and whether no gap comes before it.    *)
From(e) == e - disk[e].size
Rec(e, k) == disk[From(e) + k - 1]
Reached(e, k) ==
    /\ k \in 1 .. disk[e].size
    /\ \A a \in From(e) .. (From(e) + k - 1) : disk[a].kind = "cd"

(* A record that may still be read describes a member that is still there,  *)
(* behind those of the records before it and before the directory.          *)
Truthful(e, k) ==
    LET r == Rec(e, k)
    IN  /\ r.name \in Dirs => r.meta.size = 0 /\ r.meta.crc = 0 /\ ~r.meta.dd
        /\ \A j \in 1 .. (k - 1) : Rec(e, j).name # r.name
        /\ NothingCutShort =>
              /\ Intact(disk, r.name, r.meta)
              /\ EndOf(r.meta) <= From(e)
              /\ \A j \in 1 .. (k - 1) : EndOf(Rec(e, j).meta) <= r.meta.off

Remains ==
    \A e \in Addr : disk[e].kind = "eocd" =>
        /\ disk[e].off = From(e)
        /\ \A k \in 1 .. disk[e].size : Reached(e, k) => Truthful(e, k)

(* A directory that ends where records go now is that of the session before.*)
(* Its first record has been written over, or what is left of its records   *)
(* says what the archive would write in their place.                        *)
Overtaken ==
    status = "open" /\ mode = "a" =>
        \A e \in Addr : disk[e].kind = "eocd" /\ e >= start_dir =>
            \/ From(e) < start_dir /\ disk[From(e)].kind # "cd"
            \/ /\ From(e) = start_dir /\ disk[e].size <= Len(filelist)
               /\ \A k \in 1 .. disk[e].size :
                     Rec(e, k).kind = "cd" =>
                         Rec(e, k) = CentralRecord(filelist[k], zinfo[filelist[k]])

Unique == \A j, k \in DOMAIN filelist : filelist[j] = filelist[k] => j = k

Relics == Remains /\ Overtaken /\ Unique

Places == /\ TypeOK /\ UnlistedWriter
          /\ PlacingOK /\ WriterOK /\ MembersPlaced
          /\ DirectoriesAreBlank /\ NoRecordsYet /\ Saved
          /\ Relics

USE DEF archive, entries, handle, tally

-----------------------------------------------------------------------------
(* Cells                                                                    *)

LEMMA StrongCells ==
    /\ Hole \in Cell /\ Junk \in Cell /\ Stub \in Cell
    /\ \A i \in Infos, c \in Nat : LocalHeader(i, c) \in Cell
    /\ \A c \in Nat : Payload(c) \in Cell /\ Descriptor(c) \in Cell
    /\ \A i \in Infos, z \in Meta : CentralRecord(i, z) \in Cell
    /\ \A n \in Nat, o \in Nat : EndRecord(n, o) \in Cell
BY DEF Cell, LocalHeader, Payload, Descriptor, CentralRecord, EndRecord

LEMMA BlankMeta == Blank \in Meta
BY DEF Blank, Meta

LEMMA StrongIsLoose == TypeOK => Loose
<1>1. Meta \subseteq LooseMeta
  BY DEF Meta, LooseMeta
<1>2. Cell \subseteq LooseCell
  BY <1>1 DEF Cell, LooseCell
<1> HIDE DEF Meta, LooseMeta, Cell, LooseCell
<1> QED BY <1>1, <1>2 DEF TypeOK, Loose, LooseFile, LooseDisk, Control

LEMMA PutOne ==
    ASSUME NEW C, NEW d \in [Addr -> C], NEW p \in Addr, NEW c
    PROVE  /\ Put(d, p, <<c>>)[p] = c
           /\ \A a \in Addr : a # p => Put(d, p, <<c>>)[a] = d[a]
           /\ DOMAIN Put(d, p, <<c>>) = Addr
<1>1. Put(d, p, <<c>>) = [a \in Addr |-> IF a = p THEN c ELSE d[a]]
  <2>1. Len(<<c>>) = 1 /\ <<c>>[1] = c
    OBVIOUS
  <2>2. \A a \in Addr : (p <= a /\ a < p + 1 <=> a = p) /\ p - p + 1 = 1
    BY DEF Addr
  <2> QED BY <2>1, <2>2 DEF Put
<1> QED BY <1>1

(* A member keeps its cells as long as nothing is written below its end.    *)
LEMMA IntactBelow ==
    ASSUME NEW d, NEW d2, NEW i, NEW z \in Meta, NEW p \in 0 .. DiskCells,
           \A a \in Addr : a < p => d2[a] = d[a],
           EndOf(z) <= p, Intact(d, i, z)
    PROVE  Intact(d2, i, z)
<1>1. /\ z.off \in Nat /\ z.size \in Nat /\ z.dd \in BOOLEAN
  BY DEF Meta
<1>2. \A a \in Nat : a < EndOf(z) => a \in Addr /\ a < p /\ d2[a] = d[a]
  BY <1>1, LayoutAssumption DEF EndOf, Addr
<1>3. d2[z.off] = d[z.off]
  BY <1>1, <1>2 DEF EndOf
<1>4. \A a \in (z.off + 1) .. (z.off + z.size) : d2[a] = d[a]
  BY <1>1, <1>2 DEF EndOf
<1>5. z.dd => d2[z.off + z.size + 1] = d[z.off + z.size + 1]
  BY <1>1, <1>2 DEF EndOf
<1> QED BY <1>3, <1>4, <1>5 DEF Intact

-----------------------------------------------------------------------------
(* Members: none is disturbed, or one is added                              *)

(* What was on the disk below start_dir, or said of a listed member, stays. *)
Undisturbed ==
    /\ \A a \in Addr : a < start_dir => disk'[a] = disk[a]
    /\ \A k \in DOMAIN filelist : zinfo'[filelist[k]] = zinfo[filelist[k]]
    /\ start_dir <= start_dir'
    /\ struck \subseteq struck'

LEMMA MembersStay ==
    ASSUME TypeOK, MembersPlaced, Undisturbed, start_dir <= DiskCells,
           start_dir' \in Nat, filelist' = filelist
    PROVE  MembersPlaced'
<1> SUFFICES ASSUME NothingCutShort', NEW k \in DOMAIN filelist PROVE Placed(k)'
  BY DEF MembersPlaced
<1>1. NothingCutShort
  BY DEF NothingCutShort, Undisturbed
<1>2. Placed(k)
  BY <1>1 DEF MembersPlaced
<1>3. \A j \in DOMAIN filelist :
         filelist[j] \in Infos /\ zinfo[filelist[j]] \in Meta
  BY DEF TypeOK
<1>4. \A j \in DOMAIN filelist : zinfo'[filelist'[j]] = zinfo[filelist[j]]
  BY DEF Undisturbed
<1> DEFINE z == zinfo[filelist[k]]
<1>5. EndOf(z) <= start_dir /\ EndOf(z) \in Nat
  BY <1>2, <1>3 DEF Placed, EndOf, Meta
<1>6. Intact(disk', filelist[k], z)
  <2>1. start_dir \in 0 .. DiskCells
    BY LayoutAssumption DEF TypeOK
  <2> QED BY <1>2, <1>3, <1>5, <2>1, IntactBelow DEF Placed, Undisturbed
<1>7. EndOf(z) <= start_dir'
  BY <1>5 DEF Undisturbed, TypeOK
<1> QED BY <1>2, <1>4, <1>6, <1>7 DEF Placed

(* The same where the disk is as it was, wherever start_dir is.             *)
LEMMA SameDiskStay ==
    ASSUME MembersPlaced, Undisturbed, disk' = disk, filelist' = filelist,
           start_dir' = start_dir
    PROVE  MembersPlaced'
<1> SUFFICES ASSUME NothingCutShort', NEW k \in DOMAIN filelist PROVE Placed(k)'
  BY DEF MembersPlaced
<1>1. NothingCutShort
  BY DEF NothingCutShort, Undisturbed
<1>2. Placed(k)
  BY <1>1 DEF MembersPlaced
<1>3. \A j \in DOMAIN filelist : zinfo'[filelist'[j]] = zinfo[filelist[j]]
  BY DEF Undisturbed
<1> QED BY <1>2, <1>3 DEF Placed

LEMMA MemberJoins ==
    ASSUME TypeOK, MembersPlaced, Undisturbed, start_dir <= DiskCells,
           start_dir' \in Nat,
           NEW i \in Infos, filelist' = Register(i), zinfo'[i] \in Meta,
           NothingCutShort' =>
              /\ start_dir <= zinfo'[i].off
              /\ EndOf(zinfo'[i]) <= start_dir'
              /\ Intact(disk', i, zinfo'[i])
    PROVE  MembersPlaced'
<1> SUFFICES ASSUME NothingCutShort', NEW k \in DOMAIN filelist' PROVE Placed(k)'
  BY DEF MembersPlaced
<1>0. /\ DOMAIN filelist = 1 .. Len(filelist)
      /\ DOMAIN filelist' = 1 .. (Len(filelist) + 1)
      /\ \A j \in 1 .. Len(filelist) : filelist'[j] = filelist[j]
      /\ filelist'[Len(filelist) + 1] = i
      /\ Len(filelist) \in Nat
  BY DEF Register, TypeOK
<1>1. NothingCutShort
  BY DEF NothingCutShort, Undisturbed
<1>3. \A j \in DOMAIN filelist :
         filelist[j] \in Infos /\ zinfo[filelist[j]] \in Meta
  BY DEF TypeOK
<1>4. \A j \in 1 .. Len(filelist) : zinfo'[filelist'[j]] = zinfo[filelist[j]]
  BY <1>0 DEF Undisturbed
<1>8. CASE k \in 1 .. Len(filelist)
  <2> DEFINE z == zinfo[filelist[k]]
  <2>2. Placed(k) /\ k \in DOMAIN filelist
    BY <1>0, <1>1, <1>8 DEF MembersPlaced
  <2>5. EndOf(z) <= start_dir /\ EndOf(z) \in Nat
    BY <2>2, <1>3 DEF Placed, EndOf, Meta
  <2>6. Intact(disk', filelist[k], z)
    <3>1. start_dir \in 0 .. DiskCells
      BY LayoutAssumption DEF TypeOK
    <3> QED BY <2>2, <1>3, <2>5, <3>1, IntactBelow DEF Placed, Undisturbed
  <2>7. EndOf(z) <= start_dir' /\ EndOf(z) <= zinfo'[i].off
    BY <2>5 DEF Undisturbed, TypeOK, Meta
  <2>8. zinfo'[filelist'[k]] = z /\ filelist'[k] = filelist[k]
    BY <1>0, <1>4, <1>8
  <2>9. ASSUME NEW j \in DOMAIN filelist', j > k
        PROVE  EndOf(z) <= zinfo'[filelist'[j]].off
    <3>1. CASE j \in 1 .. Len(filelist)
      BY <3>1, <2>2, <2>9, <1>0, <1>4 DEF Placed
    <3>2. CASE j = Len(filelist) + 1
      BY <3>2, <2>7, <1>0
    <3> QED BY <3>1, <3>2, <1>0
  <2> QED BY <2>6, <2>7, <2>8, <2>9 DEF Placed
<1>9. CASE k = Len(filelist) + 1
  <2>1. filelist'[k] = i /\ \A j \in DOMAIN filelist' : ~ j > k
    BY <1>0, <1>9
  <2> QED BY <2>1 DEF Placed
<1> QED BY <1>0, <1>8, <1>9

-----------------------------------------------------------------------------
(* What the sessions leave on the disk                                      *)

LEMMA CellSorts ==
    ASSUME NEW c \in Cell
    PROVE  /\ c.kind = "cd" => /\ c.name \in Infos /\ c.meta \in Meta
                               /\ c = CentralRecord(c.name, c.meta)
           /\ c.kind = "eocd" => c.size \in Nat /\ c.off \in Nat /\ c # Hole
BY DEF Cell, Hole, Junk, Stub, CentralRecord

(* Where the records of an end record lie.                                  *)
LEMMA RecordsLie ==
    ASSUME disk \in [Addr -> Cell], Remains, NEW e \in Addr, disk[e].kind = "eocd"
    PROVE  /\ disk[e].size \in Nat /\ From(e) \in Nat /\ From(e) <= e /\ e \in Nat
           /\ e - disk[e].size = From(e)
           /\ \A k \in 1 .. disk[e].size :
                 From(e) + k - 1 \in Addr /\ From(e) + k - 1 < e
<1>1. disk[e].size \in Nat /\ disk[e].off \in Nat
  <2>1. disk[e] \in Cell
    OBVIOUS
  <2> QED BY <2>1, CellSorts
<1>2. e \in 0 .. (DiskCells - 1) /\ DiskCells \in Nat
  BY LayoutAssumption DEF Addr
<1>3. From(e) \in Nat
  BY <1>1 DEF Remains
<1> DEFINE n == disk[e].size
<1>4. From(e) = e - n
  BY DEF From
<1> HIDE DEF n
<1>5. \A k \in 1 .. n : From(e) + k - 1 \in Addr /\ From(e) + k - 1 < e
  BY <1>1, <1>2, <1>3, <1>4 DEF Addr, n
<1> QED BY <1>1, <1>2, <1>3, <1>4, <1>5 DEF n

(* A record that can still be reached, or could not be before, was true and *)
(* is true, as long as nothing but other cells are put behind the members.  *)
LEMMA TruthStays ==
    ASSUME disk \in [Addr -> Cell], disk' \in [Addr -> Cell], Remains,
           NEW e \in Addr, disk[e].kind = "eocd", disk'[e] = disk[e],
           NEW b \in 0 .. DiskCells, From(e) <= b,
           \A a \in Addr : a < b => disk'[a] = disk[a],
           \A a \in Addr : a < e /\ disk'[a].kind = "cd" => disk'[a] = disk[a],
           struck \subseteq struck',
           NEW k \in 1 .. disk[e].size, Reached(e, k)'
    PROVE  Truthful(e, k)'
<1>1. /\ disk[e].size \in Nat /\ From(e) \in Nat /\ From(e) <= e
      /\ \A j \in 1 .. disk[e].size : From(e) + j - 1 \in Addr /\ From(e) + j - 1 < e
  BY RecordsLie
<1>2. From(e)' = From(e)
  BY DEF From
<1>3. ASSUME NEW j \in 1 .. k
      PROVE  Rec(e, j)' = Rec(e, j) /\ Rec(e, j).kind = "cd" /\ Rec(e, j) \in Cell
  <2>1. j \in 1 .. disk[e].size /\ k \in Nat
    BY <1>1
  <2>2. From(e) + j - 1 \in From(e) .. (From(e) + k - 1)
    BY <1>1, <2>1
  <2>3. /\ disk'[From(e) + j - 1].kind = "cd" /\ From(e) + j - 1 \in Addr
        /\ From(e) + j - 1 < e
    BY <1>1, <1>2, <2>1, <2>2 DEF Reached
  <2> QED BY <1>2, <2>3 DEF Rec
<1>4. Reached(e, k)
  <2>1. ASSUME NEW a \in From(e) .. (From(e) + k - 1) PROVE disk[a].kind = "cd"
    <3>1. a - From(e) + 1 \in 1 .. k /\ From(e) + (a - From(e) + 1) - 1 = a
      BY <1>1, Index
    <3> QED BY <1>3, <3>1 DEF Rec
  <2> QED BY <2>1 DEF Reached
<1>5. Truthful(e, k)
  BY <1>4 DEF Remains
<1> DEFINE r == Rec(e, k)
<1>6. k \in 1 .. k /\ \A j \in 1 .. (k - 1) : j \in 1 .. k
  BY <1>1
<1>7. Rec(e, k)' = r /\ r.meta \in Meta
  BY <1>3, <1>6, CellSorts
<1>8. \A j \in 1 .. (k - 1) : Rec(e, j)' = Rec(e, j)
  BY <1>3, <1>6
<1>9. ASSUME NothingCutShort'
      PROVE  /\ Intact(disk', r.name, r.meta) /\ EndOf(r.meta) <= From(e)
             /\ \A j \in 1 .. (k - 1) : EndOf(Rec(e, j).meta) <= r.meta.off
  <2>1. NothingCutShort
    BY <1>9 DEF NothingCutShort
  <2>2. /\ Intact(disk, r.name, r.meta) /\ EndOf(r.meta) <= From(e)
        /\ \A j \in 1 .. (k - 1) : EndOf(Rec(e, j).meta) <= r.meta.off
    BY <1>5, <2>1 DEF Truthful
  <2>3. EndOf(r.meta) \in Nat
    BY <1>7 DEF EndOf, Meta
  <2>4. EndOf(r.meta) <= b
    BY <1>1, <2>2, <2>3
  <2>5. Intact(disk', r.name, r.meta)
    <3> HIDE DEF r
    <3> QED BY <1>7, <2>2, <2>4, IntactBelow
  <2> QED BY <2>2, <2>5
<1> HIDE DEF r
<1>10. /\ r.name \in Dirs => r.meta.size = 0 /\ r.meta.crc = 0 /\ ~r.meta.dd
       /\ \A j \in 1 .. (k - 1) : Rec(e, j).name # r.name
  BY <1>5 DEF Truthful, r
<1> QED BY <1>2, <1>7, <1>8, <1>9, <1>10 DEF Truthful

LEMMA RemainsSame ==
    ASSUME disk \in [Addr -> Cell], Remains, disk' = disk, struck \subseteq struck'
    PROVE  Remains'
<1> SUFFICES ASSUME NEW e \in Addr, disk'[e].kind = "eocd"
             PROVE  /\ disk'[e].off = From(e)'
                    /\ \A k \in 1 .. disk'[e].size : Reached(e, k)' => Truthful(e, k)'
  BY DEF Remains
<1>1. disk[e].off = From(e) /\ From(e)' = From(e)
  BY DEF Remains, From
<1>2. From(e) \in 0 .. DiskCells
  <2>1. From(e) \in Nat /\ From(e) <= e
    BY RecordsLie
  <2> QED BY <2>1, LayoutAssumption DEF Addr
<1>3. ASSUME NEW k \in 1 .. disk[e].size, Reached(e, k)' PROVE Truthful(e, k)'
  BY <1>2, <1>3, TruthStays
<1> QED BY <1>1, <1>3

(* A step of a session that writes nothing but cells of members, at         *)
(* start_dir or behind it.                                                  *)
WritesBehind ==
    /\ status = "open" /\ status' = "open" /\ mode # "r" /\ mode' = mode
    /\ disk' \in [Addr -> Cell]
    /\ start_dir \in 0 .. DiskCells /\ start_dir' \in Nat /\ start_dir <= start_dir'
    /\ \A a \in Addr : a < start_dir => disk'[a] = disk[a]
    /\ \A a \in Addr : disk'[a] = disk[a] \/ disk'[a].kind \notin {"cd", "eocd"}
    /\ mode = "a" => \A a \in Addr : start_dir <= a /\ a < start_dir'
                        => disk'[a].kind \notin {"cd", "eocd"}
    /\ struck \subseteq struck'

LEMMA RelicsStay ==
    ASSUME Places, WritesBehind, Kept
    PROVE  Remains' /\ Overtaken'
<1>0. /\ disk \in [Addr -> Cell] /\ disk' \in [Addr -> Cell]
      /\ mode \in {"w", "a"} /\ mode' = mode /\ status = "open"
      /\ filelist \in Seq(Infos) /\ Remains /\ Overtaken /\ NoRecordsYet
      /\ start_dir \in 0 .. DiskCells /\ start_dir' \in Nat /\ start_dir <= start_dir'
  BY DEF Places, Relics, TypeOK, WritesBehind
<1>1. CASE mode = "w"
  <2>1. \A a \in Addr : disk[a].kind \notin {"cd", "eocd"}
    BY <1>0, <1>1 DEF NoRecordsYet
  <2>2. \A a \in Addr : disk'[a].kind \notin {"cd", "eocd"}
    BY <2>1 DEF WritesBehind
  <2> QED BY <1>0, <1>1, <2>2 DEF Remains, Overtaken
<1>2. CASE mode = "a"
  <2>1. ASSUME NEW e \in Addr, disk'[e].kind = "eocd"
        PROVE  disk'[e] = disk[e] /\ disk[e].kind = "eocd" /\ From(e)' = From(e)
    <3>1. disk'[e] = disk[e]
      BY <2>1 DEF WritesBehind
    <3> QED BY <2>1, <3>1 DEF From
  <2>2. \A a \in Addr : disk'[a].kind = "cd" => disk'[a] = disk[a]
    BY DEF WritesBehind
  <2>3. ASSUME NEW e \in Addr, disk'[e].kind = "eocd"
        PROVE  /\ disk'[e].off = From(e)'
               /\ \A k \in 1 .. disk'[e].size : Reached(e, k)' => Truthful(e, k)'
    <3>1. disk'[e] = disk[e] /\ disk[e].kind = "eocd" /\ From(e)' = From(e)
      BY <2>1, <2>3
    <3>2. From(e) \in Nat /\ From(e) <= e /\ e \in Nat
      BY <1>0, <3>1, RecordsLie
    <3>3. From(e) <= start_dir
      BY <1>0, <1>2, <3>1, <3>2 DEF Overtaken
    <3>4. ASSUME NEW k \in 1 .. disk[e].size, Reached(e, k)' PROVE Truthful(e, k)'
      BY <1>0, <2>2, <3>1, <3>3, <3>4, TruthStays DEF WritesBehind
    <3>5. disk[e].off = From(e)
      BY <1>0, <3>1 DEF Remains
    <3> QED BY <3>1, <3>4, <3>5
  <2>4. ASSUME NEW e \in Addr, disk'[e].kind = "eocd", e >= start_dir'
        PROVE  \/ From(e)' < start_dir' /\ disk'[From(e)'].kind # "cd"
               \/ /\ From(e)' = start_dir' /\ disk'[e].size <= Len(filelist')
                  /\ \A k \in 1 .. disk'[e].size :
                        Rec(e, k)'.kind = "cd" =>
                            Rec(e, k)' = CentralRecord(filelist'[k], zinfo'[filelist'[k]])
    <3>1. disk'[e] = disk[e] /\ disk[e].kind = "eocd" /\ From(e)' = From(e)
      BY <2>1, <2>4
    <3>2. /\ From(e) \in Nat /\ From(e) <= e /\ e \in Nat /\ disk[e].size \in Nat
          /\ \A k \in 1 .. disk[e].size : From(e) + k - 1 \in Addr
      BY <1>0, <3>1, RecordsLie
    <3>3. e >= start_dir
      BY <1>0, <2>4, <3>2
    <3>4. From(e) \in Addr
      BY <3>2, LayoutAssumption DEF Addr
    <3>5. CASE From(e) < start_dir /\ disk[From(e)].kind # "cd"
      <4>1. disk'[From(e)].kind # "cd"
        BY <2>2, <3>4, <3>5
      <4>2. From(e) < start_dir'
        BY <1>0, <3>2, <3>5
      <4> QED BY <3>1, <4>1, <4>2
    <3>6. CASE From(e) = start_dir /\ start_dir < start_dir'
      <4>1. disk'[From(e)].kind # "cd"
        BY <1>2, <3>4, <3>6 DEF WritesBehind
      <4> QED BY <3>1, <3>6, <4>1
    <3>7. CASE /\ From(e) = start_dir /\ start_dir = start_dir'
               /\ disk[e].size <= Len(filelist)
               /\ \A k \in 1 .. disk[e].size :
                     Rec(e, k).kind = "cd" =>
                         Rec(e, k) = CentralRecord(filelist[k], zinfo[filelist[k]])
      <4>1. Len(filelist) \in Nat /\ Len(filelist') \in Nat /\ Len(filelist) <= Len(filelist')
            /\ DOMAIN filelist = 1 .. Len(filelist)
        BY <1>0 DEF Kept, Front, WritesBehind
      <4>2. ASSUME NEW k \in 1 .. disk[e].size, Rec(e, k)'.kind = "cd"
            PROVE  Rec(e, k)' = CentralRecord(filelist'[k], zinfo'[filelist'[k]])
        <5>1. Rec(e, k)' = Rec(e, k)
          BY <2>2, <3>1, <3>2, <4>2 DEF Rec
        <5>2. k \in DOMAIN filelist
          BY <3>2, <3>7, <4>1
        <5>3. filelist'[k] = filelist[k] /\ zinfo'[filelist[k]] = zinfo[filelist[k]]
          BY <5>2 DEF Kept, Front
        <5> QED BY <3>7, <4>2, <5>1, <5>3
      <4>3. disk[e].size <= Len(filelist')
        BY <3>2, <3>7, <4>1
      <4> QED BY <3>1, <3>7, <4>2, <4>3
    <3> QED BY <1>0, <1>2, <3>1, <3>3, <3>5, <3>6, <3>7 DEF Overtaken
  <2> QED BY <2>3, <2>4 DEF Remains, Overtaken
<1> QED BY <1>0, <1>1, <1>2

-----------------------------------------------------------------------------
(* Sessions                                                                 *)

Positions ==
    /\ disk \in [Addr -> Cell]
    /\ pos \in Nat /\ start_dir \in Nat
    /\ filelist \in Seq(Infos)
    /\ zinfo \in [Infos -> Meta]

(* What of the invariant a step has to be looked at for.                    *)
Sound == /\ Positions
         /\ PlacingOK /\ WriterOK /\ MembersPlaced
         /\ DirectoriesAreBlank /\ NoRecordsYet /\ Saved

LEMMA PlacesParts == Places <=> Sound /\ Control /\ UnlistedWriter /\ Relics
BY DEF Places, Sound, Positions, TypeOK, Control

LEMMA PlacesInit == Init => Places
<1> SUFFICES ASSUME Init PROVE Places
  OBVIOUS
<1>1. Control /\ UnlistedWriter
  BY ControlInit DEF Init, UnlistedWriter
<1>2. Positions
  BY StrongCells, BlankMeta DEF Init, Positions
<1>3. \A e \in Addr : disk[e].kind # "eocd"
  BY DEF Init, Hole
<1>4. Remains /\ Overtaken /\ Unique
  BY <1>3 DEF Init, Remains, Overtaken, Unique
<1>5. MembersPlaced /\ DirectoriesAreBlank
  BY ArchiveAssumption DEF Init, MembersPlaced, DirectoriesAreBlank, Blank
<1> QED BY <1>1, <1>2, <1>4, <1>5, PlacesParts
        DEF Init, Sound, PlacingOK, WriterOK, NoRecordsYet, Saved, Relics

LEMMA CreateKeeps == Places /\ Create => Sound'
<1> SUFFICES ASSUME Places, Create PROVE Sound'
  OBVIOUS
<1>1. /\ status' = "open" /\ writer' = NoWriter /\ mode' = "w" /\ didModify' = TRUE
      /\ disk' = [a \in Addr |-> Hole] /\ pos' = 0 /\ start_dir' = 0
      /\ filelist' = <<>> /\ zinfo' = [i \in Infos |-> Blank]
  BY DEF Create, NewZipFile
<1>2. Positions'
  BY <1>1, StrongCells, BlankMeta DEF Positions
<1>3. MembersPlaced' /\ DirectoriesAreBlank' /\ NoRecordsYet'
  BY <1>1, ArchiveAssumption DEF MembersPlaced, DirectoriesAreBlank, NoRecordsYet, Blank, Hole
<1>4. PlacingOK'
  <2>1. WritePos' = 0 /\ Len(filelist') = 0
    BY <1>1 DEF WritePos
  <2> QED BY <1>1, <2>1, LayoutAssumption DEF PlacingOK
<1> QED BY <1>1, <1>2, <1>3, <1>4 DEF Sound, WriterOK, Saved

(* The records that are read, as far as they go, are those of the last end  *)
(* record, as they are: nothing has shifted them.                           *)
LEMMA DirectoryRead ==
    ASSUME TypeOK, Remains, HasDirectory(disk)
    PROVE  LET e == LastEndRecord(disk)
               n == RecordsBefore(disk, e)
           IN  /\ e \in Addr /\ e \in Nat /\ disk[e].kind = "eocd"
               /\ IsEndRecord(disk, e)
               /\ disk[e].size \in Nat /\ n \in Nat /\ n <= disk[e].size
               /\ From(e) \in Nat /\ From(e) + disk[e].size = e
               /\ DirectoryStart(disk) = From(e)
               /\ Directory(disk) =
                     [k \in 1 .. n |-> [name |-> Rec(e, k).name, meta |-> Rec(e, k).meta]]
               /\ \A k \in 1 .. n :
                     /\ Truthful(e, k)
                     /\ Rec(e, k).name \in Infos /\ Rec(e, k).meta \in Meta
                     /\ Rec(e, k) = CentralRecord(Rec(e, k).name, Rec(e, k).meta)
               /\ Parses(disk) => n = disk[e].size
<1> DEFINE e == LastEndRecord(disk)
           m == disk[e].size
           n == RecordsBefore(disk, e)
<1>0. disk \in LooseDisk /\ disk \in [Addr -> Cell]
  BY StrongIsLoose DEF Loose, LooseFile, TypeOK
<1>1. e \in Addr /\ disk[e].kind = "eocd" /\ IsEndRecord(disk, e)
  BY <1>0, EndRecordFound
<1>2. /\ m \in Nat /\ From(e) \in Nat /\ From(e) <= e /\ e \in Nat
      /\ e - m = From(e)
      /\ \A k \in 1 .. m : From(e) + k - 1 \in Addr
  BY <1>0, <1>1, RecordsLie
<1>3. /\ n \in Nat /\ (n > 0 => n <= m)
      /\ \A a \in (e - m) .. ((e - m) + n - 1) : disk[a].kind = "cd"
      /\ \A k \in 1 .. m : (\A a \in (e - m) .. ((e - m) + k - 1) : disk[a].kind = "cd") => k <= n
  BY <1>2, RecordsCounted
<1>4. DirectoryStart(disk) = From(e) /\ Shift(disk) = 0
  <2>1. disk[e].off = From(e)
    BY <1>1 DEF Remains
  <2> QED BY <1>2, <2>1 DEF DirectoryStart, Shift
<1>5. Directory(disk) = [k \in 1 .. n |-> Entry(disk, k)]
  BY DEF Directory
<1>6. Parses(disk) => n = m
  <2> SUFFICES ASSUME Parses(disk) PROVE n = m
    OBVIOUS
  <2>1. \A a \in (e - m) .. (e - 1) : disk[a].kind = "cd"
    BY <1>0, WholeDirectory
  <2>2. CASE m > 0
    <3>1. m \in 1 .. m /\ (e - m) + m - 1 = e - 1
      BY <1>2, <2>2
    <3>2. m <= n
      <4> HIDE DEF e, m, n
      <4> QED BY <1>3, <2>1, <3>1
    <3> HIDE DEF e, m, n
    <3> QED BY <1>2, <1>3, <2>2, <3>2
  <2>3. CASE m = 0
    <3> HIDE DEF e, m, n
    <3> QED BY <1>2, <1>3, <2>3
  <2> QED BY <1>2, <2>2, <2>3
<1> HIDE DEF e, m, n
<1>7. ASSUME NEW k \in 1 .. n
      PROVE  /\ Truthful(e, k)
             /\ Rec(e, k).name \in Infos /\ Rec(e, k).meta \in Meta
             /\ Rec(e, k) = CentralRecord(Rec(e, k).name, Rec(e, k).meta)
             /\ Entry(disk, k) = [name |-> Rec(e, k).name, meta |-> Rec(e, k).meta]
  <2>1. k \in 1 .. m
    BY <1>2, <1>3
  <2>2. Reached(e, k)
    <3>1. \A a \in From(e) .. (From(e) + k - 1) : a \in (e - m) .. ((e - m) + n - 1)
      BY <1>2, <1>3
    <3> QED BY <1>3, <2>1, <3>1 DEF Reached, m
  <2>3. Truthful(e, k)
    BY <1>1, <2>1, <2>2 DEF Remains, m
  <2>4. From(e) + k - 1 \in Addr /\ From(e) + k - 1 \in From(e) .. (From(e) + k - 1)
    BY <1>2, <2>1
  <2>5. Rec(e, k).kind = "cd" /\ Rec(e, k) \in Cell
    BY <1>0, <2>2, <2>4 DEF Reached, Rec
  <2>6. /\ Rec(e, k).name \in Infos /\ Rec(e, k).meta \in Meta
        /\ Rec(e, k) = CentralRecord(Rec(e, k).name, Rec(e, k).meta)
    BY <2>5, CellSorts
  <2>7. Entry(disk, k) = [name |-> Rec(e, k).name,
                          meta |-> [Rec(e, k).meta EXCEPT !.off = @ + Shift(disk)]]
    BY <1>4 DEF Entry, Rec
  <2>8. \A z \in Meta : [z EXCEPT !.off = @ + 0] = z
    BY DEF Meta
  <2> QED BY <1>4, <2>3, <2>6, <2>7, <2>8
<1>8. Directory(disk) =
         [k \in 1 .. n |-> [name |-> Rec(e, k).name, meta |-> Rec(e, k).meta]]
  BY <1>5, <1>7
<1>9. n <= m /\ From(e) + m = e
  BY <1>2, <1>3
<1> QED BY <1>1, <1>2, <1>3, <1>4, <1>6, <1>7, <1>8, <1>9 DEF e, m, n

(* Whatever is read, names each member once, and the members lie one behind *)
(* the other before the directory.                                          *)
LEMMA EntriesSound ==
    ASSUME TypeOK, Remains
    PROVE  \E n \in Nat :
              /\ DOMAIN Directory(disk) = 1 .. n
              /\ n > 0 => HasDirectory(disk)
              /\ \A k \in 1 .. n :
                    LET r == Directory(disk)[k]
                    IN  /\ r.name \in Infos /\ r.meta \in Meta
                        /\ r = [name |-> r.name, meta |-> r.meta]
                        /\ r.name \in Dirs => r.meta.size = 0 /\ r.meta.crc = 0 /\ ~r.meta.dd
                        /\ \A j \in 1 .. (k - 1) : Directory(disk)[j].name # r.name
                        /\ NothingCutShort =>
                              /\ Intact(disk, r.name, r.meta)
                              /\ EndOf(r.meta) <= DirectoryStart(disk)
                              /\ \A j \in 1 .. (k - 1) :
                                    EndOf(Directory(disk)[j].meta) <= r.meta.off
<1>1. CASE ~HasDirectory(disk)
  <2>1. Directory(disk) = <<>>
    BY <1>1 DEF Directory
  <2>2. DOMAIN Directory(disk) = 1 .. 0 /\ 0 \in Nat /\ ~ 0 > 0 /\ 1 .. 0 = {}
    BY <2>1
  <2> QED BY <2>2
<1>2. CASE HasDirectory(disk)
  <2> DEFINE e == LastEndRecord(disk)
             n == RecordsBefore(disk, e)
  <2>1. /\ n \in Nat /\ DirectoryStart(disk) = From(e)
        /\ Directory(disk) =
              [k \in 1 .. n |-> [name |-> Rec(e, k).name, meta |-> Rec(e, k).meta]]
        /\ \A k \in 1 .. n : Truthful(e, k) /\ Rec(e, k).name \in Infos /\ Rec(e, k).meta \in Meta
    BY <1>2, DirectoryRead
  <2> HIDE DEF e, n
  <2>2. ASSUME NEW k \in 1 .. n
        PROVE  LET r == Directory(disk)[k]
               IN  /\ r.name \in Infos /\ r.meta \in Meta
                   /\ r = [name |-> r.name, meta |-> r.meta]
                   /\ r.name \in Dirs => r.meta.size = 0 /\ r.meta.crc = 0 /\ ~r.meta.dd
                   /\ \A j \in 1 .. (k - 1) : Directory(disk)[j].name # r.name
                   /\ NothingCutShort =>
                         /\ Intact(disk, r.name, r.meta)
                         /\ EndOf(r.meta) <= DirectoryStart(disk)
                         /\ \A j \in 1 .. (k - 1) :
                               EndOf(Directory(disk)[j].meta) <= r.meta.off
    <3>1. Directory(disk)[k] = [name |-> Rec(e, k).name, meta |-> Rec(e, k).meta]
      BY <2>1
    <3>2. \A j \in 1 .. (k - 1) : j \in 1 .. n
      BY <2>1
    <3>3. \A j \in 1 .. (k - 1) : /\ Directory(disk)[j].name = Rec(e, j).name
                                  /\ Directory(disk)[j].meta = Rec(e, j).meta
      BY <2>1, <3>2
    <3>4. Truthful(e, k) /\ Rec(e, k).name \in Infos /\ Rec(e, k).meta \in Meta
      BY <2>1
    <3> QED BY <2>1, <3>1, <3>3, <3>4 DEF Truthful
  <2>3. DOMAIN Directory(disk) = 1 .. n
    BY <2>1
  <2> QED BY <1>2, <2>1, <2>2, <2>3
<1> QED BY <1>1, <1>2

(* What an archive is opened with.                                          *)
LEMMA ReadBack ==
    ASSUME TypeOK, Remains, RealGetContents, disk' = disk, struck' = struck,
           start_dir' \in Nat, HasDirectory(disk) => DirectoryStart(disk) <= start_dir'
    PROVE  /\ filelist' \in Seq(Infos) /\ zinfo' \in [Infos -> Meta]
           /\ DOMAIN Directory(disk) = 1 .. Len(filelist')
           /\ Own' = Directory(disk)
           /\ Unique' /\ DirectoriesAreBlank' /\ MembersPlaced'
<1> DEFINE dir == Directory(disk)
<1>1. PICK n \in Nat :
              /\ DOMAIN dir = 1 .. n
              /\ n > 0 => HasDirectory(disk)
              /\ \A k \in 1 .. n :
                    /\ dir[k].name \in Infos /\ dir[k].meta \in Meta
                    /\ dir[k] = [name |-> dir[k].name, meta |-> dir[k].meta]
                    /\ dir[k].name \in Dirs =>
                          dir[k].meta.size = 0 /\ dir[k].meta.crc = 0 /\ ~dir[k].meta.dd
                    /\ \A j \in 1 .. (k - 1) : dir[j].name # dir[k].name
                    /\ NothingCutShort =>
                          /\ Intact(disk, dir[k].name, dir[k].meta)
                          /\ EndOf(dir[k].meta) <= DirectoryStart(disk)
                          /\ \A j \in 1 .. (k - 1) : EndOf(dir[j].meta) <= dir[k].meta.off
  BY EntriesSound
<1>2. /\ filelist' = [k \in DOMAIN dir |-> dir[k].name]
      /\ zinfo' = [i \in Infos |->
            LET ks == {k \in DOMAIN dir : dir[k].name = i}
            IN  IF ks = {} THEN Blank ELSE dir[MaxOf(ks)].meta]
  BY DEF RealGetContents
<1>3. dir = [k \in DOMAIN dir |-> dir[k]]
  <2>1. CASE HasDirectory(disk)
    BY <2>1 DEF Directory
  <2>2. CASE ~HasDirectory(disk)
    <3>1. dir = <<>>
      BY <2>2 DEF Directory
    <3> QED BY <3>1
  <2> QED BY <2>1, <2>2
<1> HIDE DEF dir
<1>4. filelist' = [k \in 1 .. n |-> dir[k].name] /\ filelist' \in Seq(Infos)
      /\ Len(filelist') = n /\ DOMAIN filelist' = 1 .. n
  BY <1>1, <1>2
<1>5. ASSUME NEW i \in Infos
      PROVE  /\ zinfo'[i] = Blank \/ \E k \in 1 .. n : dir[k].name = i /\ zinfo'[i] = dir[k].meta
             /\ \A k \in 1 .. n : dir[k].name = i => zinfo'[i] = dir[k].meta
  <2> DEFINE ks == {k \in 1 .. n : dir[k].name = i}
  <2>1. zinfo'[i] = IF ks = {} THEN Blank ELSE dir[MaxOf(ks)].meta
    BY <1>1, <1>2
  <2>2. ASSUME ks # {} PROVE MaxOf(ks) \in ks
    <3>1. ks \subseteq 1 .. n
      OBVIOUS
    <3> HIDE DEF ks
    <3> QED BY <2>2, <3>1, GreatestIn
  <2>3. ASSUME NEW k \in ks, NEW l \in ks PROVE k = l
    <3>1. k \in 1 .. n /\ l \in 1 .. n /\ dir[k].name = i /\ dir[l].name = i
      OBVIOUS
    <3>2. ~ k < l /\ ~ l < k
      BY <1>1, <3>1
    <3> QED BY <3>1, <3>2
  <2>4. CASE ks = {}
    BY <2>1, <2>4
  <2>5. CASE ks # {}
    <3>1. MaxOf(ks) \in ks /\ zinfo'[i] = dir[MaxOf(ks)].meta
      BY <2>1, <2>2, <2>5
    <3>2. \A k \in ks : k = MaxOf(ks)
      BY <2>3, <3>1
    <3> QED BY <3>1, <3>2
  <2> QED BY <2>4, <2>5
<1>6. zinfo' \in [Infos -> Meta]
  <2>1. \A i \in Infos : zinfo'[i] \in Meta
    BY <1>1, <1>5, BlankMeta
  <2>2. DOMAIN zinfo' = Infos /\ zinfo' = [i \in Infos |-> zinfo'[i]]
    BY <1>2
  <2> QED BY <2>1, <2>2
<1>7. \A k \in 1 .. n : filelist'[k] = dir[k].name /\ zinfo'[filelist'[k]] = dir[k].meta
  BY <1>1, <1>4, <1>5
<1>8. Own' = dir
  <2>1. Own' = [k \in 1 .. n |-> [name |-> filelist'[k], meta |-> zinfo'[filelist'[k]]]]
    BY <1>4 DEF Own
  <2>2. \A k \in 1 .. n : [name |-> filelist'[k], meta |-> zinfo'[filelist'[k]]] = dir[k]
    BY <1>1, <1>7
  <2> QED BY <1>1, <1>3, <2>1, <2>2
<1>9. Unique'
  <2> SUFFICES ASSUME NEW j \in 1 .. n, NEW k \in 1 .. n, filelist'[j] = filelist'[k]
               PROVE  j = k
    BY <1>4 DEF Unique
  <2>1. dir[j].name = dir[k].name
    BY <1>7
  <2>2. ~ j < k /\ ~ k < j
    BY <1>1, <2>1
  <2> QED BY <2>2
<1>10. DirectoriesAreBlank'
  <2>1. Dirs \subseteq Infos
    BY ArchiveAssumption
  <2> QED BY <1>1, <1>5, <2>1 DEF DirectoriesAreBlank, Blank
<1>11. MembersPlaced'
  <2> SUFFICES ASSUME NothingCutShort', NEW k \in 1 .. n PROVE Placed(k)'
    BY <1>4 DEF MembersPlaced
  <2>1. NothingCutShort
    BY DEF NothingCutShort
  <2>2. /\ Intact(disk, dir[k].name, dir[k].meta) /\ EndOf(dir[k].meta) <= DirectoryStart(disk)
        /\ dir[k].meta \in Meta /\ HasDirectory(disk)
    BY <1>1, <2>1
  <2>3. EndOf(dir[k].meta) <= start_dir'
    <3>1. DirectoryStart(disk) \in Nat /\ DirectoryStart(disk) <= start_dir'
      BY <2>2, DirectoryRead
    <3>2. EndOf(dir[k].meta) \in Nat
      BY <2>2 DEF EndOf, Meta
    <3> QED BY <2>2, <3>1, <3>2
  <2>4. \A j \in 1 .. n : j > k => EndOf(dir[k].meta) <= dir[j].meta.off
    <3> SUFFICES ASSUME NEW j \in 1 .. n, j > k PROVE EndOf(dir[k].meta) <= dir[j].meta.off
      OBVIOUS
    <3>1. k \in 1 .. (j - 1)
      OBVIOUS
    <3> QED BY <1>1, <2>1, <3>1
  <2> QED BY <1>4, <1>7, <2>2, <2>3, <2>4 DEF Placed
<1> QED BY <1>1, <1>4, <1>6, <1>8, <1>9, <1>10, <1>11 DEF dir

LEMMA OpenExistingKeeps == Places /\ OpenExisting => Sound' /\ Relics' /\ Own' = Directory(disk)
<1> SUFFICES ASSUME Places, OpenExisting
             PROVE  Sound' /\ Relics' /\ Own' = Directory(disk)
  OBVIOUS
<1>0. TypeOK /\ Remains
  BY DEF Places, Relics
<1>1. /\ status' = "open" /\ writer' = NoWriter /\ struck' = struck
      /\ Parses(disk) /\ RealGetContents
      /\ mode' \in {"r", "a"} /\ seekable' = TRUE /\ didModify' = FALSE
      /\ start_dir' = DirectoryStart(disk)
      /\ pos' = IF mode' = "a" THEN start_dir' ELSE LastEndRecord(disk)
      /\ disk' = disk
  BY DEF OpenExisting, NewZipFile
<1>2. HasDirectory(disk)
  BY <1>0, <1>1, StrongIsLoose, WholeDirectory DEF Loose, LooseFile
<1> PICK e \in Addr : e = LastEndRecord(disk)
  BY <1>0, <1>2, DirectoryRead
<1> PICK n \in Nat : n = disk[e].size
  BY <1>0, <1>2, DirectoryRead
<1>3. /\ e \in Addr /\ e \in Nat /\ disk[e].kind = "eocd" /\ IsEndRecord(disk, e)
      /\ n \in Nat /\ From(e) \in Nat /\ From(e) + n = e
      /\ DirectoryStart(disk) = From(e)
      /\ Directory(disk) =
            [k \in 1 .. n |-> [name |-> Rec(e, k).name, meta |-> Rec(e, k).meta]]
      /\ \A k \in 1 .. n : Rec(e, k) = CentralRecord(Rec(e, k).name, Rec(e, k).meta)
  BY <1>0, <1>1, <1>2, DirectoryRead
<1>4. start_dir' \in Nat /\ start_dir' = From(e)
  BY <1>1, <1>3
<1>5. /\ filelist' \in Seq(Infos) /\ zinfo' \in [Infos -> Meta]
      /\ DOMAIN Directory(disk) = 1 .. Len(filelist')
      /\ Own' = Directory(disk)
      /\ Unique' /\ DirectoriesAreBlank' /\ MembersPlaced'
  BY <1>0, <1>1, <1>3, <1>4, ReadBack
<1>6. Len(filelist') = n
  <2>1. 1 .. n = 1 .. Len(filelist') /\ Len(filelist') \in Nat
    BY <1>3, <1>5
  <2> QED BY <1>3, <2>1, SameInterval
<1>7. e \in 0 .. (DiskCells - 1) /\ From(e) + n + 1 <= DiskCells
  BY <1>3, LayoutAssumption DEF Addr
<1>8. PlacingOK'
  <2>1. WritePos' = From(e)
    BY <1>1, <1>4 DEF WritePos
  <2> QED BY <1>1, <1>6, <1>7, <2>1 DEF PlacingOK
<1>9. Saved'
  BY <1>1, <1>5 DEF Saved
<1>10. Positions'
  BY <1>0, <1>1, <1>3, <1>4, <1>5 DEF Positions, TypeOK
<1>11. Remains'
  BY <1>0, <1>1, RemainsSame DEF TypeOK
<1>12. Overtaken'
  <2> SUFFICES ASSUME NEW f \in Addr, disk[f].kind = "eocd", f >= From(e)
               PROVE  /\ From(f)' = From(e) /\ disk[f].size = n
                      /\ \A k \in 1 .. n :
                            Rec(f, k)' = CentralRecord(filelist'[k], zinfo'[filelist'[k]])
    <3>1. \A f \in Addr : From(f)' = From(f) /\ \A k : Rec(f, k)' = Rec(f, k)
      BY <1>1 DEF From, Rec
    <3> QED BY <1>1, <1>3, <1>4, <1>6, <3>1 DEF Overtaken
  <2>1. f = e
    <3>1. f \in Nat /\ f <= DiskCells - 1
      BY LayoutAssumption DEF Addr
    <3>2. ~ f > e
      BY <1>3, <3>1, LayoutAssumption DEF IsEndRecord
    <3>3. \A a \in From(e) .. (e - 1) : disk[a].kind = "cd"
      <4>1. \A a \in (e - disk[e].size) .. (e - 1) : disk[a].kind = "cd"
        BY <1>0, <1>1, StrongIsLoose, WholeDirectory DEF Loose, LooseFile
      <4> QED BY <4>1 DEF From
    <3>4. ~ f < e
      BY <1>3, <3>1, <3>3
    <3> QED BY <1>3, <3>1, <3>2, <3>4
  <2>2. ASSUME NEW k \in 1 .. n
        PROVE  Rec(e, k)' = CentralRecord(filelist'[k], zinfo'[filelist'[k]])
    <3>1. Own'[k].name = filelist'[k] /\ Own'[k].meta = zinfo'[filelist'[k]]
      <4>1. k \in DOMAIN filelist'
        BY <1>5, <1>6
      <4> QED BY <4>1 DEF Own
    <3>2. Own'[k].name = Rec(e, k).name /\ Own'[k].meta = Rec(e, k).meta
      BY <1>3, <1>5
    <3>3. Rec(e, k)' = Rec(e, k)
      BY <1>1 DEF Rec, From
    <3> QED BY <1>3, <3>1, <3>2, <3>3
  <2> QED BY <1>1, <2>1, <2>2 DEF From
<1> QED BY <1>1, <1>5, <1>8, <1>9, <1>10, <1>11, <1>12
        DEF Sound, WriterOK, NoRecordsYet, Relics

LEMMA AppendKeeps == Places /\ AppendAfterGarbage => Sound' /\ Relics' /\ Own' = Directory(disk)
<1> SUFFICES ASSUME Places, AppendAfterGarbage
             PROVE  Sound' /\ Relics' /\ Own' = Directory(disk)
  OBVIOUS
<1>0. TypeOK /\ Remains
  BY DEF Places, Relics
<1>1. /\ status' = "open" /\ writer' = NoWriter /\ struck' = struck
      /\ RealGetContents
      /\ mode' = "a" /\ seekable' = TRUE /\ didModify' = TRUE
      /\ disk' = disk /\ pos' = FileLength(disk) /\ start_dir' = FileLength(disk)
      /\ FileLength(disk) + Len(filelist') < DiskCells
  BY DEF AppendAfterGarbage, NewZipFile
<1>2. FileLength(disk) \in Nat
  BY FileLengthType, LayoutAssumption
<1>3. \A f \in Addr : disk[f].kind = "eocd" => f < FileLength(disk) /\ f \in Nat
  <2> SUFFICES ASSUME NEW f \in Addr, disk[f].kind = "eocd", ~ f < FileLength(disk)
               PROVE  FALSE
    BY DEF Addr
  <2>1. f \in FileLength(disk) .. (DiskCells - 1)
    BY <1>2, LayoutAssumption DEF Addr
  <2>2. disk[f] = Hole
    BY <2>1, FileLengthType
  <2> QED BY <2>2 DEF Hole
<1>4. HasDirectory(disk) => DirectoryStart(disk) <= start_dir'
  <2> SUFFICES ASSUME HasDirectory(disk) PROVE DirectoryStart(disk) <= start_dir'
    OBVIOUS
  <2> DEFINE e == LastEndRecord(disk)
  <2>1. /\ e \in Addr /\ disk[e].kind = "eocd" /\ disk[e].size \in Nat
        /\ From(e) \in Nat /\ From(e) + disk[e].size = e /\ DirectoryStart(disk) = From(e)
    BY <1>0, DirectoryRead
  <2>2. e < FileLength(disk) /\ e \in Nat
    BY <1>3, <2>1
  <2> HIDE DEF e
  <2> QED BY <1>1, <1>2, <2>1, <2>2
<1>5. /\ filelist' \in Seq(Infos) /\ zinfo' \in [Infos -> Meta]
      /\ Own' = Directory(disk)
      /\ Unique' /\ DirectoriesAreBlank' /\ MembersPlaced'
  BY <1>0, <1>1, <1>2, <1>4, ReadBack
<1>6. PlacingOK'
  <2>1. WritePos' = FileLength(disk) /\ Len(filelist') \in Nat
    BY <1>1, <1>5 DEF WritePos
  <2> QED BY <1>1, <1>2, <2>1, LayoutAssumption DEF PlacingOK
<1>7. Remains'
  BY <1>0, <1>1, RemainsSame DEF TypeOK
<1>8. Overtaken'
  <2>1. \A f \in Addr : disk'[f].kind = "eocd" => ~ f >= start_dir'
    BY <1>1, <1>2, <1>3
  <2> QED BY <2>1 DEF Overtaken
<1>9. Positions'
  BY <1>0, <1>1, <1>2, <1>5 DEF Positions, TypeOK
<1> QED BY <1>1, <1>5, <1>6, <1>7, <1>8, <1>9
        DEF Sound, WriterOK, NoRecordsYet, Saved, Relics

-----------------------------------------------------------------------------
(* Opening a write handle                                                   *)

(* What the calls that may touch the archive can rely on.                   *)
LEMMA Standing ==
    ASSUME Places, status = "open"
    PROVE  /\ Positions /\ Control
           /\ WritePos \in Nat /\ start_dir <= WritePos
           /\ ~seekable => mode = "w" /\ WritePos = pos
           /\ seekable => WritePos = start_dir
           /\ Len(filelist) \in Nat
           /\ mode # "r" => start_dir + Len(filelist) + 1 <= DiskCells
           /\ \A k \in DOMAIN filelist : filelist[k] \in Listed /\ filelist[k] \in Infos
<1>1. Positions /\ Control /\ PlacingOK
  BY PlacesParts DEF Sound
<1>2. pos \in Nat /\ start_dir \in Nat /\ seekable \in BOOLEAN
  BY <1>1 DEF Positions, Control
<1>3. /\ ~seekable => mode = "w" /\ start_dir <= pos
      /\ mode # "r" => WritePos + Len(filelist) + 1 <= DiskCells
  BY <1>1 DEF PlacingOK
<1>4. /\ Len(filelist) \in Nat
      /\ \A k \in DOMAIN filelist : filelist[k] \in Listed /\ filelist[k] \in Infos
  BY <1>1 DEF Positions, Listed
<1>5. CASE seekable
  BY <1>1, <1>2, <1>3, <1>4, <1>5 DEF WritePos
<1>6. CASE ~seekable
  <2>1. WritePos = pos
    BY <1>6 DEF WritePos
  <2>2. start_dir + Len(filelist) + 1 <= DiskCells
    BY <1>2, <1>3, <1>4, <1>6, <2>1, LayoutAssumption
  <2> QED BY <1>1, <1>2, <1>3, <1>4, <1>6, <2>1, <2>2
<1> QED BY <1>2, <1>5, <1>6

(* A cell that is no directory record, written at or behind start_dir.      *)
Behind(p, c) ==
    /\ p \in Addr /\ start_dir <= p
    /\ c \in Cell /\ c.kind \notin {"cd", "eocd"}
    /\ disk' = Put(disk, p, <<c>>)

LEMMA CellBehind ==
    ASSUME Positions, NEW p, NEW c, Behind(p, c)
    PROVE  /\ disk' \in [Addr -> Cell]
           /\ disk'[p] = c
           /\ \A a \in Addr : a # p => disk'[a] = disk[a]
           /\ \A a \in Addr : a < start_dir => disk'[a] = disk[a]
           /\ (\A a \in Addr : disk[a].kind \notin {"cd", "eocd"}) =>
                  \A a \in Addr : disk'[a].kind \notin {"cd", "eocd"}
<1>1. disk \in [Addr -> Cell] /\ start_dir \in Nat
  BY DEF Positions
<1>2. p \in Int
  BY DEF Behind, Addr
<1>3. disk' \in [Addr -> Cell]
  <2> HIDE DEF Cell
  <2> QED BY <1>1, <1>2, PutOneType DEF Behind
<1>4. disk'[p] = c /\ \A a \in Addr : a # p => disk'[a] = disk[a]
  BY <1>1, PutOne DEF Behind
<1>5. \A a \in Addr : a < start_dir => a # p
  BY <1>1, <1>2 DEF Behind, Addr
<1> QED BY <1>3, <1>4, <1>5 DEF Behind

LEMMA OpenWriterKeeps ==
    ASSUME Places, Client = {}, NEW i \in Infos \ Dirs, OpenWriter(i)
    PROVE  Sound'
<1>1. /\ status = "open" /\ i \notin Listed /\ mode # "r"
      /\ Room(WritePos, 2)
      /\ coord' = "ACTIVE" /\ writing' = TRUE /\ didModify' = TRUE
      /\ zinfo' = ResetInfo(i, WritePos)
      /\ disk' = Put(disk, WritePos, <<LocalHeader(i, 0)>>)
      /\ pos' = WritePos + 1
      /\ writer' = [info |-> i, serial |-> opened + 1, size |-> 0]
      /\ status' = status /\ mode' = mode /\ seekable' = seekable
      /\ start_dir' = start_dir /\ filelist' = filelist /\ struck' = struck
  BY DEF OpenWriter, MayWrite
<1>2. /\ Positions /\ Control /\ WritePos \in Nat /\ start_dir <= WritePos
      /\ ~seekable => mode = "w" /\ WritePos = pos
      /\ seekable => WritePos = start_dir
      /\ Len(filelist) \in Nat
      /\ \A k \in DOMAIN filelist : filelist[k] \in Listed /\ filelist[k] \in Infos
  BY <1>1, Standing
<1>3. WritePos + Len(filelist) + 4 <= DiskCells
  BY <1>1, <1>2, LayoutAssumption DEF Room
<1>4. Behind(WritePos, LocalHeader(i, 0))
  BY <1>1, <1>2, <1>3, StrongCells, LayoutAssumption DEF Behind, Addr, LocalHeader
<1> DEFINE z == [off |-> WritePos, size |-> 0, crc |-> 0, dd |-> ~seekable]
<1>5. z \in Meta
  BY <1>2 DEF Meta, Control
<1>6. /\ zinfo' \in [Infos -> Meta] /\ zinfo'[i] = z
      /\ \A k \in Infos : k # i => zinfo'[k] = zinfo[k]
  <2>1. zinfo' = [zinfo EXCEPT ![i] = z]
    BY <1>1 DEF ResetInfo
  <2> HIDE DEF z
  <2> QED BY <2>1, <1>2, <1>5 DEF Positions
<1>7. Positions'
  BY <1>1, <1>2, <1>4, <1>6, CellBehind DEF Positions
<1>8. MembersPlaced'
  <2>1. Undisturbed
    BY <1>1, <1>2, <1>4, <1>6, CellBehind DEF Undisturbed, Positions
  <2>2. start_dir <= DiskCells /\ start_dir' \in Nat
    BY <1>1, <1>2, <1>3, LayoutAssumption DEF Positions
  <2> QED BY <1>1, <2>1, <2>2, MembersStay DEF Places
<1>9. PlacingOK'
  <2>1. WritePos' = IF seekable THEN start_dir ELSE WritePos + 1
    BY <1>1 DEF WritePos
  <2> QED BY <1>1, <1>2, <1>3, <2>1, LayoutAssumption DEF PlacingOK, Positions, Control
<1>10. WriterOK'
  <2>1. zinfo'[writer'.info] = z /\ writer'.info = i /\ writer'.size = 0
    BY <1>1, <1>6
  <2>2. disk'[WritePos] = LocalHeader(i, 0)
    BY <1>2, <1>4, CellBehind
  <2>3. (WritePos + 1) .. (pos' - 1) = {}
    BY <1>1, <1>2
  <2>4. pos' + Len(filelist') + 3 <= DiskCells
    BY <1>1, <1>2, <1>3, LayoutAssumption
  <2>5. pos' = WritePos + 1 + 0 /\ WritePos < pos' /\ start_dir' <= WritePos
    BY <1>1, <1>2 DEF Positions
  <2>6. \A a \in WritePos .. (pos' - 1) : disk'[a].kind \notin {"cd", "eocd"}
    <3>1. \A a \in WritePos .. (pos' - 1) : a = WritePos
      BY <1>1, <1>2
    <3> QED BY <2>2, <3>1 DEF LocalHeader
  <2>7. z.dd = ~seekable' /\ (seekable' => z.off = start_dir') /\ z.off = WritePos
    BY <1>1, <1>2
  <2> HIDE DEF z
  <2> QED BY <1>1, <2>1, <2>2, <2>3, <2>4, <2>5, <2>6, <2>7 DEF WriterOK
<1>11. DirectoriesAreBlank'
  <2>1. \A k \in Dirs : zinfo'[k] = zinfo[k]
    BY <1>6, ArchiveAssumption
  <2> QED BY <2>1 DEF DirectoriesAreBlank, Places
<1>12. NoRecordsYet'
  BY <1>1, <1>2, <1>4, CellBehind DEF NoRecordsYet, Places
<1> QED BY <1>1, <1>7, <1>8, <1>9, <1>10, <1>11, <1>12 DEF Sound, Saved

LEMMA OpenWriterRefusedKeeps ==
    ASSUME Places, Client = {}, NEW i \in Infos \ Dirs, NEW stage \in Stages,
           OpenWriterRefused(i, stage)
    PROVE  Sound'
<1>1. /\ status = "open" /\ i \notin Listed /\ coord = "IDLE"
      /\ mode = "r" => stage = "check"
      /\ zinfo' = [zinfo EXCEPT ![i].size = 0, ![i].crc = 0, ![i].dd = ~seekable,
                                ![i].off = IF stage = "size" THEN @ ELSE WritePos]
      /\ pos' = IF stage = "size" THEN pos ELSE WritePos
      /\ didModify' = (didModify \/ stage = "password")
      /\ disk' = disk /\ status' = status /\ mode' = mode /\ seekable' = seekable
      /\ start_dir' = start_dir /\ filelist' = filelist /\ writer' = writer
      /\ struck' = struck \cup {"refuse"}
  BY DEF OpenWriterRefused, MayWrite, Strike
<1>2. /\ Positions /\ Control /\ WritePos \in Nat /\ start_dir <= WritePos
      /\ ~seekable => mode = "w" /\ WritePos = pos
      /\ seekable => WritePos = start_dir
      /\ Len(filelist) \in Nat
      /\ mode # "r" => start_dir + Len(filelist) + 1 <= DiskCells
      /\ \A k \in DOMAIN filelist : filelist[k] \in Listed /\ filelist[k] \in Infos
  BY <1>1, Standing
<1>3. writer = NoWriter
  BY <1>1 DEF Places, WriterOK
<1> DEFINE off == IF stage = "size" THEN zinfo[i].off ELSE WritePos
           z == [zinfo[i] EXCEPT !.size = 0, !.crc = 0, !.dd = ~seekable, !.off = off]
<1>4. zinfo[i] \in Meta /\ zinfo \in [Infos -> Meta]
  BY <1>2 DEF Positions
<1>5. z \in Meta
  <2>1. off \in Nat
    BY <1>2, <1>4 DEF Meta
  <2> HIDE DEF off
  <2> QED BY <1>2, <1>4, <2>1 DEF Meta, Control
<1>6. /\ zinfo' \in [Infos -> Meta]
      /\ \A k \in Infos : k # i => zinfo'[k] = zinfo[k]
  <2>1. zinfo' = [zinfo EXCEPT ![i] = z]
    BY <1>1, <1>4 DEF Meta
  <2> HIDE DEF z
  <2> QED BY <2>1, <1>4, <1>5
<1>7. Positions'
  BY <1>1, <1>2, <1>6 DEF Positions
<1>8. Undisturbed
  BY <1>1, <1>2, <1>6 DEF Undisturbed, Positions
<1>9. MembersPlaced'
  BY <1>1, <1>8, SameDiskStay DEF Places
<1>10. PlacingOK'
  <2>1. WritePos' = WritePos
    BY <1>1 DEF WritePos
  <2>2. ~seekable => pos' = pos
    BY <1>1, <1>2
  <2> QED BY <1>1, <2>1, <2>2 DEF PlacingOK, Places
<1>11. DirectoriesAreBlank'
  <2>1. \A k \in Dirs : zinfo'[k] = zinfo[k]
    BY <1>6, ArchiveAssumption
  <2> QED BY <2>1 DEF DirectoriesAreBlank, Places
<1>12. Saved'
  <2>1. Own' = Own
    BY <1>1, <1>8 DEF Own, Undisturbed
  <2>2. Saved
    BY DEF Places
  <2>3. mode' = "r" \/ ~didModify' => mode = "r" \/ ~didModify
    BY <1>1
  <2> QED BY <1>1, <2>1, <2>2, <2>3 DEF Saved
<1> QED BY <1>1, <1>3, <1>7, <1>9, <1>10, <1>11, <1>12
        DEF Sound, WriterOK, NoRecordsYet, Places

LEMMA OpenWriterHeaderFailsKeeps ==
    ASSUME Places, Client = {}, NEW i \in Infos \ Dirs, OpenWriterHeaderFails(i)
    PROVE  Sound'
<1>1. /\ status = "open" /\ i \notin Listed /\ mode # "r" /\ coord = "IDLE"
      /\ Room(WritePos, 2)
      /\ zinfo' = ResetInfo(i, WritePos)
      /\ \/ disk' = Put(disk, WritePos, <<Junk>>) /\ pos' = WritePos + 1
         \/ disk' = disk /\ pos' = WritePos
      /\ didModify' = TRUE
      /\ status' = status /\ mode' = mode /\ seekable' = seekable
      /\ start_dir' = start_dir /\ filelist' = filelist /\ writer' = writer
      /\ struck' = struck \cup {"header"}
  BY DEF OpenWriterHeaderFails, MayWrite, Strike
<1>2. /\ Positions /\ Control /\ WritePos \in Nat /\ start_dir <= WritePos
      /\ ~seekable => mode = "w" /\ WritePos = pos
      /\ seekable => WritePos = start_dir
      /\ Len(filelist) \in Nat
      /\ \A k \in DOMAIN filelist : filelist[k] \in Listed /\ filelist[k] \in Infos
  BY <1>1, Standing
<1>3. WritePos + Len(filelist) + 4 <= DiskCells
  BY <1>1, <1>2, LayoutAssumption DEF Room
<1>4. disk' = disk \/ Behind(WritePos, Junk)
  BY <1>1, <1>2, <1>3, StrongCells, LayoutAssumption DEF Behind, Addr, Junk
<1>5. /\ disk' \in [Addr -> Cell]
      /\ \A a \in Addr : a < start_dir => disk'[a] = disk[a]
      /\ (\A a \in Addr : disk[a].kind \notin {"cd", "eocd"}) =>
            \A a \in Addr : disk'[a].kind \notin {"cd", "eocd"}
  BY <1>2, <1>4, CellBehind DEF Positions
<1>6. /\ zinfo' \in [Infos -> Meta]
      /\ \A k \in Infos : k # i => zinfo'[k] = zinfo[k]
  <2> DEFINE z == [off |-> WritePos, size |-> 0, crc |-> 0, dd |-> ~seekable]
  <2>1. zinfo' = [zinfo EXCEPT ![i] = z]
    BY <1>1 DEF ResetInfo
  <2>2. z \in Meta
    BY <1>2 DEF Meta, Control
  <2> HIDE DEF z
  <2> QED BY <2>1, <2>2, <1>2 DEF Positions
<1>7. Positions'
  BY <1>1, <1>2, <1>5, <1>6 DEF Positions
<1>8. MembersPlaced'
  <2>1. Undisturbed
    BY <1>1, <1>2, <1>5, <1>6 DEF Undisturbed, Positions
  <2>2. start_dir <= DiskCells /\ start_dir' \in Nat
    BY <1>1, <1>2, <1>3, LayoutAssumption DEF Positions
  <2> QED BY <1>1, <2>1, <2>2, MembersStay DEF Places
<1>9. PlacingOK'
  <2>1. WritePos' = start_dir \/ WritePos' = WritePos \/ WritePos' = WritePos + 1
    BY <1>1, <1>2 DEF WritePos, Control
  <2>2. WritePos' + Len(filelist) + 1 <= DiskCells
    BY <1>2, <1>3, <2>1, LayoutAssumption DEF Positions
  <2>3. ~seekable' => mode' = "w" /\ start_dir' <= pos'
    BY <1>1, <1>2 DEF Positions
  <2> QED BY <1>1, <2>2, <2>3 DEF PlacingOK
<1>10. writer' = NoWriter
  BY <1>1 DEF Places, WriterOK
<1>11. DirectoriesAreBlank'
  <2>1. \A k \in Dirs : zinfo'[k] = zinfo[k]
    BY <1>6, ArchiveAssumption
  <2> QED BY <2>1 DEF DirectoriesAreBlank, Places
<1>12. NoRecordsYet'
  BY <1>1, <1>5 DEF NoRecordsYet, Places
<1> QED BY <1>1, <1>7, <1>8, <1>9, <1>10, <1>11, <1>12 DEF Sound, WriterOK, Saved

-----------------------------------------------------------------------------
(* Writing through a handle and closing it                                  *)

(* What the calls of a handle can rely on.                                  *)
LEMMA Holding ==
    ASSUME Places, status = "open", writer # NoWriter
    PROVE  /\ writer.info \in Infos \ Dirs /\ writer.info \notin Listed
           /\ writer.serial \in Nat /\ writer.size \in Nat
           /\ writer \in Handle
           /\ zinfo[writer.info] \in Meta
           /\ mode # "r" /\ didModify
           /\ start_dir <= zinfo[writer.info].off /\ zinfo[writer.info].off < pos
           /\ pos + Len(filelist) + 3 <= DiskCells
           /\ zinfo[writer.info].dd = ~seekable
           /\ pos \in Addr /\ zinfo[writer.info].off \in Addr /\ start_dir < DiskCells
<1>1. UnlistedWriter /\ WriterOK /\ TypeOK
  BY DEF Places
<1>2. writer.info \in Infos \ Dirs /\ writer.info \notin Listed
  BY <1>1 DEF UnlistedWriter
<1>3. writer \in Handle /\ writer.serial \in Nat /\ writer.size \in Nat
  BY <1>1 DEF TypeOK, Handle
<1>4. zinfo[writer.info] \in Meta
  BY <1>1, <1>2 DEF TypeOK
<1> DEFINE z == zinfo[writer.info]
<1>5. /\ mode # "r" /\ didModify
      /\ start_dir <= z.off /\ z.off < pos
      /\ pos + Len(filelist) + 3 <= DiskCells
      /\ z.dd = ~seekable
  BY <1>1 DEF WriterOK
<1>6. /\ z.off \in Nat /\ pos \in Nat /\ start_dir \in Nat /\ Len(filelist) \in Nat
  BY <1>1, <1>4 DEF TypeOK, Meta
<1> HIDE DEF z
<1>7. pos \in Addr /\ z.off \in Addr /\ start_dir < DiskCells
  BY <1>5, <1>6, LayoutAssumption DEF Addr
<1> QED BY <1>2, <1>3, <1>4, <1>5, <1>7 DEF z

LEMMA WriteDataKeeps == Places /\ WriteData => Sound'
<1> SUFFICES ASSUME Places, WriteData PROVE Sound'
  OBVIOUS
<1>1. /\ status = "open" /\ writer # NoWriter /\ Room(pos, 2)
      /\ disk' = Put(disk, pos, <<Payload(writer.serial)>>)
      /\ pos' = pos + 1
      /\ writer' = [writer EXCEPT !.size = @ + 1]
      /\ status' = status /\ mode' = mode /\ seekable' = seekable
      /\ start_dir' = start_dir /\ didModify' = didModify
      /\ filelist' = filelist /\ zinfo' = zinfo
      /\ writing' = writing /\ coord' = coord /\ struck' = struck
  BY DEF WriteData
<1>2. /\ Positions /\ Control /\ Len(filelist) \in Nat
      /\ ~seekable => mode = "w" /\ WritePos = pos
      /\ seekable => WritePos = start_dir
      /\ start_dir + Len(filelist) + 1 <= DiskCells
  BY <1>1, Standing, Holding
<1> DEFINE z == zinfo[writer.info]
<1>3. /\ writer.info \in Infos \ Dirs
      /\ writer.serial \in Nat /\ writer.size \in Nat /\ writer \in Handle
      /\ z \in Meta /\ mode # "r" /\ didModify
      /\ start_dir <= z.off /\ z.off < pos /\ z.dd = ~seekable
      /\ pos \in Addr /\ z.off \in Addr
  BY <1>1, Holding
<1>4. pos + Len(filelist) + 4 <= DiskCells
  BY <1>1, <1>2, LayoutAssumption DEF Room, Positions
<1>5. Behind(pos, Payload(writer.serial))
  BY SMTT(20), ZenonT(30), <1>1, <1>2, <1>3, StrongCells
  DEF Behind, Positions, Meta, Payload
<1>6. /\ disk' \in [Addr -> Cell]
      /\ disk'[pos] = Payload(writer.serial)
      /\ \A a \in Addr : a # pos => disk'[a] = disk[a]
      /\ \A a \in Addr : a < start_dir => disk'[a] = disk[a]
      /\ (\A a \in Addr : disk[a].kind \notin {"cd", "eocd"}) =>
            \A a \in Addr : disk'[a].kind \notin {"cd", "eocd"}
  BY <1>2, <1>5, CellBehind
<1>7. Positions'
  BY <1>1, <1>2, <1>6 DEF Positions
<1>8. MembersPlaced'
  <2>1. Undisturbed
    BY <1>1, <1>2, <1>6 DEF Undisturbed, Positions
  <2>2. start_dir <= DiskCells /\ start_dir' \in Nat
    BY <1>1, <1>2, LayoutAssumption DEF Positions
  <2> QED BY <1>1, <2>1, <2>2, MembersStay DEF Places
<1>9. PlacingOK'
  <2>1. WritePos' = IF seekable THEN start_dir ELSE pos + 1
    BY <1>1 DEF WritePos
  <2>2. WritePos' + Len(filelist) + 1 <= DiskCells
    BY <1>2, <1>4, <2>1, LayoutAssumption DEF Positions
  <2>3. ~seekable' => mode' = "w" /\ start_dir' <= pos'
    BY <1>1, <1>2, <1>3 DEF Positions, Meta
  <2> QED BY <1>1, <2>2, <2>3 DEF PlacingOK
<1>10. WriterOK'
  <2>1. /\ writer'.info = writer.info /\ writer'.serial = writer.serial
        /\ writer'.size = writer.size + 1
    BY <1>1, <1>3 DEF Handle
  <2>2. WriterOK
    BY DEF Places
  <2>3. /\ writing /\ coord = "ACTIVE"
        /\ NothingCutShort =>
              /\ pos = z.off + 1 + writer.size
              /\ disk[z.off] = LocalHeader(writer.info, 0)
              /\ \A a \in (z.off + 1) .. (pos - 1) : disk[a] = Payload(writer.serial)
    BY <1>1, <2>2 DEF WriterOK
  <2>4. z.off \in Nat /\ pos \in Nat
    BY <1>2, <1>3 DEF Meta, Positions
  <2>5. ASSUME NothingCutShort
        PROVE  /\ pos' = z.off + 1 + writer'.size
               /\ disk'[z.off] = LocalHeader(writer.info, 0)
               /\ \A a \in (z.off + 1) .. (pos' - 1) : disk'[a] = Payload(writer.serial)
    <3>1. pos' = z.off + 1 + writer'.size
      BY <1>1, <1>3, <2>1, <2>3, <2>4, <2>5
    <3>2. z.off # pos
      BY <1>3, <2>4
    <3>3. disk'[z.off] = LocalHeader(writer.info, 0)
      BY <1>3, <1>6, <2>3, <2>5, <3>2
    <3>4. ASSUME NEW a \in (z.off + 1) .. (pos' - 1) PROVE disk'[a] = Payload(writer.serial)
      <4>1. a = pos \/ (a \in (z.off + 1) .. (pos - 1) /\ a # pos)
        BY <1>1, <2>4
      <4>2. a \in Addr
        BY <1>1, <1>3, <2>4, LayoutAssumption DEF Addr
      <4> QED BY <1>6, <2>3, <2>5, <4>1, <4>2
    <3> QED BY <3>1, <3>3, <3>4
  <2>6. pos' + Len(filelist') + 3 <= DiskCells /\ z.off < pos'
    BY SMTT(20), ZenonT(30), <1>1, <1>2, <1>3, <1>4, <2>4, LayoutAssumption
  <2>7. NothingCutShort' <=> NothingCutShort
    BY <1>1 DEF NothingCutShort
  <2>8. zinfo'[writer'.info] = z
    BY <1>1, <2>1
  <2>9. /\ \A a \in z.off .. (pos' - 1) : disk'[a].kind \notin {"cd", "eocd"}
        /\ seekable' => z.off = start_dir'
    <3>1. /\ \A a \in z.off .. (pos - 1) : disk[a].kind \notin {"cd", "eocd"}
          /\ seekable => z.off = start_dir
      BY <1>1, <2>2 DEF WriterOK
    <3>2. \A a \in z.off .. (pos' - 1) : a \in Addr /\ (a = pos \/ a \in z.off .. (pos - 1))
      BY <1>1, <1>3, <2>4, LayoutAssumption DEF Addr
    <3> QED BY <1>1, <1>6, <3>1, <3>2 DEF Payload
  <2> HIDE DEF z
  <2> QED BY <1>1, <1>3, <2>1, <2>3, <2>5, <2>6, <2>7, <2>8, <2>9 DEF WriterOK
<1>11. DirectoriesAreBlank'
  BY <1>1 DEF DirectoriesAreBlank, Places
<1>12. NoRecordsYet'
  BY <1>1, <1>6 DEF NoRecordsYet, Places
<1> QED BY <1>1, <1>3, <1>7, <1>8, <1>9, <1>10, <1>11, <1>12 DEF Sound, Saved

LEMMA WriteLostKeeps == Places /\ WriteLost => Sound'
<1> SUFFICES ASSUME Places, WriteLost PROVE Sound'
  OBVIOUS
<1>1. /\ status = "open" /\ writer # NoWriter
      /\ writer' = [writer EXCEPT !.size = @ + 1]
      /\ disk' = disk /\ pos' = pos
      /\ status' = status /\ mode' = mode /\ seekable' = seekable
      /\ start_dir' = start_dir /\ didModify' = didModify
      /\ filelist' = filelist /\ zinfo' = zinfo
      /\ writing' = writing /\ coord' = coord /\ struck' = struck \cup {"short"}
  BY DEF WriteLost, Strike
<1>2. writer'.info = writer.info /\ didModify /\ mode # "r"
  BY <1>1, Holding DEF Handle
<1>3. ~NothingCutShort'
  BY <1>1 DEF NothingCutShort
<1>4. Positions'
  BY <1>1 DEF Positions, Places, TypeOK
<1>5. PlacingOK'
  <2>1. WritePos' = WritePos
    BY <1>1 DEF WritePos
  <2> QED BY <1>1, <2>1 DEF PlacingOK, Places
<1>6. WriterOK'
  <2>1. WriterOK
    BY DEF Places
  <2> QED BY <1>1, <1>2, <1>3, <2>1 DEF WriterOK
<1> QED BY <1>1, <1>2, <1>3, <1>4, <1>5, <1>6
        DEF Sound, Saved, MembersPlaced, DirectoriesAreBlank, NoRecordsYet, Places

LEMMA CloseWriterKeeps == Places /\ CloseWriter => Sound'
<1> SUFFICES ASSUME Places, CloseWriter PROVE Sound'
  OBVIOUS
<1> DEFINE i == writer.info
           z == zinfo[i]
           m == FinalMeta
<1>1. /\ status = "open" /\ writer # NoWriter
      /\ zinfo' = [zinfo EXCEPT ![i] = m]
      /\ IF m.dd
         THEN /\ disk' = Put(disk, pos, <<Descriptor(writer.serial)>>)
              /\ pos' = pos + 1
         ELSE /\ disk' = Put(disk, m.off, <<LocalHeader(i, writer.serial)>>)
              /\ pos' = pos
      /\ start_dir' = pos'
      /\ filelist' = Register(i)
      /\ writer' = NoWriter
      /\ status' = status /\ mode' = mode /\ seekable' = seekable
      /\ didModify' = didModify /\ struck' = struck
  BY DEF CloseWriter, Commit
<1>2. /\ Positions /\ Control /\ Len(filelist) \in Nat
      /\ ~seekable => mode = "w" /\ WritePos = pos
      /\ \A k \in DOMAIN filelist : filelist[k] \in Listed /\ filelist[k] \in Infos
  BY <1>1, Standing
<1>3. /\ i \in Infos \ Dirs /\ i \notin Listed
      /\ writer.serial \in Nat /\ writer.size \in Nat
      /\ z \in Meta /\ mode # "r" /\ didModify
      /\ start_dir <= z.off /\ z.off < pos /\ z.dd = ~seekable
      /\ pos + Len(filelist) + 3 <= DiskCells
      /\ pos \in Addr /\ z.off \in Addr /\ start_dir < DiskCells
  BY <1>1, Holding
<1>4. /\ m \in Meta /\ m.off = z.off /\ m.dd = z.dd
      /\ m.size = writer.size /\ m.crc = writer.serial
  BY <1>3 DEF FinalMeta, Meta
<1> HIDE DEF m
<1>5. /\ m.dd => Behind(pos, Descriptor(writer.serial))
      /\ ~m.dd => Behind(z.off, LocalHeader(i, writer.serial))
  <2>1. start_dir <= pos
    BY <1>2, <1>3 DEF Positions, Meta
  <2> QED BY <1>1, <1>3, <1>4, <2>1, StrongCells DEF Behind, Descriptor, LocalHeader
<1>6. /\ disk' \in [Addr -> Cell]
      /\ m.dd => /\ disk'[pos] = Descriptor(writer.serial)
                 /\ \A a \in Addr : a # pos => disk'[a] = disk[a]
      /\ ~m.dd => /\ disk'[z.off] = LocalHeader(i, writer.serial)
                  /\ \A a \in Addr : a # z.off => disk'[a] = disk[a]
      /\ \A a \in Addr : a < start_dir => disk'[a] = disk[a]
      /\ (\A a \in Addr : disk[a].kind \notin {"cd", "eocd"}) =>
            \A a \in Addr : disk'[a].kind \notin {"cd", "eocd"}
  <2>1. CASE m.dd
    BY <1>2, <1>5, <2>1, CellBehind
  <2>2. CASE ~m.dd
    BY <1>2, <1>5, <2>2, CellBehind
  <2> QED BY <2>1, <2>2
<1>7. /\ zinfo' \in [Infos -> Meta] /\ zinfo'[i] = m
      /\ \A k \in Infos : k # i => zinfo'[k] = zinfo[k]
  BY <1>1, <1>2, <1>3, <1>4 DEF Positions
<1>8. /\ filelist' \in Seq(Infos) /\ Len(filelist') = Len(filelist) + 1
  BY <1>1, <1>2, <1>3 DEF Register, Positions
<1>9. /\ pos \in Nat /\ pos' \in Nat /\ pos <= pos' /\ pos' <= pos + 1
      /\ pos' = IF m.dd THEN pos + 1 ELSE pos
  BY <1>1, <1>2 DEF Positions
<1>10. Positions'
  BY <1>1, <1>6, <1>7, <1>8, <1>9 DEF Positions
<1>11. ASSUME NothingCutShort'
       PROVE  /\ start_dir <= m.off /\ EndOf(m) <= start_dir'
              /\ Intact(disk', i, m)
  <2>1. NothingCutShort
    BY <1>1, <1>11 DEF NothingCutShort
  <2>2. /\ pos = z.off + 1 + writer.size
        /\ disk[z.off] = LocalHeader(i, 0)
        /\ \A a \in (z.off + 1) .. (pos - 1) : disk[a] = Payload(writer.serial)
    BY <1>1, <2>1 DEF Places, WriterOK
  <2>3. z.off \in Nat /\ z.dd \in BOOLEAN
    BY <1>3 DEF Meta
  <2>4. EndOf(m) <= start_dir'
    BY <1>1, <1>3, <1>4, <1>9, <2>2, <2>3 DEF EndOf
  <2>5. disk'[z.off] = LocalHeader(i, IF m.dd THEN 0 ELSE m.crc)
    <3>1. z.off # pos
      BY <1>3, <1>9, <2>3
    <3> QED BY <1>3, <1>4, <1>6, <2>2, <3>1
  <2>6. ASSUME NEW a \in (m.off + 1) .. (m.off + m.size) PROVE disk'[a] = Payload(m.crc)
    <3>0. m.off = z.off /\ m.off + m.size = pos - 1 /\ pos \in Nat
      <4>1. m.off = z.off /\ m.size = writer.size
        BY <1>4
      <4>2. z.off + writer.size = pos - 1
        <5>1. \A o, n, p \in Nat : p = o + 1 + n => o + n = p - 1
          OBVIOUS
        <5>2. z.off \in Nat /\ writer.size \in Nat /\ pos \in Nat
          BY <1>3, <1>9, <2>3
        <5> HIDE DEF z
        <5> QED BY <2>2, <5>1, <5>2
      <4> QED BY <1>9, <4>1, <4>2
    <3>1. a \in (z.off + 1) .. (pos - 1) /\ a # pos /\ a # z.off
      BY <2>3, <3>0
    <3>2. a \in Addr
      BY <1>3, <1>9, <2>3, <3>1, LayoutAssumption DEF Addr
    <3> QED BY <1>4, <1>6, <2>2, <3>1, <3>2
  <2>7. m.dd => disk'[m.off + m.size + 1] = Descriptor(m.crc)
    <3>1. m.off + m.size + 1 = pos
      BY SMTT(20), ZenonT(30), <1>3, <1>4, <2>2, <2>3
    <3> QED BY <1>4, <1>6, <3>1
  <2>8. Intact(disk', i, m)
    BY <1>4, <2>5, <2>6, <2>7 DEF Intact
  <2> QED BY <1>3, <1>4, <2>4, <2>8
<1>12. MembersPlaced'
  <2>1. start_dir <= start_dir' /\ start_dir' \in Nat
    BY <1>1, <1>2, <1>3, <1>9 DEF Positions, Meta
  <2>2. Undisturbed
    BY <1>1, <1>2, <1>3, <1>6, <1>7, <2>1 DEF Undisturbed
  <2>3. start_dir <= DiskCells
    BY <1>2, <1>3, LayoutAssumption DEF Positions
  <2> QED BY <1>1, <1>3, <1>4, <1>7, <1>11, <2>1, <2>2, <2>3, MemberJoins DEF Places
<1>13. PlacingOK'
  <2>1. WritePos' = pos'
    BY <1>1 DEF WritePos
  <2>2. WritePos' + Len(filelist') + 1 <= DiskCells
    BY <1>2, <1>3, <1>8, <1>9, <2>1, LayoutAssumption
  <2>3. ~seekable' => mode' = "w" /\ start_dir' <= pos'
    BY <1>1, <1>2, <1>9
  <2> QED BY <2>2, <2>3 DEF PlacingOK
<1>14. DirectoriesAreBlank'
  <2>1. \A k \in Dirs : zinfo'[k] = zinfo[k]
    BY <1>3, <1>7, ArchiveAssumption
  <2> QED BY <2>1 DEF DirectoriesAreBlank, Places
<1>15. NoRecordsYet'
  BY <1>1, <1>6 DEF NoRecordsYet, Places
<1> QED BY <1>1, <1>3, <1>10, <1>12, <1>13, <1>14, <1>15 DEF Sound, WriterOK, Saved

LEMMA CloseWriterFailsKeeps ==
    ASSUME Places, NEW stage \in FinalStages, CloseWriterFails(stage)
    PROVE  Sound'
<1> DEFINE i == writer.info
           z == zinfo[i]
           m == FinalMeta
<1>1. /\ status = "open" /\ writer # NoWriter
      /\ zinfo' = zinfo \/ zinfo' = [zinfo EXCEPT ![i] = m]
      /\ \/ disk' = disk /\ pos' = pos /\ start_dir' = start_dir
         \/ /\ disk' = disk \/ disk' = Put(disk, pos, <<Junk>>)
            /\ pos' = pos \/ pos' = pos + 1
            /\ start_dir' = start_dir
         \/ /\ disk' = disk \/ disk' = Put(disk, m.off, <<Junk>>)
            /\ ~m.dd /\ pos' = m.off /\ start_dir' = pos
      /\ filelist' = filelist /\ writer' = NoWriter
      /\ status' = status /\ mode' = mode /\ seekable' = seekable
      /\ didModify' = didModify /\ struck' = struck \cup {"final"}
  BY DEF CloseWriterFails, Strike
<1>2. /\ Positions /\ Control /\ Len(filelist) \in Nat
      /\ ~seekable => mode = "w" /\ start_dir <= pos
      /\ seekable => WritePos = start_dir
      /\ \A k \in DOMAIN filelist : filelist[k] \in Listed /\ filelist[k] \in Infos
  BY <1>1, Standing
<1>3. /\ i \in Infos \ Dirs /\ i \notin Listed
      /\ writer.serial \in Nat /\ writer.size \in Nat
      /\ z \in Meta /\ mode # "r" /\ didModify
      /\ start_dir <= z.off /\ z.off < pos /\ z.dd = ~seekable
      /\ pos + Len(filelist) + 3 <= DiskCells
      /\ pos \in Addr /\ z.off \in Addr /\ start_dir < DiskCells
  BY <1>1, Holding
<1>4. m \in Meta /\ m.off = z.off /\ m.dd = z.dd
  BY <1>3 DEF FinalMeta, Meta
<1> HIDE DEF m
<1>0. pos \in Nat /\ start_dir \in Nat /\ z.off \in Nat
  BY <1>2, <1>3 DEF Positions, Meta
<1>5. disk' = disk \/ Behind(pos, Junk) \/ Behind(z.off, Junk)
  <2>1. Junk \in Cell /\ Junk.kind = "junk" /\ start_dir <= pos
    BY <1>0, <1>3, StrongCells DEF Junk
  <2> QED BY <1>1, <1>3, <1>4, <2>1 DEF Behind
<1>6. /\ disk' \in [Addr -> Cell]
      /\ \A a \in Addr : a < start_dir => disk'[a] = disk[a]
      /\ (\A a \in Addr : disk[a].kind \notin {"cd", "eocd"}) =>
            \A a \in Addr : disk'[a].kind \notin {"cd", "eocd"}
  BY <1>2, <1>5, CellBehind DEF Positions
<1>7. /\ zinfo' \in [Infos -> Meta]
      /\ \A k \in Infos : k # i => zinfo'[k] = zinfo[k]
  BY <1>1, <1>2, <1>3, <1>4 DEF Positions
<1>8. pos' \in Nat /\ start_dir' \in Nat /\ start_dir <= start_dir'
  BY <1>0, <1>1, <1>3, <1>4
<1>9. Positions'
  BY <1>1, <1>2, <1>6, <1>7, <1>8 DEF Positions
<1>10. MembersPlaced'
  <2>1. Undisturbed
    BY <1>1, <1>2, <1>3, <1>6, <1>7, <1>8 DEF Undisturbed
  <2>2. start_dir <= DiskCells
    BY <1>0, <1>3, LayoutAssumption
  <2> QED BY <1>1, <1>8, <2>1, <2>2, MembersStay DEF Places
<1>11. PlacingOK'
  <2>1. CASE seekable
    <3>1. WritePos' \in Nat /\ WritePos' <= pos
      BY <1>0, <1>1, <1>3, <2>1 DEF WritePos
    <3>2. WritePos' + Len(filelist') + 1 <= DiskCells
      BY <1>0, <1>1, <1>2, <1>3, <3>1, LayoutAssumption
    <3> QED BY <1>1, <2>1, <3>2 DEF PlacingOK
  <2>2. CASE ~seekable
    <3>1. m.dd
      BY <1>3, <1>4, <2>2
    <3>2. start_dir' = start_dir /\ (pos' = pos \/ pos' = pos + 1) /\ WritePos' = pos'
      BY <1>1, <2>2, <3>1 DEF WritePos
    <3>3. WritePos' + Len(filelist') + 1 <= DiskCells /\ start_dir' <= pos'
      BY <1>0, <1>1, <1>2, <1>3, <2>2, <3>2, LayoutAssumption
    <3> QED BY <1>1, <1>2, <2>2, <3>3 DEF PlacingOK
  <2> QED BY <2>1, <2>2
<1>12. DirectoriesAreBlank'
  <2>1. \A k \in Dirs : zinfo'[k] = zinfo[k]
    BY <1>3, <1>7, ArchiveAssumption
  <2> QED BY <2>1 DEF DirectoriesAreBlank, Places
<1>13. NoRecordsYet'
  BY <1>1, <1>6 DEF NoRecordsYet, Places
<1> QED BY <1>1, <1>3, <1>9, <1>10, <1>11, <1>12, <1>13 DEF Sound, WriterOK, Saved

-----------------------------------------------------------------------------
(* Directories                                                              *)

LEMMA MkdirKeeps ==
    ASSUME Places, Client = {}, NEW i \in Dirs, Mkdir(i)
    PROVE  Sound'
<1> DEFINE m == [zinfo[i] EXCEPT !.off = WritePos]
<1>1. /\ status = "open" /\ i \notin Listed /\ mode # "r" /\ writer = NoWriter
      /\ Room(WritePos, 2)
      /\ zinfo' = [zinfo EXCEPT ![i] = m]
      /\ disk' = Put(disk, WritePos, <<LocalHeader(i, 0)>>)
      /\ pos' = WritePos + 1 /\ start_dir' = WritePos + 1
      /\ filelist' = Register(i)
      /\ didModify' = TRUE
      /\ status' = status /\ mode' = mode /\ seekable' = seekable
      /\ writer' = writer /\ struck' = struck
  BY DEF Mkdir, MkdirAllowed, MayWrite
<1>2. /\ Positions /\ Control /\ WritePos \in Nat /\ start_dir <= WritePos
      /\ ~seekable => mode = "w" /\ WritePos = pos
      /\ Len(filelist) \in Nat
      /\ \A k \in DOMAIN filelist : filelist[k] \in Listed /\ filelist[k] \in Infos
  BY <1>1, Standing
<1>3. WritePos + Len(filelist) + 4 <= DiskCells
  BY <1>1, <1>2, LayoutAssumption DEF Room
<1>4. i \in Infos
  BY ArchiveAssumption
<1>5. Behind(WritePos, LocalHeader(i, 0))
  BY <1>1, <1>2, <1>3, <1>4, StrongCells, LayoutAssumption DEF Behind, Addr, LocalHeader
<1>6. /\ m \in Meta /\ m.off = WritePos
      /\ m.size = 0 /\ m.crc = 0 /\ ~m.dd
  <2>1. zinfo[i] \in Meta /\ zinfo[i].size = 0 /\ zinfo[i].crc = 0 /\ ~zinfo[i].dd
    BY <1>2, <1>4 DEF Places, DirectoriesAreBlank, Positions
  <2> QED BY <1>2, <2>1 DEF Meta
<1> HIDE DEF m
<1>7. /\ zinfo' \in [Infos -> Meta] /\ zinfo'[i] = m
      /\ \A k \in Infos : k # i => zinfo'[k] = zinfo[k]
  BY <1>1, <1>2, <1>4, <1>6 DEF Positions
<1>8. /\ filelist' \in Seq(Infos) /\ Len(filelist') = Len(filelist) + 1
  BY <1>1, <1>2, <1>4 DEF Register, Positions
<1>9. Positions'
  BY <1>1, <1>2, <1>5, <1>7, <1>8, CellBehind DEF Positions
<1>10. MembersPlaced'
  <2>1. Undisturbed
    BY <1>1, <1>2, <1>5, <1>7, CellBehind DEF Undisturbed, Positions
  <2>2. start_dir <= DiskCells /\ start_dir' \in Nat
    BY <1>1, <1>2, <1>3, LayoutAssumption DEF Positions
  <2>3. disk'[WritePos] = LocalHeader(i, 0)
    BY <1>2, <1>5, CellBehind
  <2>4. (WritePos + 1) .. (WritePos + 0) = {}
    BY <1>2
  <2>5. Intact(disk', i, m) /\ EndOf(m) <= start_dir' /\ start_dir <= m.off
    BY <1>1, <1>2, <1>6, <2>3, <2>4 DEF Intact, EndOf
  <2> QED BY <1>1, <1>4, <1>6, <1>7, <2>1, <2>2, <2>5, MemberJoins DEF Places
<1>11. PlacingOK'
  <2>1. WritePos' = WritePos + 1
    BY <1>1 DEF WritePos
  <2>2. WritePos' + Len(filelist') + 1 <= DiskCells
    BY <1>2, <1>3, <1>8, <2>1, LayoutAssumption
  <2>3. ~seekable' => mode' = "w" /\ start_dir' <= pos'
    BY <1>1, <1>2
  <2> QED BY <2>2, <2>3 DEF PlacingOK
<1>12. DirectoriesAreBlank'
  BY <1>4, <1>6, <1>7, ArchiveAssumption DEF DirectoriesAreBlank, Places
<1>13. NoRecordsYet'
  BY <1>1, <1>2, <1>5, CellBehind DEF NoRecordsYet, Places
<1> QED BY <1>1, <1>9, <1>10, <1>11, <1>12, <1>13 DEF Sound, WriterOK, Saved

(* A directory that is refused or fails gets an offset all the same.        *)
LEMMA MkdirTouched ==
    ASSUME Places, Client = {}, NEW i \in Dirs, MkdirRefused(i) \/ MkdirFails(i)
    PROVE  /\ zinfo' \in [Infos -> Meta] /\ DirectoriesAreBlank'
           /\ \A k \in DOMAIN filelist : zinfo'[filelist[k]] = zinfo[filelist[k]]
<1>1. /\ status = "open" /\ i \notin Listed
      /\ zinfo' = [zinfo EXCEPT ![i].off = WritePos]
  BY DEF MkdirRefused, MkdirFails, MkdirAllowed, MayWrite
<1>2. /\ Positions /\ WritePos \in Nat
      /\ \A k \in DOMAIN filelist : filelist[k] \in Listed /\ filelist[k] \in Infos
  BY <1>1, Standing
<1> DEFINE m == [zinfo[i] EXCEPT !.off = WritePos]
<1>3. i \in Infos /\ zinfo[i] \in Meta
  BY <1>2, ArchiveAssumption DEF Positions
<1>4. m \in Meta /\ m.size = zinfo[i].size /\ m.crc = zinfo[i].crc /\ m.dd = zinfo[i].dd
  BY <1>2, <1>3 DEF Meta
<1> HIDE DEF m
<1>5. zinfo' = [zinfo EXCEPT ![i] = m]
  BY <1>1 DEF m
<1>6. /\ zinfo' \in [Infos -> Meta] /\ zinfo'[i] = m
      /\ \A k \in Infos : k # i => zinfo'[k] = zinfo[k]
  BY <1>2, <1>3, <1>4, <1>5 DEF Positions
<1>7. DirectoriesAreBlank'
  BY <1>3, <1>4, <1>6, ArchiveAssumption DEF DirectoriesAreBlank, Places
<1> QED BY <1>1, <1>2, <1>6, <1>7

LEMMA MkdirRefusedKeeps ==
    ASSUME Places, Client = {}, NEW i \in Dirs, MkdirRefused(i)
    PROVE  Sound'
<1>1. /\ status = "open" /\ mode = "r"
      /\ pos' = WritePos
      /\ disk' = disk /\ status' = status /\ mode' = mode /\ seekable' = seekable
      /\ start_dir' = start_dir /\ didModify' = didModify /\ filelist' = filelist
      /\ writer' = writer /\ struck' = struck
  BY DEF MkdirRefused, MkdirAllowed, MayWrite
<1>2. /\ zinfo' \in [Infos -> Meta] /\ DirectoriesAreBlank'
      /\ \A k \in DOMAIN filelist : zinfo'[filelist[k]] = zinfo[filelist[k]]
  BY MkdirTouched
<1>3. Positions /\ WritePos \in Nat /\ seekable
  BY <1>1, Standing DEF Control
<1>4. Positions'
  BY <1>1, <1>2, <1>3 DEF Positions
<1>5. MembersPlaced'
  <2>1. Undisturbed
    BY <1>1, <1>2, <1>3 DEF Undisturbed, Positions
  <2> QED BY <1>1, <2>1, SameDiskStay DEF Places
<1>6. PlacingOK'
  BY <1>1, <1>3 DEF PlacingOK
<1>7. writer' = NoWriter
  BY <1>1 DEF Places, WriterOK
<1>8. Saved'
  <2>1. Own' = Own
    BY <1>1, <1>2 DEF Own
  <2> QED BY <1>1, <2>1 DEF Saved, Places
<1> QED BY <1>1, <1>2, <1>4, <1>5, <1>6, <1>7, <1>8 DEF Sound, WriterOK, NoRecordsYet

LEMMA MkdirFailsKeeps ==
    ASSUME Places, Client = {}, NEW i \in Dirs, MkdirFails(i)
    PROVE  Sound'
<1>1. /\ status = "open" /\ mode # "r" /\ writer = NoWriter
      /\ Room(WritePos, 2)
      /\ filelist' = Register(i)
      /\ pos' = WritePos /\ didModify' = TRUE
      /\ disk' = disk /\ status' = status /\ mode' = mode /\ seekable' = seekable
      /\ start_dir' = start_dir
      /\ writer' = writer /\ struck' = struck \cup {"mkdir"}
  BY DEF MkdirFails, MkdirAllowed, MayWrite, Strike
<1>2. /\ zinfo' \in [Infos -> Meta] /\ DirectoriesAreBlank'
  BY MkdirTouched
<1>3. /\ Positions /\ WritePos \in Nat /\ start_dir <= WritePos
      /\ ~seekable => mode = "w" /\ WritePos = pos
      /\ Len(filelist) \in Nat
  BY <1>1, Standing
<1>4. i \in Infos
  BY ArchiveAssumption
<1>5. /\ filelist' \in Seq(Infos) /\ Len(filelist') = Len(filelist) + 1
  BY <1>1, <1>3, <1>4 DEF Register, Positions
<1>6. Positions'
  BY <1>1, <1>2, <1>3, <1>5 DEF Positions
<1>7. ~NothingCutShort'
  BY <1>1 DEF NothingCutShort
<1>8. PlacingOK'
  <2>1. WritePos' = WritePos
    BY <1>1 DEF WritePos
  <2>2. WritePos' + Len(filelist') + 1 <= DiskCells
    BY <1>1, <1>3, <1>5, <2>1, LayoutAssumption DEF Room
  <2> QED BY <1>1, <1>3, <2>2 DEF PlacingOK
<1> QED BY <1>1, <1>2, <1>6, <1>7, <1>8
        DEF Sound, WriterOK, Saved, MembersPlaced, NoRecordsYet, Places

-----------------------------------------------------------------------------
(* Reading and comments                                                     *)

LEMMA ReadMemberKeeps ==
    ASSUME Places, NEW i \in Infos, ReadMember(i)
    PROVE  Sound'
<1>1. /\ status = "open" /\ seekable /\ ~writing
      /\ pos' = zinfo[i].off + 1 + zinfo[i].size
      /\ disk' = disk /\ status' = status /\ mode' = mode /\ seekable' = seekable
      /\ start_dir' = start_dir /\ didModify' = didModify
      /\ filelist' = filelist /\ zinfo' = zinfo
      /\ writer' = writer /\ writing' = writing /\ coord' = coord /\ struck' = struck
  BY DEF ReadMember
<1>2. zinfo[i] \in Meta
  BY DEF Places, TypeOK
<1>3. pos' \in Nat
  BY <1>1, <1>2 DEF Meta
<1>4. Positions'
  BY <1>1, <1>3 DEF Positions, Places, TypeOK
<1>5. PlacingOK'
  <2>1. WritePos' = WritePos
    BY <1>1 DEF WritePos
  <2> QED BY <1>1, <2>1 DEF PlacingOK, Places
<1>6. writer = NoWriter
  BY <1>1 DEF Places, WriterOK
<1>7. Own' = Own
  BY <1>1 DEF Own
<1>8. MembersPlaced' /\ DirectoriesAreBlank' /\ NoRecordsYet' /\ Saved'
  <2>1. MembersPlaced'
    <3>1. Undisturbed
      BY <1>1 DEF Undisturbed, Places, TypeOK
    <3> QED BY <1>1, <3>1, SameDiskStay DEF Places
  <2> QED BY <1>1, <1>7, <2>1 DEF DirectoriesAreBlank, NoRecordsYet, Saved, Places
<1> QED BY <1>1, <1>4, <1>5, <1>6, <1>8 DEF Sound, WriterOK

LEMMA SetCommentKeeps == Places /\ SetComment => Sound'
<1> SUFFICES ASSUME Places, SetComment PROVE Sound'
  OBVIOUS
<1>1. /\ status = "open" /\ ~didModify /\ didModify' = TRUE
      /\ disk' = disk /\ pos' = pos
      /\ status' = status /\ mode' = mode /\ seekable' = seekable
      /\ start_dir' = start_dir /\ filelist' = filelist /\ zinfo' = zinfo
      /\ writer' = writer /\ struck' = struck
  BY DEF SetComment
<1>2. Positions'
  BY <1>1 DEF Positions, Places, TypeOK
<1>3. PlacingOK'
  <2>1. WritePos' = WritePos
    BY <1>1 DEF WritePos
  <2> QED BY <1>1, <2>1 DEF PlacingOK, Places
<1>4. writer = NoWriter
  BY <1>1 DEF Places, WriterOK
<1>5. Own' = Own
  BY <1>1 DEF Own
<1>6. MembersPlaced'
  <2>1. Undisturbed
    BY <1>1 DEF Undisturbed, Places, TypeOK
  <2> QED BY <1>1, <2>1, SameDiskStay DEF Places
<1> QED BY <1>1, <1>2, <1>3, <1>4, <1>5, <1>6
        DEF Sound, WriterOK, DirectoriesAreBlank, NoRecordsYet, Saved, Places

-----------------------------------------------------------------------------
(* Closing the archive                                                      *)

(* What close() lays down, cell by cell.                                    *)
LEMMA DirectoryWritten ==
    ASSUME Places, status = "open", mode # "r", NEW full,
           full = Put(disk, WritePos, EndCells(WritePos))
    PROVE  LET n == Len(filelist)
           IN  /\ full \in [Addr -> Cell]
               /\ WritePos + n \in Addr
               /\ \A k \in 1 .. n : full[WritePos + k - 1]
                                       = CentralRecord(filelist[k], zinfo[filelist[k]])
               /\ full[WritePos + n] = EndRecord(WritePos + n - start_dir, start_dir)
               /\ \A a \in Addr : a < WritePos \/ a > WritePos + n => full[a] = disk[a]
<1> DEFINE n == Len(filelist)
           w == WritePos
           records == [k \in 1 .. n |-> CentralRecord(filelist[k], zinfo[filelist[k]])]
           end == EndRecord(w + n - start_dir, start_dir)
           cells == EndCells(w)
<1>1. /\ Positions /\ w \in Nat /\ start_dir <= w /\ n \in Nat
      /\ \A k \in DOMAIN filelist : filelist[k] \in Infos
  BY Standing
<1>2. w + n + 1 <= DiskCells
  BY DEF Places, PlacingOK
<1>3. DOMAIN filelist = 1 .. n
  BY <1>1 DEF Positions
<1>4. records \in Seq(Cell) /\ Len(records) = n
  <2>1. ASSUME NEW k \in 1 .. n
        PROVE  CentralRecord(filelist[k], zinfo[filelist[k]]) \in Cell
    <3>1. filelist[k] \in Infos /\ zinfo[filelist[k]] \in Meta
      BY <1>1, <1>3 DEF Positions
    <3> QED BY <3>1, StrongCells
  <2>2. records \in [1 .. n -> Cell]
    BY <2>1
  <2> HIDE DEF Cell
  <2> QED BY <1>1, <2>2, IsASeq
<1>5. end \in Cell
  <2>1. w + n - start_dir \in Nat /\ start_dir \in Nat
    BY <1>1 DEF Positions
  <2> QED BY <2>1, StrongCells
<1>6. cells = records \o <<end>>
  BY DEF EndCells
<1>7. /\ cells \in Seq(Cell) /\ Len(cells) = n + 1
      /\ \A k \in 1 .. n : cells[k] = records[k]
      /\ cells[n + 1] = end
  <2> HIDE DEF records, end, cells, Cell
  <2>1. <<end>> \in Seq(Cell) /\ Len(<<end>>) = 1 /\ <<end>>[1] = end
    BY <1>5
  <2> QED BY SMTT(20), ZenonT(30), <1>1, <1>4, <1>6, <2>1, ConcatProperties
<1> HIDE DEF cells, end
<1>8. full \in [Addr -> Cell]
  <2> HIDE DEF Cell
  <2> QED BY <1>1, <1>7, PutType DEF Positions, cells
<1>9. full = [a \in Addr |-> IF w <= a /\ a < w + (n + 1) THEN cells[a - w + 1] ELSE disk[a]]
  BY <1>1, <1>7 DEF Put, Positions, cells
<1> HIDE DEF w, n
<1>10. w + n \in Addr
  BY <1>1, <1>2, LayoutAssumption DEF Addr
<1>11. ASSUME NEW k \in 1 .. n PROVE full[w + k - 1] = records[k]
  <2>1. /\ w + k - 1 \in Addr /\ w <= w + k - 1 /\ w + k - 1 < w + (n + 1)
        /\ (w + k - 1) - w + 1 = k
    BY <1>1, <1>2, LayoutAssumption DEF Addr
  <2> HIDE DEF records
  <2> QED BY <1>7, <1>9, <2>1
<1>12. full[w + n] = end
  <2>1. w <= w + n /\ w + n < w + (n + 1) /\ (w + n) - w + 1 = n + 1
    BY <1>1
  <2> QED BY <1>7, <1>9, <1>10, <2>1
<1>13. ASSUME NEW a \in Addr, a < w \/ a > w + n PROVE full[a] = disk[a]
  <2>1. ~(w <= a /\ a < w + (n + 1))
    BY <1>1, <1>13 DEF Addr
  <2> QED BY <1>9, <2>1
<1> QED BY <1>8, <1>10, <1>11, <1>12, <1>13 DEF w, n, end

(* The file that close() leaves: the directory at start_dir or behind it,   *)
(* the end record, and no directory record elsewhere that could be found.   *)
LEMMA DiskAfterClose ==
    ASSUME Places, Close, Rewrites
    PROVE  LET n == Len(filelist)
           IN  /\ disk' \in [Addr -> Cell]
               /\ WritePos + n \in Addr
               /\ \A k \in 1 .. n : disk'[WritePos + k - 1]
                                       = CentralRecord(filelist[k], zinfo[filelist[k]])
               /\ disk'[WritePos + n] = EndRecord(WritePos + n - start_dir, start_dir)
               /\ \A a \in Addr : a < WritePos => disk'[a] = disk[a]
               /\ \A a \in Addr : a > WritePos + n => disk'[a].kind # "eocd"
               /\ WritePos # start_dir => disk'[start_dir].kind # "cd"
               /\ \A a \in Addr : start_dir <= a /\ a < WritePos => disk'[a].kind # "eocd"
<1> DEFINE n == Len(filelist)
           w == WritePos
           full == Put(disk, w, EndCells(w))
<1>1. /\ status = "open" /\ mode # "r"
      /\ disk' = IF mode = "a" THEN Truncate(full, w + n + 1) ELSE full
  BY DEF Close, Rewrites
<1>2. /\ Positions /\ Control /\ w \in Nat /\ start_dir <= w /\ n \in Nat
      /\ ~seekable => mode = "w"
      /\ seekable => w = start_dir
  BY <1>1, Standing
<1>3. /\ full \in [Addr -> Cell]
      /\ w + n \in Addr
      /\ \A k \in 1 .. n : full[w + k - 1] = CentralRecord(filelist[k], zinfo[filelist[k]])
      /\ full[w + n] = EndRecord(w + n - start_dir, start_dir)
      /\ \A a \in Addr : a < w \/ a > w + n => full[a] = disk[a]
  BY <1>1, DirectoryWritten
<1> HIDE DEF full, w
<1>4. CASE mode = "a"
  <2>1. disk' = [a \in Addr |-> IF w + n + 1 <= a THEN Hole ELSE full[a]]
    BY <1>1, <1>3, <1>4 DEF Truncate
  <2>2. disk' \in [Addr -> Cell]
    BY <1>3, <2>1, StrongCells
  <2>3. \A k \in 1 .. n : w + k - 1 \in Addr /\ ~(w + n + 1 <= w + k - 1)
    BY <1>2, <1>3, LayoutAssumption DEF Addr
  <2>4. ~(w + n + 1 <= w + n)
    BY <1>2
  <2>5. \A a \in Addr : (a < w => ~(w + n + 1 <= a)) /\ (a > w + n => w + n + 1 <= a)
    BY <1>2 DEF Addr
  <2>6. w = start_dir
    BY <1>2, <1>4 DEF Control
  <2>7. \A a \in Addr : ~(start_dir <= a /\ a < w)
    BY <1>2, <2>6 DEF Addr, Positions
  <2> QED BY <1>3, <2>1, <2>2, <2>3, <2>4, <2>5, <2>6, <2>7 DEF Hole, w
<1>5. CASE mode = "w"
  <2>1. disk' = full
    BY <1>1, <1>5
  <2>2. \A a \in Addr : disk[a].kind \notin {"cd", "eocd"}
    BY <1>1, <1>5 DEF Places, NoRecordsYet
  <2>3. w # start_dir => disk'[start_dir].kind # "cd"
    <3>1. start_dir \in Nat
      BY <1>2 DEF Positions
    <3>2. w # start_dir => start_dir < w /\ start_dir \in Addr
      BY <1>2, <1>3, <3>1, LayoutAssumption DEF Addr
    <3> QED BY <1>3, <2>1, <2>2, <3>2
  <2>4. \A a \in Addr : a > w + n => disk'[a].kind # "eocd"
    BY <1>3, <2>1, <2>2
  <2>5. \A a \in Addr : a < w => disk'[a].kind # "eocd"
    BY <1>3, <2>1, <2>2
  <2> QED BY <1>3, <2>1, <2>3, <2>4, <2>5 DEF w
<1> QED BY <1>1, <1>2, <1>4, <1>5 DEF Control

(* The file is read back as it was written, if it can be read, and not at   *)
(* all if it cannot.                                                        *)
LEMMA ClosedIsSaved ==
    ASSUME Places, Close, Rewrites
    PROVE  /\ Parses(disk') => DirectoryStart(disk') = start_dir /\ Directory(disk') = Own
           /\ ~Parses(disk') => Directory(disk') = <<>>
<1> DEFINE n == Len(filelist)
           w == WritePos
<1>1. /\ disk' \in [Addr -> Cell]
      /\ w + n \in Addr
      /\ \A k \in 1 .. n : disk'[w + k - 1] = CentralRecord(filelist[k], zinfo[filelist[k]])
      /\ disk'[w + n] = EndRecord(w + n - start_dir, start_dir)
      /\ \A a \in Addr : a > w + n => disk'[a].kind # "eocd"
      /\ w # start_dir => disk'[start_dir].kind # "cd"
  BY DiskAfterClose
<1>2. /\ Positions /\ w \in Nat /\ start_dir <= w /\ n \in Nat /\ start_dir \in Nat
      /\ \A k \in DOMAIN filelist : filelist[k] \in Infos
  BY Standing DEF Close, Rewrites, Positions
<1>3. disk' \in LooseDisk
  <2>1. Cell \subseteq LooseCell
    BY DEF Cell, LooseCell, Meta, LooseMeta
  <2> HIDE DEF Cell, LooseCell
  <2> QED BY <1>1, <2>1 DEF LooseDisk
<1>4. CASE ~HasDirectory(disk')
  BY <1>3, <1>4, WholeDirectory DEF Directory
<1>5. CASE HasDirectory(disk')
  <2>1. PICK e \in Addr :
           e = LastEndRecord(disk') /\ IsEndRecord(disk', e) /\ disk'[e].kind = "eocd"
    BY <1>3, <1>5, EndRecordFound
  <2> HIDE DEF w, n
  <2>2. e = w + n
    <3>1. e \in Int /\ w + n \in Int /\ e \in 0 .. (DiskCells - 1) /\ w + n \in 0 .. (DiskCells - 1)
      BY <1>1, <2>1 DEF Addr
    <3>2. ~ e > w + n
      BY <1>1, <2>1
    <3>3. disk'[w + n].kind = "eocd"
      BY <1>1 DEF EndRecord
    <3>4. ~ e < w + n
      BY <2>1, <3>1, <3>3, LayoutAssumption DEF IsEndRecord
    <3> QED BY <3>1, <3>2, <3>4
  <2>3. disk'[e].size = e - start_dir /\ disk'[e].off = start_dir /\ e \in Nat
    <3>1. disk'[w + n].size = w + n - start_dir /\ disk'[w + n].off = start_dir
      BY <1>1 DEF EndRecord
    <3> QED BY <1>2, <2>2, <3>1
  <2>4. e - disk'[e].size = start_dir
    BY <1>2, <2>3
  <2>5. DirectoryStart(disk') = start_dir /\ Shift(disk') = 0
    BY <1>2, <2>1, <2>3, <2>4 DEF DirectoryStart, Shift
  <2>6. PICK m \in Nat : m = RecordsBefore(disk', e)
    BY <1>2, <2>3, RecordsCounted
  <2>7. /\ m > 0 => m <= disk'[e].size
        /\ \A a \in start_dir .. (start_dir + m - 1) : disk'[a].kind = "cd"
        /\ \A k \in 1 .. disk'[e].size :
              (\A a \in start_dir .. (start_dir + k - 1) : disk'[a].kind = "cd") => k <= m
    BY <1>2, <2>3, <2>4, <2>6, RecordsCounted
  <2>8. Directory(disk') = [k \in 1 .. m |-> Entry(disk', k)]
    BY <1>5, <2>1, <2>6 DEF Directory
  <2>9. CASE w # start_dir
    <3>1. start_dir \in start_dir .. (e - 1)
      BY <1>2, <2>2, <2>3, <2>9
    <3>2. ~Parses(disk')
      BY <1>1, <1>3, <2>1, <2>4, <2>9, <3>1, WholeDirectory
    <3>3. m = 0
      <4>1. ASSUME m > 0 PROVE start_dir \in start_dir .. (start_dir + m - 1)
        BY <1>2, <4>1
      <4> QED BY <1>1, <2>7, <2>9, <4>1
    <3> QED BY <2>8, <3>2, <3>3
  <2>10. CASE w = start_dir
    <3>1. disk'[e].size = n
      BY <1>2, <2>2, <2>3, <2>10
    <3>2. \A a \in start_dir .. (e - 1) : disk'[a].kind = "cd"
      <4> TAKE a \in start_dir .. (e - 1)
      <4>1. a - w + 1 \in 1 .. n /\ w + (a - w + 1) - 1 = a
        BY <1>2, <2>2, <2>10, Index
      <4>2. disk'[w + (a - w + 1) - 1]
               = CentralRecord(filelist[a - w + 1], zinfo[filelist[a - w + 1]])
        BY <1>1, <4>1
      <4> QED BY <4>1, <4>2 DEF CentralRecord
    <3>3. Parses(disk')
      BY <1>1, <1>2, <2>1, <2>4, <3>2 DEF Parses
    <3>4. m = n
      <4>1. CASE n = 0
        BY <2>7, <3>1, <4>1
      <4>2. CASE n > 0
        <5>1. n \in 1 .. n /\ start_dir + n - 1 = e - 1
          BY <1>2, <2>2, <2>10, <4>2
        <5>2. n <= m
          BY <2>7, <3>1, <3>2, <5>1
        <5> QED BY <1>2, <2>7, <3>1, <5>2
      <4> QED BY <1>2, <4>1, <4>2
    <3>5. ASSUME NEW k \in 1 .. n
          PROVE  Entry(disk', k) = [name |-> filelist[k], meta |-> zinfo[filelist[k]]]
      <4>1. filelist[k] \in Infos /\ zinfo[filelist[k]] \in Meta
        BY <1>2 DEF Positions, n
      <4> DEFINE z == zinfo[filelist[k]]
      <4>2. [z EXCEPT !.off = @ + 0] = z
        BY <4>1 DEF Meta
      <4>3. disk'[start_dir + k - 1] = CentralRecord(filelist[k], z)
        BY <1>1, <2>10
      <4> QED BY <2>5, <4>2, <4>3 DEF Entry, CentralRecord
    <3>6. Own = [k \in 1 .. n |-> [name |-> filelist[k], meta |-> zinfo[filelist[k]]]]
      BY <1>2 DEF Own, Positions, n
    <3>7. Directory(disk') = Own
      BY <2>8, <3>4, <3>5, <3>6
    <3> QED BY <2>5, <3>3, <3>7
  <2> QED BY <2>9, <2>10
<1> QED BY <1>4, <1>5

LEMMA CloseKeeps == Places /\ Close => Sound'
<1> SUFFICES ASSUME Places, Close PROVE Sound'
  OBVIOUS
<1>1. /\ status = "open" /\ status' = "closed"
      /\ start_dir' = start_dir /\ filelist' = filelist /\ zinfo' = zinfo
      /\ struck' = struck
      /\ Rewrites => pos' = WritePos + Len(filelist) + 1
      /\ ~Rewrites => disk' = disk /\ pos' = pos
  BY DEF Close
<1>2. /\ Positions /\ Control /\ WritePos \in Nat /\ start_dir <= WritePos
      /\ Len(filelist) \in Nat
  BY <1>1, Standing
<1>3. Own' = Own
  BY <1>1 DEF Own
<1>4. CASE Rewrites
  <2>1. /\ disk' \in [Addr -> Cell] /\ WritePos + Len(filelist) \in Addr
        /\ \A a \in Addr : a < WritePos => disk'[a] = disk[a]
    BY <1>4, DiskAfterClose
  <2>2. Positions'
    <3>1. pos' \in Nat
      BY <1>1, <1>2, <1>4
    <3> QED BY <1>1, <1>2, <2>1, <3>1 DEF Positions
  <2>3. MembersPlaced'
    <3>1. \A a \in Addr : a < start_dir => disk'[a] = disk[a]
      BY <1>2, <2>1 DEF Addr, Positions
    <3>2. Undisturbed
      BY <1>1, <1>2, <3>1 DEF Undisturbed, Positions
    <3>3. start_dir <= DiskCells /\ start_dir' \in Nat
      BY <1>1, <1>2, <2>1, LayoutAssumption DEF Addr, Positions
    <3> QED BY <1>1, <3>2, <3>3, MembersStay DEF Places
  <2>4. Saved'
    BY <1>1, <1>3, <1>4, ClosedIsSaved DEF Saved
  <2> QED BY <1>1, <2>2, <2>3, <2>4
          DEF Sound, PlacingOK, WriterOK, DirectoriesAreBlank, NoRecordsYet, Places
<1>5. CASE ~Rewrites
  <2>1. Positions'
    BY <1>1, <1>2, <1>5 DEF Positions
  <2>2. MembersPlaced'
    <3>1. Undisturbed
      BY <1>1, <1>2, <1>5 DEF Undisturbed, Positions
    <3> QED BY <1>1, <1>5, <3>1, SameDiskStay DEF Places
  <2>3. Saved'
    <3>1. mode = "r" \/ ~didModify
      BY <1>5 DEF Rewrites
    <3> QED BY <1>1, <1>3, <1>5, <3>1 DEF Saved, Places
  <2> QED BY <1>1, <2>1, <2>2, <2>3
          DEF Sound, PlacingOK, WriterOK, DirectoriesAreBlank, NoRecordsYet, Places
<1> QED BY <1>4, <1>5

(* What a close() that is cut short after the m-th record leaves.           *)
LEMMA DiskAfterCut ==
    ASSUME Places, NEW m \in 0 .. DiskCells, CloseFails(m)
    PROVE  /\ m \in 0 .. Len(filelist)
           /\ disk' \in [Addr -> Cell]
           /\ WritePos + Len(filelist) \in Addr
           /\ \A k \in 1 .. m : disk'[WritePos + k - 1]
                                   = CentralRecord(filelist[k], zinfo[filelist[k]])
           /\ \A a \in Addr : a < WritePos \/ a >= WritePos + m => disk'[a] = disk[a]
<1> DEFINE n == Len(filelist)
           w == WritePos
           full == Put(disk, w, EndCells(w))
           cut == SubSeq(EndCells(w), 1, m)
<1>1. /\ status = "open" /\ mode # "r" /\ m \in 0 .. n /\ disk' = Put(disk, w, cut)
  BY DEF CloseFails, Rewrites
<1>2. /\ Positions /\ w \in Nat /\ start_dir <= w /\ n \in Nat
  BY <1>1, Standing
<1>3. /\ full \in [Addr -> Cell]
      /\ w + n \in Addr
      /\ \A k \in 1 .. n : full[w + k - 1] = CentralRecord(filelist[k], zinfo[filelist[k]])
  BY <1>1, DirectoryWritten
<1>4. Len(EndCells(w)) = n + 1
  <2> DEFINE records == [k \in 1 .. n |-> CentralRecord(filelist[k], zinfo[filelist[k]])]
             end == EndRecord(w + n - start_dir, start_dir)
             S == {records[k] : k \in 1 .. n}
  <2>1. records \in [1 .. n -> S]
    OBVIOUS
  <2>2. records \in Seq(S) /\ Len(records) = n
    <3> HIDE DEF records, S, n
    <3> QED BY <1>2, <2>1, IsASeq
  <2>3. EndCells(w) = records \o <<end>>
    BY DEF EndCells
  <2> HIDE DEF records, end
  <2> QED BY <1>2, <2>2, <2>3
<1>5. Len(cut) = m /\ \A k \in 1 .. m : cut[k] = EndCells(w)[k]
  <2> DEFINE cells == EndCells(w)
  <2>1. m \in Nat /\ m <= n + 1
    BY <1>1, <1>2
  <2> HIDE DEF cells
  <2> QED BY <1>2, <1>4, <2>1 DEF cells
<1> HIDE DEF cut
<1>6. DOMAIN disk = Addr
  BY <1>2 DEF Positions
<1>7. disk' = [a \in Addr |-> IF w <= a /\ a < w + m THEN cut[a - w + 1] ELSE disk[a]]
  BY <1>1, <1>5, <1>6 DEF Put
<1>8. full = [a \in Addr |-> IF w <= a /\ a < w + (n + 1) THEN EndCells(w)[a - w + 1] ELSE disk[a]]
  BY <1>4, <1>6 DEF Put
<1> HIDE DEF full, w, n
<1>9. \A a \in Addr : a < w \/ a >= w + m => disk'[a] = disk[a]
  <2> SUFFICES ASSUME NEW a \in Addr, a < w \/ a >= w + m PROVE disk'[a] = disk[a]
    OBVIOUS
  <2>1. ~(w <= a /\ a < w + m)
    BY <1>1, <1>2 DEF Addr
  <2> QED BY <1>7, <2>1
<1>10. \A a \in Addr : w <= a /\ a < w + m => disk'[a] = full[a]
  <2> SUFFICES ASSUME NEW a \in Addr, w <= a, a < w + m PROVE disk'[a] = full[a]
    OBVIOUS
  <2>1. a - w + 1 \in 1 .. m /\ a < w + (n + 1)
    BY <1>1, <1>2 DEF Addr
  <2> QED BY <1>5, <1>7, <1>8, <2>1
<1>11. disk' \in [Addr -> Cell]
  <2>1. \A a \in Addr : disk'[a] \in Cell
    <3> TAKE a \in Addr
    <3>1. (a < w \/ a >= w + m) \/ (w <= a /\ a < w + m)
      BY <1>1, <1>2 DEF Addr
    <3>2. disk[a] \in Cell /\ full[a] \in Cell
      BY <1>2, <1>3 DEF Positions
    <3> QED BY <1>9, <1>10, <3>1, <3>2
  <2> QED BY <1>7, <2>1
<1>12. ASSUME NEW k \in 1 .. m
       PROVE  disk'[w + k - 1] = CentralRecord(filelist[k], zinfo[filelist[k]])
  <2>1. w + k - 1 \in Addr /\ w <= w + k - 1 /\ w + k - 1 < w + m /\ k \in 1 .. n
    BY <1>1, <1>2, <1>3, LayoutAssumption DEF Addr
  <2> QED BY <1>3, <1>10, <2>1
<1> QED BY <1>1, <1>3, <1>9, <1>11, <1>12 DEF w, n

LEMMA CloseFailsKeeps ==
    ASSUME Places, NEW m \in 0 .. DiskCells, CloseFails(m)
    PROVE  Sound'
<1>1. /\ status = "open" /\ status' = "stale" /\ pos' = WritePos + m
      /\ start_dir' = start_dir /\ filelist' = filelist /\ zinfo' = zinfo
      /\ struck' = struck
  BY DEF CloseFails
<1>2. /\ Positions /\ WritePos \in Nat /\ start_dir <= WritePos /\ Len(filelist) \in Nat
  BY <1>1, Standing
<1>3. /\ disk' \in [Addr -> Cell] /\ WritePos + Len(filelist) \in Addr
      /\ \A a \in Addr : a < WritePos => disk'[a] = disk[a]
  BY DiskAfterCut
<1>4. Positions'
  BY <1>1, <1>2, <1>3 DEF Positions
<1>5. MembersPlaced'
  <2>1. \A a \in Addr : a < start_dir => disk'[a] = disk[a]
    BY <1>2, <1>3 DEF Addr, Positions
  <2>2. Undisturbed
    BY <1>1, <1>2, <2>1 DEF Undisturbed, Positions
  <2>3. start_dir <= DiskCells /\ start_dir' \in Nat
    BY <1>1, <1>2, <1>3, LayoutAssumption DEF Addr, Positions
  <2> QED BY <1>1, <2>2, <2>3, MembersStay DEF Places
<1> QED BY <1>1, <1>4, <1>5
        DEF Sound, PlacingOK, WriterOK, DirectoriesAreBlank, NoRecordsYet, Saved, Places

LEMMA CrashKeeps == Places /\ Crash => Sound'
<1> SUFFICES ASSUME Places, Crash PROVE Sound'
  OBVIOUS
<1>1. /\ status' = "stale" /\ disk' = disk /\ pos' = pos
      /\ start_dir' = start_dir /\ filelist' = filelist /\ zinfo' = zinfo
      /\ struck' = struck
  BY DEF Crash
<1>2. Positions'
  BY <1>1 DEF Positions, Places, TypeOK
<1>3. MembersPlaced'
  <2>1. Undisturbed
    BY <1>1 DEF Undisturbed, Places, TypeOK
  <2> QED BY <1>1, <2>1, SameDiskStay DEF Places
<1> QED BY <1>1, <1>2, <1>3
        DEF Sound, PlacingOK, WriterOK, DirectoriesAreBlank, NoRecordsYet, Saved, Places

-----------------------------------------------------------------------------
(* What the sessions leave on the disk, step by step                        *)

(* The records close() writes are true.                                     *)
LEMMA OwnTruth ==
    ASSUME Positions', MembersPlaced', DirectoriesAreBlank', Unique',
           NEW e \in Addr, From(e)' = start_dir', NEW k \in 1 .. Len(filelist'),
           \A j \in 1 .. k : Rec(e, j)' = CentralRecord(filelist'[j], zinfo'[filelist'[j]])
    PROVE  Truthful(e, k)'
<1>1. /\ Len(filelist') \in Nat /\ k \in DOMAIN filelist' /\ k \in 1 .. k
      /\ \A j \in 1 .. (k - 1) : j \in DOMAIN filelist' /\ j \in 1 .. k /\ j # k /\ k > j
      /\ filelist'[k] \in Infos
  BY DEF Positions
<1>2. Rec(e, k)'.name = filelist'[k] /\ Rec(e, k)'.meta = zinfo'[filelist'[k]]
  BY <1>1 DEF CentralRecord
<1>3. \A j \in 1 .. (k - 1) : /\ Rec(e, j)'.name = filelist'[j]
                              /\ Rec(e, j)'.meta = zinfo'[filelist'[j]]
  BY <1>1 DEF CentralRecord
<1>4. \A j \in 1 .. (k - 1) : filelist'[j] # filelist'[k]
  BY <1>1 DEF Unique
<1>5. filelist'[k] \in Dirs => /\ zinfo'[filelist'[k]].size = 0 /\ zinfo'[filelist'[k]].crc = 0
                               /\ ~zinfo'[filelist'[k]].dd
  BY DEF DirectoriesAreBlank
<1>6. ASSUME NothingCutShort'
      PROVE  /\ Intact(disk', filelist'[k], zinfo'[filelist'[k]])
             /\ EndOf(zinfo'[filelist'[k]]) <= start_dir'
             /\ \A j \in 1 .. (k - 1) :
                   EndOf(zinfo'[filelist'[j]]) <= zinfo'[filelist'[k]].off
  BY <1>1, <1>6 DEF MembersPlaced, Placed
<1> QED BY <1>2, <1>3, <1>4, <1>5, <1>6 DEF Truthful

(* An end record that close() of the archive leaves behind the members is   *)
(* its own, or was overtaken and stays so.                                  *)
LEMMA ClosingRemains ==
    ASSUME Places, Sound', disk' \in [Addr -> Cell], start_dir \in 0 .. DiskCells,
           filelist' = filelist, zinfo' = zinfo, start_dir' = start_dir, struck' = struck,
           \A a \in Addr : a < start_dir => disk'[a] = disk[a],
           \A e \in Addr : disk'[e].kind = "eocd" /\ e >= start_dir =>
              /\ disk'[e].off = From(e)'
              /\ \A k \in 1 .. disk'[e].size : Reached(e, k)' =>
                    /\ From(e)' = start_dir /\ k <= Len(filelist)
                    /\ \A j \in 1 .. k :
                          Rec(e, j)' = CentralRecord(filelist[j], zinfo[filelist[j]])
    PROVE  Remains'
<1>0. disk \in [Addr -> Cell] /\ Remains /\ Unique /\ Positions' /\ MembersPlaced'
      /\ DirectoriesAreBlank' /\ Len(filelist) \in Nat
  BY DEF Places, Relics, TypeOK, Sound
<1> SUFFICES ASSUME NEW e \in Addr, disk'[e].kind = "eocd"
             PROVE  /\ disk'[e].off = From(e)'
                    /\ \A k \in 1 .. disk'[e].size : Reached(e, k)' => Truthful(e, k)'
  BY DEF Remains
<1>1. CASE e < start_dir
  <2>1. disk'[e] = disk[e] /\ From(e)' = From(e)
    BY <1>1 DEF From
  <2>2. disk[e].off = From(e)
    BY <1>0, <2>1 DEF Remains
  <2>3. From(e) \in Nat /\ From(e) <= e /\ e \in Nat
    BY <1>0, <2>1, RecordsLie
  <2>4. \A a \in Addr : a < e /\ disk'[a].kind = "cd" => disk'[a] = disk[a]
    BY <1>1, <2>3 DEF Addr
  <2>5. From(e) <= start_dir
    BY <1>1, <2>3
  <2>6. ASSUME NEW k \in 1 .. disk[e].size, Reached(e, k)' PROVE Truthful(e, k)'
    BY <1>0, <2>1, <2>4, <2>5, <2>6, TruthStays
  <2> QED BY <2>1, <2>2, <2>6
<1>2. CASE e >= start_dir
  <2>1. ASSUME NEW k \in 1 .. disk'[e].size, Reached(e, k)' PROVE Truthful(e, k)'
    <3>1. /\ From(e)' = start_dir' /\ k \in 1 .. Len(filelist')
          /\ \A j \in 1 .. k : Rec(e, j)' = CentralRecord(filelist'[j], zinfo'[filelist'[j]])
      BY <1>0, <1>2, <2>1
    <3>2. Unique'
      BY <1>0 DEF Unique
    <3> QED BY <1>0, <3>1, <3>2, OwnTruth
  <2> QED BY <1>2, <2>1
<1> QED BY <1>1, <1>2 DEF Addr

LEMMA CloseRemains ==
    ASSUME Places, Sound', Close
    PROVE  Remains'
<1>1. /\ status = "open"
      /\ start_dir' = start_dir /\ filelist' = filelist /\ zinfo' = zinfo
      /\ struck' = struck
      /\ ~Rewrites => disk' = disk
  BY DEF Close
<1>2. CASE ~Rewrites
  BY <1>1, <1>2, RemainsSame DEF Places, TypeOK, Relics
<1>3. CASE Rewrites
  <2>1. PICK n \in Nat : n = Len(filelist)
    BY DEF Places, TypeOK
  <2>2. PICK w \in Nat : w = WritePos
    BY <1>1, Standing
  <2>3. /\ disk' \in [Addr -> Cell]
        /\ w + n \in Addr
        /\ \A k \in 1 .. n : disk'[w + k - 1] = CentralRecord(filelist[k], zinfo[filelist[k]])
        /\ disk'[w + n] = EndRecord(w + n - start_dir, start_dir)
        /\ \A a \in Addr : a < w => disk'[a] = disk[a]
        /\ \A a \in Addr : a > w + n => disk'[a].kind # "eocd"
        /\ w # start_dir => disk'[start_dir].kind # "cd"
        /\ \A a \in Addr : start_dir <= a /\ a < w => disk'[a].kind # "eocd"
    BY <1>3, <2>1, <2>2, DiskAfterClose
  <2>4. start_dir \in Nat /\ start_dir <= w /\ start_dir \in 0 .. DiskCells
    <3>1. start_dir \in Nat /\ start_dir <= w
      BY <1>1, <2>2, Standing DEF Positions
    <3> QED BY <2>3, <3>1, LayoutAssumption DEF Addr
  <2>5. \A a \in Addr : a < start_dir => disk'[a] = disk[a]
    BY <2>3, <2>4 DEF Addr
  <2>6. ASSUME NEW e \in Addr, disk'[e].kind = "eocd", e >= start_dir
        PROVE  /\ disk'[e].off = From(e)'
               /\ \A k \in 1 .. disk'[e].size : Reached(e, k)' =>
                    /\ From(e)' = start_dir /\ k <= n
                    /\ \A j \in 1 .. k :
                          Rec(e, j)' = CentralRecord(filelist[j], zinfo[filelist[j]])
    <3>1. e = w + n
      <4>1. e \in Nat /\ ~ e > w + n /\ ~ e < w
        BY <2>3, <2>4, <2>6 DEF Addr
      <4>2. ASSUME e < w + n PROVE FALSE
        <5>1. e - w + 1 \in 1 .. n /\ w + (e - w + 1) - 1 = e
          BY <4>1, <4>2
        <5>2. disk'[e] = CentralRecord(filelist[e - w + 1], zinfo[filelist[e - w + 1]])
          BY <2>3, <5>1
        <5> QED BY <2>6, <5>2 DEF CentralRecord
      <4> QED BY <4>1, <4>2
    <3>2. disk'[e].size = w + n - start_dir /\ disk'[e].off = start_dir
      BY <2>3, <3>1 DEF EndRecord
    <3>3. From(e)' = start_dir
      BY <2>4, <3>1, <3>2 DEF From
    <3>4. ASSUME NEW k \in 1 .. disk'[e].size, Reached(e, k)'
          PROVE  k <= n /\ \A j \in 1 .. k :
                              Rec(e, j)' = CentralRecord(filelist[j], zinfo[filelist[j]])
      <4>1. w = start_dir
        <5>1. start_dir \in start_dir .. (start_dir + k - 1)
          BY <2>4, <3>2
        <5>2. disk'[start_dir].kind = "cd"
          BY <3>3, <3>4, <5>1 DEF Reached
        <5> QED BY <2>3, <5>2
      <4>2. disk'[e].size = n
        BY <2>4, <3>2, <4>1
      <4> QED BY <2>3, <3>3, <4>1, <4>2 DEF Rec
    <3> QED BY <3>2, <3>3, <3>4
  <2> QED BY <1>1, <2>1, <2>3, <2>4, <2>5, <2>6, ClosingRemains
<1> QED BY <1>2, <1>3

LEMMA CloseFailsRemains ==
    ASSUME Places, Sound', NEW m \in 0 .. DiskCells, CloseFails(m)
    PROVE  Remains'
<1>1. /\ status = "open" /\ mode # "r"
      /\ start_dir' = start_dir /\ filelist' = filelist /\ zinfo' = zinfo
      /\ struck' = struck
  BY DEF CloseFails, Rewrites
<1>0. /\ disk \in [Addr -> Cell] /\ mode \in {"r", "w", "a"} /\ seekable \in BOOLEAN
      /\ Remains /\ Overtaken /\ NoRecordsYet /\ PlacingOK
  BY DEF Places, Relics, TypeOK
<1>2. PICK n \in Nat : n = Len(filelist)
  BY DEF Places, TypeOK
<1>3. PICK w \in Nat : w = WritePos
  BY <1>1, Standing
<1>4. /\ m \in 0 .. n
      /\ disk' \in [Addr -> Cell]
      /\ w + n \in Addr
      /\ \A k \in 1 .. m : disk'[w + k - 1] = CentralRecord(filelist[k], zinfo[filelist[k]])
      /\ \A a \in Addr : a < w \/ a >= w + m => disk'[a] = disk[a]
  BY <1>2, <1>3, DiskAfterCut
<1>5. start_dir \in Nat /\ start_dir <= w /\ start_dir \in 0 .. DiskCells
  <2>1. start_dir \in Nat /\ start_dir <= w
    BY <1>1, <1>3, Standing DEF Positions
  <2> QED BY <1>4, <2>1, LayoutAssumption DEF Addr
<1>6. \A a \in Addr : a < start_dir => disk'[a] = disk[a]
  <2>1. \A a \in Addr : a < start_dir => a < w
    BY <1>5 DEF Addr
  <2> QED BY <1>4, <2>1
<1>7. ASSUME NEW e \in Addr, disk'[e].kind = "eocd", e >= start_dir
      PROVE  /\ disk'[e].off = From(e)'
             /\ \A k \in 1 .. disk'[e].size : Reached(e, k)' =>
                  /\ From(e)' = start_dir /\ k <= n
                  /\ \A j \in 1 .. k :
                        Rec(e, j)' = CentralRecord(filelist[j], zinfo[filelist[j]])
  <2>1. disk'[e] = disk[e] /\ disk[e].kind = "eocd" /\ From(e)' = From(e)
    <3>1. ASSUME w <= e, e < w + m PROVE FALSE
      <4>1. e - w + 1 \in 1 .. m /\ w + (e - w + 1) - 1 = e
        BY <1>4, <3>1 DEF Addr
      <4>2. disk'[e] = CentralRecord(filelist[e - w + 1], zinfo[filelist[e - w + 1]])
        BY <1>4, <4>1
      <4> QED BY <1>7, <4>2 DEF CentralRecord
    <3>2. e < w \/ e >= w + m
      BY <1>4, <3>1 DEF Addr
    <3>3. disk'[e] = disk[e]
      BY <1>4, <3>2
    <3> QED BY <1>7, <3>3 DEF From
  <2>2. mode = "a" /\ w = start_dir
    <3>1. mode = "a"
      BY <1>0, <1>1, <2>1 DEF NoRecordsYet
    <3>2. seekable
      BY <1>0, <1>1, <3>1 DEF PlacingOK
    <3> QED BY <1>3, <3>1, <3>2 DEF WritePos
  <2>3. disk'[e].off = From(e)'
    BY <1>0, <2>1 DEF Remains
  <2>4. /\ From(e) \in Nat /\ From(e) <= e /\ e \in Nat /\ disk[e].size \in Nat
        /\ \A k \in 1 .. disk[e].size : From(e) + k - 1 \in Addr
    BY <1>0, <2>1, RecordsLie
  <2>5. CASE From(e) < start_dir /\ disk[From(e)].kind # "cd"
    <3>1. ASSUME NEW k \in 1 .. disk'[e].size, Reached(e, k)' PROVE FALSE
      <4>1. From(e) \in From(e) .. (From(e) + k - 1) /\ From(e) \in Addr
        BY <2>1, <2>4, LayoutAssumption DEF Addr
      <4>2. disk'[From(e)].kind = "cd"
        BY <2>1, <3>1, <4>1 DEF Reached
      <4> QED BY <1>6, <2>5, <4>1, <4>2
    <3> QED BY <2>3, <3>1
  <2>6. CASE /\ From(e) = start_dir /\ disk[e].size <= n
             /\ \A k \in 1 .. disk[e].size :
                   Rec(e, k).kind = "cd" =>
                       Rec(e, k) = CentralRecord(filelist[k], zinfo[filelist[k]])
    <3>1. ASSUME NEW k \in 1 .. disk'[e].size, Reached(e, k)'
          PROVE  /\ k <= n
                 /\ \A j \in 1 .. k :
                       Rec(e, j)' = CentralRecord(filelist[j], zinfo[filelist[j]])
      <4>1. k <= n
        BY <2>1, <2>4, <2>6
      <4>2. ASSUME NEW j \in 1 .. k
            PROVE  Rec(e, j)' = CentralRecord(filelist[j], zinfo[filelist[j]])
        <5>1. /\ j \in 1 .. disk[e].size /\ start_dir + j - 1 \in Addr
              /\ start_dir + j - 1 \in start_dir .. (start_dir + k - 1)
          BY <1>5, <2>1, <2>4, <2>6
        <5>2. disk'[start_dir + j - 1].kind = "cd"
          BY <2>1, <2>6, <3>1, <5>1 DEF Reached
        <5>3. Rec(e, j)' = disk'[start_dir + j - 1] /\ Rec(e, j) = disk[start_dir + j - 1]
          BY <2>1, <2>6 DEF Rec
        <5>4. CASE j \in 1 .. m
          BY <1>4, <2>2, <5>3, <5>4
        <5>5. CASE j > m
          <6>1. disk'[start_dir + j - 1] = disk[start_dir + j - 1]
            BY <1>4, <1>5, <2>2, <5>1, <5>5
          <6> QED BY <2>6, <5>1, <5>2, <5>3, <6>1
        <5> QED BY <1>4, <5>4, <5>5
      <4> QED BY <4>1, <4>2
    <3> QED BY <2>1, <2>3, <2>6, <3>1
  <2> QED BY <1>0, <1>1, <1>2, <1>7, <2>1, <2>2, <2>5, <2>6 DEF Overtaken
<1> QED BY <1>1, <1>2, <1>4, <1>5, <1>6, <1>7, ClosingRemains

(* A call that writes one cell of a member at most.                         *)
LEMMA OneCellStays ==
    ASSUME Places, Kept, status = "open", status' = "open", mode' = mode,
           start_dir' = start_dir, struck \subseteq struck',
           disk' = disk \/ (mode # "r" /\ \E p, c : Behind(p, c))
    PROVE  Remains' /\ Overtaken'
<1>0. Positions /\ disk \in [Addr -> Cell] /\ Remains
  BY DEF Places, Positions, TypeOK, Relics
<1>1. CASE mode = "r"
  <2>1. disk' = disk /\ mode' # "a"
    BY <1>1
  <2> QED BY <1>0, <2>1, RemainsSame DEF Overtaken
<1>2. CASE mode # "r"
  <2>1. start_dir \in 0 .. DiskCells
    <3>1. /\ start_dir \in Nat /\ Len(filelist) \in Nat
          /\ start_dir + Len(filelist) + 1 <= DiskCells
      BY <1>0, <1>2, Standing DEF Positions
    <3> QED BY <3>1, LayoutAssumption
  <2>2. CASE disk' = disk
    <3>1. \A a \in Addr : ~(start_dir <= a /\ a < start_dir)
      BY <2>1 DEF Addr
    <3>2. WritesBehind
      BY <1>0, <1>2, <2>1, <2>2, <3>1 DEF WritesBehind
    <3> QED BY <3>2, RelicsStay
  <2>3. CASE \E p, c : Behind(p, c)
    <3>1. PICK p, c : Behind(p, c)
      BY <2>3
    <3>2. /\ disk' \in [Addr -> Cell]
          /\ disk'[p] = c /\ c.kind \notin {"cd", "eocd"}
          /\ \A a \in Addr : a # p => disk'[a] = disk[a]
          /\ \A a \in Addr : a < start_dir => disk'[a] = disk[a]
      BY <1>0, <3>1, CellBehind DEF Behind
    <3>3. \A a \in Addr : ~(start_dir <= a /\ a < start_dir)
      BY <2>1 DEF Addr
    <3>4. WritesBehind
      BY <1>2, <2>1, <3>2, <3>3 DEF WritesBehind
    <3> QED BY <3>4, RelicsStay
  <2> QED BY <2>2, <2>3
<1> QED BY <1>1, <1>2

(* A record that a call puts where fp is sought to.                         *)
LEMMA SoughtBehind ==
    ASSUME Places, status = "open", Room(WritePos, 2),
           NEW c \in Cell, c.kind \notin {"cd", "eocd"},
           disk' = Put(disk, WritePos, <<c>>)
    PROVE  Behind(WritePos, c)
<1>1. WritePos \in Nat /\ start_dir <= WritePos /\ Len(filelist) \in Nat
  BY Standing
<1>2. WritePos \in Addr
  BY <1>1, LayoutAssumption DEF Room, Addr
<1> QED BY <1>1, <1>2 DEF Behind

LEMMA OpeningRelics ==
    ASSUME Places, Kept, NEW i \in Infos \ Dirs,
           \/ OpenWriter(i)
           \/ \E stage \in Stages : OpenWriterRefused(i, stage)
           \/ OpenWriterHeaderFails(i)
    PROVE  Remains' /\ Overtaken'
<1>1. /\ status = "open" /\ status' = "open" /\ mode' = mode /\ start_dir' = start_dir
      /\ struck \subseteq struck'
      /\ \/ disk' = disk
         \/ /\ mode # "r" /\ Room(WritePos, 2)
            /\ \/ disk' = Put(disk, WritePos, <<LocalHeader(i, 0)>>)
               \/ disk' = Put(disk, WritePos, <<Junk>>)
  BY DEF OpenWriter, OpenWriterRefused, OpenWriterHeaderFails, MayWrite, Strike
<1>2. /\ LocalHeader(i, 0) \in Cell /\ LocalHeader(i, 0).kind \notin {"cd", "eocd"}
      /\ Junk \in Cell /\ Junk.kind \notin {"cd", "eocd"}
  <2>1. LocalHeader(i, 0) \in Cell /\ Junk \in Cell
    BY StrongCells
  <2> QED BY <2>1 DEF LocalHeader, Junk
<1>3. disk' = disk \/ (mode # "r" /\ \E p, c : Behind(p, c))
  BY <1>1, <1>2, SoughtBehind
<1> QED BY <1>1, <1>3, OneCellStays

LEMMA WritingRelics ==
    ASSUME Places, Kept, WriteData \/ WriteLost
    PROVE  Remains' /\ Overtaken'
<1>1. /\ status = "open" /\ status' = "open" /\ mode' = mode /\ start_dir' = start_dir
      /\ struck \subseteq struck' /\ writer # NoWriter
      /\ disk' = disk \/ disk' = Put(disk, pos, <<Payload(writer.serial)>>)
  BY DEF WriteData, WriteLost, Strike
<1>2. /\ mode # "r" /\ pos \in Addr /\ writer.serial \in Nat
      /\ start_dir <= zinfo[writer.info].off /\ zinfo[writer.info].off < pos
      /\ zinfo[writer.info] \in Meta
  BY <1>1, Holding
<1>3. start_dir <= pos
  <2>1. start_dir \in Nat /\ zinfo[writer.info].off \in Nat /\ pos \in Nat
    BY <1>2 DEF Places, TypeOK, Meta
  <2> QED BY <1>2, <2>1
<1>4. Payload(writer.serial) \in Cell /\ Payload(writer.serial).kind \notin {"cd", "eocd"}
  <2>1. Payload(writer.serial) \in Cell
    BY <1>2, StrongCells
  <2> QED BY <2>1 DEF Payload
<1>5. disk' = disk \/ (mode # "r" /\ \E p, c : Behind(p, c))
  BY <1>1, <1>2, <1>3, <1>4 DEF Behind
<1> QED BY <1>1, <1>5, OneCellStays

(* close() of a handle puts start_dir behind its member.                    *)
LEMMA FinishingRelics ==
    ASSUME Places, Kept, CloseWriter \/ \E stage \in FinalStages : CloseWriterFails(stage)
    PROVE  Remains' /\ Overtaken'
<1> DEFINE z == zinfo[writer.info]
<1>1. /\ status = "open" /\ status' = "open" /\ mode' = mode /\ writer # NoWriter
      /\ struck \subseteq struck'
      /\ \/ start_dir' = start_dir /\ (disk' = disk \/ disk' = Put(disk, pos, <<Junk>>))
         \/ /\ FinalMeta.dd /\ start_dir' = pos + 1
            /\ disk' = Put(disk, pos, <<Descriptor(writer.serial)>>)
         \/ /\ ~FinalMeta.dd /\ start_dir' = pos
            /\ \/ disk' = disk
               \/ disk' = Put(disk, FinalMeta.off, <<LocalHeader(writer.info, writer.serial)>>)
               \/ disk' = Put(disk, FinalMeta.off, <<Junk>>)
  BY DEF CloseWriter, CloseWriterFails, Strike
<1>2. /\ writer.info \in Infos /\ writer.serial \in Nat /\ z \in Meta
      /\ mode # "r" /\ start_dir <= z.off /\ z.off < pos /\ z.dd = ~seekable
      /\ pos \in Addr /\ z.off \in Addr /\ start_dir < DiskCells
  BY <1>1, Holding
<1>3. FinalMeta.dd = z.dd /\ FinalMeta.off = z.off
  BY <1>2 DEF FinalMeta, Meta
<1>4. /\ z.off \in Nat /\ pos \in Nat /\ start_dir \in Nat /\ disk \in [Addr -> Cell]
      /\ Positions /\ (mode = "a" => seekable)
  BY <1>1, <1>2 DEF Places, TypeOK, Meta, PlacingOK, Positions
<1>5. /\ \A a \in z.off .. (pos - 1) : disk[a].kind \notin {"cd", "eocd"}
      /\ seekable => z.off = start_dir
  BY <1>1 DEF Places, WriterOK
<1> HIDE DEF z
<1>6. start_dir \in 0 .. DiskCells /\ start_dir <= pos
  BY <1>2, <1>4, LayoutAssumption
<1>7. /\ Junk \in Cell /\ Descriptor(writer.serial) \in Cell
      /\ LocalHeader(writer.info, writer.serial) \in Cell
      /\ Junk.kind \notin {"cd", "eocd"}
      /\ Descriptor(writer.serial).kind \notin {"cd", "eocd"}
      /\ LocalHeader(writer.info, writer.serial).kind \notin {"cd", "eocd"}
  <2>1. /\ Junk \in Cell /\ Descriptor(writer.serial) \in Cell
        /\ LocalHeader(writer.info, writer.serial) \in Cell
    BY <1>2, StrongCells
  <2> QED BY <2>1 DEF Junk, Descriptor, LocalHeader
<1>8. CASE start_dir' = start_dir /\ (disk' = disk \/ disk' = Put(disk, pos, <<Junk>>))
  <2>1. disk' = disk \/ (mode # "r" /\ \E p, c : Behind(p, c))
    BY <1>2, <1>6, <1>7, <1>8 DEF Behind
  <2> QED BY <1>1, <1>8, <2>1, OneCellStays
<1>9. CASE /\ FinalMeta.dd /\ start_dir' = pos + 1
           /\ disk' = Put(disk, pos, <<Descriptor(writer.serial)>>)
  <2>1. Behind(pos, Descriptor(writer.serial))
    BY <1>2, <1>6, <1>7, <1>9 DEF Behind
  <2>2. /\ disk' \in [Addr -> Cell]
        /\ disk'[pos] = Descriptor(writer.serial)
        /\ \A a \in Addr : a # pos => disk'[a] = disk[a]
        /\ \A a \in Addr : a < start_dir => disk'[a] = disk[a]
    BY <1>4, <2>1, CellBehind
  <2>3. mode # "a"
    BY <1>2, <1>3, <1>4, <1>9
  <2>4. WritesBehind
    BY <1>1, <1>2, <1>4, <1>6, <1>7, <1>9, <2>2, <2>3 DEF WritesBehind
  <2> QED BY <2>4, RelicsStay
<1>10. CASE /\ ~FinalMeta.dd /\ start_dir' = pos
            /\ \/ disk' = disk
               \/ disk' = Put(disk, FinalMeta.off, <<LocalHeader(writer.info, writer.serial)>>)
               \/ disk' = Put(disk, FinalMeta.off, <<Junk>>)
  <2>1. disk' = disk \/ \E c : Behind(z.off, c)
    BY <1>2, <1>3, <1>7, <1>10 DEF Behind
  <2>2. /\ disk' \in [Addr -> Cell]
        /\ \A a \in Addr : a < start_dir => disk'[a] = disk[a]
        /\ \A a \in Addr : disk'[a] = disk[a] \/ disk'[a].kind \notin {"cd", "eocd"}
    <3>1. CASE disk' = disk
      BY <1>4, <3>1
    <3>2. CASE \E c : Behind(z.off, c)
      <4>1. PICK c : Behind(z.off, c)
        BY <3>2
      <4>2. c.kind \notin {"cd", "eocd"}
        BY <4>1 DEF Behind
      <4>3. /\ disk' \in [Addr -> Cell] /\ disk'[z.off] = c
            /\ \A a \in Addr : a # z.off => disk'[a] = disk[a]
            /\ \A a \in Addr : a < start_dir => disk'[a] = disk[a]
        BY <1>4, <4>1, CellBehind
      <4> QED BY <4>2, <4>3
    <3> QED BY <2>1, <3>1, <3>2
  <2>3. mode = "a" => \A a \in Addr : start_dir <= a /\ a < pos
                         => disk'[a].kind \notin {"cd", "eocd"}
    <3> SUFFICES ASSUME mode = "a", NEW a \in Addr, start_dir <= a, a < pos
                 PROVE  disk'[a].kind \notin {"cd", "eocd"}
      OBVIOUS
    <3>1. a \in z.off .. (pos - 1)
      BY <1>4, <1>5 DEF Addr
    <3>2. disk[a].kind \notin {"cd", "eocd"}
      BY <1>5, <3>1
    <3> QED BY <2>2, <3>2
  <2>4. WritesBehind
    BY <1>1, <1>2, <1>4, <1>6, <1>10, <2>2, <2>3 DEF WritesBehind
  <2> QED BY <2>4, RelicsStay
<1> QED BY <1>1, <1>8, <1>9, <1>10

LEMMA MkdirRelics ==
    ASSUME Places, Kept, NEW i \in Dirs, Mkdir(i) \/ MkdirRefused(i) \/ MkdirFails(i)
    PROVE  Remains' /\ Overtaken'
<1>1. CASE MkdirRefused(i) \/ MkdirFails(i)
  <2>1. /\ status = "open" /\ status' = "open" /\ mode' = mode /\ start_dir' = start_dir
        /\ struck \subseteq struck' /\ disk' = disk
    BY <1>1 DEF MkdirRefused, MkdirFails, MkdirAllowed, MayWrite, Strike
  <2> QED BY <2>1, OneCellStays
<1>2. CASE Mkdir(i)
  <2>1. /\ status = "open" /\ status' = "open" /\ mode # "r" /\ mode' = mode
        /\ struck' = struck /\ start_dir' = WritePos + 1
        /\ Room(WritePos, 2) /\ disk' = Put(disk, WritePos, <<LocalHeader(i, 0)>>)
    BY <1>2 DEF Mkdir, MkdirAllowed, MayWrite
  <2>2. PICK w \in Nat : w = WritePos
    BY <2>1, Standing
  <2>3. /\ start_dir \in Nat /\ start_dir <= w /\ Positions /\ Control
        /\ ~seekable => mode = "w"
        /\ seekable => w = start_dir
    BY <2>1, <2>2, Standing DEF Positions
  <2>4. LocalHeader(i, 0) \in Cell /\ LocalHeader(i, 0).kind \notin {"cd", "eocd"}
    <3>1. LocalHeader(i, 0) \in Cell
      BY StrongCells, ArchiveAssumption
    <3> QED BY <3>1 DEF LocalHeader
  <2>5. Behind(w, LocalHeader(i, 0))
    BY <2>1, <2>2, <2>4, SoughtBehind
  <2>6. /\ disk' \in [Addr -> Cell] /\ disk'[w] = LocalHeader(i, 0) /\ w \in Addr
        /\ \A a \in Addr : a # w => disk'[a] = disk[a]
        /\ \A a \in Addr : a < start_dir => disk'[a] = disk[a]
    BY <2>3, <2>5, CellBehind DEF Behind
  <2>7. start_dir \in 0 .. DiskCells /\ start_dir' = w + 1
    BY <2>1, <2>2, <2>3, <2>6, LayoutAssumption DEF Addr
  <2>8. mode = "a" => \A a \in Addr : start_dir <= a /\ a < start_dir' => a = w
    BY <2>3, <2>7 DEF Addr, Control
  <2>9. WritesBehind
    BY <2>1, <2>3, <2>4, <2>6, <2>7, <2>8 DEF WritesBehind
  <2> QED BY <2>9, RelicsStay
<1> QED BY <1>1, <1>2

LEMMA UniqueStep ==
    ASSUME Client = {}, Places, [Next]_vars,
           ~Create, ~OpenExisting, ~AppendAfterGarbage
    PROVE  Unique'
<1>1. /\ Unique /\ UnlistedWriter /\ filelist \in Seq(Infos)
  BY DEF Places, Relics, TypeOK
<1>2. filelist' = filelist \/ \E i \in Infos \ Listed : filelist' = Register(i)
  <2>1. ASSUME NEW i \in Dirs, Mkdir(i) \/ MkdirRefused(i) \/ MkdirFails(i)
        PROVE  filelist' = filelist \/ (i \in Infos \ Listed /\ filelist' = Register(i))
    <3>1. i \notin Listed /\ i \in Infos
      BY <2>1, ArchiveAssumption DEF Mkdir, MkdirRefused, MkdirFails, MkdirAllowed, MayWrite
    <3> QED BY <2>1, <3>1 DEF Mkdir, MkdirRefused, MkdirFails
  <2>2. ASSUME CloseWriter
        PROVE  writer.info \in Infos \ Listed /\ filelist' = Register(writer.info)
    BY <1>1, <2>2 DEF CloseWriter, UnlistedWriter
  <2>3. ASSUME NEW i, \/ OpenWriter(i)
                      \/ \E stage \in Stages : OpenWriterRefused(i, stage)
                      \/ OpenWriterHeaderFails(i)
        PROVE  filelist' = filelist
    BY <2>3 DEF OpenWriter, OpenWriterRefused, OpenWriterHeaderFails
  <2>4. ASSUME NEW n, \/ WriteData \/ WriteLost
                      \/ \E stage \in FinalStages : CloseWriterFails(stage)
                      \/ \E i \in Infos : ReadMember(i)
                      \/ SetComment \/ Close \/ CloseFails(n) \/ Crash \/ Prepend
                      \/ UNCHANGED vars
        PROVE  filelist' = filelist
    BY <2>4 DEF WriteData, WriteLost, CloseWriterFails, ReadMember, SetComment, Close,
                CloseFails, Crash, Prepend, vars
  <2> QED BY <2>1, <2>2, <2>3, <2>4 DEF Next
<1>3. CASE filelist' = filelist
  BY <1>1, <1>3 DEF Unique
<1>4. ASSUME NEW i \in Infos \ Listed, filelist' = Register(i) PROVE Unique'
  <2>1. /\ DOMAIN filelist' = DOMAIN filelist \cup {Len(filelist) + 1}
        /\ \A k \in DOMAIN filelist : filelist'[k] = filelist[k] /\ filelist[k] # i
        /\ filelist'[Len(filelist) + 1] = i
    <3>1. /\ DOMAIN filelist = 1 .. Len(filelist) /\ Len(filelist) \in Nat
          /\ filelist' = Append(filelist, i)
      BY <1>1, <1>4 DEF Register
    <3>2. \A k \in DOMAIN filelist : filelist[k] # i
      BY DEF Listed
    <3> QED BY <1>1, <3>1, <3>2
  <2> QED BY <1>1, <2>1 DEF Unique
<1> QED BY <1>2, <1>3, <1>4

LEMMA RelicsStep ==
    ASSUME Client = {}, Places, Sound', [Next]_vars
    PROVE  Relics'
<1>1. Loose /\ UnlistedWriter /\ disk \in [Addr -> Cell] /\ Remains /\ Overtaken
  BY StrongIsLoose DEF Places, TypeOK, Relics
<1>2. status = "open" /\ status' = "open" => Kept
  BY <1>1, DirectoryStep
<1>3. CASE Create
  <2>1. /\ disk' = [a \in Addr |-> Hole] /\ mode' = "w" /\ filelist' = <<>>
    BY <1>3 DEF Create
  <2>2. \A e \in Addr : disk'[e].kind # "eocd"
    BY <2>1 DEF Hole
  <2> QED BY <2>1, <2>2 DEF Relics, Remains, Overtaken, Unique
<1>4. CASE OpenExisting \/ AppendAfterGarbage
  BY <1>4, OpenExistingKeeps, AppendKeeps
<1>5. ASSUME ~Create, ~OpenExisting, ~AppendAfterGarbage PROVE Relics'
  <2>1. Unique'
    BY <1>5, UniqueStep
  <2>2. ASSUME NEW i \in Infos \ Dirs,
               \/ OpenWriter(i)
               \/ \E stage \in Stages : OpenWriterRefused(i, stage)
               \/ OpenWriterHeaderFails(i)
        PROVE  Remains' /\ Overtaken'
    <3>1. status = "open" /\ status' = "open"
      BY <2>2 DEF OpenWriter, OpenWriterRefused, OpenWriterHeaderFails, MayWrite
    <3> QED BY <1>2, <2>2, <3>1, OpeningRelics
  <2>3. CASE WriteData \/ WriteLost
    <3>1. status = "open" /\ status' = "open"
      BY <2>3 DEF WriteData, WriteLost
    <3> QED BY <1>2, <2>3, <2>1, <3>1, WritingRelics DEF Relics
  <2>4. CASE CloseWriter \/ \E stage \in FinalStages : CloseWriterFails(stage)
    <3>1. status = "open" /\ status' = "open"
      BY <2>4 DEF CloseWriter, CloseWriterFails
    <3> QED BY <1>2, <2>4, <2>1, <3>1, FinishingRelics DEF Relics
  <2>5. ASSUME NEW i \in Dirs, Mkdir(i) \/ MkdirRefused(i) \/ MkdirFails(i)
        PROVE  Remains' /\ Overtaken'
    <3>1. status = "open" /\ status' = "open"
      BY <2>5 DEF Mkdir, MkdirRefused, MkdirFails, MkdirAllowed, MayWrite
    <3> QED BY <1>2, <2>5, <3>1, MkdirRelics
  <2>6. CASE SetComment \/ \E i \in Infos : ReadMember(i)
    <3>1. /\ status = "open" /\ status' = "open" /\ disk' = disk /\ mode' = mode
          /\ start_dir' = start_dir /\ struck' = struck
      BY <2>6 DEF SetComment, ReadMember
    <3> QED BY <1>2, <2>1, <3>1, OneCellStays DEF Relics
  <2>7. CASE Close
    <3>1. status' # "open"
      BY <2>7 DEF Close
    <3> QED BY <2>1, <2>7, <3>1, CloseRemains DEF Overtaken, Relics
  <2>8. ASSUME NEW m \in 0 .. DiskCells, CloseFails(m) PROVE Remains' /\ Overtaken'
    <3>1. status' # "open"
      BY <2>8 DEF CloseFails
    <3> QED BY <2>8, <3>1, CloseFailsRemains DEF Overtaken
  <2>9. CASE Crash
    <3>1. status' # "open" /\ disk' = disk /\ struck' = struck
      BY <2>9 DEF Crash
    <3> QED BY <1>1, <2>1, <3>1, RemainsSame DEF Overtaken, Relics
  <2>10. ~Prepend
    BY DEF Prepend
  <2>11. CASE UNCHANGED vars
    <3>1. Remains'
      BY <1>1, <2>11, RemainsSame DEF vars
    <3>2. \A e \in Addr : From(e)' = From(e) /\ \A k : Rec(e, k)' = Rec(e, k)
      BY <2>11 DEF vars, From, Rec
    <3>3. Overtaken'
      BY <1>1, <2>11, <3>2 DEF vars, Overtaken
    <3> QED BY <2>1, <3>1, <3>3 DEF Relics
  <2>12. Remains' /\ Overtaken' => Relics'
    BY <2>1 DEF Relics
  <2> QED
    BY <1>5, <2>2, <2>3, <2>4, <2>5, <2>6, <2>7, <2>8, <2>9, <2>10, <2>11, <2>12 DEF Next
<1> QED BY <1>3, <1>4, <1>5

-----------------------------------------------------------------------------
(* Theorems                                                                 *)

LEMMA PlacesStep == Client = {} /\ Places /\ [Next]_vars => Places'
<1> SUFFICES ASSUME Client = {}, Places, [Next]_vars PROVE Places'
  OBVIOUS
<1>1. Control /\ UnlistedWriter /\ Loose
  BY PlacesParts, StrongIsLoose DEF Places
<1>2. Control' /\ UnlistedWriter'
  BY <1>1, ControlStep, DirectoryStep
<1>3. ASSUME NEW i \in Infos \ Dirs,
             \/ OpenWriter(i)
             \/ \E stage \in Stages : OpenWriterRefused(i, stage)
             \/ OpenWriterHeaderFails(i)
      PROVE  Sound'
  BY <1>3, OpenWriterKeeps, OpenWriterRefusedKeeps, OpenWriterHeaderFailsKeeps
<1>4. ASSUME NEW i \in Dirs, Mkdir(i) \/ MkdirRefused(i) \/ MkdirFails(i)
      PROVE  Sound'
  BY <1>4, MkdirKeeps, MkdirRefusedKeeps, MkdirFailsKeeps
<1>5. ~Prepend
  BY DEF Prepend
<1>6. ASSUME UNCHANGED vars PROVE Sound'
  <2>1. Sound
    BY PlacesParts
  <2>2. Own' = Own /\ WritePos' = WritePos
    BY <1>6 DEF Own, WritePos, vars
  <2>3. MembersPlaced'
    <3>1. Undisturbed
      BY <1>6, <2>1 DEF vars, Undisturbed, Sound, Positions
    <3> QED BY <1>6, <2>1, <3>1, SameDiskStay DEF vars, Sound
  <2>4. Positions' /\ PlacingOK' /\ Saved'
    BY <1>6, <2>1, <2>2 DEF vars, Sound, Positions, PlacingOK, Saved
  <2>5. WriterOK'
    BY <1>6, <2>1 DEF vars, Sound, WriterOK, NothingCutShort
  <2>6. DirectoriesAreBlank' /\ NoRecordsYet'
    BY <1>6, <2>1 DEF vars, Sound, DirectoriesAreBlank, NoRecordsYet
  <2> QED BY <2>3, <2>4, <2>5, <2>6 DEF Sound
<1>7. Sound'
  <2>1. CASE Create \/ OpenExisting \/ AppendAfterGarbage
    BY <2>1, CreateKeeps, OpenExistingKeeps, AppendKeeps
  <2>2. CASE WriteData \/ WriteLost \/ CloseWriter
    BY <2>2, WriteDataKeeps, WriteLostKeeps, CloseWriterKeeps
  <2>3. CASE \E stage \in FinalStages : CloseWriterFails(stage)
    BY <2>3, CloseWriterFailsKeeps
  <2>4. CASE \E i \in Infos : ReadMember(i)
    BY <2>4, ReadMemberKeeps
  <2>5. CASE SetComment \/ Close \/ Crash
    BY <2>5, SetCommentKeeps, CloseKeeps, CrashKeeps
  <2>6. CASE \E m \in 0 .. DiskCells : CloseFails(m)
    BY <2>6, CloseFailsKeeps
  <2> QED BY <1>3, <1>4, <1>5, <1>6, <2>1, <2>2, <2>3, <2>4, <2>5, <2>6 DEF Next
<1>8. Relics'
  BY <1>7, RelicsStep
<1> QED BY <1>2, <1>7, <1>8 DEF Places, Sound, Positions, TypeOK, Control

(* Types, whatever fails.                                                   *)
THEOREM TypeOKWhateverFails ==
    ASSUME Client = {}
    PROVE  Spec => []TypeOK
<1>1. Init => Places
  BY PlacesInit
<1>2. Places /\ [Next]_vars => Places'
  BY PlacesStep
<1>3. Places => TypeOK
  BY DEF Places
<1> QED BY <1>1, <1>2, <1>3, PTL DEF Spec

LEMMA PlacesMembers == Places => CommittedIntact /\ MembersDisjoint
<1> SUFFICES ASSUME Places, NothingCutShort
             PROVE  /\ \A i \in Listed : Intact(disk, i, zinfo[i])
                    /\ \A k \in DOMAIN filelist :
                          LET z == zinfo[filelist[k]]
                          IN  /\ EndOf(z) <= start_dir
                              /\ \A j \in DOMAIN filelist :
                                    j > k => EndOf(z) <= zinfo[filelist[j]].off
  BY DEF CommittedIntact, MembersDisjoint
<1>1. \A k \in DOMAIN filelist : Placed(k)
  BY DEF Places, MembersPlaced
<1> QED BY <1>1 DEF Placed, Listed

(* Whatever fails in any session, as long as no payload was lost and        *)
(* no directory registered without its header: every member in filelist can *)
(* be found on the disk where its ZipInfo says.                             *)
THEOREM CommittedIntactWhateverFails ==
    ASSUME Client = {}
    PROVE  Spec => []CommittedIntact
<1>1. Init => Places
  BY PlacesInit
<1>2. Places /\ [Next]_vars => Places'
  BY PlacesStep
<1>3. Places => CommittedIntact
  BY PlacesMembers
<1> QED BY <1>1, <1>2, <1>3, PTL DEF Spec

(* Under the same conditions the members occupy disjoint stretches of the   *)
(* file, in directory order and below start_dir.                            *)
THEOREM MembersDisjointWhateverFails ==
    ASSUME Client = {}
    PROVE  Spec => []MembersDisjoint
<1>1. Init => Places
  BY PlacesInit
<1>2. Places /\ [Next]_vars => Places'
  BY PlacesStep
<1>3. Places => MembersDisjoint
  BY PlacesMembers
<1> QED BY <1>1, <1>2, <1>3, PTL DEF Spec

-----------------------------------------------------------------------------
(* The closed archive can be read                                           *)

(* fp of a stream is where the directory goes unless close() is refused.    *)
Legible ==
    /\ status = "open" /\ ~seekable /\ writer = NoWriter /\ pos # start_dir
          => writing \/ "final" \in struck
    /\ ClosedArchiveParses

LEMMA ClosedParses ==
    ASSUME TailCells >= DiskCells, Places, Close, Rewrites, WritePos = start_dir
    PROVE  Parses(disk')
<1> DEFINE n == Len(filelist)
           e == start_dir + n
<1>0. start_dir \in Nat /\ n \in Nat
  BY Standing DEF Close, Rewrites, Positions
<1>1. /\ disk' \in [Addr -> Cell]
      /\ e \in Addr
      /\ \A k \in 1 .. n : disk'[start_dir + k - 1]
                              = CentralRecord(filelist[k], zinfo[filelist[k]])
      /\ disk'[e] = EndRecord(e - start_dir, start_dir)
      /\ \A a \in Addr : a > e => disk'[a].kind # "eocd"
  <2> DEFINE w == WritePos
  <2>1. /\ disk' \in [Addr -> Cell]
        /\ w + n \in Addr
        /\ \A k \in 1 .. n : disk'[w + k - 1]
                                = CentralRecord(filelist[k], zinfo[filelist[k]])
        /\ disk'[w + n] = EndRecord(w + n - start_dir, start_dir)
        /\ \A a \in Addr : a > w + n => disk'[a].kind # "eocd"
    BY DiskAfterClose
  <2>2. w = start_dir
    OBVIOUS
  <2> HIDE DEF w, n
  <2> QED BY <1>0, <2>1, <2>2
<1>3. disk'[e].kind = "eocd" /\ disk'[e].size = n
  BY <1>1, <1>0 DEF EndRecord
<1>4. FileLength(disk') \in 0 .. DiskCells
  BY FileLengthType
<1>5. IsEndRecord(disk', e)
  <2>1. e + 1 + TailCells >= FileLength(disk')
    BY <1>0, <1>4, LayoutAssumption
  <2>2. \A a \in (e + 1) .. (DiskCells - 1) : a \in Addr /\ a > e
    BY <1>0, LayoutAssumption DEF Addr
  <2> QED BY <1>1, <1>3, <2>1, <2>2 DEF IsEndRecord
<1>6. e - n = start_dir /\ e - n >= 0
  BY <1>0
<1>7. ASSUME NEW a \in (e - n) .. (e - 1) PROVE disk'[a].kind = "cd"
  <2>1. a - start_dir + 1 \in 1 .. n /\ start_dir + (a - start_dir + 1) - 1 = a
    <3>1. a \in Int /\ start_dir <= a /\ a <= start_dir + n - 1
      <4> HIDE DEF n
      <4> QED BY <1>0
    <3> HIDE DEF n, e
    <3> QED BY <1>0, <3>1, Index
  <2>2. ASSUME NEW k \in 1 .. n PROVE disk'[start_dir + k - 1].kind = "cd"
    <3>1. disk'[start_dir + k - 1] = CentralRecord(filelist[k], zinfo[filelist[k]])
      BY <1>1
    <3> QED BY <3>1 DEF CentralRecord
  <2> HIDE DEF e
  <2> QED BY <2>1, <2>2
<1>8. e \in DOMAIN disk'
  BY <1>1
<1> HIDE DEF e
<1> QED BY <1>3, <1>5, <1>6, <1>7, <1>8 DEF Parses

LEMMA LegibleStep ==
    ASSUME Client = {}, TailCells >= DiskCells, Places, Legible, [Next]_vars
    PROVE  Legible'
<1>1. CASE Create \/ OpenExisting \/ AppendAfterGarbage
  <2>1. /\ didModify' = TRUE \/ (Parses(disk) /\ disk' = disk)
        /\ mode' = "r" => Parses(disk) /\ disk' = disk
        /\ ~seekable' => pos' = start_dir'
    BY <1>1 DEF Create, OpenExisting, AppendAfterGarbage, NewZipFile
  <2>2. status' = "open"
    BY <1>1 DEF Create, OpenExisting, AppendAfterGarbage, NewZipFile
  <2> QED BY <2>1, <2>2 DEF Legible, ClosedArchiveParses
<1>2. ASSUME NEW i \in Infos \ Dirs, OpenWriter(i) PROVE Legible'
  <2>1. [info |-> i, serial |-> opened + 1, size |-> 0] \in Handle
    BY DEF Places, TypeOK, Handle
  <2>2. writer' # NoWriter /\ status' = "open" /\ mode' # "r" /\ didModify' = TRUE
    BY <1>2, <2>1, ArchiveAssumption DEF OpenWriter, MayWrite
  <2> QED BY <2>2 DEF Legible, ClosedArchiveParses
<1>3. ASSUME NEW i \in Infos \ Dirs, NEW stage \in Stages, OpenWriterRefused(i, stage)
      PROVE  Legible'
  <2>1. /\ status = "open" /\ status' = "open" /\ disk' = disk /\ mode' = mode
        /\ didModify \in BOOLEAN /\ (didModify => didModify')
        /\ start_dir' = start_dir /\ writing' = writing /\ writer' = writer
        /\ seekable' = seekable /\ struck \subseteq struck'
        /\ pos' = pos \/ pos' = WritePos
    BY <1>3 DEF OpenWriterRefused, MayWrite, Strike, Places, TypeOK
  <2>2. ~seekable => WritePos = pos
    BY DEF WritePos
  <2> QED BY <2>1, <2>2 DEF Legible, ClosedArchiveParses
<1>4. ASSUME NEW i \in Infos \ Dirs, OpenWriterHeaderFails(i) PROVE Legible'
  <2>1. writing' = TRUE /\ status' = "open" /\ mode' # "r" /\ didModify' = TRUE
    BY <1>4 DEF OpenWriterHeaderFails, MayWrite
  <2> QED BY <2>1 DEF Legible, ClosedArchiveParses
<1>5. CASE WriteData \/ WriteLost
  <2>1. /\ status = "open" /\ status' = "open" /\ mode' = mode /\ didModify' = didModify
        /\ writer # NoWriter /\ writer' = [writer EXCEPT !.size = @ + 1]
    BY <1>5 DEF WriteData, WriteLost
  <2>2. mode # "r" /\ didModify /\ writer \in Handle
    BY <2>1, Holding
  <2>3. writer' \in Handle
    BY <2>1, <2>2 DEF Handle
  <2> QED BY <2>1, <2>2, <2>3, ArchiveAssumption DEF Legible, ClosedArchiveParses
<1>6. CASE CloseWriter
  <2>1. /\ status = "open" /\ status' = "open" /\ mode' = mode /\ didModify' = didModify
        /\ writer # NoWriter /\ start_dir' = pos'
    BY <1>6 DEF CloseWriter
  <2>2. mode # "r" /\ didModify
    BY <2>1, Holding
  <2> QED BY <2>1, <2>2 DEF Legible, ClosedArchiveParses
<1>7. ASSUME NEW stage \in FinalStages, CloseWriterFails(stage) PROVE Legible'
  <2>1. /\ status = "open" /\ status' = "open" /\ mode' = mode /\ didModify' = didModify
        /\ writer # NoWriter /\ "final" \in struck'
    BY <1>7 DEF CloseWriterFails, Strike
  <2>2. mode # "r" /\ didModify
    BY <2>1, Holding
  <2> QED BY <2>1, <2>2 DEF Legible, ClosedArchiveParses
<1>8. ASSUME NEW i \in Dirs, Mkdir(i) PROVE Legible'
  <2>1. status' = "open" /\ mode' # "r" /\ didModify' = TRUE /\ pos' = start_dir'
    BY <1>8 DEF Mkdir, MkdirAllowed, MayWrite
  <2> QED BY <2>1 DEF Legible, ClosedArchiveParses
<1>9. ASSUME NEW i \in Dirs, MkdirRefused(i) \/ MkdirFails(i) PROVE Legible'
  <2>1. /\ status = "open" /\ status' = "open" /\ disk' = disk /\ mode' = mode
        /\ didModify' = didModify \/ (didModify' = TRUE /\ mode # "r")
        /\ start_dir' = start_dir /\ writing' = writing /\ writer' = writer
        /\ seekable' = seekable /\ struck \subseteq struck'
        /\ pos' = WritePos
    BY <1>9 DEF MkdirRefused, MkdirFails, MkdirAllowed, MayWrite, Strike
  <2>2. ~seekable => WritePos = pos
    BY DEF WritePos
  <2> QED BY <2>1, <2>2 DEF Legible, ClosedArchiveParses
<1>10. ASSUME NEW i \in Infos, ReadMember(i) PROVE Legible'
  <2>1. /\ status = "open" /\ status' = "open" /\ disk' = disk /\ mode' = mode
        /\ didModify' = didModify /\ seekable /\ seekable' = seekable
    BY <1>10 DEF ReadMember
  <2> QED BY <2>1 DEF Legible, ClosedArchiveParses
<1>11. CASE SetComment
  <2>1. /\ status = "open" /\ status' = "open" /\ disk' = disk /\ mode' = mode
        /\ ~didModify /\ seekable' = seekable /\ pos' = pos /\ start_dir' = start_dir
        /\ writing' = writing /\ writer' = writer /\ struck' = struck
    BY <1>11 DEF SetComment
  <2> QED BY <2>1 DEF Legible, ClosedArchiveParses
<1>12. CASE Close
  <2>1. /\ status = "open" /\ status' = "closed" /\ ~writing
        /\ start_dir' = start_dir /\ filelist' = filelist /\ zinfo' = zinfo
        /\ seekable' = seekable /\ struck' = struck
        /\ ~Rewrites => disk' = disk
    BY <1>12 DEF Close
  <2>2. Own' = Own
    BY <2>1 DEF Own
  <2>3. writer = NoWriter
    BY <2>1 DEF Places, WriterOK
  <2>4. ASSUME seekable \/ "final" \notin struck
        PROVE  Parses(disk') /\ Directory(disk') = Own
    <3>1. CASE Rewrites
      <4>1. WritePos = start_dir
        BY <2>1, <2>3, <2>4 DEF Legible, WritePos
      <4>2. Parses(disk')
        BY <1>12, <3>1, <4>1, ClosedParses
      <4> QED BY <1>12, <3>1, <4>2, ClosedIsSaved
    <3>2. CASE ~Rewrites
      <4>1. mode = "r" \/ ~didModify
        BY <3>2 DEF Rewrites
      <4>2. Parses(disk)
        BY <2>1, <4>1 DEF Places, Saved
      <4>3. Directory(disk) = Own
        BY <2>1, <4>1, <4>2 DEF Places, Saved
      <4> QED BY <2>1, <3>2, <4>2, <4>3
    <3> QED BY <3>1, <3>2
  <2> QED BY <2>1, <2>2, <2>4 DEF Legible, ClosedArchiveParses, Own
<1>13. ASSUME NEW n, Crash \/ Prepend \/ CloseFails(n) PROVE Legible'
  <2>1. status' = "stale"
    BY <1>13 DEF Crash, Prepend, CloseFails
  <2> QED BY <2>1 DEF Legible, ClosedArchiveParses
<1>14. CASE UNCHANGED vars
  BY <1>14 DEF vars, Legible, ClosedArchiveParses
<1> QED
  BY <1>1, <1>2, <1>3, <1>4, <1>5, <1>6, <1>7, <1>8, <1>9, <1>10, <1>11, <1>12, <1>13,
     <1>14 DEF Next

(* Where the search for the end record reaches over the whole file: after a *)
(* close() that returned, whatever failed before, the file parses and its   *)
(* directory lists exactly the members of the archive.                      *)
THEOREM ClosedArchiveParsesWhateverFails ==
    ASSUME Client = {}, TailCells >= DiskCells
    PROVE  Spec => []ClosedArchiveParses
<1>1. Init => Places /\ Legible
  BY PlacesInit DEF Init, Legible, ClosedArchiveParses
<1>2. Places /\ Legible /\ [Next]_vars => (Places /\ Legible)'
  BY PlacesStep, LegibleStep
<1>3. Legible => ClosedArchiveParses
  BY DEF Legible
<1> QED BY <1>1, <1>2, <1>3, PTL DEF Spec

LEMMA LeastIn ==
    ASSUME NEW S, S \subseteq Nat, S # {}
    PROVE  MinOf(S) \in S
<1>1. PICK x \in S : \A y \in S : x <= y
  BY HasLeast
<1> QED BY <1>1 DEF MinOf

LEMMA PlacesOpens == Places => NoPhantomMembers
<1> SUFFICES ASSUME Places, NothingCutShort, Parses(disk),
                    NEW k \in DOMAIN Directory(disk)
             PROVE  Opens(disk, Directory(disk), DirectoryStart(disk), k)
  BY DEF NoPhantomMembers
<1>0. TypeOK /\ Remains
  BY DEF Places, Relics
<1> DEFINE dir == Directory(disk)
           start == DirectoryStart(disk)
<1>1. PICK n \in Nat :
              /\ DOMAIN dir = 1 .. n
              /\ \A j \in 1 .. n :
                    /\ dir[j].meta \in Meta
                    /\ Intact(disk, dir[j].name, dir[j].meta)
                    /\ EndOf(dir[j].meta) <= start
                    /\ \A m \in 1 .. (j - 1) : EndOf(dir[m].meta) <= dir[j].meta.off
  BY <1>0, EntriesSound
<1>2. start \in Nat
  <2>1. HasDirectory(disk)
    BY <1>0, StrongIsLoose, WholeDirectory DEF Loose, LooseFile
  <2> QED BY <1>0, <2>1, DirectoryRead
<1> HIDE DEF dir, start
<1>3. k \in 1 .. n
  BY <1>1 DEF dir
<1> DEFINE z == dir[k].meta
           later == {m \in DOMAIN dir :
                        \/ dir[m].meta.off > dir[k].meta.off
                        \/ dir[m].meta.off = dir[k].meta.off /\ m > k}
           S == {start} \cup {dir[j].meta.off : j \in later}
<1>4. z \in Meta /\ EndOf(z) <= start /\ Intact(disk, dir[k].name, z)
  BY <1>1, <1>3
<1>5. EndOf(z) >= z.off + 1 + z.size /\ EndOf(z) \in Nat
  BY <1>4 DEF Meta, EndOf
<1>6. ASSUME NEW m \in later PROVE dir[m].meta.off \in Nat /\ EndOf(z) <= dir[m].meta.off
  <2> DEFINE y == dir[m].meta
  <2>1. m \in 1 .. n /\ y \in Meta /\ m \in Int /\ k \in Int
    BY <1>1, <1>3
  <2>2. y.off > z.off \/ (y.off = z.off /\ m > k)
    OBVIOUS
  <2>3. y.off \in Nat /\ y.size \in Nat /\ y.dd \in BOOLEAN /\ z.off \in Nat
    BY <1>4, <2>1 DEF Meta
  <2>4. m # k
    <3>1. SUFFICES ASSUME m = k PROVE FALSE
      OBVIOUS
    <3>2. y.off = z.off
      BY <3>1
    <3> HIDE DEF y, z
    <3> QED BY <2>1, <2>2, <2>3, <3>1, <3>2
  <2>5. ~ m < k
    <3>1. SUFFICES ASSUME m < k PROVE FALSE
      OBVIOUS
    <3>2. EndOf(y) <= z.off
      <4>1. m \in 1 .. (k - 1)
        BY <1>3, <2>1, <3>1
      <4> QED BY <1>1, <1>3, <4>1
    <3>3. EndOf(y) > y.off /\ EndOf(y) \in Nat
      BY <2>3 DEF EndOf
    <3> HIDE DEF y, z
    <3> QED BY <2>2, <2>3, <3>1, <3>2, <3>3, <2>1
  <2>6. EndOf(z) <= y.off
    <3>1. k \in 1 .. (m - 1)
      BY <1>3, <2>1, <2>4, <2>5
    <3> QED BY <1>1, <2>1, <3>1
  <2> QED BY <2>3, <2>6
<1>7. S \subseteq Nat /\ S # {} /\ \A x \in S : EndOf(z) <= x
  <2> HIDE DEF z, later
  <2> QED BY <1>2, <1>4, <1>6
<1>8. EndOffset(dir, start, k) \in S
  <2>1. EndOffset(dir, start, k) = MinOf(S)
    BY DEF EndOffset
  <2> HIDE DEF S
  <2> QED BY <1>7, <2>1, LeastIn
<1>9. z.off + 1 + z.size <= EndOffset(dir, start, k)
  <2>1. EndOf(z) <= EndOffset(dir, start, k) /\ EndOffset(dir, start, k) \in Nat
    <3> HIDE DEF S, z
    <3> QED BY <1>7, <1>8
  <2>2. z.off + 1 + z.size \in Nat
    BY <1>4 DEF Meta
  <2> HIDE DEF z
  <2> QED BY <1>5, <2>1, <2>2
<1>10. Opens(disk, dir, start, k)
  BY <1>4, <1>9 DEF Opens
<1> QED BY <1>10 DEF dir, start

(* Whatever fails, be it that the process dies or that close() is cut short *)
(* anywhere, and through any number of sessions: of a file that parses,     *)
(* every member can be read.  It is where the directory says, and does not  *)
(* run into the one behind it.  What the archive code lets stand of older   *)
(* directories is never found again over newer bytes.                       *)
THEOREM NoPhantomMembersWhateverFails ==
    ASSUME Client = {}
    PROVE  Spec => []NoPhantomMembers
<1>1. Init => Places
  BY PlacesInit
<1>2. Places /\ [Next]_vars => Places'
  BY PlacesStep
<1>3. Places => NoPhantomMembers
  BY PlacesOpens
<1> QED BY <1>1, <1>2, <1>3, PTL DEF Spec

-----------------------------------------------------------------------------
(* The archive implements an append-only list of members                    *)

Uninterrupted == Faults \cap {"short", "mkdir", "end", "crash"} = {}

(* The checksums are those of handles that were opened.                     *)
Counted ==
    /\ struck \subseteq Faults
    /\ opened <= MaxHandles
    /\ writer # NoWriter => writer.serial <= MaxHandles

Contents == [k \in DOMAIN filelist |->
                [name |-> filelist[k], payload |-> zinfo[filelist[k]].crc]]

(* What a reader finds is what the ZipInfos say.                            *)
View ==
    /\ status = "open" => Phase = "open" /\ Members = Contents
    /\ status = "closed" /\ Parses(disk) => Phase = "sealed" /\ Members = Contents
    /\ status = "closed" /\ ~Parses(disk) => Phase = "lost" /\ Members = <<>>

LEMMA FetchIs ==
    ASSUME NEW i \in Infos, NEW z \in Meta
    PROVE  Fetch[[name |-> i, meta |-> z]]
              = [name |-> i, payload |-> IF Intact(disk, i, z) THEN z.crc ELSE -1]
<1> DEFINE x == [name |-> i, meta |-> z]
<1>1. x \in [name : Infos, meta : Meta] /\ x.name = i /\ x.meta = z
  OBVIOUS
<1> HIDE DEF x
<1>2. Fetch[x] = [name |-> x.name,
                  payload |-> IF Intact(disk, x.name, x.meta) THEN x.meta.crc ELSE -1]
  BY <1>1 DEF Fetch
<1> QED BY <1>1, <1>2 DEF x

LEMMA PlacesView == Places /\ Counted /\ Uninterrupted => View
<1> SUFFICES ASSUME Places, Counted, Uninterrupted PROVE View
  OBVIOUS
<1>1. NothingCutShort
  BY DEF Counted, Uninterrupted, NothingCutShort
<1>2. \A k \in DOMAIN filelist : Intact(disk, filelist[k], zinfo[filelist[k]])
  BY <1>1 DEF Places, MembersPlaced, Placed
<1>3. \A k \in DOMAIN filelist :
         Fetch[[name |-> filelist[k], meta |-> zinfo[filelist[k]]]]
            = [name |-> filelist[k], payload |-> zinfo[filelist[k]].crc]
  <2>1. filelist \in Seq(Infos) /\ zinfo \in [Infos -> Meta]
    BY DEF Places, TypeOK
  <2>2. \A k \in DOMAIN filelist : filelist[k] \in Infos /\ zinfo[filelist[k]] \in Meta
    BY <2>1
  <2> QED BY <1>2, <2>2, FetchIs
<1>4. status = "open" => Members = Contents
  BY <1>3 DEF Members, Contents
<1>5. ASSUME status = "closed", Parses(disk) PROVE Members = Contents
  <2>1. Directory(disk) = Own
    BY <1>5 DEF Places, Saved
  <2>2. Members = [k \in DOMAIN Own |-> Fetch[Own[k]]]
    BY <1>5, <2>1 DEF Members
  <2>3. DOMAIN Own = DOMAIN filelist
        /\ \A k \in DOMAIN filelist :
              Own[k] = [name |-> filelist[k], meta |-> zinfo[filelist[k]]]
    BY DEF Own
  <2> QED BY <1>3, <2>2, <2>3 DEF Contents
<1>6. ASSUME status = "closed", ~Parses(disk) PROVE Members = <<>>
  <2>1. Directory(disk) = <<>>
    BY <1>6 DEF Places, Saved
  <2>2. Members = [k \in DOMAIN <<>> |-> Fetch[<<>>[k]]]
    BY <1>6, <2>1 DEF Members
  <2>3. DOMAIN <<>> = {}
    OBVIOUS
  <2> QED BY <2>2, <2>3
<1> QED BY <1>4, <1>5, <1>6 DEF View, Phase

LEMMA CountedStep == Places /\ Counted /\ [Next]_vars => Counted'
<1> SUFFICES ASSUME Places, Counted, [Next]_vars PROVE Counted'
  OBVIOUS
<1>0. opened \in Nat /\ writer \in Handle \cup {NoWriter} /\ MaxHandles \in Nat
  BY ArchiveAssumption DEF Places, TypeOK
<1>1. CASE Create \/ OpenExisting \/ AppendAfterGarbage
  <2>1. NewZipFile
    BY <1>1 DEF Create, OpenExisting, AppendAfterGarbage
  <2> QED BY <2>1 DEF NewZipFile, Counted
<1>2. ASSUME NEW i \in Infos, OpenWriter(i) PROVE Counted'
  BY <1>0, <1>2 DEF OpenWriter, Counted
<1>3. ASSUME NEW i \in Infos,
             \/ \E stage \in Stages : OpenWriterRefused(i, stage)
             \/ Mkdir(i) \/ MkdirRefused(i) \/ MkdirFails(i) \/ ReadMember(i)
      PROVE  Counted'
  BY <1>3 DEF OpenWriterRefused, Mkdir, MkdirRefused, MkdirFails, ReadMember, Strike,
              Counted
<1>4. ASSUME NEW i \in Infos, OpenWriterHeaderFails(i) PROVE Counted'
  BY <1>0, <1>4 DEF OpenWriterHeaderFails, Strike, Counted
<1>5. CASE WriteData \/ WriteLost
  <2>1. /\ writer # NoWriter /\ writer' = [writer EXCEPT !.size = @ + 1]
        /\ opened' = opened /\ struck' \subseteq Faults
    BY <1>5 DEF WriteData, WriteLost, Strike, Counted
  <2>2. writer'.serial = writer.serial
    BY <1>0, <2>1 DEF Handle
  <2> QED BY <2>1, <2>2 DEF Counted
<1>6. ASSUME NEW stage, CloseWriter \/ CloseWriterFails(stage) PROVE Counted'
  BY <1>6 DEF CloseWriter, Commit, CloseWriterFails, Strike, Counted
<1>7. ASSUME NEW n,
             SetComment \/ Close \/ CloseFails(n) \/ Crash \/ Prepend \/ UNCHANGED vars
      PROVE  Counted'
  BY <1>7 DEF SetComment, Close, CloseFails, Crash, Prepend, vars, Counted
<1> QED
  BY <1>1, <1>2, <1>3, <1>4, <1>5, <1>6, <1>7, ArchiveAssumption DEF Next

LEMMA SameContents ==
    ASSUME filelist' = filelist,
           \A k \in DOMAIN filelist : zinfo'[filelist[k]] = zinfo[filelist[k]]
    PROVE  Contents' = Contents
BY DEF Contents

(* A member that joins is the last one of the list.                         *)
LEMMA ContentsGrow ==
    ASSUME Places, View, View', status = "open", status' = "open",
           NEW i \in Infos, i \notin Listed, filelist' = Register(i), Kept,
           zinfo'[i].crc \in -1 .. MaxHandles
    PROVE  Promise!Add
<1> DEFINE n == Len(filelist)
<1>1. /\ filelist \in Seq(Infos) /\ n \in Nat /\ DOMAIN filelist = 1 .. n
      /\ \A k \in 1 .. n : filelist[k] \in Infos
  BY DEF Places, TypeOK
<1>2. /\ DOMAIN filelist' = 1 .. (n + 1) /\ filelist'[n + 1] = i
      /\ \A k \in 1 .. n : filelist'[k] = filelist[k]
  BY <1>1 DEF Register
<1>3. /\ Phase = "open" /\ Phase' = "open"
      /\ Members = Contents /\ Members' = Contents'
  BY DEF View
<1>4. Contents = [k \in 1 .. n |-> [name |-> filelist[k], payload |-> zinfo[filelist[k]].crc]]
  BY <1>1 DEF Contents
<1>5. Contents' = [k \in 1 .. (n + 1) |->
                     [name |-> filelist'[k], payload |-> zinfo'[filelist'[k]].crc]]
  BY <1>2 DEF Contents
<1> HIDE DEF n
<1>6. Len(Contents') = n + 1
  BY <1>1, <1>5
<1>7. Contents'[n + 1] \in [name : Infos, payload : -1 .. MaxHandles]
  <2>1. Contents'[n + 1] = [name |-> i, payload |-> zinfo'[i].crc]
    BY <1>1, <1>2, <1>5
  <2> QED BY <2>1
<1>8. SubSeq(Contents', 1, n) = Contents
  <2>1. ASSUME NEW k \in 1 .. n PROVE Contents'[k] = Contents[k]
    <3>1. filelist'[k] = filelist[k] /\ zinfo'[filelist[k]] = zinfo[filelist[k]]
      BY <1>1, <1>2 DEF Kept
    <3>2. Contents[k] = [name |-> filelist[k], payload |-> zinfo[filelist[k]].crc]
      BY <1>4
    <3>3. Contents'[k] = [name |-> filelist'[k], payload |-> zinfo'[filelist'[k]].crc]
      <4>1. k \in 1 .. (n + 1)
        BY <1>1
      <4> QED BY <1>5, <4>1
    <3> QED BY <3>1, <3>2, <3>3
  <2>2. SubSeq(Contents', 1, n) = [k \in 1 .. n |-> Contents'[k]]
    BY <1>1, <1>5, <1>6
  <2> QED BY <1>4, <2>1, <2>2
<1> QED BY <1>1, <1>3, <1>6, <1>7, <1>8 DEF Promise!Add

(* What opening an archive, or a call that adds no member, does to it.      *)
LEMMA OpeningSteps ==
    ASSUME Places, Create \/ OpenExisting \/ AppendAfterGarbage
    PROVE  Promise!Create \/ Promise!Reopen \/ Promise!Salvage
<1>0. status # "open" /\ status' = "open"
  BY DEF Create, OpenExisting, AppendAfterGarbage, NewZipFile
<1>1. Phase # "open" /\ Phase' = "open"
  BY <1>0 DEF Phase
<1>2. CASE Create
  <2>1. filelist' = <<>>
    BY <1>2 DEF Create
  <2>2. Members' = [k \in DOMAIN <<>> |-> Fetch[[name |-> filelist[k], meta |-> zinfo[filelist[k]]]]']
    BY <1>0, <2>1 DEF Members
  <2>3. DOMAIN <<>> = {}
    OBVIOUS
  <2>4. Members' = <<>>
    BY <2>2, <2>3
  <2> QED BY <1>1, <2>4 DEF Promise!Create
<1>3. CASE OpenExisting \/ AppendAfterGarbage
  <2>1. RealGetContents /\ disk' = disk /\ struck' = struck
    BY <1>3 DEF OpenExisting, AppendAfterGarbage, NewZipFile
  <2>2. DOMAIN filelist' = DOMAIN Directory(disk)
        /\ \A k \in DOMAIN filelist' :
              Directory(disk)[k]
                 = [name |-> filelist'[k], meta |-> zinfo'[filelist'[k]]]
    <3>1. Own' = Directory(disk)
      BY <1>3, OpenExistingKeeps, AppendKeeps
    <3>2. Own' = [k \in DOMAIN filelist' |->
                    [name |-> filelist'[k], meta |-> zinfo'[filelist'[k]]]]
      BY DEF Own
    <3> QED BY <3>1, <3>2
  <2>3. Members' = [k \in DOMAIN filelist' |-> Fetch[[name |-> filelist[k], meta |-> zinfo[filelist[k]]]]']
    BY <1>0 DEF Members
  <2>4. Members = [k \in DOMAIN Directory(disk) |->
                     Fetch[Directory(disk)[k]]]
    BY <1>0 DEF Members
  <2>5. \A k \in DOMAIN filelist' :
           Fetch[[name |-> filelist[k], meta |-> zinfo[filelist[k]]]]'
              = Fetch[Directory(disk)[k]]
    <3>1. Fetch' = Fetch
      BY <2>1 DEF Fetch
    <3> QED BY <2>2, <3>1
  <2>6. Members' = Members
    BY <2>2, <2>3, <2>4, <2>5
  <2> QED BY <1>0, <1>1, <2>6 DEF Phase, Promise!Reopen, Promise!Salvage
<1> QED BY <1>2, <1>3

(* The list stays, in an archive that stays open.                           *)
LEMMA ListStays ==
    ASSUME View, View', status = "open", status' = "open", filelist' = filelist, Kept
    PROVE  UNCHANGED Promise!vars
<1>1. Contents' = Contents
  BY SameContents DEF Kept
<1> QED BY <1>1 DEF View, Promise!vars

LEMMA ClosingSteps ==
    ASSUME View, View', Close
    PROVE  Promise!Seal \/ Promise!Abandon
<1>1. /\ status = "open" /\ status' = "closed"
      /\ filelist' = filelist /\ zinfo' = zinfo
  BY DEF Close
<1>2. Contents' = Contents
  BY <1>1, SameContents
<1>3. Phase = "open" /\ Members = Contents
  BY <1>1 DEF View
<1>4. CASE Parses(disk')
  BY <1>1, <1>2, <1>3, <1>4 DEF View, Promise!Seal
<1>5. CASE ~Parses(disk')
  BY <1>1, <1>3, <1>5 DEF View, Promise!Abandon
<1> QED BY <1>4, <1>5

LEMMA PromiseStep ==
    ASSUME Places, View, View', Counted, Client = {}, Uninterrupted, [Next]_vars
    PROVE  [Promise!Next]_(Promise!vars)
<1> DEFINE Step == Promise!Next \/ UNCHANGED Promise!vars
<1>1. CASE Create \/ OpenExisting \/ AppendAfterGarbage
  BY <1>1, OpeningSteps DEF Promise!Next
<1>2. CASE Close
  BY <1>2, ClosingSteps DEF Promise!Next
<1>3. status = "open" /\ status' = "open" => Kept
  <2>1. Loose /\ UnlistedWriter
    BY StrongIsLoose DEF Places
  <2> QED BY <2>1, DirectoryStep
<1>4. CASE CloseWriter
  <2>1. /\ status = "open" /\ status' = "open" /\ writer # NoWriter
        /\ filelist' = Register(writer.info)
        /\ zinfo' = [zinfo EXCEPT ![writer.info] = FinalMeta]
    BY <1>4 DEF CloseWriter
  <2>2. /\ writer.info \in Infos /\ writer.info \notin Listed
        /\ writer.serial \in Nat /\ writer.serial <= MaxHandles
    BY <2>1, Holding DEF Counted
  <2>3. zinfo \in [Infos -> Meta]
    BY DEF Places, TypeOK
  <2>4. zinfo'[writer.info].crc = writer.serial
    BY <2>1, <2>2, <2>3 DEF FinalMeta, Meta
  <2>5. zinfo'[writer.info].crc \in -1 .. MaxHandles
    BY <2>2, <2>4, ArchiveAssumption
  <2> QED BY <1>3, <2>1, <2>2, <2>5, ContentsGrow DEF Promise!Next
<1>5. ASSUME NEW i \in Dirs, Mkdir(i) PROVE Step
  <2>1. /\ status = "open" /\ status' = "open" /\ i \notin Listed
        /\ filelist' = Register(i)
        /\ zinfo' = [zinfo EXCEPT ![i].off = WritePos]
    BY <1>5 DEF Mkdir, MkdirAllowed, MayWrite
  <2>2. i \in Infos /\ zinfo \in [Infos -> Meta] /\ zinfo[i].crc = 0
    BY ArchiveAssumption DEF Places, TypeOK, DirectoriesAreBlank
  <2>3. zinfo'[i].crc \in -1 .. MaxHandles
    <3>1. zinfo'[i].crc = 0
      BY <2>1, <2>2 DEF Meta
    <3> QED BY <3>1, ArchiveAssumption
  <2> QED BY <1>3, <2>1, <2>2, <2>3, ContentsGrow DEF Promise!Next
<1>6. ASSUME NEW i \in Dirs, MkdirFails(i) PROVE FALSE
  BY <1>6 DEF MkdirFails, Strike, Uninterrupted
<1>7. ASSUME NEW i, NEW stage,
             \/ OpenWriter(i) \/ OpenWriterRefused(i, stage)
             \/ OpenWriterHeaderFails(i) \/ MkdirRefused(i) \/ ReadMember(i)
      PROVE  Step
  <2>1. status = "open" /\ status' = "open" /\ filelist' = filelist
    BY <1>7 DEF OpenWriter, OpenWriterRefused, OpenWriterHeaderFails, MkdirRefused,
                MkdirAllowed, MayWrite, ReadMember
  <2> QED BY <1>3, <2>1, ListStays
<1>8. ASSUME NEW stage,
             WriteData \/ WriteLost \/ CloseWriterFails(stage) \/ SetComment
      PROVE  Step
  <2>1. status = "open" /\ status' = "open" /\ filelist' = filelist
    BY <1>8 DEF WriteData, WriteLost, CloseWriterFails, SetComment
  <2> QED BY <1>3, <2>1, ListStays
<1>9. ~Crash /\ ~Prepend /\ \A n : ~CloseFails(n)
  BY DEF Crash, Prepend, CloseFails, Uninterrupted
<1>10. CASE UNCHANGED vars
  <2>1. Phase' = Phase /\ Members' = Members
    BY <1>10 DEF vars, Phase, Members, Fetch
  <2> QED BY <2>1 DEF Promise!vars
<1>11. Step
  <2> HIDE DEF Step
  <2>1. CASE Create \/ OpenExisting \/ AppendAfterGarbage \/ Close \/ CloseWriter
    BY <1>1, <1>2, <1>4, <2>1 DEF Step
  <2>2. CASE UNCHANGED vars
    BY <1>10, <2>2 DEF Step
  <2> QED BY <1>5, <1>6, <1>7, <1>8, <1>9, <2>1, <2>2 DEF Next
<1> QED BY <1>11

(* In sessions that end with a close(), of which none loses payload: to a   *)
(* reader the archive is a list of members that only grows, that is found   *)
(* again as it was closed, and that opening a handle, failing to open or to *)
(* close one, and reading leave alone.                                      *)
THEOREM ImplementsContentsUninterrupted ==
    ASSUME Client = {}, Uninterrupted
    PROVE  Spec => ImplementsContents
<1> DEFINE Inv == Places /\ Counted
<1>1. Init => Inv
  BY PlacesInit, ArchiveAssumption DEF Init, Counted
<1>2. Inv /\ [Next]_vars => Inv'
  BY PlacesStep, CountedStep
<1>3. Inv => View
  BY PlacesView
<1>4. Init => Promise!Init
  <2>1. SUFFICES ASSUME Init PROVE Promise!Init
    OBVIOUS
  <2>2. \A e \in DOMAIN disk : ~IsEndRecord(disk, e)
    BY <2>1 DEF Init, IsEndRecord, Hole
  <2>3. status # "open" /\ ~Parses(disk) /\ ~HasDirectory(disk)
    BY <2>1, <2>2 DEF Init, Parses, HasDirectory
  <2>4. Directory(disk) = <<>>
    BY <2>3 DEF Directory
  <2>5. Members = [k \in DOMAIN <<>> |-> Fetch[<<>>[k]]]
    BY <2>3, <2>4 DEF Members
  <2>6. DOMAIN <<>> = {}
    OBVIOUS
  <2>7. Members = <<>>
    BY <2>5, <2>6
  <2> QED BY <2>3, <2>7 DEF Phase, Promise!Init
<1>5. Inv /\ View /\ View' /\ [Next]_vars => [Promise!Next]_(Promise!vars)
  BY PromiseStep
<1> QED BY <1>1, <1>2, <1>3, <1>4, <1>5, PTL DEF Spec, ImplementsContents, Promise!Spec
=============================================================================
