---------------------------- MODULE RoundTripProofs ----------------------------
(***************************************************************************)
(* Proofs about RoundTrip, for any limits of the records, any bodies and   *)
(* hints, and any numbers of members and sessions: the records of an       *)
(* archive speak true, what was written comes back, and nothing else is    *)
(* taken for it.                                                           *)
(***************************************************************************)
EXTENDS RoundTrip, FoldTheorems

-----------------------------------------------------------------------------
(* The types                                                                *)

WideField == [id : {"zip64"}, values : Seq(Nat)]
AesFields == [id : {"aes"}, version : {1, 2}, ctype : {Method}]
Field == WideField \cup AesFields

Info == [enc : BOOLEAN, dd : BOOLEAN, ctype : {Method}, crc : Nat,
         csize : Nat, fsize : Nat, off : Nat, extra : Seq(Field),
         vendor : BOOLEAN, version : {0, 1, 2}, raw : BOOLEAN, bad : {FALSE}]

(* What an AES ZipInfo is and what not: only it has a version, and it has   *)
(* an AES field as soon as it has been read.                                *)
VendorOK(z) ==
    /\ z.version # 0 => z.vendor
    /\ ~z.vendor => \A k \in DOMAIN z.extra : z.extra[k].id = "zip64"

-----------------------------------------------------------------------------
(* Sequences                                                                *)

LEMMA Joined ==
    ASSUME NEW S, NEW a \in Seq(S), NEW b \in Seq(S)
    PROVE  /\ a \o b \in Seq(S) /\ Len(a \o b) = Len(a) + Len(b)
           /\ \A k \in 1 .. Len(a) : (a \o b)[k] = a[k]
           /\ \A k \in 1 .. Len(b) : (a \o b)[Len(a) + k] = b[k]
OBVIOUS

LEMMA SameSeq ==
    ASSUME NEW S, NEW a \in Seq(S), NEW b \in Seq(S), Len(a) = Len(b),
           \A k \in 1 .. Len(a) : a[k] = b[k]
    PROVE  a = b
OBVIOUS

LEMMA OfNothing == ASSUME NEW s \in Seq({}) PROVE s = <<>>
<1>1. Len(s) = 0
  <2>1. ASSUME Len(s) >= 1 PROVE FALSE
    BY <2>1, s[1] \in {}
  <2> QED BY <2>1
<1> QED BY <1>1

(* Put writes s over d at position p, and may make it longer.               *)
LEMMA PutAt ==
    ASSUME NEW S, NEW d \in Seq(S), NEW s \in Seq(S), NEW p \in 0 .. Len(d)
    PROVE  /\ Put(d, p, s) \in Seq(S)
           /\ Len(Put(d, p, s)) = IF p + Len(s) <= Len(d) THEN Len(d)
                                  ELSE p + Len(s)
           /\ \A k \in 1 .. p : Put(d, p, s)[k] = d[k]
           /\ \A k \in 1 .. Len(s) : Put(d, p, s)[p + k] = s[k]
           /\ \A k \in p + Len(s) + 1 .. Len(d) : Put(d, p, s)[k] = d[k]
<1> DEFINE a == SubSeq(d, 1, p)
           n == p + Len(s)
           b == SubSeq(d, n + 1, Len(d))
<1>1. a \in Seq(S) /\ Len(a) = p /\ \A k \in 1 .. p : a[k] = d[k]
  <2>1. a = SubSeq(d, 0 + 1, p)
    OBVIOUS
  <2>2. /\ SubSeq(d, 0 + 1, p) \in Seq(S) /\ Len(SubSeq(d, 0 + 1, p)) = p - 0
        /\ \A k \in 1 .. p - 0 : SubSeq(d, 0 + 1, p)[k] = d[0 + k]
    BY Slice
  <2> QED BY <2>1, <2>2
<1>2. n \in Nat /\ Len(d) \in Nat
  OBVIOUS
<1>3. CASE n <= Len(d)
  <2>1. b \in Seq(S) /\ Len(b) = Len(d) - n /\ \A k \in 1 .. Len(d) - n : b[k] = d[n + k]
    BY <1>2, <1>3, Slice
  <2>2. Put(d, p, s) = (a \o s) \o b
    BY DEF Put
  <2> HIDE DEF a, b
  <2>3. /\ a \o s \in Seq(S) /\ Len(a \o s) = n
        /\ \A k \in 1 .. p : (a \o s)[k] = d[k]
        /\ \A k \in 1 .. Len(s) : (a \o s)[p + k] = s[k]
    <3>1. /\ a \o s \in Seq(S) /\ Len(a \o s) = Len(a) + Len(s)
          /\ \A k \in 1 .. Len(a) : (a \o s)[k] = a[k]
          /\ \A k \in 1 .. Len(s) : (a \o s)[Len(a) + k] = s[k]
      <4>1. a \in Seq(S)
        BY <1>1
      <4> QED BY ONLY <4>1, s \in Seq(S), Joined
    <3> QED BY <3>1, <1>1
  <2> DEFINE c == a \o s
  <2>4. /\ c \o b \in Seq(S) /\ Len(c \o b) = Len(d)
        /\ \A k \in 1 .. n : (c \o b)[k] = c[k]
        /\ \A k \in 1 .. Len(d) - n : (c \o b)[n + k] = d[n + k]
    <3> HIDE DEF c
    <3>1. c \in Seq(S) /\ Len(c) = n
      BY <2>3 DEF c
    <3> HIDE DEF n
    <3> QED BY <3>1, <2>1, <1>2, <1>3, Joined
  <2>5. \A k \in n + 1 .. Len(d) : (c \o b)[k] = d[k]
    <3> TAKE k \in n + 1 .. Len(d)
    <3>1. k - n \in 1 .. Len(d) - n /\ n + (k - n) = k
      BY <1>2
    <3> HIDE DEF n
    <3> QED BY <3>1, <2>4
  <2>6. \A k \in 1 .. p : k \in 1 .. n
    OBVIOUS
  <2>7. \A k \in 1 .. Len(s) : p + k \in 1 .. n
    OBVIOUS
  <2> QED BY <2>2, <2>3, <2>4, <2>5, <2>6, <2>7, <1>3
<1>4. CASE ~(n <= Len(d))
  <2>1. b = <<>>
    BY <1>2, <1>4
  <2>2. Put(d, p, s) = a \o s
    <3>1. Put(d, p, s) = (a \o s) \o b
      BY DEF Put
    <3> HIDE DEF a, b
    <3>2. a \o s \in Seq(S)
      BY <1>1
    <3>3. (a \o s) \o <<>> = a \o s
      BY <3>2, ConcatEmptySeq
    <3> QED BY <2>1, <3>1, <3>3
  <2> QED BY <1>1, <1>2, <1>4, <2>2, Joined
<1> QED BY <1>3, <1>4

-----------------------------------------------------------------------------
(* The records of a member                                                  *)

LEMMA WideIs ==
    ASSUME NEW n \in Nat
    PROVE  /\ Wide(n) \in Seq(Nat)
           /\ Len(Wide(n)) = IF n > Zip64Limit THEN 1 ELSE 0
           /\ n > Zip64Limit => Wide(n)[1] = n
           /\ Narrow(n) = FieldMax <=> n > Zip64Limit
           /\ ~(n > Zip64Limit) => Narrow(n) = n
           /\ Narrow(n) \in Nat
BY RecordsAssumption DEF Wide, IsWide, Narrow

(* Which of the numbers go to the ZIP64 field, and where they stand in it.  *)
FsizeAt(z) == IF z.fsize > Zip64Limit THEN 1 ELSE 0
CsizeAt(z) == IF z.csize > Zip64Limit THEN FsizeAt(z) + 1 ELSE FsizeAt(z)
OffAt(z) == IF z.off > Zip64Limit THEN CsizeAt(z) + 1 ELSE CsizeAt(z)

LEMMA WideNumbersAre ==
    ASSUME NEW z \in Info
    PROVE  /\ WideNumbers(z) \in Seq(Nat) /\ Len(WideNumbers(z)) = OffAt(z)
           /\ FsizeAt(z) > 0 => WideNumbers(z)[FsizeAt(z)] = z.fsize
           /\ CsizeAt(z) > FsizeAt(z) => WideNumbers(z)[CsizeAt(z)] = z.csize
           /\ OffAt(z) > CsizeAt(z) => WideNumbers(z)[OffAt(z)] = z.off
<1> DEFINE f == FsizeAt(z)  c == CsizeAt(z)  o == OffAt(z)
<1>1. z.fsize \in Nat /\ z.csize \in Nat /\ z.off \in Nat
  BY DEF Info
<1> DEFINE x == z.fsize  y == z.csize  w == z.off
<1> HIDE DEF x, y, w
<1>2. /\ x \in Nat /\ y \in Nat /\ w \in Nat
      /\ f = IF x > Zip64Limit THEN 1 ELSE 0
      /\ c = IF y > Zip64Limit THEN f + 1 ELSE f
      /\ o = IF w > Zip64Limit THEN c + 1 ELSE c
  BY <1>1 DEF x, y, w, FsizeAt, CsizeAt, OffAt
<1> HIDE DEF f, c, o
<1>3. WideNumbers(z) = (Wide(x) \o Wide(y)) \o Wide(w)
  BY DEF WideNumbers, x, y, w
<1> DEFINE a == Wide(x)  b == Wide(y)  d == Wide(w)
<1>4. /\ a \in Seq(Nat) /\ Len(a) = f /\ (f > 0 => a[f] = x)
      /\ f \in Nat
  <2>1. f \in Nat
    BY <1>2
  <2>2. f > 0 => x > Zip64Limit /\ f = 1
    BY <1>2
  <2> QED BY <1>2, <2>1, <2>2, WideIs
<1>5. /\ b \in Seq(Nat) /\ Len(b) = c - f /\ (c > f => b[c - f] = y)
      /\ c \in Nat
  <2>1. c \in Nat /\ c - f = IF y > Zip64Limit THEN 1 ELSE 0
    BY <1>2, <1>4
  <2>2. c > f => y > Zip64Limit /\ c - f = 1
    BY <1>4, <2>1
  <2> QED BY <1>2, <2>1, <2>2, WideIs
<1>6. /\ d \in Seq(Nat) /\ Len(d) = o - c /\ (o > c => d[o - c] = w)
      /\ o \in Nat
  <2>1. o \in Nat /\ o - c = IF w > Zip64Limit THEN 1 ELSE 0
    BY <1>2, <1>5
  <2>2. o > c => w > Zip64Limit /\ o - c = 1
    BY <1>5, <2>1
  <2> QED BY <1>2, <2>1, <2>2, WideIs
<1>7. f <= c /\ c <= o
  BY <1>2, <1>4, <1>5
<1> HIDE DEF a, b, d
<1>8. /\ a \o b \in Seq(Nat) /\ Len(a \o b) = c
      /\ f > 0 => (a \o b)[f] = x
      /\ c > f => (a \o b)[c] = y
  <2>1. f > 0 => f \in 1 .. Len(a)
    BY <1>4
  <2>2. c > f => c - f \in 1 .. Len(b) /\ Len(a) + (c - f) = c
    BY <1>4, <1>5
  <2>3. /\ a \o b \in Seq(Nat) /\ Len(a \o b) = Len(a) + Len(b)
        /\ \A k \in 1 .. Len(a) : (a \o b)[k] = a[k]
        /\ \A k \in 1 .. Len(b) : (a \o b)[Len(a) + k] = b[k]
    <3>1. a \in Seq(Nat) /\ b \in Seq(Nat)
      BY <1>4, <1>5
    <3> QED BY ONLY <3>1, Joined
  <2>4. Len(a \o b) = c
    BY <2>3, <1>4, <1>5
  <2> QED BY <1>4, <1>5, <2>1, <2>2, <2>3, <2>4
<1> DEFINE e == a \o b
<1> HIDE DEF e
<1>9. /\ e \o d \in Seq(Nat) /\ Len(e \o d) = o
      /\ f > 0 => (e \o d)[f] = x
      /\ c > f => (e \o d)[c] = y
      /\ o > c => (e \o d)[o] = w
  <2>1. e \in Seq(Nat) /\ Len(e) = c
    BY <1>8 DEF e
  <2>2. (f > 0 => e[f] = x) /\ (c > f => e[c] = y)
    BY <1>8 DEF e
  <2>3. f > 0 => f \in 1 .. Len(e)
    BY <1>4, <1>7, <2>1, <1>5
  <2>4. c > f => c \in 1 .. Len(e)
    BY <1>4, <1>5, <2>1
  <2>5. o > c => o - c \in 1 .. Len(d) /\ Len(e) + (o - c) = o
    BY <1>5, <1>6, <2>1
  <2>6. /\ e \o d \in Seq(Nat) /\ Len(e \o d) = Len(e) + Len(d)
        /\ \A k \in 1 .. Len(e) : (e \o d)[k] = e[k]
        /\ \A k \in 1 .. Len(d) : (e \o d)[Len(e) + k] = d[k]
    <3>1. d \in Seq(Nat) /\ e \in Seq(Nat)
      BY <1>6, <2>1
    <3> QED BY ONLY <3>1, Joined
  <2>7. Len(e \o d) = o
    BY <2>6, <2>1, <1>5, <1>6
  <2> QED BY <2>2, <2>3, <2>4, <2>5, <2>6, <2>7, <1>6
<1> QED BY <1>3, <1>9 DEF x, y, w, a, b, d, e, f, c, o

LEMMA StrippedIsAes ==
    ASSUME NEW s \in Seq(Field)
    PROVE  /\ Stripped(s) \in Seq(AesFields)
           /\ (\A k \in DOMAIN s : s[k].id = "zip64") => Stripped(s) = <<>>
<1> DEFINE g == [k \in DOMAIN s |-> IF s[k].id = "zip64" THEN <<>> ELSE <<s[k]>>]
<1>1. DOMAIN s = 1 .. Len(s) /\ Len(s) \in Nat /\ \A k \in 1 .. Len(s) : s[k] \in Field
  OBVIOUS
<1>2. \A k \in 1 .. Len(s) : s[k].id # "zip64" => s[k] \in AesFields
  BY <1>1 DEF Field, WideField
<1>3. g \in Seq(Seq(AesFields))
  <2>1. \A k \in 1 .. Len(s) : g[k] \in Seq(AesFields)
    BY <1>1, <1>2
  <2>2. g \in [1 .. Len(s) -> Seq(AesFields)]
    BY <1>1, <2>1
  <2> HIDE DEF g
  <2> QED BY <1>1, <2>2
<1>4. Stripped(s) \in Seq(AesFields)
  <2> HIDE DEF g
  <2> QED BY <1>3, FlattenType DEF Stripped, g
<1>5. ASSUME \A k \in DOMAIN s : s[k].id = "zip64" PROVE Stripped(s) = <<>>
  <2>1. g \in [1 .. Len(s) -> Seq({})]
    BY <1>1, <1>5
  <2>2. g \in Seq(Seq({}))
    BY <1>1, <2>1
  <2>3. Stripped(s) \in Seq({})
    <3> HIDE DEF g
    <3> QED BY <2>2, FlattenType DEF Stripped, g
  <2> QED BY <2>3, OfNothing
<1> QED BY <1>4, <1>5

(* The version of AES that an archive says of a member.                     *)
AesVersion(z) == IF z.version = 0 THEN 2 ELSE z.version
AesExtra(z) == IF z.vendor THEN <<AesField(AesVersion(z), Method)>> ELSE <<>>
CentralExtra(z) == (IF WideNumbers(z) = <<>> THEN <<>>
                    ELSE <<Zip64Field(WideNumbers(z))>>)
                   \o Stripped(z.extra) \o AesExtra(z)

(* The record of a member in the directory.                                 *)
Central(z) ==
    [kind |-> "central", enc |-> z.enc, dd |-> z.dd,
     fsize |-> Narrow(z.fsize), csize |-> Narrow(z.csize),
     off |-> Narrow(z.off),
     crc |-> IF z.vendor /\ AesVersion(z) = 2 THEN 0 ELSE z.crc,
     ctype |-> IF z.vendor THEN AesMethod ELSE Method,
     extra |-> CentralExtra(z)]

LEMMA CentralIs ==
    ASSUME NEW z \in Info
    PROVE  /\ CentralDirectory(z) = <<Central(z)>> \o Rest(Len(CentralExtra(z)))
           /\ CentralExtra(z) \in Seq(Field)
<1>1. z.ctype = Method /\ z.extra \in Seq(Field) /\ z.version \in {0, 1, 2}
  BY DEF Info
<1>2. /\ EncodeExtra(z, z.crc).extra = AesExtra(z)
      /\ EncodeExtra(z, z.crc).crc = IF z.vendor /\ AesVersion(z) = 2 THEN 0 ELSE z.crc
      /\ EncodeExtra(z, z.crc).ctype = IF z.vendor THEN AesMethod ELSE Method
  BY <1>1 DEF EncodeExtra, AesExtra, AesVersion
<1>3. CentralDirectory(z) = <<Central(z)>> \o Rest(Len(CentralExtra(z)))
  BY <1>2 DEF CentralDirectory, Central, CentralExtra
<1>4. Stripped(z.extra) \in Seq(Field)
  BY <1>1, StrippedIsAes DEF Field
<1>5. AesExtra(z) \in Seq(Field)
  <2>1. AesVersion(z) \in {1, 2}
    BY <1>1 DEF AesVersion
  <2>2. AesField(AesVersion(z), Method) \in Field
    BY <2>1 DEF AesField, AesFields, Field
  <2> QED BY <2>2 DEF AesExtra
<1>6. WideNumbers(z) \in Seq(Nat)
  BY WideNumbersAre
<1>7. <<Zip64Field(WideNumbers(z))>> \in Seq(Field)
  BY <1>6 DEF Zip64Field, WideField, Field
<1> QED BY <1>3, <1>4, <1>5, <1>7 DEF CentralExtra

(* _decodeExtra goes through the fields one by one.                         *)
After(f, z) ==
    f = [n \in 0 .. Len(z.extra) |->
           IF n = 0 THEN z ELSE DecodeField(f[n - 1], z.extra[n])]

LEMMA DecodeIsChosen ==
    ASSUME NEW z
    PROVE  DecodeExtra(z) = (CHOOSE f : After(f, z))[Len(z.extra)]
BY Zenon DEF DecodeExtra, After

LEMMA AfterExists ==
    ASSUME NEW z, Len(z.extra) \in Nat
    PROVE  \E f : After(f, z)
<1> DEFINE N == Len(z.extra)
           Upto(m, f) == f = [n \in 0 .. m |->
                                IF n = 0 THEN z ELSE DecodeField(f[n - 1], z.extra[n])]
           Bad == {m \in 1 .. N + 1 : ~\E f : Upto(m - 1, f)}
<1>0. ASSUME Bad = {} PROVE \E f : After(f, z)
  <2>1. N + 1 \in 1 .. N + 1 /\ (N + 1) - 1 = N
    OBVIOUS
  <2>2. N + 1 \notin Bad
    BY <1>0
  <2>3. \E f : Upto(N, f)
    BY <2>1, <2>2
  <2> QED BY <2>3 DEF After
<1>1. SUFFICES ASSUME Bad # {} PROVE FALSE
  BY <1>0
<1>2. PICK m \in Bad : \A k \in Bad : m <= k
  <2>1. Bad \subseteq 1 .. N + 1 /\ N + 1 \in Nat
    OBVIOUS
  <2> HIDE DEF Bad
  <2> QED BY <1>1, <2>1, LeastUpTo
<1>3. CASE m = 1
  <2>1. Upto(m - 1, [n \in 0 .. m - 1 |-> z])
    BY <1>3
  <2> QED BY <2>1
<1>4. CASE m # 1
  <2>1. m - 1 \in 1 .. N + 1 /\ m - 1 \notin Bad /\ (m - 1) - 1 = m - 2 /\ m \in 2 .. N + 1
    <3>1. m \in 1 .. N + 1
      OBVIOUS
    <3>2. m \in 2 .. N + 1 /\ m - 1 \in 1 .. N + 1 /\ (m - 1) - 1 = m - 2 /\ ~(m <= m - 1)
      BY <3>1, <1>4
    <3> HIDE DEF Bad
    <3> QED BY <3>2, <1>2
  <2>2. PICK f : Upto(m - 2, f)
    BY <2>1
  <2> DEFINE g == [n \in 0 .. m - 1 |->
                     IF n <= m - 2 THEN f[n] ELSE DecodeField(f[m - 2], z.extra[m - 1])]
  <2>3. ASSUME NEW n \in 0 .. m - 1
        PROVE  g[n] = IF n = 0 THEN z ELSE DecodeField(g[n - 1], z.extra[n])
    <3>1. CASE n <= m - 2
      <4>1. n \in 0 .. m - 2
        BY <3>1, <2>1
      <4>2. f[n] = IF n = 0 THEN z ELSE DecodeField(f[n - 1], z.extra[n])
        BY <2>2, <4>1
      <4>3. n # 0 => n - 1 \in 0 .. m - 1 /\ n - 1 <= m - 2
        BY <4>1, <2>1
      <4> QED BY <3>1, <4>2, <4>3
    <3>2. CASE ~(n <= m - 2)
      <4>1. n = m - 1 /\ n - 1 = m - 2 /\ n # 0 /\ m - 2 \in 0 .. m - 1
        BY <3>2, <2>1
      <4> QED BY <3>2, <4>1
    <3> QED BY <3>1, <3>2
  <2>4. Upto(m - 1, g)
    <3>1. g = [n \in 0 .. m - 1 |-> g[n]]
      OBVIOUS
    <3> HIDE DEF g
    <3> QED BY <2>3, <3>1
  <2> QED BY <2>4
<1> QED BY <1>3, <1>4

LEMMA DecodeSteps ==
    ASSUME NEW z, Len(z.extra) \in Nat
    PROVE  \E f : After(f, z) /\ DecodeExtra(z) = f[Len(z.extra)]
<1>1. \E f : After(f, z)
  BY AfterExists
<1> QED BY <1>1, DecodeIsChosen, Zenon

(* A ZipInfo while it is decoded.                                           *)
RawInfo == [enc : BOOLEAN, dd : BOOLEAN, ctype : {Method, AesMethod}, crc : Nat,
            csize : Nat, fsize : Nat, off : Nat, extra : Seq(Field),
            vendor : BOOLEAN, version : {0, 1, 2}, raw : BOOLEAN, bad : {FALSE}]

LEMMA AesOverrides ==
    ASSUME NEW z \in RawInfo, NEW x \in AesFields, NEW y \in AesFields
    PROVE  /\ DecodeAes(z, x) \in RawInfo
           /\ DecodeAes(DecodeAes(z, x), y) = DecodeAes(z, y)
           /\ DecodeField(z, x) = DecodeAes(z, x)
BY DEF RawInfo, AesFields, DecodeAes, DecodeField

(* Of fields that are all of AES the last one counts.                       *)
LEMMA LastAesCounts ==
    ASSUME NEW z, NEW f, After(f, z), NEW N \in Nat, Len(z.extra) = N,
           NEW i \in 0 .. N, f[i] \in RawInfo,
           \A k \in i + 1 .. N : z.extra[k] \in AesFields
    PROVE  \A k \in i + 1 .. N : f[k] = DecodeAes(f[i], z.extra[k])
<1> DEFINE Bad == {k \in i + 1 .. N : f[k] # DecodeAes(f[i], z.extra[k])}
<1>1. SUFFICES ASSUME Bad # {} PROVE FALSE
  OBVIOUS
<1>2. PICK m \in Bad : \A k \in Bad : m <= k
  <2>1. Bad \subseteq 1 .. N
    OBVIOUS
  <2> HIDE DEF Bad
  <2> QED BY <1>1, <2>1, LeastUpTo
<1>3. m \in i + 1 .. N
  OBVIOUS
<1>4. f[m] = DecodeField(f[m - 1], z.extra[m]) /\ z.extra[m] \in AesFields
  <2>1. m \in 0 .. Len(z.extra) /\ m # 0
    BY <1>3
  <2> QED BY <2>1, <1>3 DEF After
<1>5. CASE m = i + 1
  <2>1. m - 1 = i
    BY <1>5
  <2>2. f[m] = DecodeAes(f[i], z.extra[m])
    BY <1>4, <2>1, AesOverrides
  <2> QED BY <2>2
<1>6. CASE m # i + 1
  <2>1. m - 1 \in i + 1 .. N /\ ~(m <= m - 1)
    BY <1>3, <1>6
  <2>2. m - 1 \notin Bad
    <3> HIDE DEF Bad
    <3> QED BY <1>2, <2>1
  <2>3. f[m - 1] = DecodeAes(f[i], z.extra[m - 1])
    BY <2>1, <2>2
  <2>4. z.extra[m - 1] \in AesFields
    BY <2>1
  <2>5. f[m] = DecodeAes(f[i], z.extra[m])
    BY <1>4, <2>3, <2>4, AesOverrides
  <2> QED BY <2>5
<1> QED BY <1>5, <1>6

(* A ZipInfo as it is read back, the archive having moved by p.             *)
Decoded(z, p) ==
    [enc |-> z.enc, dd |-> z.dd, ctype |-> Method,
     crc |-> IF z.vendor /\ AesVersion(z) = 2 THEN 0 ELSE z.crc,
     csize |-> z.csize, fsize |-> z.fsize, off |-> z.off + p,
     extra |-> CentralExtra(z), vendor |-> z.vendor,
     version |-> IF z.vendor THEN AesVersion(z) ELSE 0,
     raw |-> TRUE, bad |-> FALSE]

(* As it is read, before its extra fields are.                              *)
Undecoded(z) ==
    [enc |-> z.enc, dd |-> z.dd,
     ctype |-> IF z.vendor THEN AesMethod ELSE Method,
     crc |-> IF z.vendor /\ AesVersion(z) = 2 THEN 0 ELSE z.crc,
     csize |-> Narrow(z.csize), fsize |-> Narrow(z.fsize), off |-> Narrow(z.off),
     extra |-> CentralExtra(z), vendor |-> FALSE, version |-> 0,
     raw |-> TRUE, bad |-> FALSE]

(* With its numbers.                                                        *)
Numbered(z) ==
    [enc |-> z.enc, dd |-> z.dd,
     ctype |-> IF z.vendor THEN AesMethod ELSE Method,
     crc |-> IF z.vendor /\ AesVersion(z) = 2 THEN 0 ELSE z.crc,
     csize |-> z.csize, fsize |-> z.fsize, off |-> z.off,
     extra |-> CentralExtra(z), vendor |-> FALSE, version |-> 0,
     raw |-> TRUE, bad |-> FALSE]

LEMMA Resized ==
    ASSUME NEW u \in RawInfo, NEW a, NEW b, NEW c
    PROVE  [u EXCEPT !.fsize = a, !.csize = b, !.off = c]
             = [enc |-> u.enc, dd |-> u.dd, ctype |-> u.ctype, crc |-> u.crc,
                csize |-> b, fsize |-> a, off |-> c, extra |-> u.extra,
                vendor |-> u.vendor, version |-> u.version, raw |-> u.raw,
                bad |-> u.bad]
<1> DEFINE D == {"enc", "dd", "ctype", "crc", "csize", "fsize", "off", "extra",
                 "vendor", "version", "raw", "bad"}
<1>1. DOMAIN u = D /\ u = [x \in D |-> u[x]]
  BY DEF RawInfo
<1> HIDE DEF D
<1>2. [u EXCEPT !.fsize = a, !.csize = b, !.off = c]
        = [x \in D |-> IF x = "off" THEN c ELSE IF x = "csize" THEN b
                      ELSE IF x = "fsize" THEN a ELSE u[x]]
  BY <1>1
<1> QED BY <1>2 DEF D

LEMMA NumbersComeBack ==
    ASSUME NEW z \in Info
    PROVE  /\ WideNumbers(z) # <<>> =>
                DecodeZip64(Undecoded(z), WideNumbers(z)) = Numbered(z)
           /\ WideNumbers(z) = <<>> => Undecoded(z) = Numbered(z)
           /\ Numbered(z) \in RawInfo
<1> DEFINE f == FsizeAt(z)  c == CsizeAt(z)  o == OffAt(z)
<1>1. /\ WideNumbers(z) \in Seq(Nat) /\ Len(WideNumbers(z)) = o
      /\ f > 0 => WideNumbers(z)[f] = z.fsize
      /\ c > f => WideNumbers(z)[c] = z.csize
      /\ o > c => WideNumbers(z)[o] = z.off
  BY WideNumbersAre
<1> USE DEF FsizeAt, CsizeAt, OffAt
<1>2. /\ z.fsize \in Nat /\ z.csize \in Nat /\ z.off \in Nat /\ z.crc \in Nat
      /\ z.enc \in BOOLEAN /\ z.dd \in BOOLEAN /\ z.vendor \in BOOLEAN
  BY DEF Info
<1>3. /\ Narrow(z.fsize) = FieldMax <=> z.fsize > Zip64Limit
      /\ Narrow(z.csize) = FieldMax <=> z.csize > Zip64Limit
      /\ Narrow(z.off) = FieldMax <=> z.off > Zip64Limit
      /\ ~(z.fsize > Zip64Limit) => Narrow(z.fsize) = z.fsize
      /\ ~(z.csize > Zip64Limit) => Narrow(z.csize) = z.csize
      /\ ~(z.off > Zip64Limit) => Narrow(z.off) = z.off
  BY <1>2, WideIs
<1>4. Numbered(z) \in RawInfo
  BY <1>2, CentralIs DEF Numbered, RawInfo
<1>5. ~(o > Len(WideNumbers(z)))
  BY <1>1, <1>2
<1>6. DecodeZip64(Undecoded(z), WideNumbers(z)) = Numbered(z)
  <2> DEFINE u == Undecoded(z)
  <2>1. /\ u.fsize = Narrow(z.fsize) /\ u.csize = Narrow(z.csize)
        /\ u.off = Narrow(z.off)
    BY DEF Undecoded
  <2>2. DecodeZip64(u, WideNumbers(z)) =
          [u EXCEPT !.fsize = IF f > 0 THEN WideNumbers(z)[f] ELSE @,
                    !.csize = IF c > f THEN WideNumbers(z)[c] ELSE @,
                    !.off = IF o > c THEN WideNumbers(z)[o] ELSE @]
    <3> HIDE DEF u
    <3> QED BY <1>3, <1>5, <2>1 DEF DecodeZip64
  <2>3. /\ (IF f > 0 THEN WideNumbers(z)[f] ELSE u.fsize) = z.fsize
        /\ (IF c > f THEN WideNumbers(z)[c] ELSE u.csize) = z.csize
        /\ (IF o > c THEN WideNumbers(z)[o] ELSE u.off) = z.off
    <3>1. (f > 0 <=> z.fsize > Zip64Limit) /\ (c > f <=> z.csize > Zip64Limit)
          /\ (o > c <=> z.off > Zip64Limit)
      OBVIOUS
    <3> HIDE DEF f, c, o, u
    <3> QED BY <1>1, <1>3, <2>1, <3>1
  <2>4. [u EXCEPT !.fsize = z.fsize, !.csize = z.csize, !.off = z.off] = Numbered(z)
    <3>1. u \in RawInfo
      BY <1>2, WideIs, CentralIs DEF Undecoded, RawInfo
    <3> DEFINE r == [enc |-> u.enc, dd |-> u.dd, ctype |-> u.ctype, crc |-> u.crc,
                     csize |-> z.csize, fsize |-> z.fsize, off |-> z.off,
                     extra |-> u.extra, vendor |-> u.vendor, version |-> u.version,
                     raw |-> u.raw, bad |-> u.bad]
    <3>2. r = Numbered(z)
      BY DEF Undecoded, Numbered
    <3> HIDE DEF u
    <3>3. [u EXCEPT !.fsize = z.fsize, !.csize = z.csize, !.off = z.off] = r
      BY ONLY <3>1, Resized
    <3> QED BY <3>2, <3>3
  <2> HIDE DEF f, c, o, u
  <2>5. [u EXCEPT !.fsize = IF f > 0 THEN WideNumbers(z)[f] ELSE @,
                  !.csize = IF c > f THEN WideNumbers(z)[c] ELSE @,
                  !.off = IF o > c THEN WideNumbers(z)[o] ELSE @]
        = [u EXCEPT !.fsize = z.fsize, !.csize = z.csize, !.off = z.off]
    BY <2>3
  <2> QED BY <2>2, <2>4, <2>5 DEF u
<1>7. ASSUME WideNumbers(z) = <<>> PROVE Undecoded(z) = Numbered(z)
  <2>1. o = 0
    BY <1>1, <1>7
  <2>2. ~(z.fsize > Zip64Limit) /\ ~(z.csize > Zip64Limit) /\ ~(z.off > Zip64Limit)
    BY <2>1
  <2> QED BY <2>2, <1>3 DEF Undecoded, Numbered
<1> QED BY <1>4, <1>6, <1>7

LEMMA MadeAes ==
    ASSUME NEW u \in RawInfo, NEW y
    PROVE  DecodeAes(u, y)
             = [enc |-> u.enc, dd |-> u.dd, ctype |-> y.ctype, crc |-> u.crc,
                csize |-> u.csize, fsize |-> u.fsize, off |-> u.off,
                extra |-> u.extra, vendor |-> TRUE, version |-> y.version,
                raw |-> u.raw, bad |-> u.bad]
<1> DEFINE D == {"enc", "dd", "ctype", "crc", "csize", "fsize", "off", "extra",
                 "vendor", "version", "raw", "bad"}
           a == TRUE
           b == y.version
           c == y.ctype
<1>1. DOMAIN u = D /\ u = [x \in D |-> u[x]]
  BY DEF RawInfo
<1> HIDE DEF D, a, b, c
<1>2. [u EXCEPT !.vendor = a, !.version = b, !.ctype = c]
        = [x \in D |-> IF x = "ctype" THEN c ELSE IF x = "version" THEN b
                      ELSE IF x = "vendor" THEN a ELSE u[x]]
  BY <1>1
<1>3. [u EXCEPT !.vendor = a, !.version = b, !.ctype = c]
        = [enc |-> u.enc, dd |-> u.dd, ctype |-> c, crc |-> u.crc,
           csize |-> u.csize, fsize |-> u.fsize, off |-> u.off,
           extra |-> u.extra, vendor |-> a, version |-> b, raw |-> u.raw,
           bad |-> u.bad]
  BY <1>2 DEF D
<1> QED BY <1>3 DEF DecodeAes, a, b, c

LEMMA Moved ==
    ASSUME NEW u \in RawInfo, NEW a
    PROVE  [u EXCEPT !.off = a]
             = [enc |-> u.enc, dd |-> u.dd, ctype |-> u.ctype, crc |-> u.crc,
                csize |-> u.csize, fsize |-> u.fsize, off |-> a,
                extra |-> u.extra, vendor |-> u.vendor, version |-> u.version,
                raw |-> u.raw, bad |-> u.bad]
BY DEF RawInfo

LEMMA Assembled ==
    ASSUME NEW c, NEW n \in RawInfo, NEW t
    PROVE  [n EXCEPT
              !.enc = c.enc, !.dd = c.dd, !.ctype = c.ctype, !.crc = c.crc,
              !.csize = c.csize, !.fsize = c.fsize, !.off = c.off,
              !.extra = c.extra, !.raw = t]
             = [enc |-> c.enc, dd |-> c.dd, ctype |-> c.ctype, crc |-> c.crc,
                csize |-> c.csize, fsize |-> c.fsize, off |-> c.off,
                extra |-> c.extra, vendor |-> n.vendor, version |-> n.version,
                raw |-> t, bad |-> n.bad]
<1> DEFINE D == {"enc", "dd", "ctype", "crc", "csize", "fsize", "off", "extra",
                 "vendor", "version", "raw", "bad"}
<1>1. DOMAIN n = D /\ n = [x \in D |-> n[x]]
  BY DEF RawInfo
<1> HIDE DEF D
<1>2. [n EXCEPT
              !.enc = c.enc, !.dd = c.dd, !.ctype = c.ctype, !.crc = c.crc,
              !.csize = c.csize, !.fsize = c.fsize, !.off = c.off,
              !.extra = c.extra, !.raw = t]
        = [x \in D |-> IF x = "raw" THEN t ELSE IF x = "extra" THEN c.extra
                       ELSE IF x = "off" THEN c.off ELSE IF x = "fsize" THEN c.fsize
                       ELSE IF x = "csize" THEN c.csize ELSE IF x = "crc" THEN c.crc
                       ELSE IF x = "ctype" THEN c.ctype ELSE IF x = "dd" THEN c.dd
                       ELSE IF x = "enc" THEN c.enc ELSE n[x]]
  BY <1>1
<1> QED BY <1>2 DEF D

(* The fields of a record in the directory: the ZIP64 field if there is one, *)
(* then those of AES, and of an AES ZipInfo its own one as the last.         *)
LEMMA ExtraShape ==
    ASSUME NEW z \in Info, VendorOK(z), NEW N, N = Len(CentralExtra(z)),
           NEW i, i = IF WideNumbers(z) = <<>> THEN 0 ELSE 1
    PROVE  /\ N \in Nat /\ i \in 0 .. N
           /\ i = 1 => CentralExtra(z)[1] = Zip64Field(WideNumbers(z))
           /\ \A k \in i + 1 .. N : CentralExtra(z)[k] \in AesFields
           /\ z.vendor => /\ N \in i + 1 .. N
                          /\ CentralExtra(z)[N] = AesField(AesVersion(z), Method)
           /\ ~z.vendor => N = i
<1> DEFINE w == IF WideNumbers(z) = <<>> THEN <<>> ELSE <<Zip64Field(WideNumbers(z))>>
           s == Stripped(z.extra)
           a == AesExtra(z)
           e == s \o a
<1>1. z.extra \in Seq(Field) /\ z.version \in {0, 1, 2} /\ z.vendor \in BOOLEAN
  BY DEF Info
<1>2. w \in Seq(Field) /\ Len(w) = i /\ i \in {0, 1}
      /\ (i = 1 => w[1] = Zip64Field(WideNumbers(z)))
  <2>1. WideNumbers(z) \in Seq(Nat)
    BY WideNumbersAre
  <2>2. Zip64Field(WideNumbers(z)) \in Field
    BY <2>1 DEF Zip64Field, WideField, Field
  <2> QED BY <2>2
<1>3. s \in Seq(AesFields)
  BY <1>1, StrippedIsAes
<1>4. /\ a \in Seq(AesFields)
      /\ z.vendor => Len(a) = 1 /\ a[1] = AesField(AesVersion(z), Method)
      /\ ~z.vendor => a = <<>>
  <2>1. AesVersion(z) \in {1, 2}
    BY <1>1 DEF AesVersion
  <2>2. AesField(AesVersion(z), Method) \in AesFields
    BY <2>1 DEF AesField, AesFields
  <2> QED BY <2>2 DEF AesExtra
<1>5. ~z.vendor => s = <<>>
  BY <1>1, StrippedIsAes DEF VendorOK
<1>6. CentralExtra(z) = w \o e
  <2>1. CentralExtra(z) = (w \o s) \o a
    BY DEF CentralExtra
  <2>2. s \in Seq(Field) /\ a \in Seq(Field)
    BY <1>3, <1>4 DEF Field
  <2> HIDE DEF w, s, a
  <2>3. (w \o s) \o a = w \o (s \o a)
    BY SMTT(20), ZenonT(30), <1>2, <2>2, ConcatAssociative
  <2> QED BY <2>1, <2>3
<1> HIDE DEF w, s, a
<1>7. /\ e \in Seq(AesFields) /\ Len(e) = Len(s) + Len(a)
      /\ z.vendor => Len(e) >= 1 /\ e[Len(e)] = AesField(AesVersion(z), Method)
      /\ ~z.vendor => Len(e) = 0
  <2>1. /\ e \in Seq(AesFields) /\ Len(e) = Len(s) + Len(a)
        /\ \A k \in 1 .. Len(a) : e[Len(s) + k] = a[k]
    BY ONLY <1>3, <1>4, Joined
  <2>2. CASE z.vendor
    <3>1. 1 \in 1 .. Len(a) /\ Len(s) + 1 = Len(e) /\ Len(s) \in Nat
      <4>1. Len(a) = 1
        BY <2>2, <1>4
      <4>2. Len(s) \in Nat
        BY <1>3
      <4> QED BY <4>1, <4>2, <2>1
    <3>2. e[Len(s) + 1] = a[1]
      BY <3>1, <2>1
    <3> QED BY <2>1, <2>2, <3>1, <3>2, <1>4
  <2>3. CASE ~z.vendor
    BY <2>1, <2>3, <1>4, <1>5
  <2> QED BY <2>1, <2>2, <2>3
<1> HIDE DEF e
<1>8. /\ Len(w \o e) = i + Len(e) /\ Len(e) \in Nat
      /\ i = 1 => (w \o e)[1] = w[1]
      /\ \A k \in 1 .. Len(e) : (w \o e)[i + k] = e[k]
  <2>1. e \in Seq(Field)
    BY <1>7 DEF Field
  <2>2. /\ w \o e \in Seq(Field) /\ Len(w \o e) = Len(w) + Len(e)
        /\ \A k \in 1 .. Len(w) : (w \o e)[k] = w[k]
        /\ \A k \in 1 .. Len(e) : (w \o e)[Len(w) + k] = e[k]
    BY ONLY <1>2, <2>1, Joined
  <2> QED BY <2>1, <2>2, <1>2
<1>9. N = i + Len(e) /\ N \in Nat /\ i \in 0 .. N
  BY <1>2, <1>6, <1>8
<1>10. ASSUME NEW k \in i + 1 .. N PROVE CentralExtra(z)[k] \in AesFields
  <2>1. k - i \in 1 .. Len(e) /\ i + (k - i) = k
    BY <1>2, <1>8, <1>9
  <2>2. CentralExtra(z)[k] = e[k - i]
    BY <1>6, <1>8, <2>1
  <2> QED BY <2>1, <2>2, <1>7
<1>11. ASSUME z.vendor
       PROVE  N \in i + 1 .. N /\ CentralExtra(z)[N] = AesField(AesVersion(z), Method)
  <2>1. Len(e) \in 1 .. Len(e) /\ N \in i + 1 .. N
    BY <1>2, <1>7, <1>8, <1>9, <1>11
  <2> QED BY <1>6, <1>7, <1>8, <1>9, <1>11, <2>1
<1> QED BY <1>2, <1>6, <1>7, <1>8, <1>9, <1>10, <1>11

(* A record of the directory is read as the ZipInfo it was written from.    *)
LEMMA DecodesBack ==
    ASSUME NEW z \in Info, VendorOK(z), NEW p
    PROVE  ReadRecord(Central(z), p) = Decoded(z, p)
<1> DEFINE u == Undecoded(z)
           N == Len(CentralExtra(z))
           i == IF WideNumbers(z) = <<>> THEN 0 ELSE 1
<1>1. u.extra = CentralExtra(z)
  BY DEF Undecoded
<1>2. /\ N \in Nat /\ i \in 0 .. N
      /\ i = 1 => CentralExtra(z)[1] = Zip64Field(WideNumbers(z))
      /\ \A k \in i + 1 .. N : CentralExtra(z)[k] \in AesFields
      /\ z.vendor => /\ N \in i + 1 .. N
                     /\ CentralExtra(z)[N] = AesField(AesVersion(z), Method)
      /\ ~z.vendor => N = i
  BY ExtraShape
<1> HIDE DEF u, N
<1>3. Len(u.extra) = N
  BY <1>1 DEF N
<1>4. PICK f : After(f, u) /\ DecodeExtra(u) = f[N]
  BY <1>2, <1>3, DecodeSteps
<1>5. f[i] = Numbered(z) /\ Numbered(z) \in RawInfo
  <2>1. f[0] = u
    BY <1>2, <1>3, <1>4 DEF After
  <2>2. CASE WideNumbers(z) = <<>>
    BY <2>1, <2>2, NumbersComeBack DEF u
  <2>3. CASE WideNumbers(z) # <<>>
    <3>1. i = 1 /\ 1 \in 0 .. N
      BY <1>2, <2>3
    <3>2. f[1] = DecodeField(f[0], u.extra[1])
      BY <1>3, <1>4, <3>1 DEF After
    <3>3. u.extra[1] = Zip64Field(WideNumbers(z))
      BY <1>1, <1>2, <3>1
    <3>4. f[1] = DecodeZip64(u, WideNumbers(z))
      BY <2>1, <3>2, <3>3 DEF DecodeField, Zip64Field
    <3> QED BY <2>3, <3>1, <3>4, NumbersComeBack DEF u
  <2> QED BY <2>2, <2>3
<1> HIDE DEF i
<1>6. z.vendor => f[N] = DecodeAes(Numbered(z), AesField(AesVersion(z), Method))
  <2>1. \A k \in i + 1 .. N : u.extra[k] \in AesFields
    BY <1>1, <1>2
  <2>2. \A k \in i + 1 .. N : f[k] = DecodeAes(f[i], u.extra[k])
    BY <1>2, <1>3, <1>4, <1>5, <2>1, LastAesCounts
  <2> QED BY <1>1, <1>2, <1>5, <2>2
<1>7. ~z.vendor => f[N] = Numbered(z)
  BY <1>2, <1>5
<1>8. DecodeExtra(u) = Decoded(z, 0)
  <2>0. z.off + 0 = z.off
    BY DEF Info
  <2>1. CASE z.vendor
    <3> DEFINE n == Numbered(z)
               y == AesField(AesVersion(z), Method)
               r == [enc |-> n.enc, dd |-> n.dd, ctype |-> y.ctype, crc |-> n.crc,
                     csize |-> n.csize, fsize |-> n.fsize, off |-> n.off,
                     extra |-> n.extra, vendor |-> TRUE, version |-> y.version,
                     raw |-> n.raw, bad |-> n.bad]
    <3>1. r = Decoded(z, 0)
      BY <2>0, <2>1 DEF Numbered, Decoded, AesField
    <3> HIDE DEF n, y
    <3>2. n \in RawInfo
      BY <1>5 DEF n
    <3>3. DecodeAes(n, y) = r
      BY <3>2, MadeAes
    <3> QED BY <1>4, <1>6, <2>1, <3>1, <3>3 DEF n, y
  <2>2. CASE ~z.vendor
    <3>1. Numbered(z) = Decoded(z, 0)
      BY <2>0, <2>2 DEF Numbered, Decoded, Info
    <3> QED BY <1>4, <1>7, <2>2, <3>1
  <2> QED BY <2>1, <2>2
<1>9. ReadRecord(Central(z), p) = [DecodeExtra(u) EXCEPT !.off = @ + p]
  <2> DEFINE c == Central(z)
             n == NewInfo
             t == TRUE
             r == [enc |-> c.enc, dd |-> c.dd, ctype |-> c.ctype, crc |-> c.crc,
                   csize |-> c.csize, fsize |-> c.fsize, off |-> c.off,
                   extra |-> c.extra, vendor |-> n.vendor, version |-> n.version,
                   raw |-> t, bad |-> n.bad]
  <2>1. u = r
    BY DEF u, Undecoded, Central, NewInfo
  <2>2. n \in RawInfo
    BY DEF NewInfo, RawInfo
  <2> HIDE DEF c, n, t
  <2>3. [n EXCEPT
              !.enc = c.enc, !.dd = c.dd, !.ctype = c.ctype, !.crc = c.crc,
              !.csize = c.csize, !.fsize = c.fsize, !.off = c.off,
              !.extra = c.extra, !.raw = t]
        = r
    BY ONLY <2>2, Assembled
  <2> QED BY <2>1, <2>3 DEF ReadRecord, c, n, t
<1>10. [Decoded(z, 0) EXCEPT !.off = @ + p] = Decoded(z, p)
  <2> DEFINE y == Decoded(z, 0)
             r == [enc |-> y.enc, dd |-> y.dd, ctype |-> y.ctype, crc |-> y.crc,
                   csize |-> y.csize, fsize |-> y.fsize, off |-> y.off + p,
                   extra |-> y.extra, vendor |-> y.vendor, version |-> y.version,
                   raw |-> y.raw, bad |-> y.bad]
  <2>1. z.off + 0 = z.off
    BY DEF Info
  <2>2. r = Decoded(z, p)
    BY <2>1 DEF Decoded
  <2>3. y \in RawInfo
    <3>1. /\ z.enc \in BOOLEAN /\ z.dd \in BOOLEAN /\ z.vendor \in BOOLEAN
          /\ z.crc \in Nat /\ z.csize \in Nat /\ z.fsize \in Nat /\ z.off \in Nat
          /\ z.version \in {0, 1, 2}
      BY DEF Info
    <3>2. AesVersion(z) \in {1, 2}
      BY <3>1 DEF AesVersion
    <3>3. CentralExtra(z) \in Seq(Field)
      BY CentralIs
    <3>4. z.off + 0 \in Nat
      BY <2>1, <3>1
    <3> QED BY <3>1, <3>2, <3>3, <3>4 DEF Decoded, RawInfo
  <2> HIDE DEF y
  <2>4. [y EXCEPT !.off = y.off + p] = r
    BY ONLY <2>3, Moved
  <2> QED BY <2>2, <2>4 DEF y
<1> QED BY <1>8, <1>9, <1>10

-----------------------------------------------------------------------------
(* The cells of a file: those of members and what is in front of them, of a *)
(* directory, and of the end.                                               *)

LocalCell == [kind : {"local"}, dd : BOOLEAN, fsize : Nat, csize : Nat,
              crc : Nat, extra : Seq(Field)]
BareCell == [kind : {"rest", "keys", "salt", "junk"}]
DataCell == [kind : {"data"}, serial : Nat, k : Nat,
             cipher : {"none", "zip", "aes"}, of : Bodies]
HmacCell == [kind : {"hmac"}, serial : Nat]
DescCell == [kind : {"desc"}, wide : BOOLEAN, fsize : Nat, csize : Nat]
FrontCell == LocalCell \cup BareCell \cup DataCell \cup HmacCell \cup DescCell

CentralCell == [kind : {"central"}, enc : BOOLEAN, dd : BOOLEAN, fsize : Nat,
                csize : Nat, off : Nat, crc : Nat, ctype : {Method, AesMethod},
                extra : Seq(Field)]
RestCell == [kind : {"rest"}]
DirCell == CentralCell \cup RestCell

LastCell == [kind : {"end64"}, count : Nat, size : Nat, off : Nat]
            \cup [kind : {"locator"}, at : Nat]
            \cup [kind : {"end"}, count : Nat, size : Nat, off : Nat]

Cell == FrontCell \cup DirCell \cup LastCell

LEMMA Kinds ==
    /\ \A c \in FrontCell : c.kind \notin {"end", "end64", "locator", "central"}
    /\ \A c \in DirCell : c.kind \in {"central", "rest"}
BY DEF FrontCell, LocalCell, BareCell, DataCell, HmacCell, DescCell, DirCell,
       CentralCell, RestCell

LEMMA CellsOfRecord ==
    ASSUME NEW z \in Info
    PROVE  /\ Central(z) \in CentralCell
           /\ CentralDirectory(z) \in Seq(DirCell)
           /\ Len(CentralDirectory(z)) = 1 + Len(CentralExtra(z))
           /\ Len(CentralExtra(z)) \in Nat
<1>1. /\ z.enc \in BOOLEAN /\ z.dd \in BOOLEAN /\ z.fsize \in Nat /\ z.csize \in Nat
      /\ z.off \in Nat /\ z.crc \in Nat
  BY DEF Info
<1>2. CentralExtra(z) \in Seq(Field)
  BY CentralIs
<1>3. Narrow(z.fsize) \in Nat /\ Narrow(z.csize) \in Nat /\ Narrow(z.off) \in Nat
  BY <1>1, WideIs
<1>4. Central(z) \in CentralCell
  BY <1>1, <1>2, <1>3 DEF Central, CentralCell
<1> DEFINE n == Len(CentralExtra(z))
<1>5. n \in Nat
  BY <1>2
<1> HIDE DEF n
<1>6. Rest(n) \in Seq(DirCell) /\ Len(Rest(n)) = n
  BY <1>5 DEF Rest, DirCell, RestCell
<1>7. <<Central(z)>> \in Seq(DirCell) /\ Len(<<Central(z)>>) = 1
  BY <1>4 DEF DirCell
<1>8. /\ <<Central(z)>> \o Rest(n) \in Seq(DirCell)
      /\ Len(<<Central(z)>> \o Rest(n)) = 1 + n
  BY <1>6, <1>7
<1> QED BY <1>4, <1>5, <1>8, CentralIs DEF n

LEMMA DirectoryIsCells ==
    ASSUME NEW zs \in Seq(Info)
    PROVE  /\ [i \in DOMAIN zs |-> CentralDirectory(zs[i])] \in Seq(Seq(DirCell))
           /\ DirectoryCells(zs) \in Seq(DirCell)
<1> DEFINE recs == [i \in DOMAIN zs |-> CentralDirectory(zs[i])]
<1>1. DOMAIN zs = 1 .. Len(zs) /\ Len(zs) \in Nat /\ \A i \in 1 .. Len(zs) : zs[i] \in Info
  OBVIOUS
<1>2. recs \in [1 .. Len(zs) -> Seq(DirCell)]
  BY <1>1, CellsOfRecord
<1>3. recs \in Seq(Seq(DirCell))
  <2> HIDE DEF recs
  <2> QED BY <1>1, <1>2
<1>4. FlattenSeq(recs) \in Seq(DirCell)
  <2> HIDE DEF recs
  <2> QED BY <1>3, FlattenType
<1> QED BY <1>3, <1>4 DEF DirectoryCells

(* Reading only the fixed parts of records.                                 *)
Marks(cells) == [k \in DOMAIN cells |->
                   IF cells[k].kind = "central" THEN <<cells[k]>> ELSE <<>>]

LEMMA MarksAreSeqs ==
    ASSUME NEW S, NEW s \in Seq(S)
    PROVE  /\ Marks(s) \in Seq(Seq(S)) /\ Len(Marks(s)) = Len(s)
           /\ CentralOnly(s) = FlattenSeq(Marks(s))
<1>1. DOMAIN s = 1 .. Len(s) /\ Len(s) \in Nat /\ \A k \in 1 .. Len(s) : s[k] \in S
  OBVIOUS
<1>2. Marks(s) \in [1 .. Len(s) -> Seq(S)]
  BY <1>1 DEF Marks
<1> QED BY <1>1, <1>2 DEF CentralOnly, Marks

LEMMA CentralOnlyJoins ==
    ASSUME NEW S, NEW a \in Seq(S), NEW b \in Seq(S)
    PROVE  CentralOnly(a \o b) = CentralOnly(a) \o CentralOnly(b)
<1> DEFINE c == a \o b
           g == Marks(c)
           i == Len(a)
           j == Len(c)
<1>1. /\ c \in Seq(S) /\ j = Len(a) + Len(b) /\ i \in Nat /\ Len(b) \in Nat
      /\ \A k \in 1 .. Len(a) : c[k] = a[k]
      /\ \A k \in 1 .. Len(b) : c[Len(a) + k] = b[k]
  BY Joined
<1> HIDE DEF c
<1>2. g \in Seq(Seq(S)) /\ Len(g) = j /\ CentralOnly(c) = FlattenSeq(g)
  BY <1>1, MarksAreSeqs
<1>3. /\ Marks(a) \in Seq(Seq(S)) /\ Len(Marks(a)) = Len(a)
      /\ CentralOnly(a) = FlattenSeq(Marks(a))
      /\ Marks(b) \in Seq(Seq(S)) /\ Len(Marks(b)) = Len(b)
      /\ CentralOnly(b) = FlattenSeq(Marks(b))
  BY MarksAreSeqs
<1>4. ASSUME NEW k \in 1 .. Len(a) PROVE g[k] = Marks(a)[k]
  <2>1. k \in 1 .. j /\ k \in DOMAIN c /\ k \in DOMAIN a
    BY <1>1
  <2> QED BY <1>1, <2>1 DEF Marks
<1>5. ASSUME NEW k \in 1 .. Len(b) PROVE g[i + k] = Marks(b)[k]
  <2>1. i + k \in 1 .. j
    BY <1>1
  <2>2. i + k \in DOMAIN c /\ k \in DOMAIN b
    BY <1>1, <2>1
  <2> QED BY <1>1, <2>2 DEF Marks
<1> HIDE DEF g, i, j
<1>6. i \in Nat /\ j \in Nat /\ i <= j /\ i = Len(a) /\ j - i = Len(b)
  BY <1>1 DEF i
<1>7. SubSeq(g, 1, j) = g
  <2>1. /\ SubSeq(g, 0 + 1, j) \in Seq(Seq(S)) /\ Len(SubSeq(g, 0 + 1, j)) = j - 0
        /\ \A k \in 1 .. j - 0 : SubSeq(g, 0 + 1, j)[k] = g[0 + k]
    BY <1>2, <1>6, Slice
  <2> DEFINE h == SubSeq(g, 1, j)
  <2>2. h \in Seq(Seq(S)) /\ Len(h) = Len(g) /\ \A k \in 1 .. Len(h) : h[k] = g[k]
    BY <1>2, <1>6, <2>1
  <2> HIDE DEF h
  <2>3. h = g
    BY <1>2, <2>2, SameSeq
  <2> QED BY <2>3 DEF h
<1>8. SubSeq(g, 1, i) = Marks(a)
  <2>1. /\ SubSeq(g, 0 + 1, i) \in Seq(Seq(S)) /\ Len(SubSeq(g, 0 + 1, i)) = i - 0
        /\ \A k \in 1 .. i - 0 : SubSeq(g, 0 + 1, i)[k] = g[0 + k]
    BY <1>2, <1>6, Slice
  <2> DEFINE h == SubSeq(g, 1, i)
             m == Marks(a)
  <2>2. h \in Seq(Seq(S)) /\ Len(h) = Len(m) /\ \A k \in 1 .. Len(h) : h[k] = m[k]
    BY <1>3, <1>4, <1>6, <2>1
  <2> HIDE DEF h, m
  <2>3. h = m
    BY <1>3, <2>2, SameSeq DEF m
  <2> QED BY <2>3 DEF h, m
<1>9. SubSeq(g, i + 1, j) = Marks(b)
  <2> DEFINE h == SubSeq(g, i + 1, j)
             m == Marks(b)
  <2>1. /\ h \in Seq(Seq(S)) /\ Len(h) = j - i
        /\ \A k \in 1 .. j - i : h[k] = g[i + k]
    BY <1>2, <1>6, Slice
  <2> HIDE DEF h, m
  <2>2. Len(h) = Len(m) /\ \A k \in 1 .. Len(h) : h[k] = m[k]
    BY <1>3, <1>5, <1>6, <2>1 DEF m
  <2>3. h = m
    BY <1>3, <2>1, <2>2, SameSeq DEF m
  <2> QED BY <2>3 DEF h, m
<1>10. FlattenSeq(SubSeq(g, 1, j)) = FlattenSeq(SubSeq(g, 1, i)) \o FlattenSeq(SubSeq(g, i + 1, j))
  <2>1. j <= Len(g)
    BY <1>2, <1>6
  <2>2. g \in Seq(Seq(S))
    BY <1>2
  <2>3. i \in Nat /\ j \in Nat /\ i <= j
    BY <1>6
  <2> QED BY ONLY <2>1, <2>2, <2>3, FlattenSplit
<1> QED BY <1>2, <1>3, <1>7, <1>8, <1>9, <1>10 DEF c

LEMMA CentralOnlyOfRecord ==
    ASSUME NEW z \in Info
    PROVE  CentralOnly(CentralDirectory(z)) = <<Central(z)>>
<1> DEFINE c == Central(z)
           a == <<c>>
           b == Rest(Len(CentralExtra(z)))
           n == Len(CentralExtra(z))
<1>1. c \in DirCell /\ c.kind = "central"
  BY CellsOfRecord DEF DirCell, CentralCell
<1>2. n \in Nat
  BY CellsOfRecord
<1>3. b \in Seq(DirCell) /\ Len(b) = n /\ \A k \in 1 .. n : b[k].kind = "rest"
  <2> HIDE DEF n
  <2>1. Rest(n) \in Seq(DirCell) /\ Len(Rest(n)) = n /\ \A k \in 1 .. n : Rest(n)[k].kind = "rest"
    BY <1>2 DEF Rest, DirCell, RestCell
  <2> QED BY <2>1 DEF n
<1> HIDE DEF c
<1>4. a \in Seq(DirCell)
  BY <1>1
<1>5. CentralOnly(b) = <<>>
  <2> HIDE DEF b, n
  <2>1. CentralOnly(b) = FlattenSeq(Marks(b)) /\ Len(Marks(b)) = n
    BY <1>3, MarksAreSeqs
  <2>2. Marks(b) \in [1 .. n -> Seq({})]
    <3>1. DOMAIN b = 1 .. n
      BY <1>3
    <3>2. \A k \in 1 .. n : Marks(b)[k] = <<>>
      BY <1>3, <3>1 DEF Marks
    <3>3. Marks(b) = [k \in 1 .. n |-> Marks(b)[k]]
      BY <3>1 DEF Marks
    <3>4. <<>> \in Seq({})
      OBVIOUS
    <3>5. \A k \in 1 .. n : Marks(b)[k] \in Seq({})
      BY <3>2, <3>4
    <3> HIDE DEF Marks
    <3> QED BY <3>3, <3>5
  <2>3. Marks(b) \in Seq(Seq({}))
    BY <1>2, <2>2
  <2>4. FlattenSeq(Marks(b)) \in Seq({})
    BY <2>3, FlattenType
  <2> QED BY <2>1, <2>4, OfNothing
<1>6. CentralOnly(a) = a
  <2> DEFINE m == Marks(a)
  <2>1. m \in Seq(Seq(DirCell)) /\ Len(m) = 1 /\ CentralOnly(a) = FlattenSeq(m)
    BY <1>4, MarksAreSeqs
  <2>2. m[1] = a
    BY <1>1 DEF Marks
  <2> HIDE DEF m, a
  <2>3. FlattenSeq(SubSeq(m, 0 + 1, 1)) = FlattenSeq(SubSeq(m, 0 + 1, 1 - 1)) \o m[1]
    <3>1. 0 \in Nat /\ 1 \in Nat /\ 0 < 1 /\ 1 <= Len(m) /\ m \in Seq(Seq(DirCell))
      BY <2>1
    <3> QED BY ONLY <3>1, FlattenPart
  <2>4. SubSeq(m, 0 + 1, 1) = m
    <3> DEFINE h == SubSeq(m, 0 + 1, 1)
    <3>1. h \in Seq(Seq(DirCell)) /\ Len(h) = 1 - 0 /\ \A k \in 1 .. 1 - 0 : h[k] = m[0 + k]
      BY <2>1, Slice
    <3> HIDE DEF h
    <3>2. Len(h) = Len(m) /\ \A k \in 1 .. Len(h) : h[k] = m[k]
      BY <3>1, <2>1
    <3>3. h = m
      BY <2>1, <3>1, <3>2, SameSeq
    <3> QED BY <3>3 DEF h
  <2>5. FlattenSeq(SubSeq(m, 0 + 1, 1 - 1)) = <<>>
    <3>1. FlattenSeq(SubSeq(m, 0 + 1, 0)) = <<>>
      BY FlattenNothing
    <3>2. 1 - 1 = 0
      OBVIOUS
    <3> QED BY <3>1, <3>2
  <2>6. <<>> \o a = a
    BY <1>4, ConcatEmptySeq
  <2> QED BY <2>1, <2>2, <2>3, <2>4, <2>5, <2>6
<1>7. CentralOnly(a \o b) = CentralOnly(a) \o CentralOnly(b)
  <2> HIDE DEF a, b
  <2> QED BY <1>3, <1>4, CentralOnlyJoins
<1>8. a \o <<>> = a
  <2> HIDE DEF a
  <2> QED BY <1>4, ConcatEmptySeq
<1>9. CentralDirectory(z) = a \o b
  BY CentralIs DEF c
<1> QED BY <1>5, <1>6, <1>7, <1>8, <1>9 DEF c

(* What is read of a directory: the record of each member, in order.        *)
LEMMA DirectoryIsRead ==
    ASSUME NEW zs \in Seq(Info)
    PROVE  CentralOnly(DirectoryCells(zs)) = [i \in 1 .. Len(zs) |-> Central(zs[i])]
<1> DEFINE recs == [i \in DOMAIN zs |-> CentralDirectory(zs[i])]
           N == Len(zs)
           D(m) == FlattenSeq(SubSeq(recs, 0 + 1, m))
           Read(m) == CentralOnly(D(m)) = [i \in 1 .. m |-> Central(zs[i])]
           Bad == {m \in 1 .. N : ~Read(m)}
<1>1. /\ recs \in Seq(Seq(DirCell)) /\ Len(recs) = N /\ N \in Nat
      /\ \A i \in 1 .. N : zs[i] \in Info /\ recs[i] = CentralDirectory(zs[i])
  BY DirectoryIsCells
<1> HIDE DEF recs, N
<1>2. Read(0)
  <2>1. D(0) = <<>>
    BY FlattenNothing
  <2>2. CentralOnly(<<>>) = FlattenSeq(Marks(<<>>)) /\ Marks(<<>>) \in Seq(Seq({}))
    BY MarksAreSeqs, <<>> \in Seq({})
  <2>3. FlattenSeq(Marks(<<>>)) \in Seq({})
    BY <2>2, FlattenType
  <2>4. CentralOnly(<<>>) = <<>>
    BY <2>2, <2>3, OfNothing
  <2>5. [i \in 1 .. 0 |-> Central(zs[i])] = <<>>
    OBVIOUS
  <2> QED BY <2>1, <2>4, <2>5
<1>3. ASSUME NEW m \in 1 .. N, Read(m - 1) PROVE Read(m)
  <2> DEFINE q == [i \in 1 .. m - 1 |-> Central(zs[i])]
             r == [i \in 1 .. m |-> Central(zs[i])]
             c == Central(zs[m])
  <2>1. zs[m] \in Info /\ recs[m] = CentralDirectory(zs[m])
    BY <1>1
  <2>2. recs[m] \in Seq(DirCell) /\ D(m) = D(m - 1) \o recs[m]
    <3>1. 0 \in Nat /\ m \in Nat /\ 0 < m /\ m <= Len(recs)
      BY <1>1
    <3> QED BY <1>1, <3>1, FlattenPart
  <2>3. D(m - 1) \in Seq(DirCell)
    <3>1. m - 1 \in Nat /\ m - 1 <= Len(recs) /\ 0 <= m - 1
      BY <1>1
    <3>2. SubSeq(recs, 0 + 1, m - 1) \in Seq(Seq(DirCell))
      BY <1>1, <3>1, Slice
    <3> QED BY <3>2, FlattenType
  <2>4. CentralOnly(D(m)) = CentralOnly(D(m - 1)) \o CentralOnly(recs[m])
    <3> DEFINE a == D(m - 1)
    <3> HIDE DEF a
    <3>1. a \in Seq(DirCell)
      BY <2>3 DEF a
    <3>2. CentralOnly(a \o recs[m]) = CentralOnly(a) \o CentralOnly(recs[m])
      BY <2>2, <3>1, CentralOnlyJoins
    <3> QED BY <2>2, <3>2 DEF a
  <2>5. CentralOnly(recs[m]) = <<c>>
    BY <2>1, CentralOnlyOfRecord
  <2>6. CentralOnly(D(m)) = q \o <<c>>
    BY <1>3, <2>4, <2>5
  <2>7. q \o <<c>> = r
    <3>1. \A i \in 1 .. m : Central(zs[i]) \in CentralCell
      BY <1>1, CellsOfRecord
    <3>2. /\ q \in Seq(CentralCell) /\ Len(q) = m - 1
          /\ \A i \in 1 .. m - 1 : q[i] = Central(zs[i])
      BY <3>1
    <3>3. /\ r \in Seq(CentralCell) /\ Len(r) = m
          /\ \A i \in 1 .. m : r[i] = Central(zs[i])
      BY <3>1
    <3>4. <<c>> \in Seq(CentralCell) /\ Len(<<c>>) = 1 /\ <<c>>[1] = c
      BY <3>1
    <3> DEFINE t == <<c>>
    <3> HIDE DEF q, r, t
    <3>5. /\ q \o t \in Seq(CentralCell) /\ Len(q \o t) = Len(q) + Len(t)
          /\ \A k \in 1 .. Len(q) : (q \o t)[k] = q[k]
          /\ \A k \in 1 .. Len(t) : (q \o t)[Len(q) + k] = t[k]
      <4>1. q \in Seq(CentralCell) /\ t \in Seq(CentralCell)
        BY <3>2, <3>4 DEF t
      <4> QED BY ONLY <4>1, Joined
    <3>6. Len(q \o t) = m
      BY <3>2, <3>4, <3>5 DEF t
    <3>7. ASSUME NEW k \in 1 .. m PROVE (q \o t)[k] = r[k]
      <4>1. CASE k = m
        <5>1. 1 \in 1 .. Len(t) /\ Len(q) + 1 = k
          BY <3>2, <3>4, <4>1 DEF t
        <5> QED BY <3>3, <3>4, <3>5, <4>1, <5>1 DEF t, c
      <4>2. CASE k # m
        <5>1. k \in 1 .. m - 1
          BY <4>2
        <5> QED BY <3>2, <3>3, <3>5, <5>1
      <4> QED BY <4>1, <4>2
    <3>8. q \o t = r
      BY <3>3, <3>5, <3>6, <3>7, SameSeq
    <3> QED BY <3>8 DEF t
  <2> QED BY <2>6, <2>7
<1>4. ASSUME Bad # {} PROVE FALSE
  <2>1. PICK m \in Bad : \A k \in Bad : m <= k
    <3>1. Bad \subseteq 1 .. N
      OBVIOUS
    <3> HIDE DEF Bad
    <3> QED BY <1>1, <1>4, <3>1, LeastUpTo
  <2>2. m \in 1 .. N /\ ~Read(m)
    OBVIOUS
  <2> HIDE DEF Read
  <2>3. CASE m = 1
    <3>1. m - 1 = 0
      BY <2>3
    <3> QED BY <1>2, <1>3, <2>2, <3>1
  <2>4. CASE m # 1
    <3>1. m - 1 \in 1 .. N /\ ~(m <= m - 1)
      BY <1>1, <2>2, <2>4
    <3>2. m - 1 \notin Bad
      <4> HIDE DEF Bad
      <4> QED BY <2>1, <3>1
    <3> QED BY <1>3, <2>2, <3>1, <3>2
  <2> QED BY <2>3, <2>4
<1>5. Read(N)
  <2> HIDE DEF Read
  <2>1. CASE N = 0
    BY <1>2, <2>1
  <2>2. CASE N # 0
    <3>1. N \in 1 .. N
      BY <1>1, <2>2
    <3> QED BY <1>4, <3>1
  <2> QED BY <2>1, <2>2
<1>6. SubSeq(recs, 0 + 1, N) = recs
  <2> DEFINE h == SubSeq(recs, 0 + 1, N)
  <2>1. h \in Seq(Seq(DirCell)) /\ Len(h) = N - 0 /\ \A k \in 1 .. N - 0 : h[k] = recs[0 + k]
    BY <1>1, Slice
  <2> HIDE DEF h
  <2>2. Len(h) = Len(recs) /\ \A k \in 1 .. Len(h) : h[k] = recs[k]
    BY <1>1, <2>1
  <2>3. h = recs
    BY <1>1, <2>1, <2>2, SameSeq
  <2> QED BY <2>3 DEF h
<1> QED BY <1>5, <1>6 DEF DirectoryCells, recs, N

-----------------------------------------------------------------------------
(* A complete archive                                                       *)

DirLen(zs) == Len(DirectoryCells(zs))
EndOf(zs, sd) == EndRecords(Len(zs), DirLen(zs), sd)

(* A directory of zs behind the members, which it takes to begin at 0 and   *)
(* which p cells have been put in front of since.                           *)
Layout(d, zs, sd, p) ==
    /\ zs \in Seq(Info) /\ \A i \in 1 .. Len(zs) : VendorOK(zs[i])
    /\ sd \in Nat /\ p \in Nat
    /\ \E front \in Seq(FrontCell) :
          /\ Len(front) = sd + p
          /\ d = (front \o DirectoryCells(zs)) \o EndOf(zs, sd)

(* The end records, as the cells they are.                                  *)
LEMMA EndRecordsAre ==
    ASSUME NEW n \in Nat, NEW size \in Nat, NEW off \in Nat
    PROVE  /\ EndRecords(n, size, off) \in Seq(LastCell)
           /\ EndNeedsZip64(n, size, off) =>
                /\ Len(EndRecords(n, size, off)) = 3
                /\ EndRecords(n, size, off)[1].kind = "end64"
                /\ EndRecords(n, size, off)[1].size = size
                /\ EndRecords(n, size, off)[1].off = off
                /\ EndRecords(n, size, off)[2].kind = "locator"
                /\ EndRecords(n, size, off)[2].at = off + size
                /\ EndRecords(n, size, off)[3].kind = "end"
           /\ ~EndNeedsZip64(n, size, off) =>
                /\ Len(EndRecords(n, size, off)) = 1
                /\ EndRecords(n, size, off)[1].kind = "end"
                /\ EndRecords(n, size, off)[1].size = size
                /\ EndRecords(n, size, off)[1].off = off
<1> DEFINE a == [kind |-> "end64", count |-> n, size |-> size, off |-> off]
           b == [kind |-> "locator", at |-> off + size]
           c == [kind |-> "end", count |-> IF n < CountLimit THEN n ELSE CountLimit,
                 size |-> IF size < FieldMax THEN size ELSE FieldMax,
                 off |-> IF off < FieldMax THEN off ELSE FieldMax]
<1>1. FieldMax \in Nat /\ CountLimit \in Nat /\ Zip64Limit \in Nat /\ Zip64Limit < FieldMax
  BY RecordsAssumption
<1>2. a \in LastCell /\ b \in LastCell /\ c \in LastCell
  BY <1>1 DEF LastCell
<1>3. /\ a.kind = "end64" /\ b.kind = "locator" /\ c.kind = "end"
      /\ a.size = size /\ a.off = off /\ b.at = off + size
  OBVIOUS
<1>4. EndRecords(n, size, off) =
        (IF EndNeedsZip64(n, size, off) THEN <<a, b>> ELSE <<>>) \o <<c>>
  BY DEF EndRecords
<1>5. ~EndNeedsZip64(n, size, off) => c.size = size /\ c.off = off
  BY <1>1 DEF EndNeedsZip64
<1> HIDE DEF a, b, c
<1>6. CASE EndNeedsZip64(n, size, off)
  <2> DEFINE e == EndRecords(n, size, off)
             s == <<a, b>>
             t == <<c>>
  <2>1. s \in Seq(LastCell) /\ Len(s) = 2 /\ s[1] = a /\ s[2] = b
    BY <1>2
  <2>2. t \in Seq(LastCell) /\ Len(t) = 1 /\ t[1] = c
    BY <1>2
  <2>3. e = s \o t
    BY <1>4, <1>6
  <2> HIDE DEF s, t, e
  <2>4. /\ s \o t \in Seq(LastCell) /\ Len(s \o t) = Len(s) + Len(t)
        /\ \A k \in 1 .. Len(s) : (s \o t)[k] = s[k]
        /\ \A k \in 1 .. Len(t) : (s \o t)[Len(s) + k] = t[k]
    <3>1. s \in Seq(LastCell) /\ t \in Seq(LastCell)
      BY <2>1, <2>2
    <3> QED BY ONLY <3>1, Joined
  <2>5. 1 \in 1 .. Len(s) /\ 2 \in 1 .. Len(s) /\ 1 \in 1 .. Len(t) /\ Len(s) + 1 = 3
        /\ Len(s) + Len(t) = 3
    BY <2>1, <2>2
  <2>6. e \in Seq(LastCell) /\ Len(e) = 3 /\ e[1] = a /\ e[2] = b /\ e[3] = c
    BY <2>1, <2>2, <2>3, <2>4, <2>5
  <2> QED BY <1>3, <1>6, <2>6 DEF e
<1>7. CASE ~EndNeedsZip64(n, size, off)
  <2>1. <<c>> \in Seq(LastCell) /\ Len(<<c>>) = 1 /\ <<c>>[1] = c
    BY <1>2
  <2>2. <<>> \o <<c>> = <<c>>
    BY <2>1, ConcatEmptySeq
  <2>3. EndRecords(n, size, off) = <<c>>
    BY <1>4, <1>7, <2>2
  <2> QED BY <1>3, <1>5, <1>7, <2>1, <2>3
<1> QED BY <1>6, <1>7

(* The cells of a complete archive, one by one.                             *)
LEMMA LayoutCells ==
    ASSUME NEW d, NEW zs, NEW sd, NEW p, Layout(d, zs, sd, p)
    PROVE  /\ d \in Seq(Cell) /\ sd + p + DirLen(zs) \in Nat
           /\ DirLen(zs) \in Nat /\ Len(zs) \in Nat /\ sd \in Nat /\ p \in Nat
           /\ Len(d) = sd + p + DirLen(zs) + Len(EndOf(zs, sd))
           /\ \A k \in 1 .. sd + p : d[k] \in FrontCell
           /\ \A k \in 1 .. DirLen(zs) : d[sd + p + k] = DirectoryCells(zs)[k]
           /\ \A k \in 1 .. Len(EndOf(zs, sd)) :
                 d[sd + p + DirLen(zs) + k] = EndOf(zs, sd)[k]
           /\ \A k \in 1 .. sd + p + DirLen(zs) :
                 d[k].kind \notin {"end", "end64", "locator"}
<1> DEFINE r == DirectoryCells(zs)
           D == DirLen(zs)
           E == EndOf(zs, sd)
<1>1. sd \in Nat /\ p \in Nat /\ zs \in Seq(Info) /\ Len(zs) \in Nat
  BY DEF Layout
<1>2. r \in Seq(DirCell) /\ D = Len(r) /\ D \in Nat
  <2>1. r \in Seq(DirCell)
    BY <1>1, DirectoryIsCells
  <2>2. D = Len(r)
    BY DEF DirLen
  <2> HIDE DEF r, D
  <2> QED BY <2>1, <2>2
<1>3. E \in Seq(LastCell)
  BY <1>1, <1>2, EndRecordsAre DEF EndOf
<1>4. PICK front \in Seq(FrontCell) : Len(front) = sd + p /\ d = (front \o r) \o E
  BY DEF Layout, E
<1> DEFINE a == front \o r
           F == sd + p
<1> HIDE DEF r, F, D, E
<1>5. F \in Nat /\ Len(front) = F
  BY <1>1, <1>4 DEF F
<1>6. front \in Seq(Cell) /\ r \in Seq(Cell) /\ E \in Seq(Cell)
  BY <1>2, <1>3, <1>4 DEF Cell
<1>7. /\ a \in Seq(Cell) /\ Len(a) = Len(front) + Len(r)
      /\ \A k \in 1 .. Len(front) : a[k] = front[k]
      /\ \A k \in 1 .. Len(r) : a[Len(front) + k] = r[k]
  BY ONLY <1>6, Joined
<1> HIDE DEF a
<1>8. /\ a \o E \in Seq(Cell) /\ Len(a \o E) = Len(a) + Len(E)
      /\ \A k \in 1 .. Len(a) : (a \o E)[k] = a[k]
      /\ \A k \in 1 .. Len(E) : (a \o E)[Len(a) + k] = E[k]
  <2>1. a \in Seq(Cell)
    BY <1>7
  <2> QED BY ONLY <1>6, <2>1, Joined
<1>9. Len(a) = F + D /\ d = a \o E
  BY <1>2, <1>4, <1>5, <1>7 DEF a
<1>10. Len(E) \in Nat
  BY <1>3
<1>11. \A k \in 1 .. F : d[k] \in FrontCell /\ k \in 1 .. F + D /\ d[k] = front[k]
  <2> TAKE k \in 1 .. F
  <2>1. k \in 1 .. F + D /\ k \in 1 .. Len(front)
    BY <1>2, <1>5
  <2>2. front[k] \in FrontCell
    BY <1>4, <2>1
  <2> QED BY <1>7, <1>8, <1>9, <2>1, <2>2
<1>12. \A k \in 1 .. D : F + k \in 1 .. F + D /\ d[F + k] = r[k] /\ r[k] \in DirCell
  <2> TAKE k \in 1 .. D
  <2>1. F + k \in 1 .. F + D /\ k \in 1 .. Len(r)
    BY <1>2, <1>5
  <2>2. r[k] \in DirCell
    BY <1>2, <2>1
  <2> QED BY <1>5, <1>7, <1>8, <1>9, <2>1, <2>2
<1>13. ASSUME NEW k \in 1 .. F + D PROVE d[k].kind \notin {"end", "end64", "locator"}
  <2>1. CASE k \in 1 .. F
    BY <1>11, <2>1, Kinds
  <2>2. CASE k \notin 1 .. F
    <3>1. k - F \in 1 .. D /\ F + (k - F) = k
      BY <1>2, <1>5, <2>2
    <3>2. d[k] \in DirCell
      BY <1>12, <3>1
    <3> QED BY <3>2, Kinds
  <2> QED BY <2>1, <2>2
<1>14. Len(d) = F + D + Len(E) /\ \A k \in 1 .. Len(E) : d[F + D + k] = E[k]
  BY <1>8, <1>9
<1>15. d \in Seq(Cell) /\ F + D \in Nat
  BY <1>2, <1>5, <1>8, <1>9
<1>16. /\ d \in Seq(Cell) /\ F + D \in Nat
       /\ D \in Nat /\ Len(zs) \in Nat /\ sd \in Nat /\ p \in Nat
       /\ Len(d) = F + D + Len(E)
       /\ \A k \in 1 .. F : d[k] \in FrontCell
       /\ \A k \in 1 .. D : d[F + k] = r[k]
       /\ \A k \in 1 .. Len(E) : d[F + D + k] = E[k]
       /\ \A k \in 1 .. F + D : d[k].kind \notin {"end", "end64", "locator"}
  BY <1>1, <1>2, <1>11, <1>12, <1>13, <1>14, <1>15
<1> QED BY <1>16 DEF F, r, D, E

LEMMA EndIsFound ==
    ASSUME NEW d, NEW zs, NEW sd, NEW p, Layout(d, zs, sd, p)
    PROVE  EndRecData(d) = [size |-> DirLen(zs), off |-> sd,
                            location |-> sd + p + DirLen(zs)]
<1> DEFINE D == DirLen(zs)
           m == Len(zs)
           E == EndOf(zs, sd)
           e == Len(d)
           F == sd + p
           ends == {x \in DOMAIN d : d[x].kind = "end" /\ Len(d) - x <= TailCells}
           found == [size |-> D, off |-> sd, location |-> F + D]
<1>1. /\ d \in Seq(Cell) /\ D \in Nat /\ m \in Nat /\ sd \in Nat /\ p \in Nat
      /\ Len(d) = F + D + Len(E)
      /\ \A k \in 1 .. Len(E) : d[F + D + k] = E[k]
      /\ \A k \in 1 .. F + D : d[k].kind \notin {"end", "end64", "locator"}
  BY LayoutCells
<1> HIDE DEF D, m
<1>2. /\ EndNeedsZip64(m, D, sd) =>
                /\ Len(E) = 3
                /\ E[1].kind = "end64" /\ E[1].size = D /\ E[1].off = sd
                /\ E[2].kind = "locator" /\ E[2].at = sd + D
                /\ E[3].kind = "end"
      /\ ~EndNeedsZip64(m, D, sd) =>
                /\ Len(E) = 1
                /\ E[1].kind = "end" /\ E[1].size = D /\ E[1].off = sd
  <2>1. E = EndRecords(m, D, sd)
    BY DEF EndOf, D, m
  <2> HIDE DEF E
  <2>2. m \in Nat /\ D \in Nat /\ sd \in Nat
    BY <1>1
  <2> DEFINE R == EndRecords(m, D, sd)
  <2>3. /\ EndNeedsZip64(m, D, sd) =>
                /\ Len(R) = 3
                /\ R[1].kind = "end64" /\ R[1].size = D /\ R[1].off = sd
                /\ R[2].kind = "locator" /\ R[2].at = sd + D
                /\ R[3].kind = "end"
        /\ ~EndNeedsZip64(m, D, sd) =>
                /\ Len(R) = 1
                /\ R[1].kind = "end" /\ R[1].size = D /\ R[1].off = sd
    BY ONLY <2>2, EndRecordsAre
  <2> HIDE DEF R
  <2> QED BY <2>1, <2>3, Zenon DEF R
<1> HIDE DEF E
<1>3. /\ F \in Nat /\ e \in Nat /\ e = F + D + Len(E) /\ Len(E) \in {1, 3}
      /\ F = sd + p
  BY <1>1, <1>2
<1> HIDE DEF F
<1>4. d[e] = E[Len(E)] /\ d[e].kind = "end" /\ e \in DOMAIN d
  <2> DEFINE l == Len(E)
  <2>1. /\ e = F + D + l /\ l \in {1, 3} /\ D \in Nat /\ F \in Nat
        /\ \A k \in 1 .. l : d[F + D + k] = E[k]
        /\ EndNeedsZip64(m, D, sd) => l = 3 /\ E[3].kind = "end"
        /\ ~EndNeedsZip64(m, D, sd) => l = 1 /\ E[1].kind = "end"
    BY <1>1, <1>2, <1>3
  <2> HIDE DEF l, e
  <2>2. l \in 1 .. l /\ e \in 1 .. e
    BY ONLY <2>1
  <2>3. d[e] = E[l] /\ E[l].kind = "end"
    BY ONLY <2>1, <2>2
  <2>4. DOMAIN d = 1 .. e
    BY <1>1 DEF e
  <2> QED BY <2>2, <2>3, <2>4 DEF l
<1>0. D \in Nat
  BY <1>1
<1>5. (CHOOSE x \in ends : \A y \in ends : y <= x) = e /\ ends # {}
  <2>1. e \in ends
    BY <1>1, <1>3, <1>4, RecordsAssumption
  <2>2. \A x \in ends : x \in Nat /\ x <= e
    BY <1>1
  <2> HIDE DEF ends, e
  <2>3. \A x \in ends : (\A y \in ends : y <= x) => x = e
    BY <1>3, <2>1, <2>2
  <2> QED BY <2>1, <2>2, <2>3
<1>6. EndRecData(d) = IF e > 2 /\ d[e - 1].kind = "locator"
                      THEN EndRecData64(d, e - 1)
                      ELSE [size |-> d[e].size, off |-> d[e].off, location |-> e - 1]
  <2>1. EndRecData(d) =
          IF ends = {} THEN NotAZip
          ELSE IF /\ (CHOOSE x \in ends : \A y \in ends : y <= x) > 2
                  /\ d[(CHOOSE x \in ends : \A y \in ends : y <= x) - 1].kind = "locator"
               THEN EndRecData64(d, (CHOOSE x \in ends : \A y \in ends : y <= x) - 1)
               ELSE [size |-> d[CHOOSE x \in ends : \A y \in ends : y <= x].size,
                     off |-> d[CHOOSE x \in ends : \A y \in ends : y <= x].off,
                     location |-> (CHOOSE x \in ends : \A y \in ends : y <= x) - 1]
    BY Zenon DEF EndRecData
  <2> HIDE DEF ends, e
  <2> QED BY <1>5, <2>1, Zenon
<1> HIDE DEF ends, e
<1>7. CASE ~EndNeedsZip64(m, D, sd)
  <2>0. Len(E) = 1
    BY <1>2, <1>7
  <2>1. Len(E) = 1 /\ e - 1 = F + D
    BY ONLY <1>3, <2>0, <1>0
  <2>2. ~(e > 2 /\ d[e - 1].kind = "locator")
    <3>1. e > 2 => e - 1 \in 1 .. F + D
      BY <1>1, <1>3, <2>1
    <3> QED BY <1>1, <3>1
  <2>3. d[e].size = D /\ d[e].off = sd
    BY <1>2, <1>4, <1>7, <2>1
  <2> QED BY <1>3, <1>6, <2>1, <2>2, <2>3 DEF F, D
<1>8. CASE EndNeedsZip64(m, D, sd)
  <2>0. Len(E) = 3
    BY <1>2, <1>8
  <2>1. Len(E) = 3 /\ e - 1 = F + D + 2 /\ e > 2 /\ F + D \in Nat
    BY ONLY <1>3, <2>0, <1>0
  <2>2. d[F + D + 1] = E[1] /\ d[F + D + 2] = E[2]
    <3>1. 1 \in 1 .. Len(E) /\ 2 \in 1 .. Len(E)
      BY <2>1
    <3> QED BY <1>1, <3>1
  <2>3. /\ d[F + D + 1].kind = "end64" /\ d[F + D + 1].size = D
        /\ d[F + D + 1].off = sd
        /\ d[e - 1].kind = "locator" /\ d[e - 1].at = sd + D
    BY <1>2, <1>8, <2>1, <2>2
  <2> DEFINE at == (e - 1) - 2
             reloff == d[e - 1].at
             start == IF d[reloff + 1].kind = "end64" THEN reloff ELSE at
             rec == d[start + 1]
  <2>4. at = F + D /\ reloff = sd + D /\ sd + D \in Nat /\ F + D = (sd + D) + p
    <3>1. D \in Nat /\ sd \in Nat /\ p \in Nat /\ F = sd + p
      BY <1>1, <1>3
    <3>2. (e - 1) - 2 = F + D
      BY ONLY <2>1, <3>1, <1>3
    <3>3. sd + D \in Nat /\ F + D = (sd + D) + p
      BY ONLY <3>1
    <3> QED BY <2>3, <3>2, <3>3
  <2>5. start = at
    <3>1. CASE p = 0
      BY <1>1, <2>4, <3>1
    <3>2. CASE p # 0
      <4>1. (sd + D) + 1 \in 1 .. F + D
        BY <1>1, <1>3, <2>4, <3>2
      <4>2. d[(sd + D) + 1].kind # "end64"
        BY <1>1, <4>1
      <4> QED BY <2>4, <4>2
    <3> QED BY <3>1, <3>2
  <2>6. rec.kind = "end64" /\ rec.size = D /\ rec.off = sd
    BY <2>3, <2>4, <2>5
  <2>7. EndRecData64(d, e - 1) =
          IF /\ reloff <= at /\ start = at
             /\ rec.kind = "end64" /\ rec.off + rec.size = reloff
          THEN [size |-> rec.size, off |-> rec.off, location |-> at]
          ELSE NotAZip
    BY DEF EndRecData64
  <2>8. /\ rec.kind = "end64" /\ rec.off + rec.size = reloff
        /\ rec.size = D /\ rec.off = sd
    BY <2>4, <2>6
  <2>9. reloff <= at
    BY <1>1, <2>4
  <2> HIDE DEF at, reloff, start, rec
  <2>10. EndRecData64(d, e - 1) = [size |-> D, off |-> sd, location |-> at]
    BY <2>5, <2>7, <2>8, <2>9
  <2> QED BY <1>6, <2>1, <2>3, <2>4, <2>10 DEF F, D
<1> QED BY <1>7, <1>8

(* A complete archive is read as it was written.                            *)
LEMMA LayoutReads ==
    ASSUME NEW d, NEW zs, NEW sd, NEW p, Layout(d, zs, sd, p)
    PROVE  /\ StartDir(EndRecData(d)) = sd + p
           /\ GetContents(d) = [i \in 1 .. Len(zs) |-> Decoded(zs[i], p)]
           /\ CanBeRead(d)
<1> DEFINE D == DirLen(zs)
           r == DirectoryCells(zs)
           end == EndRecData(d)
           F == sd + p
<1>1. /\ d \in Seq(Cell) /\ D \in Nat /\ Len(zs) \in Nat /\ sd \in Nat /\ p \in Nat
      /\ Len(d) >= F + D
      /\ \A k \in 1 .. D : d[F + k] = r[k]
      /\ zs \in Seq(Info) /\ \A i \in 1 .. Len(zs) : VendorOK(zs[i])
  <2>1. /\ d \in Seq(Cell) /\ D \in Nat /\ Len(zs) \in Nat /\ sd \in Nat /\ p \in Nat
        /\ Len(d) = F + D + Len(EndOf(zs, sd))
        /\ \A k \in 1 .. D : d[F + k] = r[k]
    BY LayoutCells
  <2>2. Len(EndOf(zs, sd)) \in Nat
    <3>1. EndOf(zs, sd) \in Seq(LastCell)
      BY <2>1, EndRecordsAre DEF EndOf
    <3> QED BY <3>1
  <2>3. zs \in Seq(Info) /\ \A i \in 1 .. Len(zs) : VendorOK(zs[i])
    BY DEF Layout
  <2> HIDE DEF D, r
  <2> QED BY <2>1, <2>2, <2>3
<1>2. r \in Seq(DirCell)
  BY <1>1, DirectoryIsCells
<1>3. end.size = D /\ end.off = sd /\ end.location = F + D
  BY EndIsFound
<1> HIDE DEF end
<1>4. F \in Nat
  BY <1>1
<1> HIDE DEF D, F
<1>5. StartDir(end) = F
  BY <1>1, <1>3, <1>4 DEF StartDir
<1>6. Concat(end) = p
  <2>1. F - sd = p
    BY <1>1 DEF F
  <2> QED BY <1>3, <1>5, <2>1 DEF Concat
<1>7. SubSeq(d, F + 1, F + D) = r
  <2> DEFINE h == SubSeq(d, F + 1, F + D)
  <2>1. F + D \in Nat /\ F <= F + D /\ F + D <= Len(d) /\ (F + D) - F = D
    BY <1>1, <1>4
  <2>2. h \in Seq(Cell) /\ Len(h) = (F + D) - F /\ \A k \in 1 .. (F + D) - F : h[k] = d[F + k]
    <3>1. d \in Seq(Cell)
      BY <1>1
    <3> QED BY ONLY <1>4, <2>1, <3>1, Slice
  <2> HIDE DEF h
  <2>3. r \in Seq(Cell) /\ Len(r) = D
    BY <1>2 DEF Cell, D, DirLen
  <2>4. Len(h) = Len(r) /\ \A k \in 1 .. Len(h) : h[k] = r[k]
    BY <1>1, <2>1, <2>2, <2>3
  <2> HIDE DEF r
  <2>5. h = r
    BY <2>2, <2>3, <2>4, SameSeq
  <2> QED BY <2>5 DEF h
<1>8. DirectoryAt(d, end) = [i \in 1 .. Len(zs) |-> Central(zs[i])]
  BY <1>1, <1>3, <1>5, <1>7, DirectoryIsRead DEF DirectoryAt
<1>9. GetContents(d) = [i \in 1 .. Len(zs) |-> Decoded(zs[i], p)]
  <2> DEFINE cells == DirectoryAt(d, end)
  <2>1. GetContents(d) = [i \in DOMAIN cells |-> ReadRecord(cells[i], p)]
    BY <1>6 DEF GetContents, end
  <2>2. DOMAIN cells = 1 .. Len(zs) /\ \A i \in 1 .. Len(zs) : cells[i] = Central(zs[i])
    BY <1>8
  <2> HIDE DEF cells
  <2>3. \A i \in 1 .. Len(zs) : ReadRecord(cells[i], p) = Decoded(zs[i], p)
    <3> TAKE i \in 1 .. Len(zs)
    <3>1. zs[i] \in Info /\ VendorOK(zs[i])
      BY <1>1
    <3> QED BY <2>2, <3>1, DecodesBack
  <2> QED BY <2>1, <2>2, <2>3
<1>10. CanBeRead(d)
  <2>1. end # NotAZip
    BY <1>1, <1>3, <1>4 DEF NotAZip
  <2>2. ASSUME NEW k \in F + 1 .. F + D PROVE d[k].kind \in {"central", "rest"}
    <3>1. k - F \in 1 .. D /\ F + (k - F) = k
      BY <1>1, <1>4
    <3>2. d[k] = r[k - F] /\ r[k - F] \in DirCell
      <4>1. Len(r) = D
        BY DEF D, DirLen
      <4> HIDE DEF r
      <4>2. r[k - F] \in DirCell
        BY <1>2, <3>1, <4>1
      <4> QED BY <1>1, <3>1, <4>2
    <3> QED BY <3>2, Kinds
  <2>3. \A i \in DOMAIN GetContents(d) : ~GetContents(d)[i].bad
    BY <1>9 DEF Decoded
  <2> QED BY <1>3, <1>4, <1>5, <2>1, <2>2, <2>3 DEF CanBeRead, end
<1> QED BY <1>5, <1>9, <1>10 DEF F, end

-----------------------------------------------------------------------------
(* A member and its ZipInfo                                                 *)

Truth == [serial : Nat, scheme : Schemes, body : Bodies, recast : BOOLEAN]

IsAes(scheme) == scheme \notin {"none", "zip"}

(* The cells of a member's encryption header and trailer, and all that its  *)
(* compressed size counts.                                                  *)
HeaderLen(scheme) == IF scheme = "none" THEN 0 ELSE 1
TrailerLen(scheme) == IF IsAes(scheme) THEN 1 ELSE 0
Stored(t) == HeaderLen(t.scheme) + t.body.psize + TrailerLen(t.scheme)

(* What a ZipInfo must say of the member t.                                 *)
InfoOK(z, t) ==
    /\ z \in Info /\ VendorOK(z)
    /\ z.fsize = t.body.fsize /\ z.csize = Stored(t)
    /\ z.enc = (t.scheme # "none")
    /\ IsAes(t.scheme) => z.vendor
    /\ ~IsAes(t.scheme) /\ ~t.recast => ~z.vendor
    /\ z.crc = t.serial \/ (z.vendor /\ z.version = 2)
    /\ t.scheme = "zip" => z.dd

(* LocalRecordsAgree, for numbers.                                          *)
SizesSpoken(d, off, dd, fsize, csize) ==
    LET local == d[off + 1]
        wide == {k \in DOMAIN local.extra : local.extra[k].id = "zip64"}
        size(n, k) == IF n = FieldMax
                      THEN local.extra[CHOOSE w \in wide : TRUE].values[k] ELSE n
        trailer == d[off + 1 + Len(local.extra) + csize + 1]
    IN  IF dd
        THEN /\ trailer.kind = "desc" /\ (trailer.wide <=> wide # {})
             /\ trailer.fsize = fsize /\ trailer.csize = csize
             /\ ~trailer.wide => fsize <= FieldMax /\ csize <= FieldMax
        ELSE size(local.fsize, 1) = fsize /\ size(local.csize, 2) = csize

(* The member t lies in d at off, with a data descriptor or without.        *)
Start(d, off) == off + 1 + Len(d[off + 1].extra)
Member(d, off, dd, t) ==
    /\ d[off + 1].kind = "local" /\ Len(d[off + 1].extra) \in Nat
    /\ t.scheme = "zip" => d[Start(d, off) + 1].kind = "keys"
    /\ IsAes(t.scheme) => d[Start(d, off) + 1].kind = "salt"
    /\ \A k \in 1 .. t.body.psize :
          d[Start(d, off) + HeaderLen(t.scheme) + k]
            = Chunk(t.serial, k, Cipher(t.scheme), t.body)
    /\ IsAes(t.scheme) => d[Start(d, off) + Stored(t)] = Hmac(t.serial)
    /\ SizesSpoken(d, off, dd, t.body.fsize, Stored(t))
MemberLen(d, off, dd, t) ==
    1 + Len(d[off + 1].extra) + Stored(t) + (IF dd THEN 1 ELSE 0)

LEMMA SizesOf ==
    ASSUME NEW t \in Truth
    PROVE  /\ t.body.fsize \in Nat \ {0} /\ t.body.psize \in Nat \ {0}
           /\ t.serial \in Nat /\ t.recast \in BOOLEAN
           /\ t.scheme \in {"none", "zip", "aes", "aes1", "aes2"}
           /\ HeaderLen(t.scheme) \in {0, 1} /\ TrailerLen(t.scheme) \in {0, 1}
           /\ Stored(t) \in Nat /\ Stored(t) >= HeaderLen(t.scheme) + t.body.psize
           /\ Stored(t) = HeaderLen(t.scheme) + t.body.psize + TrailerLen(t.scheme)
<1>1. t.body \in [fsize : Nat \ {0}, psize : Nat \ {0}]
      /\ t.scheme \in {"none", "zip", "aes", "aes1", "aes2"}
  BY RoundTripAssumption DEF Truth
<1>2. t.body.fsize \in Nat \ {0} /\ t.body.psize \in Nat \ {0}
  BY <1>1
<1>3. t.serial \in Nat /\ t.recast \in BOOLEAN
  BY DEF Truth
<1>4. HeaderLen(t.scheme) \in {0, 1} /\ TrailerLen(t.scheme) \in {0, 1}
  BY DEF HeaderLen, TrailerLen
<1> DEFINE h == HeaderLen(t.scheme)  r == TrailerLen(t.scheme)  p == t.body.psize
<1>5. Stored(t) = h + p + r
  BY DEF Stored
<1> HIDE DEF h, r, p
<1>6. h \in {0, 1} /\ r \in {0, 1} /\ p \in Nat \ {0}
  BY <1>2, <1>4 DEF h, r, p
<1>7. h + p + r \in Nat /\ h + p + r >= h + p
  BY ONLY <1>6
<1> QED BY <1>1, <1>2, <1>3, <1>4, <1>5, <1>7 DEF h, r, p

(* Where the cells of a member are the same, there is the same member.      *)
LEMMA MemberStays ==
    ASSUME NEW d, NEW e, NEW off \in Nat, NEW at \in Nat, NEW dd,
           NEW t \in Truth, Member(d, off, dd, t),
           \A k \in 1 .. MemberLen(d, off, dd, t) : e[at + k] = d[off + k]
    PROVE  /\ Member(e, at, dd, t)
           /\ MemberLen(e, at, dd, t) = MemberLen(d, off, dd, t)
           /\ MemberLen(e, at, dd, t) \in Nat
<1> DEFINE n == Len(d[off + 1].extra)
           h == HeaderLen(t.scheme)
           p == t.body.psize
           c == Stored(t)
           L == MemberLen(d, off, dd, t)
<1>1. /\ p \in Nat \ {0} /\ h \in {0, 1} /\ c \in Nat /\ c >= h + p
      /\ IsAes(t.scheme) => c = h + p + 1
  BY SizesOf DEF TrailerLen
<1>2. n \in Nat /\ L = 1 + n + c + (IF dd THEN 1 ELSE 0)
  BY DEF Member, MemberLen
<1> HIDE DEF n, h, p, c, L
<1>3. L \in Nat /\ L >= 1 + n + c /\ (dd => L = 1 + n + c + 1)
  BY ONLY <1>1, <1>2
<1>4. \A k \in 1 .. L : e[at + k] = d[off + k]
  BY DEF L
<1>5. e[at + 1] = d[off + 1]
  <2>1. 1 \in 1 .. L
    BY ONLY <1>1, <1>2, <1>3
  <2> QED BY <1>4, <2>1
<1>6. ASSUME NEW k \in 1 .. c PROVE e[at + 1 + n + k] = d[off + 1 + n + k]
  <2>1. 1 + n + k \in 1 .. L /\ at + (1 + n + k) = at + 1 + n + k
        /\ off + (1 + n + k) = off + 1 + n + k
    BY ONLY <1>1, <1>2, <1>3, k \in 1 .. c, at \in Nat, off \in Nat
  <2>2. e[at + (1 + n + k)] = d[off + (1 + n + k)]
    BY <1>4, <2>1
  <2> QED BY <2>1, <2>2
<1>7. Start(d, off) = off + 1 + n /\ Start(e, at) = at + 1 + n
  BY <1>5 DEF Start, n
<1>8. t.scheme # "none" => e[Start(e, at) + 1] = d[Start(d, off) + 1]
  <2>1. 1 \in 1 .. c
    BY ONLY <1>1
  <2> QED BY <1>6, <1>7, <2>1
<1>9. ASSUME NEW k \in 1 .. p
      PROVE  e[Start(e, at) + h + k] = Chunk(t.serial, k, Cipher(t.scheme), t.body)
  <2>1. h + k \in 1 .. c /\ at + 1 + n + (h + k) = at + 1 + n + h + k
        /\ off + 1 + n + (h + k) = off + 1 + n + h + k
    BY ONLY <1>1, <1>2, k \in 1 .. p, at \in Nat, off \in Nat
  <2>2. e[at + 1 + n + (h + k)] = d[off + 1 + n + (h + k)]
    BY <1>6, <2>1
  <2>3. d[Start(d, off) + h + k] = Chunk(t.serial, k, Cipher(t.scheme), t.body)
    BY DEF Member, h, p
  <2> QED BY <1>7, <2>1, <2>2, <2>3
<1>10. IsAes(t.scheme) => e[Start(e, at) + c] = Hmac(t.serial)
  <2>1. c \in 1 .. c
    BY ONLY <1>1
  <2>2. IsAes(t.scheme) => d[Start(d, off) + c] = Hmac(t.serial)
    BY DEF Member, c
  <2> QED BY <1>6, <1>7, <2>1, <2>2
<1>11. SizesSpoken(e, at, dd, t.body.fsize, c)
  <2>1. SizesSpoken(d, off, dd, t.body.fsize, c)
    BY DEF Member, c
  <2>2. dd => e[at + 1 + n + c + 1] = d[off + 1 + n + c + 1]
    <3>1. dd => 1 + n + c + 1 \in 1 .. L
      BY ONLY <1>1, <1>2, <1>3
    <3>2. dd => e[at + (1 + n + c + 1)] = d[off + (1 + n + c + 1)]
      BY <1>4, <3>1
    <3>3. at + (1 + n + c + 1) = at + 1 + n + c + 1
          /\ off + (1 + n + c + 1) = off + 1 + n + c + 1
      BY ONLY <1>1, <1>2, at \in Nat, off \in Nat
    <3> QED BY <3>2, <3>3
  <2>3. CASE dd
    BY <1>5, <2>1, <2>2, <2>3 DEF SizesSpoken, n
  <2>4. CASE ~dd
    BY <1>5, <2>1, <2>4 DEF SizesSpoken
  <2> QED BY <2>3, <2>4
<1>12. MemberLen(e, at, dd, t) = L
  BY <1>2, <1>5 DEF MemberLen, c, n
<1>13. Member(e, at, dd, t)
  <2>1. e[at + 1].kind = "local" /\ Len(e[at + 1].extra) \in Nat
    BY <1>5 DEF Member
  <2>2. /\ t.scheme = "zip" => e[Start(e, at) + 1].kind = "keys"
        /\ IsAes(t.scheme) => e[Start(e, at) + 1].kind = "salt"
    BY <1>8 DEF Member, IsAes
  <2> QED BY <1>9, <1>10, <1>11, <2>1, <2>2 DEF Member, h, p, c
<1> QED BY <1>3, <1>12, <1>13 DEF L

-----------------------------------------------------------------------------
(* The invariant                                                            *)

Types ==
    /\ disk \in Seq(Cell) /\ filelist \in Seq(Info) /\ truth \in Seq(Truth)
    /\ Len(truth) = Len(filelist)
    /\ start_dir \in Nat /\ prefix \in Nat /\ writes \in Nat
    /\ mode \in {"w", "a", "r", "closed"}
    /\ seekable \in BOOLEAN /\ didModify \in BOOLEAN
    /\ reserved \in BOOLEAN /\ sealed \in BOOLEAN
    /\ kept \in Info /\ VendorOK(kept)

(* The members lie one behind the other below the directory, and nothing    *)
(* that is taken for a record of the directory does.                        *)
InPlace(d, z, p, t, top) ==
    /\ InfoOK(z, t)
    /\ Member(d, z.off + p, z.dd, t)
    /\ z.off + p + MemberLen(d, z.off + p, z.dd, t) <= top
InOrder(d, zs, p, ts) ==
    \A i, j \in 1 .. Len(zs) :
        i < j => zs[i].off + MemberLen(d, zs[i].off + p, zs[i].dd, ts[i])
                    <= zs[j].off
Holds(d, zs, p, ts, top) ==
    /\ top <= Len(d)
    /\ \A k \in 1 .. top : d[k] \in FrontCell
    /\ \A i \in 1 .. Len(zs) : InPlace(d, zs[i], p, ts[i], top)
    /\ InOrder(d, zs, p, ts)
Below == Holds(disk, filelist, prefix, truth, start_dir + prefix)

(* An open handle has its header where the directory was, and will list    *)
(* what it writes.                                                          *)
HeaderCells == FileHeader(handle.info, handle.zip64)
               \o EncryptionHeader(handle.scheme)
HandleOK ==
    /\ mode \in {"w", "a"} /\ reserved /\ didModify
    /\ handle.scheme \in Schemes /\ handle.zip64 \in BOOLEAN
    /\ handle.recast \in BOOLEAN
    /\ handle.info \in Info /\ VendorOK(handle.info)
    /\ handle.info.off = start_dir
    /\ handle.info.enc = (handle.scheme # "none")
    /\ handle.info.dd = (~seekable \/ handle.scheme = "zip")
    /\ IsAes(handle.scheme) => handle.info.vendor
    /\ ~IsAes(handle.scheme) /\ ~handle.recast => ~handle.info.vendor
    /\ handle.next = start_dir + Len(HeaderCells)
    /\ handle.next <= Len(disk)
    /\ mode = "w" => Len(disk) = handle.next
    /\ \A k \in 1 .. Len(HeaderCells) : disk[start_dir + k] = HeaderCells[k]

(* A mode and what it goes with.                                            *)
Session ==
    /\ mode # "closed" => prefix = 0 /\ ~sealed
    /\ mode = "w" => didModify /\ (~reserved => Len(disk) = start_dir)
    /\ mode \in {"a", "r"} => seekable
    /\ mode = "r" => ~didModify
    /\ handle # NoHandle => HandleOK

(* A file with a directory that lists what filelist does.                   *)
Lists(d, zs, sd, p) ==
    /\ Layout(d, zs, sd, p) /\ Len(zs) = Len(filelist)
    /\ sd + p = start_dir + prefix
    /\ \A i \in 1 .. Len(zs) :
          /\ zs[i].off + p = filelist[i].off + prefix
          /\ zs[i].dd = filelist[i].dd
          /\ InfoOK(zs[i], truth[i])
Unchanged == mode \in {"a", "r"} /\ ~didModify
Listed == (mode = "closed" /\ sealed) \/ Unchanged =>
              \E zs, sd, p : Lists(disk, zs, sd, p)

Inv == Types /\ Below /\ Session /\ Listed

-----------------------------------------------------------------------------
(* Reading a member                                                         *)

(* The scheme a ZipInfo is taken to mean, which is the one it was written   *)
(* with but for ZipCrypto with a version and AES without.                   *)
LEMMA FrameIs ==
    ASSUME NEW t \in Truth, NEW z, InfoOK(z, t)
    PROVE  /\ t.scheme = "none" => Frame(z) = "none"
           /\ t.scheme # "none" => Frame(z) = IF z.version # 0 THEN "aes" ELSE "zip"
           /\ Cipher(t.scheme) = IF IsAes(t.scheme) THEN "aes" ELSE t.scheme
           /\ Frame(z) # "none" <=> z.enc
           /\ HeaderLength(Frame(z)) = HeaderLen(t.scheme)
           /\ TrailerLength(Frame(z)) \in {0, 1}
           /\ Frame(z) = Cipher(t.scheme) =>
                 TrailerLength(Frame(z)) = TrailerLen(t.scheme)
           /\ Frame(z) # Cipher(t.scheme) =>
                 TrailerLength(Frame(z)) # TrailerLen(t.scheme)
<1>1. z.enc = (t.scheme # "none")
  BY DEF InfoOK
<1>2. t.scheme \in {"none", "zip", "aes", "aes1", "aes2"}
  BY SizesOf
<1>3. /\ t.scheme = "none" => Frame(z) = "none"
      /\ t.scheme # "none" => Frame(z) = IF z.version # 0 THEN "aes" ELSE "zip"
      /\ Cipher(t.scheme) = IF IsAes(t.scheme) THEN "aes" ELSE t.scheme
  BY <1>1, <1>2 DEF Frame, Cipher, IsAes
<1> DEFINE f == Frame(z)  y == Cipher(t.scheme)  c == t.scheme
<1>4. /\ f \in {"none", "aes", "zip"} /\ (f # "none" <=> z.enc)
      /\ f = "none" <=> c = "none"
      /\ y = IF c \in {"none", "zip"} THEN c ELSE "aes"
  BY <1>1, <1>2, <1>3 DEF IsAes
<1> HIDE DEF f, y, c
<1>5. /\ HeaderLength(f) = HeaderLen(c) /\ TrailerLength(f) \in {0, 1}
      /\ f = y => TrailerLength(f) = TrailerLen(c)
      /\ f # y => TrailerLength(f) # TrailerLen(c)
  <2>1. c \in {"none", "zip", "aes", "aes1", "aes2"}
    BY <1>2 DEF c
  <2>2. CASE f = "none"
    BY <1>4, <2>2 DEF HeaderLength, TrailerLength, HeaderLen, TrailerLen, IsAes
  <2>3. CASE f = "zip"
    BY <1>4, <2>1, <2>3 DEF HeaderLength, TrailerLength, HeaderLen, TrailerLen, IsAes
  <2>4. CASE f = "aes"
    BY <1>4, <2>1, <2>4 DEF HeaderLength, TrailerLength, HeaderLen, TrailerLen, IsAes
  <2> QED BY <1>4, <2>2, <2>3, <2>4
<1> QED BY <1>3, <1>4, <1>5 DEF f, y, c

(* What a payload decrypts to: what was written, or nothing of any member.  *)
LEMMA ContentIs ==
    ASSUME NEW d \in Seq(Cell), NEW z, NEW t \in Truth, InfoOK(z, t),
           Member(d, z.off, z.dd, t),
           z.off + MemberLen(d, z.off, z.dd, t) <= Len(d), NEW pwd,
           NEW cells,
           cells = SubSeq(d, Start(d, z.off) + HeaderLength(Frame(z)) + 1,
                          Start(d, z.off) + z.csize - TrailerLength(Frame(z)))
    PROVE  /\ Frame(z) = Cipher(t.scheme) /\ (z.enc => pwd = "right") =>
                 Content(z, cells, pwd) = t.serial
           /\ Frame(z) # Cipher(t.scheme) \/ (z.enc /\ pwd # "right") =>
                 Content(z, cells, pwd) = Garbage
<1> DEFINE n == Len(d[z.off + 1].extra)
           s == Start(d, z.off)
           h == HeaderLen(t.scheme)
           p == t.body.psize
           r == TrailerLen(t.scheme)
           q == TrailerLength(Frame(z))
           o == z.off
           x == IF z.dd THEN 1 ELSE 0
           L == Len(d)
<1>1. /\ p \in Nat \ {0} /\ h \in {0, 1} /\ r \in {0, 1} /\ q \in {0, 1}
      /\ z.csize = h + p + r
  BY SizesOf, FrameIs DEF InfoOK
<1>2. o \in Nat /\ n \in Nat /\ s = o + 1 + n /\ x \in {0, 1} /\ L \in Nat
      /\ o + (1 + n + z.csize + x) <= L
  <2>1. o \in Nat
    BY DEF InfoOK, Info
  <2>2. n \in Nat /\ s = o + 1 + n
    BY DEF Member, Start
  <2>3. MemberLen(d, o, z.dd, t) = 1 + n + z.csize + x
    BY DEF MemberLen, InfoOK
  <2> QED BY <2>1, <2>2, <2>3
<1>3. cells = SubSeq(d, (s + h) + 1, s + z.csize - q)
  BY FrameIs
<1>4. \A k \in 1 .. p : d[s + h + k] = Chunk(t.serial, k, Cipher(t.scheme), t.body)
  BY DEF Member
<1>5. z.fsize = t.body.fsize
  BY DEF InfoOK
<1> DEFINE c == z.csize  b == t.body  v == t.serial  y == Cipher(t.scheme)
           j == s + c - q
<1>6. p = b.psize
  OBVIOUS
<1> HIDE DEF n, s, h, p, r, q, o, x, L, c, b, v, y
<1>7. s + h \in Nat /\ j \in Nat /\ s + h <= j /\ j <= L /\ j - (s + h) = p + r - q
  <2>1. c = h + p + r
    BY <1>1 DEF c
  <2>2. o + (1 + n + c + x) <= L
    BY <1>2 DEF c
  <2> QED BY ONLY <1>1, <1>2, <2>1, <2>2
<1>8. /\ cells \in Seq(Cell) /\ Len(cells) = p + r - q
      /\ \A k \in 1 .. p + r - q : cells[k] = d[s + h + k]
  <2> DEFINE i == s + h
  <2>1. cells = SubSeq(d, i + 1, j) /\ i \in Nat /\ j \in Nat /\ i <= j /\ j <= Len(d)
        /\ j - i = p + r - q
    BY <1>3, <1>7 DEF L, c
  <2> HIDE DEF i, j
  <2>2. /\ SubSeq(d, i + 1, j) \in Seq(Cell) /\ Len(SubSeq(d, i + 1, j)) = j - i
        /\ \A k \in 1 .. j - i : SubSeq(d, i + 1, j)[k] = d[i + k]
    BY ONLY <2>1, d \in Seq(Cell), Slice
  <2> QED BY <2>1, <2>2 DEF i
<1> DEFINE first == cells[1]
           whole == [k \in 1 .. first.of.psize |->
                       Chunk(first.serial, k, Frame(z), first.of)]
<1>9. cells # <<>> => first = Chunk(v, 1, y, b)
  <2>1. cells # <<>> => Len(cells) # 0
    BY <1>8
  <2>2. cells # <<>> => 1 \in 1 .. p + r - q
    BY <1>1, <1>8, <2>1
  <2>3. 1 \in 1 .. p
    BY <1>1
  <2> QED BY <1>4, <1>8, <2>2, <2>3 DEF v, y, b
<1>10. cells # <<>> => /\ first.kind = "data" /\ first.of = b /\ first.serial = v
  <2>1. LET u == Chunk(v, 1, y, b)
        IN  u.kind = "data" /\ u.of = b /\ u.serial = v
    BY DEF Chunk
  <2> HIDE DEF first
  <2> QED BY <1>9, <2>1
<1>11. ASSUME Frame(z) = y PROVE cells # <<>> /\ cells = whole
  <2>1. q = r
    BY <1>11, FrameIs DEF q, r, y
  <2>2. p + r - q = p
    BY <1>1, <2>1
  <2>3. Len(cells) = p /\ \A k \in 1 .. p : cells[k] = d[s + h + k]
    BY <1>8, <2>2
  <2>4. cells # <<>>
    BY <1>1, <2>3
  <2>5. whole = [k \in 1 .. p |-> Chunk(v, k, y, b)]
    BY <1>6, <1>10, <1>11, <2>4
  <2>6. \A k \in 1 .. p : cells[k] = Chunk(v, k, y, b)
    BY <1>4, <2>3 DEF v, y, b
  <2>7. cells = [k \in 1 .. p |-> cells[k]]
    BY <1>1, <1>8, <2>3
  <2> HIDE DEF whole
  <2> QED BY <2>4, <2>5, <2>6, <2>7
<1>12. ASSUME Frame(z) # y PROVE ~(cells # <<>> /\ cells = whole)
  <2>1. q # r
    BY <1>12, FrameIs DEF q, r, y
  <2>2. p + r - q # p
    BY <1>1, <2>1
  <2>3. SUFFICES ASSUME cells # <<>>, cells = whole PROVE FALSE
    OBVIOUS
  <2>4. DOMAIN whole = 1 .. p
    BY <1>6, <1>10, <2>3
  <2>5. Len(whole) = p
    <3>1. DOMAIN cells = 1 .. p /\ DOMAIN cells = 1 .. Len(cells) /\ Len(cells) \in Nat
      BY SMTT(20), ZenonT(30), <1>8, <2>3, <2>4
    <3> DEFINE D == DOMAIN cells  l == Len(cells)
    <3>2. D = 1 .. p /\ D = 1 .. l /\ l \in Nat /\ p \in Nat \ {0}
      BY <1>1, <3>1
    <3> HIDE DEF D, l
    <3>3. p \in 1 .. l
      <4>1. p \in D
        BY ONLY <3>2
      <4> QED BY ONLY <3>2, <4>1
    <3>4. Len(cells) = p
      <4>1. l \in 1 .. p
        <5>1. l \in D
          BY ONLY <3>2, <3>3
        <5> QED BY ONLY <3>2, <5>1
      <4>2. l = p
        BY ONLY <3>2, <3>3, <4>1
      <4> QED BY <4>2 DEF l
    <3> QED BY <2>3, <3>4
  <2> QED BY <1>8, <2>2, <2>3, <2>5
<1>13. Content(z, cells, pwd)
         = IF /\ cells # <<>> /\ first.kind = "data" /\ cells = whole
              /\ z.fsize = first.of.fsize
              /\ Frame(z) # "none" => pwd = "right"
           THEN first.serial ELSE Garbage
  BY DEF Content
<1>14. Frame(z) # "none" <=> z.enc
  BY FrameIs
<1> HIDE DEF whole, first
<1>15. Frame(z) = y /\ (z.enc => pwd = "right") => Content(z, cells, pwd) = v
  BY <1>5, <1>10, <1>11, <1>13, <1>14 DEF b
<1>16. Frame(z) # y \/ (z.enc /\ pwd # "right") => Content(z, cells, pwd) = Garbage
  BY <1>12, <1>13, <1>14
<1> QED BY <1>15, <1>16 DEF y, v

(* What read() gives of a member that is where its ZipInfo says.            *)
LEMMA ReadsBack ==
    ASSUME NEW d \in Seq(Cell), NEW z, NEW t \in Truth, InfoOK(z, t),
           Member(d, z.off, z.dd, t), NEW end,
           z.off + MemberLen(d, z.off, z.dd, t) <= Len(d)
    PROVE  /\ \/ t.recast
              \/ z.enc /\ z.version = 0 /\ (z.vendor \/ ~z.raw)
              \/ Overlaps(z, Start(d, z.off), end)
              \/ ReadOutcomes(d, z, end, "right") = {t.serial}
           /\ ReadOutcomes(d, z, end, "right") \subseteq {t.serial, Raises}
           /\ z.enc => ReadOutcomes(d, z, end, "wrong") = {Raises}
<1>0. ASSUME Overlaps(z, Start(d, z.off), end), NEW pwd
      PROVE  ReadOutcomes(d, z, end, pwd) = {Raises}
  BY <1>0 DEF ReadOutcomes, Start
<1> SUFFICES ASSUME ~Overlaps(z, Start(d, z.off), end)
             PROVE  /\ \/ t.recast
                       \/ z.enc /\ z.version = 0 /\ (z.vendor \/ ~z.raw)
                       \/ ReadOutcomes(d, z, end, "right") = {t.serial}
                    /\ ReadOutcomes(d, z, end, "right") \subseteq {t.serial, Raises}
                    /\ z.enc => ReadOutcomes(d, z, end, "wrong") = {Raises}
  BY <1>0
<1> DEFINE s == Start(d, z.off)
           f == Frame(z)
           cells == SubSeq(d, s + HeaderLength(f) + 1, s + z.csize - TrailerLength(f))
           Got(pwd) == Content(z, cells, pwd)
           trailer == d[s + z.csize]
           header == d[s + 1]
           Ok(pwd) == Accepted(z, header, pwd)
           Outcomes(pwd) == {IF ok /\ Integrity(z, Got(pwd), trailer)
                             THEN Got(pwd) ELSE Raises : ok \in Ok(pwd)}
<1>1. /\ f = Cipher(t.scheme) /\ (z.enc => "right" = "right") => Got("right") = t.serial
      /\ f # Cipher(t.scheme) => Got("right") = Garbage
      /\ z.enc => Got("wrong") = Garbage
  <2>1. \A pwd :
          /\ f = Cipher(t.scheme) /\ (z.enc => pwd = "right") => Got(pwd) = t.serial
          /\ f # Cipher(t.scheme) \/ (z.enc /\ pwd # "right") => Got(pwd) = Garbage
    BY ContentIs
  <2> QED BY <2>1
<1>2. /\ t.body.psize \in Nat \ {0} /\ HeaderLen(t.scheme) \in {0, 1}
      /\ TrailerLen(t.scheme) \in {0, 1} /\ t.serial \in Nat
      /\ z.csize = HeaderLen(t.scheme) + t.body.psize + TrailerLen(t.scheme)
      /\ t.scheme \in {"none", "zip", "aes", "aes1", "aes2"}
  BY SizesOf DEF InfoOK
<1>3. HeaderLength(f) = HeaderLen(t.scheme) /\ TrailerLength(f) \in {0, 1}
  BY FrameIs
<1>4. \A pwd : ReadOutcomes(d, z, end, pwd) = Outcomes(pwd)
  <2>1. d[z.off + 1].kind = "local"
    BY DEF Member
  <2>2. z.ctype = Method
    BY DEF InfoOK, Info
  <2>3. ~(z.csize < HeaderLength(f) + TrailerLength(f))
    <3> DEFINE c == z.csize  h == HeaderLength(f)  q == TrailerLength(f)
               p == t.body.psize  r == TrailerLen(t.scheme)
    <3>1. p \in Nat \ {0} /\ h \in {0, 1} /\ r \in {0, 1} /\ q \in {0, 1} /\ c = h + p + r
      BY <1>2, <1>3
    <3> HIDE DEF c, h, q, p, r
    <3>2. ~(c < h + q)
      BY ONLY <3>1
    <3> QED BY <3>2 DEF c, h, q
  <2> QED BY <2>1, <2>2, <2>3 DEF ReadOutcomes, Start
<1>5. \A pwd : Ok(pwd) \subseteq BOOLEAN /\ Ok(pwd) # {}
  <2>1. f \in {"none", "aes", "zip"}
    BY DEF Frame
  <2> QED BY <2>1 DEF Accepted, AesAccepts, ZipCryptoAccepts
(* The trailer is never the HMAC of garbage.                                *)
<1>6. ~Integrity(z, Garbage, trailer)
  <2>1. z.crc \in Nat
    BY DEF InfoOK, Info
  <2>2. CASE z.version = 0
    BY <2>1, <2>2 DEF Integrity, Garbage
  <2>3. CASE z.version # 0 /\ IsAes(t.scheme)
    <3>1. trailer = Hmac(t.serial)
      BY <2>3 DEF Member, InfoOK
    <3>2. Hmac(t.serial) # Hmac(Garbage)
      <4>1. Hmac(t.serial).serial # Hmac(Garbage).serial
        BY <1>2 DEF Hmac, Garbage
      <4> QED BY <4>1
    <3> QED BY <2>3, <3>1, <3>2 DEF Integrity
  <2>4. CASE z.version # 0 /\ t.scheme = "zip"
    <3>1. TrailerLen(t.scheme) = 0 /\ HeaderLen(t.scheme) = 1
      BY <2>4 DEF TrailerLen, HeaderLen, IsAes
    <3> DEFINE p == t.body.psize
    <3>2. p \in Nat \ {0} /\ z.csize = 1 + p + 0
      BY <1>2, <3>1
    <3>3. s \in Nat
      <4>1. z.off \in Nat /\ Len(d[z.off + 1].extra) \in Nat
        BY DEF InfoOK, Info, Member
      <4> QED BY <4>1 DEF Start
    <3>4. d[s + 1 + p] = Chunk(t.serial, p, Cipher(t.scheme), t.body)
      <4>1. p \in 1 .. p
        BY <3>2
      <4> QED BY <3>1, <4>1 DEF Member
    <3>5. s + z.csize = s + 1 + p
      <4> HIDE DEF s, p
      <4> QED BY <3>2, <3>3
    <3>6. trailer.kind = "data"
      BY <3>4, <3>5 DEF Chunk
    <3> QED BY <2>4, <3>6 DEF Integrity, Hmac
  <2>5. CASE z.version # 0 /\ t.scheme = "none"
    <3>1. f = "none"
      BY <2>5, FrameIs
    <3> QED BY <2>5, <3>1 DEF Integrity
  <2> QED BY <1>2, <2>2, <2>3, <2>4, <2>5 DEF IsAes
<1>7. ReadOutcomes(d, z, end, "right") \subseteq {t.serial, Raises}
  <2>1. Got("right") = t.serial \/ Got("right") = Garbage
    BY <1>1
  <2>2. Outcomes("right") \subseteq {t.serial, Raises}
    <3> DEFINE g == Got("right")
    <3> HIDE DEF g
    <3>1. g = t.serial \/ ~Integrity(z, g, trailer)
      BY <1>6, <2>1 DEF g
    <3> QED BY <3>1 DEF g
  <2> QED BY <1>4, <2>2
<1>8. ASSUME z.enc PROVE ReadOutcomes(d, z, end, "wrong") = {Raises}
  <2>1. Got("wrong") = Garbage
    BY <1>1, <1>8
  <2>2. ~Integrity(z, Got("wrong"), trailer)
    BY <1>6, <2>1
  <2>3. Outcomes("wrong") = {Raises}
    <3> DEFINE g == Got("wrong")  w == Ok("wrong")
    <3>1. w # {} /\ ~Integrity(z, g, trailer)
      BY <1>5, <2>2
    <3> HIDE DEF g, w
    <3>2. {IF ok /\ Integrity(z, g, trailer) THEN g ELSE Raises : ok \in w} = {Raises}
      BY <3>1
    <3> QED BY <3>2 DEF g, w
  <2> QED BY <1>4, <2>3
<1>9. ASSUME ~t.recast, ~(z.enc /\ z.version = 0 /\ (z.vendor \/ ~z.raw))
      PROVE  ReadOutcomes(d, z, end, "right") = {t.serial}
  <2>1. z.enc = (t.scheme # "none") /\ (z.version # 0 => z.vendor)
        /\ (z.crc = t.serial \/ (z.vendor /\ z.version = 2))
    BY DEF InfoOK, VendorOK
  <2>2. /\ f = Cipher(t.scheme) /\ Integrity(z, t.serial, trailer)
        /\ Ok("right") = {TRUE}
    <3>1. CASE t.scheme = "none"
      <4>1. ~z.vendor /\ z.version = 0 /\ z.crc = t.serial
        BY <1>9, <2>1, <3>1 DEF InfoOK, IsAes
      <4>2. f = "none" /\ Cipher(t.scheme) = "none"
        BY <3>1, FrameIs DEF IsAes
      <4> QED BY <4>1, <4>2 DEF Integrity, Accepted
    <3>2. CASE t.scheme = "zip"
      <4>1. ~z.vendor /\ z.version = 0 /\ z.crc = t.serial /\ z.dd
        BY <1>9, <2>1, <3>2 DEF InfoOK, IsAes
      <4>2. f = "zip" /\ Cipher(t.scheme) = "zip"
        BY <3>2, <4>1, FrameIs DEF IsAes
      <4>3. z.raw
        BY <1>9, <2>1, <3>2, <4>1
      <4>4. header.kind = "keys"
        BY <3>2 DEF Member
      <4> QED BY <4>1, <4>2, <4>3, <4>4 DEF Integrity, Accepted, ZipCryptoAccepts
    <3>3. CASE IsAes(t.scheme)
      <4>1. z.vendor /\ z.enc
        BY <2>1, <3>3 DEF InfoOK, IsAes
      <4>2. z.version # 0
        BY <1>9, <4>1
      <4>3. f = "aes" /\ Cipher(t.scheme) = "aes"
        BY <3>3, <4>2, FrameIs DEF IsAes
      <4>4. header.kind = "salt"
        BY <3>3 DEF Member
      <4>5. trailer = Hmac(t.serial)
        BY <3>3 DEF Member, InfoOK
      <4>6. z.version = 1 => t.serial = z.crc
        BY <2>1
      <4> QED BY <4>2, <4>3, <4>4, <4>5, <4>6 DEF Integrity, Accepted, AesAccepts
    <3> QED BY <1>2, <3>1, <3>2, <3>3 DEF IsAes
  <2>3. Got("right") = t.serial
    BY <1>1, <2>2
  <2>4. Outcomes("right") = {t.serial}
    <3> DEFINE g == Got("right")  w == Ok("right")
    <3>1. w = {TRUE} /\ Integrity(z, g, trailer) /\ g = t.serial
      BY <2>2, <2>3
    <3> HIDE DEF g, w
    <3>2. {IF ok /\ Integrity(z, g, trailer) THEN g ELSE Raises : ok \in w} = {t.serial}
      BY <3>1
    <3> QED BY <3>2 DEF g, w
  <2> QED BY <1>4, <2>4
<1> QED BY <1>7, <1>8, <1>9

(* The sizes a member's records speak are those of its ZipInfo.             *)
LEMMA RecordsAgree ==
    ASSUME NEW d, NEW z, NEW t \in Truth, InfoOK(z, t), Member(d, z.off, z.dd, t)
    PROVE  LocalRecordsAgree(d, z)
<1>1. SizesSpoken(d, z.off, z.dd, z.fsize, z.csize)
  BY DEF InfoOK, Member
<1> QED BY <1>1 DEF SizesSpoken, LocalRecordsAgree

-----------------------------------------------------------------------------
(* ZipInfo objects                                                          *)

LEMMA DecodedOK ==
    ASSUME NEW t \in Truth, NEW z, InfoOK(z, t), NEW p \in Nat
    PROVE  InfoOK(Decoded(z, p), t)
<1> DEFINE y == Decoded(z, p)
<1>1. z \in Info /\ VendorOK(z)
  BY DEF InfoOK
<1>2. /\ z.enc \in BOOLEAN /\ z.dd \in BOOLEAN /\ z.csize \in Nat /\ z.fsize \in Nat
      /\ z.off \in Nat /\ z.crc \in Nat /\ z.vendor \in BOOLEAN
      /\ z.version \in {0, 1, 2}
  BY <1>1 DEF Info
<1>3. AesVersion(z) \in {1, 2}
  BY <1>2 DEF AesVersion
<1>4. CentralExtra(z) \in Seq(Field)
  BY <1>1, CentralIs
<1>5. z.off + p \in Nat
  BY <1>2
<1>6. y \in Info
  <2> DEFINE a == z.off + p  x == CentralExtra(z)
             c == IF z.vendor /\ AesVersion(z) = 2 THEN 0 ELSE z.crc
             v == IF z.vendor THEN AesVersion(z) ELSE 0
  <2>1. a \in Nat /\ x \in Seq(Field) /\ c \in Nat /\ v \in {0, 1, 2}
    BY <1>2, <1>3, <1>4, <1>5
  <2>2. y = [enc |-> z.enc, dd |-> z.dd, ctype |-> Method, crc |-> c,
             csize |-> z.csize, fsize |-> z.fsize, off |-> a, extra |-> x,
             vendor |-> z.vendor, version |-> v, raw |-> TRUE, bad |-> FALSE]
    BY DEF Decoded
  <2> HIDE DEF a, x, c, v, y
  <2> QED BY <1>2, <2>1, <2>2 DEF Info
<1>7. VendorOK(y)
  <2>1. y.version # 0 => y.vendor
    BY DEF Decoded
  <2>2. ASSUME ~y.vendor PROVE \A k \in DOMAIN y.extra : y.extra[k].id = "zip64"
    <3>1. ~z.vendor /\ y.extra = CentralExtra(z)
      BY <2>2 DEF Decoded
    <3> DEFINE N == Len(CentralExtra(z))
               i == IF WideNumbers(z) = <<>> THEN 0 ELSE 1
    <3>2. N = i /\ (i = 1 => CentralExtra(z)[1] = Zip64Field(WideNumbers(z)))
      BY <1>1, <3>1, ExtraShape
    <3>3. DOMAIN y.extra = 1 .. i
      <4> DEFINE x == CentralExtra(z)
      <4>1. x \in Seq(Field) /\ Len(x) = i
        BY <1>4, <3>2
      <4> HIDE DEF x, i
      <4>2. DOMAIN x = 1 .. i
        BY ONLY <4>1
      <4> QED BY <3>1, <4>2 DEF x
    <3>4. \A k \in 1 .. i : k = 1 /\ i = 1
      OBVIOUS
    <3> QED BY <3>1, <3>2, <3>3, <3>4 DEF Zip64Field
  <2> QED BY <2>1, <2>2 DEF VendorOK
<1>8. /\ y.fsize = z.fsize /\ y.csize = z.csize /\ y.enc = z.enc /\ y.dd = z.dd
      /\ y.vendor = z.vendor
      /\ y.crc = IF z.vendor /\ AesVersion(z) = 2 THEN 0 ELSE z.crc
      /\ y.version = IF z.vendor THEN AesVersion(z) ELSE 0
  BY DEF Decoded
<1>9. y.crc = t.serial \/ (y.vendor /\ y.version = 2)
  <2>1. z.crc = t.serial \/ (z.vendor /\ z.version = 2)
    BY DEF InfoOK
  <2>2. z.version = 2 => AesVersion(z) = 2
    BY DEF AesVersion
  <2> HIDE DEF y
  <2> QED BY <1>8, <2>1, <2>2
<1> HIDE DEF y
<1>10. InfoOK(y, t)
  BY <1>6, <1>7, <1>8, <1>9 DEF InfoOK
<1> QED BY <1>10 DEF y

LEMMA NewInfoOK == NewInfo \in Info /\ VendorOK(NewInfo)
BY DEF NewInfo, Info, VendorOK

LEMMA ReusableOK ==
    ASSUME NEW z \in Info, VendorOK(z)
    PROVE  Reusable(z) \in Info /\ VendorOK(Reusable(z))
<1>1. /\ z.extra \in Seq(Field) /\ z.vendor \in BOOLEAN /\ z.version \in {0, 1, 2}
      /\ z.raw \in BOOLEAN
  BY DEF Info
<1> DEFINE e == z.extra  a == z.vendor  v == z.version  w == z.raw
           y == [enc |-> FALSE, dd |-> FALSE, ctype |-> Method, crc |-> 0,
                 csize |-> 0, fsize |-> 0, off |-> 0, extra |-> e,
                 vendor |-> a, version |-> v, raw |-> w, bad |-> FALSE]
<1>2. Reusable(z) = y
  <2> DEFINE n == NewInfo
             D == {"enc", "dd", "ctype", "crc", "csize", "fsize", "off", "extra",
                   "vendor", "version", "raw", "bad"}
  <2>1. DOMAIN n = D /\ n = [x \in D |-> n[x]]
    BY DEF NewInfo
  <2>2. /\ n.enc = FALSE /\ n.dd = FALSE /\ n.ctype = Method /\ n.crc = 0
        /\ n.csize = 0 /\ n.fsize = 0 /\ n.off = 0 /\ n.bad = FALSE
    BY DEF NewInfo
  <2>3. Reusable(z) = [n EXCEPT !.extra = e, !.vendor = a, !.version = v, !.raw = w]
    BY DEF Reusable
  <2> HIDE DEF D, n, e, a, v, w
  <2>4. [n EXCEPT !.extra = e, !.vendor = a, !.version = v, !.raw = w]
          = [x \in D |-> IF x = "raw" THEN w ELSE IF x = "version" THEN v
                         ELSE IF x = "vendor" THEN a
                         ELSE IF x = "extra" THEN e ELSE n[x]]
    BY <2>1
  <2> DEFINE r == [enc |-> n.enc, dd |-> n.dd, ctype |-> n.ctype, crc |-> n.crc,
                   csize |-> n.csize, fsize |-> n.fsize, off |-> n.off, extra |-> e,
                   vendor |-> a, version |-> v, raw |-> w, bad |-> n.bad]
  <2>5. Reusable(z) = r
    BY <2>3, <2>4 DEF D
  <2> QED BY <2>2, <2>5
<1>3. y \in Info
  <2> HIDE DEF e, a, v, w
  <2> QED BY <1>1 DEF Info, e, a, v, w
<1>4. VendorOK(y)
  BY DEF VendorOK
<1> QED BY <1>2, <1>3, <1>4

-----------------------------------------------------------------------------
(* The cells of a member                                                    *)

ExtraCount(z, zip64) == (IF zip64 THEN 1 ELSE 0) + (IF z.vendor THEN 1 ELSE 0)
WideAt(l) == {k \in DOMAIN l.extra : l.extra[k].id = "zip64"}
SizeIn(l, n, k) ==
    IF n = FieldMax THEN l.extra[CHOOSE w \in WideAt(l) : TRUE].values[k] ELSE n

LEMMA HeaderIs ==
    ASSUME NEW z \in Info, NEW zip64,
           NEW s, s = FileHeader(z, zip64), NEW l, l = s[1]
    PROVE  /\ s \in Seq(FrontCell) /\ Len(s) = 1 + ExtraCount(z, zip64)
           /\ l.kind = "local" /\ Len(l.extra) = ExtraCount(z, zip64)
           /\ zip64 <=> WideAt(l) # {}
           /\ ~z.dd /\ (zip64 \/ (z.fsize <= Zip64Limit /\ z.csize <= Zip64Limit)) =>
                 /\ SizeIn(l, l.fsize, 1) = z.fsize
                 /\ SizeIn(l, l.csize, 2) = z.csize
<1> DEFINE fs == IF z.dd THEN 0 ELSE z.fsize
           cs == IF z.dd THEN 0 ELSE z.csize
           cr == IF z.dd THEN 0 ELSE z.crc
           needs == fs > Zip64Limit \/ cs > Zip64Limit
           a == IF zip64 THEN <<Zip64Field(<<fs, cs>>)>> ELSE <<>>
           b == AesExtra(z)
           e == a \o b
           m == IF zip64 THEN 1 ELSE 0
           n == IF z.vendor THEN 1 ELSE 0
           crc == EncodeExtra(z, cr).crc
           c == [kind |-> "local", dd |-> z.dd,
                 fsize |-> IF needs THEN FieldMax ELSE fs,
                 csize |-> IF needs THEN FieldMax ELSE cs,
                 crc |-> crc, extra |-> e]
<1>1. /\ z.ctype = Method /\ z.version \in {0, 1, 2} /\ z.vendor \in BOOLEAN
      /\ z.dd \in BOOLEAN /\ z.fsize \in Nat /\ z.csize \in Nat /\ z.crc \in Nat
  BY DEF Info
<1>2. fs \in Nat /\ cs \in Nat /\ crc \in Nat /\ FieldMax \in Nat
  BY <1>1, RecordsAssumption DEF EncodeExtra
<1>3. s = <<c>> \o Rest(Len(e))
  <2>1. EncodeExtra(z, cr).extra = b
    BY <1>1 DEF EncodeExtra, AesExtra, AesVersion
  <2>2. (IF z.dd THEN Zip64Local(zip64, 0, 0) ELSE Zip64Local(zip64, z.fsize, z.csize))
          = Zip64Local(zip64, fs, cs)
    BY <1>1
  <2>3. /\ Zip64Local(zip64, fs, cs).fsize = IF needs THEN FieldMax ELSE fs
        /\ Zip64Local(zip64, fs, cs).csize = IF needs THEN FieldMax ELSE cs
        /\ Zip64Local(zip64, fs, cs).extra = a
    BY DEF Zip64Local
  <2> HIDE DEF fs, cs, cr, b
  <2> QED BY <2>1, <2>2, <2>3 DEF FileHeader, cr
<1>4. /\ a \in Seq(Field) /\ Len(a) = m
      /\ zip64 => a[1] = Zip64Field(<<fs, cs>>)
  <2>1. <<fs, cs>> \in Seq(Nat)
    BY <1>2
  <2> DEFINE w == <<fs, cs>>
  <2> HIDE DEF w
  <2>2. Zip64Field(w) \in Field
    BY <2>1 DEF Zip64Field, WideField, Field, w
  <2> QED BY <2>2 DEF w
<1>5. /\ b \in Seq(Field) /\ Len(b) = n
      /\ z.vendor => b[1].id = "aes"
  <2>1. AesVersion(z) \in {1, 2}
    BY <1>1 DEF AesVersion
  <2>2. AesField(AesVersion(z), Method) \in Field
    BY <2>1 DEF AesField, AesFields, Field
  <2>3. AesField(AesVersion(z), Method).id = "aes"
    BY DEF AesField
  <2> QED BY <1>1, <2>2, <2>3 DEF AesExtra
<1>6. /\ e \in Seq(Field) /\ Len(e) = ExtraCount(z, zip64)
      /\ zip64 => e[1] = Zip64Field(<<fs, cs>>)
      /\ \A k \in 1 .. Len(e) : (zip64 /\ k = 1) \/ e[k].id = "aes"
  <2> HIDE DEF a, b
  <2>1. /\ e \in Seq(Field) /\ Len(e) = Len(a) + Len(b)
        /\ \A k \in 1 .. Len(a) : e[k] = a[k]
        /\ \A k \in 1 .. Len(b) : e[Len(a) + k] = b[k]
    <3>1. a \in Seq(Field) /\ b \in Seq(Field)
      BY <1>4, <1>5
    <3> QED BY ONLY <3>1, Joined
  <2>2. Len(e) = m + n /\ ExtraCount(z, zip64) = m + n
    BY <1>4, <1>5, <2>1 DEF ExtraCount
  <2>3. zip64 => e[1] = a[1]
    BY <1>4, <2>1
  <2>4. ASSUME NEW k \in 1 .. Len(e), ~(zip64 /\ k = 1) PROVE e[k].id = "aes"
    <3>1. k \in 1 .. m + n
      BY <2>2
    <3>2. n = 1 /\ k = m + 1
      BY <2>4, <3>1
    <3>3. z.vendor /\ e[k] = b[1]
      BY <1>4, <1>5, <2>1, <3>2
    <3> QED BY <1>5, <3>3
  <2> QED BY <1>4, <2>1, <2>2, <2>3, <2>4
<1> HIDE DEF a, b, e
<1>7. c \in LocalCell
  <2> DEFINE f == IF needs THEN FieldMax ELSE fs  g == IF needs THEN FieldMax ELSE cs
  <2>1. f \in Nat /\ g \in Nat
    BY <1>2
  <2> HIDE DEF f, g, crc
  <2> QED BY <1>1, <1>2, <1>6, <2>1 DEF LocalCell, f, g
<1>8. s \in Seq(FrontCell) /\ Len(s) = 1 + Len(e) /\ s[1] = c
  <2> DEFINE k == Len(e)
  <2>1. k \in Nat
    BY <1>6
  <2>2. <<c>> \in Seq(FrontCell)
    BY <1>7 DEF FrontCell
  <2> HIDE DEF k, c
  <2>3. Rest(k) \in Seq(FrontCell) /\ Len(Rest(k)) = k
    <3>1. [kind |-> "rest"] \in FrontCell
      BY DEF FrontCell, BareCell
    <3> DEFINE y == [kind |-> "rest"]
    <3> HIDE DEF y
    <3>2. Rest(k) = [i \in 1 .. k |-> y]
      BY DEF Rest, y
    <3>3. [i \in 1 .. k |-> y] \in Seq(FrontCell) /\ Len([i \in 1 .. k |-> y]) = k
      BY <2>1, <3>1 DEF y
    <3> QED BY <3>2, <3>3
  <2> DEFINE t == <<c>>
  <2>4. t \in Seq(FrontCell) /\ Len(t) = 1 /\ t[1] = c
    BY <2>2
  <2>5. s = t \o Rest(k)
    BY <1>3 DEF k
  <2> HIDE DEF t
  <2>6. /\ t \o Rest(k) \in Seq(FrontCell) /\ Len(t \o Rest(k)) = Len(t) + Len(Rest(k))
        /\ \A i \in 1 .. Len(t) : (t \o Rest(k))[i] = t[i]
    <3>1. t \in Seq(FrontCell) /\ Rest(k) \in Seq(FrontCell)
      BY <2>3, <2>4
    <3> DEFINE y == Rest(k)
    <3> HIDE DEF y
    <3>2. t \in Seq(FrontCell) /\ y \in Seq(FrontCell)
      BY <3>1 DEF y
    <3>3. /\ t \o y \in Seq(FrontCell) /\ Len(t \o y) = Len(t) + Len(y)
          /\ \A i \in 1 .. Len(t) : (t \o y)[i] = t[i]
      BY ONLY <3>2, Joined
    <3> QED BY <3>3 DEF y
  <2> QED BY <2>3, <2>4, <2>5, <2>6 DEF k
<1>9. /\ l.kind = "local" /\ l.extra = e
      /\ l.fsize = IF needs THEN FieldMax ELSE fs
      /\ l.csize = IF needs THEN FieldMax ELSE cs
  BY <1>8
<1>10. WideAt(l) = IF zip64 THEN {1} ELSE {}
  <2>1. DOMAIN e = 1 .. Len(e)
    BY <1>6
  <2>2. zip64 => 1 \in DOMAIN e /\ e[1].id = "zip64"
    <3>1. zip64 => Len(e) >= 1
      BY <1>1, <1>6 DEF ExtraCount
    <3>2. zip64 => 1 \in DOMAIN e
      <4> DEFINE k == Len(e)
      <4>1. k \in Nat /\ DOMAIN e = 1 .. k /\ (zip64 => k >= 1)
        BY <1>6, <2>1, <3>1
      <4> HIDE DEF k
      <4> QED BY ONLY <4>1
    <3>3. Zip64Field(<<fs, cs>>).id = "zip64"
      BY DEF Zip64Field
    <3> HIDE DEF fs, cs
    <3> QED BY <1>6, <3>2, <3>3
  <2>3. \A k \in DOMAIN e : e[k].id = "zip64" => zip64 /\ k = 1
    BY <1>6, <2>1
  <2> QED BY <1>9, <2>2, <2>3 DEF WideAt
<1>11. ASSUME ~z.dd, zip64 \/ (z.fsize <= Zip64Limit /\ z.csize <= Zip64Limit)
       PROVE  SizeIn(l, l.fsize, 1) = z.fsize /\ SizeIn(l, l.csize, 2) = z.csize
  <2>1. fs = z.fsize /\ cs = z.csize
    BY <1>11
  <2>2. zip64 => /\ l.extra[CHOOSE w \in WideAt(l) : TRUE].values = <<fs, cs>>
    <3>1. zip64 => (CHOOSE w \in WideAt(l) : TRUE) = 1
      BY <1>10
    <3>2. zip64 => l.extra[CHOOSE w \in WideAt(l) : TRUE] = Zip64Field(<<fs, cs>>)
      BY <1>6, <1>9, <3>1
    <3>3. Zip64Field(<<fs, cs>>).values = <<fs, cs>>
      BY DEF Zip64Field
    <3> HIDE DEF fs, cs
    <3> QED BY <3>2, <3>3
  <2>3. Zip64Limit \in Nat /\ FieldMax \in Nat /\ Zip64Limit < FieldMax
    BY RecordsAssumption
  <2>4. ~zip64 => ~needs /\ fs # FieldMax /\ cs # FieldMax
    BY <1>2, <1>11, <2>1, <2>3
  <2>5. /\ l.fsize = FieldMax \/ l.fsize = fs
        /\ l.csize = FieldMax \/ l.csize = cs
    BY <1>9
  <2>6. ~zip64 => /\ l.fsize = fs /\ l.csize = cs
                  /\ l.fsize # FieldMax /\ l.csize # FieldMax
    BY <1>9, <2>4
  <2> DEFINE v == l.extra[CHOOSE w \in WideAt(l) : TRUE].values
  <2>7. zip64 => v[1] = fs /\ v[2] = cs
    <3>1. <<fs, cs>>[1] = fs /\ <<fs, cs>>[2] = cs
      OBVIOUS
    <3> HIDE DEF fs, cs
    <3> QED BY <2>2, <3>1
  <2> HIDE DEF fs, cs, v
  <2> QED BY <2>1, <2>5, <2>6, <2>7 DEF SizeIn, v
<1> QED BY <1>6, <1>8, <1>9, <1>10, <1>11

LEMMA EncryptionHeaderIs ==
    ASSUME NEW c, NEW s, s = EncryptionHeader(c)
    PROVE  /\ s \in Seq(FrontCell) /\ Len(s) = HeaderLen(c)
           /\ c = "zip" => s[1].kind = "keys"
           /\ IsAes(c) => s[1].kind = "salt"
<1>1. [kind |-> "keys"] \in FrontCell /\ [kind |-> "salt"] \in FrontCell
  BY DEF FrontCell, BareCell
<1>2. CASE c = "none"
  BY <1>2 DEF EncryptionHeader, HeaderLen, IsAes
<1>3. CASE c = "zip"
  BY <1>1, <1>3 DEF EncryptionHeader, HeaderLen, IsAes
<1>4. CASE c # "none" /\ c # "zip"
  BY <1>1, <1>4 DEF EncryptionHeader, HeaderLen, IsAes
<1> QED BY <1>2, <1>3, <1>4

LEMMA PayloadIs ==
    ASSUME NEW body \in Bodies, handle.scheme \in Schemes, writes \in Nat,
           NEW s, s = Payload(body), NEW c, c = handle.scheme
    PROVE  /\ s \in Seq(FrontCell) /\ Len(s) = body.psize + TrailerLen(c)
           /\ body.psize \in Nat \ {0}
           /\ \A k \in 1 .. body.psize : s[k] = Chunk(writes, k, Cipher(c), body)
           /\ IsAes(c) => s[body.psize + 1] = Hmac(writes)
<1> DEFINE p == body.psize  y == Cipher(c)
           a == [k \in 1 .. p |-> Chunk(writes, k, y, body)]
           b == IF y = "aes" THEN <<Hmac(writes)>> ELSE <<>>
<1>1. p \in Nat \ {0} /\ c \in {"none", "zip", "aes", "aes1", "aes2"}
  BY RoundTripAssumption
<1>2. y \in {"none", "zip", "aes"} /\ (y = "aes" <=> IsAes(c))
  BY <1>1 DEF Cipher, IsAes
<1>3. s = a \o b
  BY DEF Payload
<1>4. a \in Seq(FrontCell) /\ Len(a) = p
      /\ \A k \in 1 .. p : a[k] = Chunk(writes, k, y, body)
  <2>1. ASSUME NEW k \in 1 .. p PROVE Chunk(writes, k, y, body) \in FrontCell
    <3>1. k \in Nat
      BY <1>1
    <3> HIDE DEF y
    <3>2. Chunk(writes, k, y, body) \in DataCell
      BY <1>2, <3>1 DEF Chunk, DataCell
    <3> QED BY <3>2 DEF FrontCell
  <2> HIDE DEF y, p
  <2> QED BY <1>1, <2>1
<1>5. /\ b \in Seq(FrontCell) /\ Len(b) = TrailerLen(c)
      /\ IsAes(c) => Len(b) = 1 /\ b[1] = Hmac(writes)
  <2>1. Hmac(writes) \in FrontCell
    BY DEF Hmac, HmacCell, FrontCell
  <2> QED BY <1>2, <2>1 DEF TrailerLen
<1> HIDE DEF a, b, p, y
<1>6. /\ a \o b \in Seq(FrontCell) /\ Len(a \o b) = Len(a) + Len(b)
      /\ \A k \in 1 .. Len(a) : (a \o b)[k] = a[k]
      /\ \A k \in 1 .. Len(b) : (a \o b)[Len(a) + k] = b[k]
  <2>1. a \in Seq(FrontCell) /\ b \in Seq(FrontCell)
    BY <1>4, <1>5
  <2> QED BY ONLY <2>1, Joined
<1>7. Len(s) = p + TrailerLen(c) /\ s \in Seq(FrontCell)
  BY <1>3, <1>4, <1>5, <1>6
<1>8. \A k \in 1 .. p : s[k] = Chunk(writes, k, y, body)
  BY <1>3, <1>4, <1>6
<1>9. IsAes(c) => s[p + 1] = Hmac(writes)
  <2>1. IsAes(c) => 1 \in 1 .. Len(b)
    BY <1>5
  <2> QED BY <1>3, <1>4, <1>5, <1>6, <2>1
<1> QED BY <1>1, <1>7, <1>8, <1>9 DEF p, y

(* Header, payload and descriptor, one behind the other, are a member.      *)
MemberCells(d, at, z, y, zip64, t, n, h) ==
    /\ y.vendor = z.vendor /\ y.dd = z.dd /\ (~z.dd => y = z)
    /\ z.fsize = t.body.fsize /\ z.csize = Stored(t)
    /\ zip64 \/ (z.fsize <= Zip64Limit /\ z.csize <= Zip64Limit)
    /\ n = ExtraCount(z, zip64) /\ h = HeaderLen(t.scheme)
    /\ d[at + 1] = FileHeader(y, zip64)[1]
    /\ t.scheme # "none" =>
          d[at + 1 + n + 1] = EncryptionHeader(t.scheme)[1]
    /\ \A k \in 1 .. t.body.psize :
          d[at + 1 + n + h + k] = Chunk(t.serial, k, Cipher(t.scheme), t.body)
    /\ IsAes(t.scheme) => d[at + 1 + n + h + t.body.psize + 1] = Hmac(t.serial)
    /\ z.dd => d[at + 1 + n + z.csize + 1] = Descriptor(z, zip64)

LEMMA MemberIsThere ==
    ASSUME NEW d, NEW at \in Nat, NEW z \in Info, NEW y \in Info,
           NEW zip64, NEW t \in Truth, NEW n, NEW h,
           MemberCells(d, at, z, y, zip64, t, n, h)
    PROVE  /\ Member(d, at, z.dd, t)
           /\ MemberLen(d, at, z.dd, t)
                = 1 + n + z.csize + (IF z.dd THEN 1 ELSE 0)
<1> USE DEF MemberCells
<1> DEFINE l == d[at + 1]  p == t.body.psize  s == Start(d, at)
<1>1. /\ l.kind = "local" /\ Len(l.extra) = n
      /\ zip64 <=> WideAt(l) # {}
      /\ ~z.dd => SizeIn(l, l.fsize, 1) = z.fsize /\ SizeIn(l, l.csize, 2) = z.csize
  <2>1. n = ExtraCount(y, zip64)
    BY DEF ExtraCount
  <2>2. /\ l.kind = "local" /\ Len(l.extra) = ExtraCount(y, zip64)
        /\ zip64 <=> WideAt(l) # {}
        /\ ~y.dd /\ (zip64 \/ (y.fsize <= Zip64Limit /\ y.csize <= Zip64Limit)) =>
              /\ SizeIn(l, l.fsize, 1) = y.fsize
              /\ SizeIn(l, l.csize, 2) = y.csize
    <3> DEFINE f == FileHeader(y, zip64)
    <3>1. l = f[1]
      OBVIOUS
    <3>2. f = FileHeader(y, zip64)
      OBVIOUS
    <3> HIDE DEF f, l
    <3>3. l.kind = "local" /\ Len(l.extra) = ExtraCount(y, zip64)
      BY ONLY SMTT(20), ZenonT(30), <3>1, <3>2, y \in Info, HeaderIs
    <3>4. zip64 => WideAt(l) # {}
      BY ONLY SMTT(20), ZenonT(30), <3>1, <3>2, y \in Info, HeaderIs
    <3>5. ~zip64 => WideAt(l) = {}
      BY ONLY SMTT(20), ZenonT(30), <3>1, <3>2, y \in Info, HeaderIs
    <3>6. ~y.dd /\ (zip64 \/ (y.fsize <= Zip64Limit /\ y.csize <= Zip64Limit)) =>
              SizeIn(l, l.fsize, 1) = y.fsize /\ SizeIn(l, l.csize, 2) = y.csize
      BY ONLY <3>1, <3>2, y \in Info, HeaderIs
    <3> QED BY <3>3, <3>4, <3>5, <3>6
  <2> QED BY <2>1, <2>2
<1>2. n \in Nat
  BY DEF ExtraCount
<1>3. s = at + 1 + n
  BY <1>1 DEF Start
<1>4. /\ p \in Nat \ {0} /\ h \in {0, 1}
      /\ IsAes(t.scheme) => z.csize = h + p + 1
  BY SizesOf DEF TrailerLen
<1>5. SizesSpoken(d, at, z.dd, z.fsize, z.csize)
  <2>1. CASE z.dd
    <3>1. d[at + 1 + Len(l.extra) + z.csize + 1] = Descriptor(z, zip64)
      BY <1>1, <2>1
    <3>2. /\ Descriptor(z, zip64).kind = "desc" /\ Descriptor(z, zip64).wide = zip64
          /\ Descriptor(z, zip64).fsize = z.fsize /\ Descriptor(z, zip64).csize = z.csize
      BY DEF Descriptor
    <3>3. ~zip64 => z.fsize <= FieldMax /\ z.csize <= FieldMax
      <4>1. z.fsize \in Nat /\ z.csize \in Nat
        BY DEF Info
      <4> QED BY <4>1, RecordsAssumption
    <3> QED BY <1>1, <2>1, <3>1, <3>2, <3>3 DEF SizesSpoken, WideAt
  <2>2. CASE ~z.dd
    BY <1>1, <2>2 DEF SizesSpoken, SizeIn, WideAt
  <2> QED BY <2>1, <2>2
<1>6. t.scheme # "none" => d[s + 1] = EncryptionHeader(t.scheme)[1]
  BY <1>3
<1>7. /\ t.scheme = "zip" => d[s + 1].kind = "keys"
      /\ IsAes(t.scheme) => d[s + 1].kind = "salt"
  BY <1>6, EncryptionHeaderIs DEF IsAes
<1>8. \A k \in 1 .. p : d[s + h + k] = Chunk(t.serial, k, Cipher(t.scheme), t.body)
  BY <1>3
<1>9. IsAes(t.scheme) => d[s + z.csize] = Hmac(t.serial)
  <2>1. IsAes(t.scheme) => s + z.csize = at + 1 + n + h + p + 1
    <3> DEFINE c == z.csize
    <3> HIDE DEF s, p, c
    <3>1. IsAes(t.scheme) => c = h + p + 1
      BY <1>4 DEF c
    <3>2. c = h + p + 1 => s + c = at + 1 + n + h + p + 1
      BY ONLY <1>2, <1>3, <1>4, at \in Nat
    <3> QED BY <3>1, <3>2 DEF c
  <2> QED BY <2>1
<1> QED BY <1>1, <1>2, <1>5, <1>7, <1>8, <1>9 DEF Member, MemberLen

-----------------------------------------------------------------------------
(* What keeps the members in place                                          *)

LEMMA MemberLenIs ==
    ASSUME NEW d, NEW off, NEW dd, NEW t \in Truth, Member(d, off, dd, t)
    PROVE  MemberLen(d, off, dd, t) \in Nat /\ MemberLen(d, off, dd, t) >= 1
<1> DEFINE n == Len(d[off + 1].extra)  c == Stored(t)
<1>1. n \in Nat /\ c \in Nat
  BY SizesOf DEF Member
<1> QED BY <1>1 DEF MemberLen

(* Cells may come in front, and anything behind.                            *)
LEMMA HoldsMoves ==
    ASSUME NEW zs \in Seq(Info), NEW ts \in Seq(Truth), Len(ts) = Len(zs),
           NEW p \in Nat, NEW m \in Nat, NEW top \in Nat, NEW d, NEW e,
           Holds(d, zs, p, ts, top), top + m <= Len(e),
           \A k \in 1 .. m : e[k] \in FrontCell,
           \A k \in 1 .. top : e[m + k] = d[k]
    PROVE  Holds(e, zs, p + m, ts, top + m)
<1>1. ASSUME NEW k \in 1 .. top + m PROVE e[k] \in FrontCell
  <2>1. CASE k <= m
    BY <2>1
  <2>2. CASE ~(k <= m)
    <3>1. k - m \in 1 .. top /\ m + (k - m) = k
      BY <2>2
    <3>2. d[k - m] \in FrontCell
      BY <3>1 DEF Holds
    <3> QED BY <3>1, <3>2
  <2> QED BY <2>1, <2>2
<1>2. ASSUME NEW i \in 1 .. Len(zs)
      PROVE  /\ InPlace(e, zs[i], p + m, ts[i], top + m)
             /\ MemberLen(e, zs[i].off + (p + m), zs[i].dd, ts[i])
                  = MemberLen(d, zs[i].off + p, zs[i].dd, ts[i])
  <2> DEFINE z == zs[i]  t == ts[i]
  <2>1. z \in Info /\ t \in Truth /\ InPlace(d, z, p, t, top)
    BY DEF Holds
  <2>2. InfoOK(z, t) /\ z.off \in Nat /\ z.dd \in BOOLEAN
    BY <2>1 DEF InPlace, Info
  <2> DEFINE o == z.off + p  a == z.off + (p + m)  l == MemberLen(d, o, z.dd, t)
  <2>3. o \in Nat /\ a \in Nat /\ a = m + o
    BY SMTT(20), ZenonT(30), <2>2
  <2>4. Member(d, o, z.dd, t) /\ o + l <= top
    BY <2>1 DEF InPlace
  <2> DEFINE dd == z.dd
  <2> HIDE DEF z, t, dd
  <2>5. l \in Nat
    BY <2>1, <2>2, <2>4, MemberLenIs DEF dd
  <2>6. ASSUME NEW k \in 1 .. l PROVE e[a + k] = d[o + k]
    <3> HIDE DEF o, a, l
    <3>1. o + k \in 1 .. top /\ m + (o + k) = a + k
      BY ONLY <2>3, <2>4, <2>5, k \in 1 .. l, m \in Nat, top \in Nat
    <3> QED BY <3>1
  <2> HIDE DEF o, a
  <2>7. /\ Member(e, a, dd, t) /\ MemberLen(e, a, dd, t) = MemberLen(d, o, dd, t)
    <3>1. dd \in BOOLEAN /\ t \in Truth /\ Member(d, o, dd, t)
      BY <2>1, <2>2, <2>4 DEF dd
    <3>2. \A k \in 1 .. MemberLen(d, o, dd, t) : e[a + k] = d[o + k]
      BY <2>6 DEF dd
    <3>3. o \in Nat /\ a \in Nat
      BY <2>3
    <3>4. Member(e, a, dd, t)
      BY ONLY <3>1, <3>2, <3>3, MemberStays
    <3>5. MemberLen(e, a, dd, t) = MemberLen(d, o, dd, t)
      <4>1. 1 \in 1 .. MemberLen(d, o, dd, t)
        BY ONLY <3>1, MemberLenIs
      <4>2. e[a + 1] = d[o + 1]
        BY <3>2, <4>1
      <4> QED BY <4>2 DEF MemberLen
    <3> QED BY <3>4, <3>5
  <2>8. a + l <= top + m
    <3> HIDE DEF l
    <3> QED BY ONLY <2>3, <2>4, <2>5, m \in Nat, top \in Nat
  <2> QED BY <2>2, <2>7, <2>8 DEF InPlace, a, o, z, t, dd
<1>3. InOrder(e, zs, p + m, ts)
  BY <1>2 DEF Holds, InOrder
<1> QED BY <1>1, <1>2, <1>3 DEF Holds

LEMMA HoldsStays ==
    ASSUME NEW zs \in Seq(Info), NEW ts \in Seq(Truth), Len(ts) = Len(zs),
           NEW p \in Nat, NEW top \in Nat, NEW d, NEW e,
           Holds(d, zs, p, ts, top), top <= Len(e),
           \A k \in 1 .. top : e[k] = d[k]
    PROVE  Holds(e, zs, p, ts, top)
<1>1. top + 0 = top /\ p + 0 = p
  OBVIOUS
<1>2. \A k \in 1 .. top : e[0 + k] = d[k]
  OBVIOUS
<1>3. \A k \in 1 .. 0 : e[k] \in FrontCell
  OBVIOUS
<1>4. Holds(e, zs, p + 0, ts, top + 0)
  BY <1>1, <1>2, <1>3, HoldsMoves, 0 \in Nat
<1> QED BY <1>1, <1>4

(* A member may be added behind.                                            *)
LEMMA HoldsMore ==
    ASSUME NEW zs \in Seq(Info), NEW ts \in Seq(Truth), Len(ts) = Len(zs),
           NEW p, NEW top \in Nat, NEW up \in Nat, NEW d,
           Holds(d, zs, p, ts, top), top <= up, up <= Len(d),
           \A k \in top + 1 .. up : d[k] \in FrontCell,
           NEW z \in Info, NEW t \in Truth, InPlace(d, z, p, t, up), p \in Nat,
           top <= z.off + p
    PROVE  Holds(d, Append(zs, z), p, Append(ts, t), up)
<1>1. \A k \in 1 .. up : d[k] \in FrontCell
  <2>1. \A k \in 1 .. up : k \in 1 .. top \/ k \in top + 1 .. up
    OBVIOUS
  <2> QED BY <2>1 DEF Holds
<1>2. /\ Len(Append(zs, z)) = Len(zs) + 1 /\ Len(zs) \in Nat
      /\ \A i \in 1 .. Len(zs) : Append(zs, z)[i] = zs[i] /\ Append(ts, t)[i] = ts[i]
      /\ Append(zs, z)[Len(zs) + 1] = z /\ Append(ts, t)[Len(zs) + 1] = t
  OBVIOUS
<1>3. ASSUME NEW i \in 1 .. Len(zs)
      PROVE  /\ InPlace(d, zs[i], p, ts[i], up)
             /\ zs[i].off + MemberLen(d, zs[i].off + p, zs[i].dd, ts[i]) <= z.off
  <2> DEFINE y == zs[i]  x == ts[i]  l == MemberLen(d, y.off + p, y.dd, x)
             o == y.off + p
  <2>1. InPlace(d, y, p, x, top) /\ y \in Info /\ x \in Truth
    BY DEF Holds
  <2>2. y.off \in Nat /\ y.dd \in BOOLEAN
    BY <2>1 DEF Info
  <2>3. InfoOK(y, x) /\ Member(d, o, y.dd, x) /\ o + l <= top
    BY <2>1 DEF InPlace
  <2>4. o \in Nat /\ l \in Nat
    <3> DEFINE dd == y.dd
    <3> HIDE DEF y, x, dd
    <3>1. y.off + p \in Nat
      BY <2>2
    <3>2. dd \in BOOLEAN /\ Member(d, o, dd, x) /\ x \in Truth
      BY <2>1, <2>2, <2>3 DEF dd
    <3> HIDE DEF o
    <3>3. MemberLen(d, o, dd, x) \in Nat
      BY <3>2, MemberLenIs
    <3> QED BY <3>1, <3>3 DEF o, dd
  <2>5. o + l <= up
    <3> HIDE DEF o, l
    <3> QED BY ONLY <2>3, <2>4, top \in Nat, up \in Nat, top <= up
  <2>6. y.off + l <= z.off
    <3> DEFINE a == y.off  b == z.off
    <3>1. a \in Nat /\ b \in Nat /\ o = a + p /\ top <= b + p
      BY <2>2 DEF Info
    <3> HIDE DEF a, b, o, l
    <3>2. a + l <= b
      BY ONLY <3>1, <2>3, <2>4, top \in Nat, p \in Nat
    <3> QED BY <3>2 DEF a, b
  <2> QED BY <2>3, <2>5, <2>6 DEF InPlace
<1>4. ASSUME NEW i \in 1 .. Len(zs) + 1
      PROVE  InPlace(d, Append(zs, z)[i], p, Append(ts, t)[i], up)
  <2>1. CASE i \in 1 .. Len(zs)
    BY <1>2, <1>3, <2>1
  <2>2. CASE i = Len(zs) + 1
    BY <1>2, <2>2
  <2> QED BY <1>2, <2>1, <2>2
<1>5. InOrder(d, Append(zs, z), p, Append(ts, t))
  <2> SUFFICES ASSUME NEW i \in 1 .. Len(zs) + 1, NEW j \in 1 .. Len(zs) + 1, i < j
               PROVE  Append(zs, z)[i].off
                        + MemberLen(d, Append(zs, z)[i].off + p, Append(zs, z)[i].dd,
                                    Append(ts, t)[i])
                          <= Append(zs, z)[j].off
    BY <1>2 DEF InOrder
  <2>1. i \in 1 .. Len(zs) /\ Append(zs, z)[i] = zs[i] /\ Append(ts, t)[i] = ts[i]
    BY <1>2
  <2>2. CASE j \in 1 .. Len(zs)
    <3>1. Append(zs, z)[j] = zs[j]
      BY <1>2, <2>2
    <3> QED BY <2>1, <2>2, <3>1 DEF Holds, InOrder
  <2>3. CASE j = Len(zs) + 1
    <3>1. Append(zs, z)[j] = z
      BY <1>2, <2>3
    <3> QED BY <1>3, <2>1, <3>1
  <2>4. j \in 1 .. Len(zs) \/ j = Len(zs) + 1
    BY ONLY <1>2
  <2> QED BY ONLY <2>2, <2>3, <2>4
<1> QED BY <1>1, <1>2, <1>4, <1>5 DEF Holds

-----------------------------------------------------------------------------
(* What every step keeps                                                    *)

LEMMA FrontIsCell == FrontCell \subseteq Cell /\ DirCell \subseteq Cell
                     /\ LastCell \subseteq Cell
BY DEF Cell

LEMMA SeqOfLarger ==
    ASSUME NEW S, NEW T, S \subseteq T, NEW s \in Seq(S)
    PROVE  s \in Seq(T)
OBVIOUS

(* A record goes where the directory is, unless a stream has a failed       *)
(* member behind.                                                           *)
LEMMA WritePosIs ==
    ASSUME Types, Below, Session, mode # "closed"
    PROVE  /\ start_dir \in Nat /\ prefix = 0 /\ start_dir + prefix = start_dir
           /\ Len(disk) \in Nat /\ start_dir <= Len(disk)
           /\ WritePos \in start_dir .. Len(disk)
           /\ mode \in {"a", "r"} => WritePos = start_dir
           /\ mode = "w" /\ start_dir = Len(disk) => WritePos = start_dir
           /\ mode = "w" /\ ~reserved => WritePos = start_dir /\ Len(disk) = start_dir
<1>1. start_dir \in Nat /\ prefix = 0 /\ Len(disk) \in Nat
  BY DEF Types, Session
<1>2. start_dir + prefix = start_dir /\ start_dir <= Len(disk)
  BY <1>1 DEF Below, Holds
<1>3. seekable \/ mode \notin {"a", "r"}
  BY DEF Session
<1> QED BY <1>1, <1>2, <1>3 DEF WritePos, Session

LEMMA InitKeeps == Init => Inv
<1> SUFFICES ASSUME Init PROVE Inv
  OBVIOUS
<1>1. Types
  <2>1. /\ disk \in Seq(Cell) /\ filelist \in Seq(Info) /\ truth \in Seq(Truth)
        /\ Len(truth) = Len(filelist)
    BY DEF Init
  <2>2. kept \in Info /\ VendorOK(kept)
    BY NewInfoOK DEF Init
  <2>3. /\ start_dir \in Nat /\ prefix \in Nat /\ writes \in Nat
        /\ mode \in {"w", "a", "r", "closed"}
    BY DEF Init
  <2>4. /\ seekable \in BOOLEAN /\ didModify \in BOOLEAN
        /\ reserved \in BOOLEAN /\ sealed \in BOOLEAN
    BY DEF Init
  <2> QED BY <2>1, <2>2, <2>3, <2>4 DEF Types
<1>2. Below
  <2>1. Len(disk) = 0 /\ Len(filelist) = 0 /\ start_dir + prefix = 0
    BY DEF Init
  <2> QED BY <2>1 DEF Below, Holds, InOrder
<1>3. Session /\ Listed
  BY DEF Init, Session, Listed, Unchanged
<1> QED BY <1>1, <1>2, <1>3 DEF Inv

LEMMA CreateKeeps == ASSUME Inv, Create PROVE Inv'
<1>1. kept' \in Info /\ VendorOK(kept')
  <2>1. CASE kept' = NewInfo
    BY <2>1, NewInfoOK
  <2>2. CASE kept' # NewInfo
    <3>1. PICK i \in DOMAIN filelist : kept' = Reusable(filelist[i])
      BY <2>2 DEF Create
    <3>2. i \in 1 .. Len(filelist) /\ filelist[i] \in Info
      BY <3>1 DEF Inv, Types
    <3>3. VendorOK(filelist[i])
      BY <3>2 DEF Inv, Below, Holds, InPlace, InfoOK
    <3> QED BY <3>1, <3>2, <3>3, ReusableOK
  <2> QED BY <2>1, <2>2 DEF Create
<1>2. Types'
  <2>1. /\ disk' \in Seq(Cell) /\ filelist' \in Seq(Info) /\ truth' \in Seq(Truth)
        /\ Len(truth') = Len(filelist')
    BY DEF Create
  <2>2. /\ start_dir' \in Nat /\ prefix' \in Nat /\ writes' \in Nat
        /\ mode' \in {"w", "a", "r", "closed"}
    BY DEF Create, NewZipFile, Inv, Types
  <2>3. /\ seekable' \in BOOLEAN /\ didModify' \in BOOLEAN
        /\ reserved' \in BOOLEAN /\ sealed' \in BOOLEAN
    BY DEF Create, NewZipFile
  <2> QED BY <1>1, <2>1, <2>2, <2>3 DEF Types
<1>3. Below'
  <2>1. Len(disk') = 0 /\ Len(filelist') = 0 /\ start_dir' + prefix' = 0
    BY DEF Create, NewZipFile
  <2> QED BY <2>1 DEF Below, Holds, InOrder
<1>4. Session'
  <2>1. Len(disk') = start_dir'
    BY DEF Create
  <2> QED BY <2>1 DEF Session, Create, NewZipFile
<1>5. Listed'
  BY DEF Listed, Unchanged, Create
<1> QED BY <1>2, <1>3, <1>4, <1>5 DEF Inv

LEMMA OpenExistingKeeps == ASSUME Inv, OpenExisting PROVE Inv'
<1>1. PICK zs, sd, p : Lists(disk, zs, sd, p)
  BY DEF Inv, Listed, OpenExisting, NewZipFile
<1> DEFINE n == Len(zs)
<1>2. /\ zs \in Seq(Info) /\ sd \in Nat /\ p \in Nat /\ n \in Nat
      /\ n = Len(filelist) /\ sd + p = start_dir + prefix /\ sd + p \in Nat
      /\ \A i \in 1 .. n : /\ zs[i].off + p = filelist[i].off + prefix
                           /\ zs[i].dd = filelist[i].dd
                           /\ InfoOK(zs[i], truth[i]) /\ zs[i] \in Info
  BY <1>1 DEF Lists, Layout
<1>3. filelist' = [i \in 1 .. n |-> Decoded(zs[i], p)] /\ start_dir' = sd + p
  BY <1>1, LayoutReads DEF Lists, OpenExisting
<1>4. /\ disk' = disk /\ truth' = truth /\ prefix' = 0 /\ ~sealed' /\ ~reserved'
      /\ ~didModify' /\ seekable' /\ handle' = NoHandle /\ mode' \in {"r", "a"}
      /\ writes' = writes /\ kept' = NewInfo
  BY DEF OpenExisting, NewZipFile
<1>5. \A i \in 1 .. n : truth[i] \in Truth
  BY <1>2 DEF Inv, Types
<1>6. \A i \in 1 .. n : /\ filelist'[i] = Decoded(zs[i], p)
                        /\ InfoOK(filelist'[i], truth[i]) /\ filelist'[i] \in Info
  <2> TAKE i \in 1 .. n
  <2>1. filelist'[i] = Decoded(zs[i], p)
    BY <1>3
  <2>2. InfoOK(Decoded(zs[i], p), truth[i])
    BY <1>2, <1>5, DecodedOK
  <2> QED BY <2>1, <2>2 DEF InfoOK
<1>7. filelist' \in Seq(Info) /\ Len(filelist') = n
  <2>1. \A i \in 1 .. n : Decoded(zs[i], p) \in Info
    BY <1>6
  <2> HIDE DEF n
  <2>2. [i \in 1 .. n |-> Decoded(zs[i], p)] \in Seq(Info)
    BY <1>2, <2>1
  <2>3. Len([i \in 1 .. n |-> Decoded(zs[i], p)]) = n
    BY <1>2
  <2> QED BY <1>3, <2>2, <2>3
<1>8. Types'
  <2>1. /\ disk \in Seq(Cell) /\ truth \in Seq(Truth) /\ writes \in Nat
        /\ Len(truth) = n
    BY <1>2 DEF Inv, Types
  <2>2. kept' \in Info /\ VendorOK(kept')
    BY <1>4, NewInfoOK
  <2>3. /\ start_dir' \in Nat /\ prefix' \in Nat /\ writes' \in Nat
        /\ mode' \in {"w", "a", "r", "closed"}
    BY <1>2, <1>3, <1>4, <2>1
  <2>4. /\ seekable' \in BOOLEAN /\ didModify' \in BOOLEAN
        /\ reserved' \in BOOLEAN /\ sealed' \in BOOLEAN
    BY DEF OpenExisting, NewZipFile
  <2>5. /\ disk' \in Seq(Cell) /\ filelist' \in Seq(Info) /\ truth' \in Seq(Truth)
        /\ Len(truth') = Len(filelist')
    BY <1>4, <1>7, <2>1
  <2> QED BY <2>2, <2>3, <2>4, <2>5 DEF Types
<1>9. Below'
  <2>1. Holds(disk, filelist, prefix, truth, start_dir + prefix)
    BY DEF Inv, Below
  <2>2. start_dir' + prefix' = sd + p
    BY <1>2, <1>3, <1>4
  <2>3. ASSUME NEW i \in 1 .. n
        PROVE  /\ InPlace(disk, filelist'[i], 0, truth[i], sd + p)
               /\ filelist'[i].off + 0 = filelist[i].off + prefix
               /\ filelist'[i].dd = filelist[i].dd
               /\ filelist'[i].off = filelist[i].off + prefix
    <3> DEFINE y == filelist'[i]
    <3>1. y = Decoded(zs[i], p) /\ InfoOK(y, truth[i])
      BY <1>6
    <3>2. y.off = zs[i].off + p /\ y.dd = zs[i].dd
      BY <3>1 DEF Decoded
    <3>3. y.off + 0 = y.off
      <4>1. zs[i].off \in Nat
        BY <1>2 DEF Info
      <4> QED BY <1>2, <3>2, <4>1
    <3>4. y.off + 0 = filelist[i].off + prefix /\ y.dd = filelist[i].dd
      BY <1>2, <3>2, <3>3
    <3>5. InPlace(disk, filelist[i], prefix, truth[i], sd + p)
      BY <1>2, <2>1 DEF Holds
    <3> HIDE DEF y
    <3>6. InPlace(disk, y, 0, truth[i], sd + p)
      BY <3>1, <3>4, <3>5 DEF InPlace
    <3> QED BY <3>3, <3>4, <3>6 DEF y
  <2>5. InOrder(disk, filelist', 0, truth)
    <3> SUFFICES ASSUME NEW i \in 1 .. n, NEW j \in 1 .. n, i < j
                 PROVE  filelist'[i].off
                          + MemberLen(disk, filelist'[i].off + 0, filelist'[i].dd, truth[i])
                            <= filelist'[j].off
      BY <1>7 DEF InOrder
    <3> DEFINE l == MemberLen(disk, filelist[i].off + prefix, filelist[i].dd, truth[i])
               a == filelist[i].off  b == filelist[j].off
    <3>1. a + l <= b
      BY <1>2, <2>1 DEF Holds, InOrder
    <3>2. filelist[i] \in Info /\ filelist[j] \in Info /\ prefix \in Nat
      BY <1>2 DEF Inv, Types
    <3>3. a \in Nat /\ b \in Nat
      BY <3>2 DEF Info
    <3>4. l \in Nat
      <4>1. Member(disk, filelist[i].off + prefix, filelist[i].dd, truth[i])
        BY <1>2, <2>1 DEF Holds, InPlace
      <4> QED BY <1>5, <4>1, MemberLenIs
    <3> HIDE DEF l, a, b
    <3>5. (a + prefix) + l <= b + prefix
      BY ONLY <3>1, <3>2, <3>3, <3>4
    <3> QED BY <2>3, <3>5 DEF a, b, l
  <2>4. Holds(disk, filelist', 0, truth, sd + p)
    BY <1>2, <1>7, <2>1, <2>3, <2>5 DEF Holds
  <2> QED BY <1>4, <2>2, <2>4 DEF Below
<1>10. Session'
  BY <1>4 DEF Session
<1>11. Listed'
  <2>1. Lists(disk, zs, sd, p)'
    <3>1. Layout(disk, zs, sd, p)
      BY <1>1 DEF Lists
    <3>2. \A i \in 1 .. n : /\ zs[i].off + p = filelist'[i].off + prefix'
                            /\ zs[i].dd = filelist'[i].dd
      <4> TAKE i \in 1 .. n
      <4> DEFINE y == filelist'[i]
      <4>1. y = Decoded(zs[i], p)
        BY <1>6
      <4>2. y.off = zs[i].off + p /\ y.dd = zs[i].dd
        BY <4>1 DEF Decoded
      <4>3. zs[i].off \in Nat
        BY <1>2 DEF Info
      <4>4. zs[i].off + p \in Nat
        BY <1>2, <4>3
      <4>5. y.off + 0 = y.off
        BY <4>2, <4>4
      <4> QED BY <1>4, <4>2, <4>5
    <3>3. sd + p = start_dir' + prefix'
      BY <1>2, <1>3, <1>4
    <3> QED BY <1>2, <1>4, <1>7, <3>1, <3>2, <3>3 DEF Lists
  <2> QED BY <1>4, <2>1 DEF Listed
<1> QED BY <1>8, <1>9, <1>10, <1>11 DEF Inv

LEMMA StutterKeeps == ASSUME Inv, UNCHANGED vars PROVE Inv'
<1>1. /\ disk' = disk /\ mode' = mode /\ seekable' = seekable /\ kept' = kept
      /\ filelist' = filelist /\ start_dir' = start_dir /\ truth' = truth
      /\ didModify' = didModify /\ reserved' = reserved /\ handle' = handle
      /\ sealed' = sealed /\ prefix' = prefix /\ writes' = writes
  BY DEF vars, settings, reusable, directory, ghosts
<1>2. Types' /\ Below'
  BY <1>1 DEF Inv, Types, Below
<1>3. Session'
  BY <1>1 DEF Inv, Session, HandleOK, HeaderCells
<1>4. Listed'
  BY <1>1 DEF Inv, Listed, Lists, Unchanged
<1> QED BY <1>2, <1>3, <1>4 DEF Inv

LEMMA SetCommentKeeps == ASSUME Inv, SetComment PROVE Inv'
<1>1. /\ disk' = disk /\ mode' = mode /\ seekable' = seekable /\ kept' = kept
      /\ filelist' = filelist /\ start_dir' = start_dir /\ truth' = truth
      /\ didModify' = TRUE /\ reserved' = reserved /\ handle' = handle
      /\ sealed' = sealed /\ prefix' = prefix /\ writes' = writes
      /\ mode = "a"
  BY DEF SetComment, settings, reusable, directory, ghosts
<1>2. Types' /\ Below'
  BY <1>1 DEF Inv, Types, Below
<1>3. Session'
  BY <1>1 DEF Inv, Session, HandleOK, HeaderCells
<1>4. Listed'
  BY <1>1 DEF Listed, Unchanged
<1> QED BY <1>2, <1>3, <1>4 DEF Inv

LEMMA OpenTooLargeKeeps ==
    ASSUME Inv, NEW hint, NEW force, OpenTooLarge(hint, force) PROVE Inv'
<1>1. /\ disk' = disk /\ mode' = mode /\ seekable' = seekable /\ kept' = kept
      /\ filelist' = filelist /\ start_dir' = start_dir /\ truth' = truth
      /\ didModify' = didModify /\ reserved' = TRUE /\ handle' = handle
      /\ sealed' = sealed /\ prefix' = prefix /\ writes' = writes
      /\ ~reserved
  BY DEF OpenTooLarge, MayOpen, settings, reusable, directory, ghosts
<1>2. Types' /\ Below'
  BY <1>1 DEF Inv, Types, Below
<1>3. Session'
  <2>1. handle = NoHandle
    BY <1>1 DEF Inv, Session, HandleOK
  <2> QED BY <1>1, <2>1 DEF Inv, Session
<1>4. Listed'
  BY <1>1 DEF Inv, Listed, Lists, Unchanged
<1> QED BY <1>2, <1>3, <1>4 DEF Inv

(* The ZipInfo of an open handle.                                           *)
CleanOf(u, hint, dd, en, off) ==
    [u EXCEPT !.fsize = hint, !.dd = dd, !.enc = en, !.off = off]
VendorOf(u, tr, v) == [u EXCEPT !.vendor = tr, !.version = v]

LEMMA CleanInfo ==
    ASSUME NEW u \in Info, NEW hint \in Nat, NEW dd \in BOOLEAN,
           NEW en \in BOOLEAN, NEW off \in Nat,
           NEW y, y = CleanOf(u, hint, dd, en, off)
    PROVE  /\ y \in Info /\ y.off = off /\ y.enc = en /\ y.dd = dd
           /\ y.vendor = u.vendor /\ y.version = u.version /\ y.extra = u.extra
<1> DEFINE D == {"enc", "dd", "ctype", "crc", "csize", "fsize", "off", "extra",
                 "vendor", "version", "raw", "bad"}
<1>1. DOMAIN u = D /\ u = [x \in D |-> u[x]]
  BY DEF Info
<1> HIDE DEF D
<1>2. y = [x \in D |-> IF x = "off" THEN off ELSE IF x = "enc" THEN en
                       ELSE IF x = "dd" THEN dd
                       ELSE IF x = "fsize" THEN hint ELSE u[x]]
  BY <1>1 DEF CleanOf
<1>3. y = [enc |-> en, dd |-> dd, ctype |-> u.ctype, crc |-> u.crc,
           csize |-> u.csize, fsize |-> hint, off |-> off, extra |-> u.extra,
           vendor |-> u.vendor, version |-> u.version, raw |-> u.raw,
           bad |-> u.bad]
  BY <1>2 DEF D
<1>4. /\ u.ctype \in {Method} /\ u.crc \in Nat /\ u.csize \in Nat
      /\ u.extra \in Seq(Field) /\ u.vendor \in BOOLEAN
      /\ u.version \in {0, 1, 2} /\ u.raw \in BOOLEAN /\ u.bad \in {FALSE}
  BY DEF Info
<1>5. y \in Info
  BY ONLY <1>3, <1>4, hint \in Nat, dd \in BOOLEAN, en \in BOOLEAN, off \in Nat
     DEF Info
<1> QED BY <1>3, <1>5

LEMMA VersionSet ==
    ASSUME NEW u \in Info, NEW v \in {0, 1, 2}, NEW tr \in BOOLEAN,
           NEW y, y = VendorOf(u, tr, v)
    PROVE  /\ y \in Info /\ y.off = u.off /\ y.enc = u.enc /\ y.dd = u.dd
           /\ y.vendor = tr /\ y.version = v /\ y.extra = u.extra
<1> DEFINE D == {"enc", "dd", "ctype", "crc", "csize", "fsize", "off", "extra",
                 "vendor", "version", "raw", "bad"}
<1>1. DOMAIN u = D /\ u = [x \in D |-> u[x]]
  BY DEF Info
<1> HIDE DEF D
<1>2. y = [x \in D |-> IF x = "version" THEN v ELSE IF x = "vendor" THEN tr ELSE u[x]]
  BY <1>1 DEF VendorOf
<1>3. y = [enc |-> u.enc, dd |-> u.dd, ctype |-> u.ctype, crc |-> u.crc,
           csize |-> u.csize, fsize |-> u.fsize, off |-> u.off, extra |-> u.extra,
           vendor |-> tr, version |-> v, raw |-> u.raw, bad |-> u.bad]
  BY <1>2 DEF D
<1>4. /\ u.ctype \in {Method} /\ u.crc \in Nat /\ u.csize \in Nat /\ u.fsize \in Nat
      /\ u.off \in Nat /\ u.enc \in BOOLEAN /\ u.dd \in BOOLEAN
      /\ u.extra \in Seq(Field) /\ u.raw \in BOOLEAN /\ u.bad \in {FALSE}
  BY DEF Info
<1>5. y \in Info
  BY ONLY <1>3, <1>4, tr \in BOOLEAN, v \in {0, 1, 2} DEF Info
<1> QED BY <1>3, <1>5

LEMMA UpdatedInfo ==
    ASSUME NEW u \in Info, VendorOK(u), NEW c \in {"none", "zip", "aes", "aes1", "aes2"},
           NEW z, z = UpdateZipInfo(u, c)
    PROVE  /\ z \in Info /\ VendorOK(z) /\ z.off = u.off /\ z.enc = u.enc
           /\ z.dd = (u.dd \/ c = "zip")
           /\ IsAes(c) => z.vendor
           /\ ~IsAes(c) => z.vendor = u.vendor
<1>1. u.dd \in BOOLEAN /\ u.vendor \in BOOLEAN /\ u.version \in {0, 1, 2}
  BY DEF Info
<1>2. CASE c = "none"
  BY <1>1, <1>2 DEF UpdateZipInfo, IsAes
<1>3. CASE c = "zip"
  <2>1. z = [u EXCEPT !.dd = TRUE]
    BY <1>3 DEF UpdateZipInfo
  <2> DEFINE tr == TRUE
  <2> HIDE DEF tr
  <2>2. tr \in BOOLEAN /\ z = [u EXCEPT !.dd = tr]
    BY <2>1 DEF tr
  <2>3. /\ z \in Info /\ z.off = u.off /\ z.enc = u.enc /\ z.dd = tr
        /\ z.vendor = u.vendor /\ z.version = u.version /\ z.extra = u.extra
    BY <2>2 DEF Info
  <2> QED BY <1>3, <2>3 DEF VendorOK, IsAes, tr
<1>4. CASE IsAes(c)
  <2> DEFINE tr == TRUE
             v == IF c = "aes1" THEN 1 ELSE IF c = "aes2" THEN 2 ELSE u.version
  <2>1. c \in {"aes", "aes1", "aes2"}
    BY <1>4 DEF IsAes
  <2>2. CASE c = "aes"
    <3>1. z = [u EXCEPT !.vendor = tr]
      BY <2>2 DEF UpdateZipInfo
    <3> HIDE DEF tr
    <3>2. tr \in BOOLEAN
      BY DEF tr
    <3>3. /\ z \in Info /\ z.off = u.off /\ z.enc = u.enc /\ z.dd = u.dd
          /\ z.vendor = tr /\ z.version = u.version /\ z.extra = u.extra
      BY <3>1, <3>2 DEF Info
    <3> QED BY <1>1, <1>4, <2>2, <3>3 DEF VendorOK, tr
  <2>3. CASE c # "aes"
    <3>1. z = VendorOf(u, tr, v) /\ v \in {0, 1, 2}
      BY <2>1, <2>3 DEF UpdateZipInfo, VendorOf
    <3> HIDE DEF tr, v
    <3>2. tr \in BOOLEAN
      BY DEF tr
    <3>3. /\ z \in Info /\ z.off = u.off /\ z.enc = u.enc /\ z.dd = u.dd
          /\ z.vendor = tr /\ z.version = v /\ z.extra = u.extra
      BY SMTT(20), ZenonT(30), <3>1, <3>2, VersionSet
    <3> QED BY <1>1, <1>4, <2>1, <3>3 DEF VendorOK, tr
  <2> QED BY <2>2, <2>3
<1> QED BY <1>2, <1>3, <1>4 DEF IsAes

LEMMA OpenToWriteKeeps ==
    ASSUME Inv, NEW reuse \in BOOLEAN, NEW scheme \in Schemes,
           NEW hint \in Hints, NEW force \in BOOLEAN,
           OpenToWrite(reuse, scheme, hint, force)
    PROVE  Inv'
<1> DEFINE info == IF reuse THEN kept ELSE NewInfo
           left == IF reuse THEN keptEnd ELSE NoEnd
           clean == [info EXCEPT !.fsize = hint, !.dd = ~seekable,
                                 !.enc = (scheme # "none"), !.off = WritePos]
           z == UpdateZipInfo(clean, scheme)
           zip64 == NeedsZip64(hint, force)
           head == FileHeader(z, zip64)
           keys == EncryptionHeader(scheme)
           cells == head \o keys
           recast == info.vendor /\ scheme \in {"none", "zip"}
           sd == start_dir
<1>1. /\ mode \in {"w", "a"} /\ ~reserved
      /\ disk' = Put(disk, WritePos, cells)
      /\ handle' = [info |-> z, zip64 |-> zip64, scheme |-> scheme,
                    recast |-> recast, end |-> left, next |-> WritePos + Len(cells)]
      /\ reserved' = TRUE /\ didModify' = TRUE /\ writes' = writes + 1
      /\ mode' = mode /\ seekable' = seekable /\ kept' \in {NewInfo, kept}
      /\ filelist' = filelist /\ start_dir' = start_dir /\ truth' = truth
      /\ sealed' = sealed /\ prefix' = prefix
  BY DEF OpenToWrite, MayOpen, settings, reusable, directory
<1>2. /\ Types /\ Below /\ Session
  BY DEF Inv
<1>3. /\ WritePos = sd /\ sd \in Nat /\ prefix = 0 /\ sd + prefix = sd
      /\ Len(disk) \in Nat /\ sd <= Len(disk)
      /\ mode = "w" => Len(disk) = sd
  BY <1>1, <1>2, WritePosIs
<1>4. info \in Info /\ VendorOK(info)
  BY <1>2, NewInfoOK DEF Types
<1> HIDE DEF info, left
<1>5. scheme \in {"none", "zip", "aes", "aes1", "aes2"} /\ hint \in Nat
  BY RoundTripAssumption
<1>6. /\ clean \in Info /\ clean.off = sd /\ clean.enc = (scheme # "none")
      /\ clean.dd = ~seekable /\ clean.vendor = info.vendor
      /\ clean.version = info.version /\ clean.extra = info.extra
  <2> DEFINE dd == ~seekable  en == scheme # "none"  off == WritePos
  <2>1. dd \in BOOLEAN /\ en \in BOOLEAN /\ off \in Nat
    BY <1>3
  <2>2. clean = CleanOf(info, hint, dd, en, off)
    BY DEF CleanOf
  <2> HIDE DEF dd, en, off, clean
  <2>3. /\ clean \in Info /\ clean.off = off /\ clean.enc = en /\ clean.dd = dd
        /\ clean.vendor = info.vendor /\ clean.version = info.version
        /\ clean.extra = info.extra
    <3>1. info \in Info /\ hint \in Nat
      BY <1>4, <1>5
    <3>2. clean \in Info
      BY ONLY <3>1, <2>1, <2>2, CleanInfo
    <3>3. clean.off = off /\ clean.enc = en
      BY <3>1 DEF clean, Info, dd, en, off
    <3>4. clean.dd = dd
      BY <3>1 DEF clean, Info, dd, en, off
    <3>5. clean.vendor = info.vendor
      BY <3>1 DEF clean, Info, dd, en, off
    <3>6. clean.version = info.version
      BY <3>1 DEF clean, Info, dd, en, off
    <3>7. clean.extra = info.extra
      BY <3>1 DEF clean, Info, dd, en, off
    <3> QED BY <3>2, <3>3, <3>4, <3>5, <3>6, <3>7
  <2> QED BY <1>3, <2>3 DEF dd, en, off
<1>7. VendorOK(clean)
  <2> HIDE DEF clean
  <2> QED BY <1>4, <1>6 DEF VendorOK
<1> HIDE DEF clean
<1>8. /\ z \in Info /\ VendorOK(z) /\ z.off = sd /\ z.enc = (scheme # "none")
      /\ z.dd = (~seekable \/ scheme = "zip")
      /\ IsAes(scheme) => z.vendor
      /\ ~IsAes(scheme) => z.vendor = info.vendor
  <2>1. z = UpdateZipInfo(clean, scheme)
    OBVIOUS
  <2> HIDE DEF z
  <2>2. /\ z \in Info /\ VendorOK(z) /\ z.off = clean.off /\ z.enc = clean.enc
        /\ z.dd = (clean.dd \/ scheme = "zip")
        /\ IsAes(scheme) => z.vendor
        /\ ~IsAes(scheme) => z.vendor = clean.vendor
    BY <1>5, <1>6, <1>7, <2>1, UpdatedInfo
  <2> QED BY <1>6, <2>2
<1>9. zip64 \in BOOLEAN /\ recast \in BOOLEAN
  <2>1. zip64 \in BOOLEAN
    BY DEF NeedsZip64
  <2>2. info.vendor \in BOOLEAN
    BY <1>4 DEF Info
  <2> QED BY <2>1, <2>2
<1> HIDE DEF z, zip64, recast
<1>10. head \in Seq(FrontCell) /\ keys \in Seq(FrontCell)
  <2>1. head = FileHeader(z, zip64) /\ keys = EncryptionHeader(scheme)
    OBVIOUS
  <2> HIDE DEF head, keys
  <2>2. head \in Seq(FrontCell)
    BY <1>8, <2>1, HeaderIs
  <2>3. keys \in Seq(FrontCell)
    BY <2>1, EncryptionHeaderIs
  <2> QED BY <2>2, <2>3
<1> HIDE DEF head, keys
<1>11. cells \in Seq(FrontCell) /\ cells \in Seq(Cell) /\ Len(cells) \in Nat
  <2>1. cells \in Seq(FrontCell)
    BY ONLY <1>10, Joined
  <2> HIDE DEF cells
  <2> QED BY <2>1, FrontIsCell, SeqOfLarger
<1> HIDE DEF cells
<1>12. /\ disk' \in Seq(Cell)
       /\ Len(disk') = IF sd + Len(cells) <= Len(disk) THEN Len(disk)
                       ELSE sd + Len(cells)
       /\ \A k \in 1 .. sd : disk'[k] = disk[k]
       /\ \A k \in 1 .. Len(cells) : disk'[sd + k] = cells[k]
  <2>1. disk \in Seq(Cell) /\ sd \in 0 .. Len(disk)
    BY <1>2, <1>3 DEF Types
  <2>2. disk' = Put(disk, sd, cells)
    BY <1>1, <1>3
  <2> HIDE DEF sd
  <2>3. /\ Put(disk, sd, cells) \in Seq(Cell)
        /\ Len(Put(disk, sd, cells)) = IF sd + Len(cells) <= Len(disk) THEN Len(disk)
                                       ELSE sd + Len(cells)
        /\ \A k \in 1 .. sd : Put(disk, sd, cells)[k] = disk[k]
        /\ \A k \in 1 .. Len(cells) : Put(disk, sd, cells)[sd + k] = cells[k]
    BY ONLY <1>11, <2>1, PutAt
  <2> QED BY ONLY <2>2, <2>3
<1>13. Types'
  <2>1. writes' \in Nat
    BY <1>1, <1>2 DEF Types
  <2>2. kept' \in Info /\ VendorOK(kept')
    BY <1>1, <1>2, NewInfoOK DEF Types
  <2> QED BY <1>1, <1>2, <1>12, <2>1, <2>2 DEF Types
<1>14. Below'
  <2>1. sd <= Len(disk')
    <3> DEFINE a == Len(disk)  b == Len(cells)  e == Len(disk')
    <3>1. a \in Nat /\ b \in Nat /\ e = IF sd + b <= a THEN a ELSE sd + b
      BY <1>3, <1>11, <1>12
    <3> HIDE DEF a, b, e, sd
    <3>2. sd <= a /\ sd \in Nat
      BY <1>3 DEF a
    <3>3. sd <= e
      BY ONLY <3>1, <3>2
    <3> QED BY <3>3 DEF e
  <2>2. Holds(disk, filelist, prefix, truth, sd)
    BY <1>2, <1>3 DEF Below
  <2>3. /\ filelist \in Seq(Info) /\ truth \in Seq(Truth)
        /\ Len(truth) = Len(filelist) /\ prefix \in Nat /\ sd \in Nat
    BY <1>2 DEF Types
  <2>4. Holds(disk', filelist, prefix, truth, sd)
    <3> HIDE DEF sd
    <3> QED BY <1>12, <2>1, <2>2, <2>3, HoldsStays
  <2> QED BY <1>1, <1>3, <2>4 DEF Below
<1>15. HandleOK'
  <2>1. /\ handle'.info = z /\ handle'.zip64 = zip64 /\ handle'.scheme = scheme
        /\ handle'.recast = recast /\ handle'.next = sd + Len(cells)
    BY <1>1, <1>3
  <2>2. HeaderCells' = cells
    BY <2>1 DEF HeaderCells, cells, head, keys
  <2>3. ~IsAes(scheme) /\ ~recast => ~z.vendor
    BY <1>8 DEF recast, IsAes
  <2>4. /\ sd + Len(cells) <= Len(disk')
        /\ mode = "w" => Len(disk') = sd + Len(cells)
    <3> DEFINE a == Len(disk)  b == Len(cells)  e == Len(disk')
    <3>1. /\ a \in Nat /\ b \in Nat /\ e = IF sd + b <= a THEN a ELSE sd + b
          /\ sd \in Nat
      BY <1>3, <1>11, <1>12
    <3>2. mode = "w" => a = sd
      BY <1>3
    <3> HIDE DEF a, b, e, sd
    <3>3. sd + b <= e /\ (a = sd => e = sd + b)
      BY ONLY <3>1
    <3> QED BY <3>2, <3>3 DEF b, e
  <2> QED BY <1>1, <1>8, <1>9, <1>12, <2>1, <2>2, <2>3, <2>4 DEF HandleOK
<1>16. Session'
  BY <1>1, <1>2, <1>15 DEF Session
<1>17. Listed'
  BY <1>1 DEF Listed, Unchanged
<1> QED BY <1>13, <1>14, <1>16, <1>17 DEF Inv

HeaderAt(d, at, hd, next) ==
    /\ next = at + Len(hd) /\ next <= Len(d)
    /\ \A k \in 1 .. Len(hd) : d[at + k] = hd[k]

(* Payload and descriptor behind a header.                                  *)
LEMMA WrittenBehind ==
    ASSUME NEW d \in Seq(Cell), NEW at \in Nat, NEW hd \in Seq(FrontCell),
           NEW s \in Seq(FrontCell), NEW x \in FrontCell,
           NEW next, HeaderAt(d, at, hd, next),
           NEW e, e = Put(Put(d, next, s), next + Len(s), <<x>>)
    PROVE  /\ e \in Seq(Cell) /\ next + Len(s) + 1 <= Len(e)
           /\ Len(d) = next => Len(e) = next + Len(s) + 1
           /\ \A k \in 1 .. at : e[k] = d[k]
           /\ \A k \in 1 .. Len(hd) : e[at + k] = hd[k]
           /\ \A k \in 1 .. Len(s) : e[next + k] = s[k]
           /\ e[next + Len(s) + 1] = x
           /\ \A k \in at + 1 .. next + Len(s) + 1 : e[k] \in FrontCell
<1> USE DEF HeaderAt
<1> DEFINE b == Put(d, next, s)  l == Len(s)  g == Len(hd)  end == next + l
           n == Len(d)  t == <<x>>
<1>1. l \in Nat /\ g \in Nat /\ n \in Nat
  OBVIOUS
<1>2. s \in Seq(Cell) /\ t \in Seq(Cell) /\ Len(t) = 1 /\ t[1] = x
  BY FrontIsCell, SeqOfLarger
<1> HIDE DEF t
<1>3. /\ b \in Seq(Cell)
      /\ Len(b) = IF end <= n THEN n ELSE end
      /\ \A k \in 1 .. next : b[k] = d[k]
      /\ \A k \in 1 .. l : b[next + k] = s[k]
  <2>1. next \in 0 .. Len(d)
    OBVIOUS
  <2>2. /\ Put(d, next, s) \in Seq(Cell)
        /\ Len(Put(d, next, s)) = IF next + Len(s) <= Len(d) THEN Len(d)
                                  ELSE next + Len(s)
        /\ \A k \in 1 .. next : Put(d, next, s)[k] = d[k]
        /\ \A k \in 1 .. Len(s) : Put(d, next, s)[next + k] = s[k]
    BY ONLY <1>2, <2>1, d \in Seq(Cell), PutAt
  <2> QED BY <2>2
<1>4. next \in Nat /\ next <= n /\ end \in Nat
  BY <1>1
<1> HIDE DEF b
<1>5. /\ e \in Seq(Cell)
      /\ Len(e) = IF end + 1 <= Len(b) THEN Len(b) ELSE end + 1
      /\ \A k \in 1 .. end : e[k] = b[k]
      /\ e[end + 1] = x
  <2>1. end \in 0 .. Len(b)
    <3> DEFINE m == Len(b)
    <3>1. m = IF end <= n THEN n ELSE end
      BY <1>3
    <3> HIDE DEF m, end, n
    <3>2. end \in 0 .. m
      BY ONLY <1>1, <1>4, <3>1
    <3> QED BY <3>2 DEF m
  <2>2. e = Put(b, end, t)
    BY DEF b, t
  <2> HIDE DEF end
  <2>3. /\ Put(b, end, t) \in Seq(Cell)
        /\ Len(Put(b, end, t)) = IF end + Len(t) <= Len(b) THEN Len(b)
                                 ELSE end + Len(t)
        /\ \A k \in 1 .. end : Put(b, end, t)[k] = b[k]
        /\ \A k \in 1 .. Len(t) : Put(b, end, t)[end + k] = t[k]
    <3>1. b \in Seq(Cell) /\ t \in Seq(Cell)
      BY <1>2, <1>3
    <3> QED BY ONLY <2>1, <3>1, PutAt
  <2>4. 1 \in 1 .. Len(t)
    BY <1>2
  <2> QED BY <1>2, <2>2, <2>3, <2>4
<1>6. /\ end + 1 <= Len(e)
      /\ n = next => Len(e) = end + 1
  <2> DEFINE m == Len(b)  q == Len(e)
  <2>1. m = (IF end <= n THEN n ELSE end) /\ q = IF end + 1 <= m THEN m ELSE end + 1
    BY <1>3, <1>5
  <2> HIDE DEF m, q, n, l
  <2>2. end + 1 <= q /\ (n = next => q = end + 1)
    BY ONLY <1>1, <1>4, <2>1
  <2> QED BY <2>2 DEF q
<1>7. \A k \in 1 .. next : e[k] = d[k]
  <2>1. \A k \in 1 .. next : k \in 1 .. end
    BY <1>1, <1>4
  <2> QED BY <1>3, <1>5, <2>1
<1>8. \A k \in 1 .. at : e[k] = d[k]
  <2>1. \A k \in 1 .. at : k \in 1 .. next
    BY <1>1, <1>4
  <2> QED BY <1>7, <2>1
<1>9. \A k \in 1 .. g : e[at + k] = hd[k]
  <2>1. \A k \in 1 .. g : at + k \in 1 .. next
    BY <1>1, <1>4
  <2> QED BY <1>7, <2>1
<1>10. \A k \in 1 .. l : e[next + k] = s[k]
  <2>1. \A k \in 1 .. l : next + k \in 1 .. end
    BY <1>1, <1>4
  <2> QED BY <1>3, <1>5, <2>1
<1>11. ASSUME NEW k \in at + 1 .. end + 1 PROVE e[k] \in FrontCell
  <2>1. CASE k <= next
    <3>1. k - at \in 1 .. g /\ at + (k - at) = k
      BY <1>1, <1>4, <2>1
    <3>2. e[k] = hd[k - at]
      BY <1>9, <3>1
    <3> QED BY SMTT(20), ZenonT(30), <3>1, <3>2 DEF g
  <2>2. CASE next < k /\ k <= end
    <3>1. k - next \in 1 .. l /\ next + (k - next) = k
      BY <1>1, <1>4, <2>2
    <3>2. e[k] = s[k - next]
      BY <1>10, <3>1
    <3> HIDE DEF l
    <3>3. k - next \in DOMAIN s
      BY <3>1 DEF l
    <3> QED BY <3>2, <3>3
  <2>3. CASE k = end + 1
    BY <1>5, <2>3
  <2>4. k <= next \/ (next < k /\ k <= end) \/ k = end + 1
    <3> HIDE DEF end
    <3> QED BY <1>1, <1>4
  <2> QED BY <2>1, <2>2, <2>3, <2>4
<1> QED BY <1>5, <1>6, <1>8, <1>9, <1>10, <1>11

(* Payload behind a header, which is then written again.                    *)
LEMMA WrittenTwice ==
    ASSUME NEW d \in Seq(Cell), NEW at \in Nat, NEW hd \in Seq(FrontCell),
           NEW s \in Seq(FrontCell), NEW f \in Seq(FrontCell), Len(f) <= Len(hd),
           NEW next, HeaderAt(d, at, hd, next),
           NEW e, e = Put(Put(d, next, s), at, f)
    PROVE  /\ e \in Seq(Cell) /\ next + Len(s) <= Len(e)
           /\ Len(d) = next => Len(e) = next + Len(s)
           /\ \A k \in 1 .. at : e[k] = d[k]
           /\ \A k \in 1 .. Len(f) : e[at + k] = f[k]
           /\ \A k \in Len(f) + 1 .. Len(hd) : e[at + k] = hd[k]
           /\ \A k \in 1 .. Len(s) : e[next + k] = s[k]
           /\ \A k \in at + 1 .. next + Len(s) : e[k] \in FrontCell
<1> USE DEF HeaderAt
<1> DEFINE b == Put(d, next, s)  l == Len(s)  g == Len(hd)  end == next + l
           n == Len(d)  q == Len(f)
<1>1. l \in Nat /\ g \in Nat /\ n \in Nat /\ q \in Nat /\ q <= g
  OBVIOUS
<1>2. s \in Seq(Cell) /\ f \in Seq(Cell)
  BY FrontIsCell, SeqOfLarger
<1>3. /\ b \in Seq(Cell)
      /\ Len(b) = IF end <= n THEN n ELSE end
      /\ \A k \in 1 .. next : b[k] = d[k]
      /\ \A k \in 1 .. l : b[next + k] = s[k]
  <2>1. next \in 0 .. Len(d)
    OBVIOUS
  <2>2. /\ Put(d, next, s) \in Seq(Cell)
        /\ Len(Put(d, next, s)) = IF next + Len(s) <= Len(d) THEN Len(d)
                                  ELSE next + Len(s)
        /\ \A k \in 1 .. next : Put(d, next, s)[k] = d[k]
        /\ \A k \in 1 .. Len(s) : Put(d, next, s)[next + k] = s[k]
    BY ONLY <1>2, <2>1, d \in Seq(Cell), PutAt
  <2> QED BY <2>2
<1>4. next \in Nat /\ next <= n /\ end \in Nat /\ next = at + g
  BY <1>1
<1> HIDE DEF b
<1> DEFINE m == Len(b)
<1>5. m \in Nat /\ end <= m /\ (n = next => m = end)
  <2>1. m = IF end <= n THEN n ELSE end
    BY <1>3
  <2> HIDE DEF m, n, l
  <2> QED BY ONLY <1>1, <1>4, <2>1
<1>6. /\ e \in Seq(Cell) /\ Len(e) = m
      /\ \A k \in 1 .. at : e[k] = b[k]
      /\ \A k \in 1 .. q : e[at + k] = f[k]
      /\ \A k \in at + q + 1 .. m : e[k] = b[k]
  <2>1. at \in 0 .. Len(b)
    <3> HIDE DEF n, l, g, q
    <3>1. at \in 0 .. m
      <4> HIDE DEF m
      <4> QED BY <1>1, <1>4, <1>5
    <3> QED BY <3>1
  <2>2. e = Put(b, at, f)
    BY DEF b
  <2>3. /\ Put(b, at, f) \in Seq(Cell)
        /\ Len(Put(b, at, f)) = IF at + Len(f) <= Len(b) THEN Len(b)
                                ELSE at + Len(f)
        /\ \A k \in 1 .. at : Put(b, at, f)[k] = b[k]
        /\ \A k \in 1 .. Len(f) : Put(b, at, f)[at + k] = f[k]
        /\ \A k \in at + Len(f) + 1 .. Len(b) : Put(b, at, f)[k] = b[k]
    BY ONLY <1>2, <1>3, <2>1, PutAt
  <2>4. at + q <= m
    <3> HIDE DEF n, l, g, q, m
    <3> QED BY <1>1, <1>4, <1>5
  <2> QED BY <2>2, <2>3, <2>4
<1> HIDE DEF m, n, l, g, q
<1>7. end <= Len(e) /\ (n = next => Len(e) = end)
  BY <1>5, <1>6
<1>8. \A k \in 1 .. at : e[k] = d[k]
  <2>1. \A k \in 1 .. at : k \in 1 .. next
    BY <1>1, <1>4
  <2> QED BY <1>3, <1>6, <2>1
<1>9. \A k \in q + 1 .. g : e[at + k] = hd[k]
  <2> TAKE k \in q + 1 .. g
  <2>1. at + k \in at + q + 1 .. m /\ at + k \in 1 .. next /\ k \in 1 .. g
    BY <1>1, <1>4, <1>5
  <2>2. e[at + k] = b[at + k] /\ b[at + k] = d[at + k] /\ d[at + k] = hd[k]
    BY <1>3, <1>6, <2>1 DEF g
  <2> QED BY <2>2
<1>10. \A k \in 1 .. l : e[next + k] = s[k]
  <2> TAKE k \in 1 .. l
  <2>1. next + k \in at + q + 1 .. m
    BY <1>1, <1>4, <1>5
  <2> QED BY <1>3, <1>6, <2>1
<1>11. ASSUME NEW k \in at + 1 .. end PROVE e[k] \in FrontCell
  <2>1. CASE k <= at + q
    <3>1. k - at \in 1 .. q /\ at + (k - at) = k
      BY <1>1, <1>4, <2>1
    <3>2. e[k] = f[k - at]
      BY <1>6, <3>1
    <3> QED BY <3>1, <3>2 DEF q
  <2>2. CASE at + q < k /\ k <= next
    <3>1. k - at \in q + 1 .. g /\ at + (k - at) = k /\ k - at \in 1 .. g
      BY <1>1, <1>4, <2>2
    <3>2. e[k] = hd[k - at]
      BY <1>9, <3>1
    <3> QED BY <3>1, <3>2 DEF g
  <2>3. CASE next < k
    <3>1. k - next \in 1 .. l /\ next + (k - next) = k
      BY <1>1, <1>4, <2>3
    <3>2. e[k] = s[k - next]
      BY <1>10, <3>1
    <3> QED BY <3>1, <3>2 DEF l
  <2> QED BY <1>1, <1>4, <2>1, <2>2, <2>3
<1> QED BY <1>6, <1>7, <1>8, <1>9, <1>10, <1>11 DEF n, l, g, q

(* A member is there where its cells have been written.                     *)
MemberWrittenAt(d, at, z, y, zip64, t, hd, s) ==
    /\ y.vendor = z.vendor /\ y.dd = z.dd /\ (~z.dd => y = z)
    /\ z.fsize = t.body.fsize /\ z.csize = Stored(t)
    /\ zip64 \/ (z.fsize <= Zip64Limit /\ z.csize <= Zip64Limit)
    /\ hd = FileHeader(y, zip64) \o EncryptionHeader(t.scheme)
    /\ \A k \in 1 .. Len(hd) : d[at + k] = hd[k]
    /\ Len(s) = t.body.psize + TrailerLen(t.scheme)
    /\ \A k \in 1 .. t.body.psize :
          s[k] = Chunk(t.serial, k, Cipher(t.scheme), t.body)
    /\ IsAes(t.scheme) => s[t.body.psize + 1] = Hmac(t.serial)
    /\ \A k \in 1 .. Len(s) : d[at + Len(hd) + k] = s[k]
    /\ z.dd => d[at + Len(hd) + Len(s) + 1] = Descriptor(z, zip64)

LEMMA MemberWritten ==
    ASSUME NEW d, NEW at \in Nat, NEW z \in Info, NEW y \in Info,
           NEW zip64, NEW t \in Truth, NEW hd, NEW s,
           MemberWrittenAt(d, at, z, y, zip64, t, hd, s)
    PROVE  /\ Member(d, at, z.dd, t)
           /\ MemberLen(d, at, z.dd, t)
                = Len(hd) + Len(s) + (IF z.dd THEN 1 ELSE 0)
<1> USE DEF MemberWrittenAt
<1> DEFINE f == FileHeader(y, zip64)  e == EncryptionHeader(t.scheme)
           n == ExtraCount(z, zip64)  h == HeaderLen(t.scheme)
           p == t.body.psize  r == TrailerLen(t.scheme)
           g == Len(hd)  l == Len(s)  c == z.csize
<1>1. f \in Seq(FrontCell) /\ Len(f) = 1 + n
  <2>1. Len(f) = 1 + ExtraCount(y, zip64) /\ f \in Seq(FrontCell)
    <3>1. f = FileHeader(y, zip64) /\ y \in Info
      OBVIOUS
    <3> HIDE DEF f
    <3> QED BY ONLY <3>1, HeaderIs
  <2> QED BY <2>1 DEF ExtraCount
<1>2. e \in Seq(FrontCell) /\ Len(e) = h
  BY EncryptionHeaderIs
<1>3. n \in Nat
  BY DEF ExtraCount
<1>4. h \in {0, 1} /\ r \in {0, 1} /\ p \in Nat \ {0} /\ c = h + p + r
      /\ (t.scheme # "none" => h = 1) /\ (IsAes(t.scheme) => r = 1)
  <2>1. (t.scheme # "none" => h = 1) /\ (IsAes(t.scheme) => r = 1)
    BY DEF HeaderLen, TrailerLen
  <2> QED BY <2>1, SizesOf
<1> HIDE DEF f, e
<1>5. /\ g = 1 + n + h
      /\ \A k \in 1 .. 1 + n : hd[k] = f[k]
      /\ \A k \in 1 .. h : hd[1 + n + k] = e[k]
  <2>1. hd = f \o e
    BY DEF f, e
  <2>2. f \in Seq(FrontCell) /\ e \in Seq(FrontCell)
    BY <1>1, <1>2
  <2>3. /\ Len(f \o e) = Len(f) + Len(e)
        /\ \A k \in 1 .. Len(f) : (f \o e)[k] = f[k]
        /\ \A k \in 1 .. Len(e) : (f \o e)[Len(f) + k] = e[k]
    BY ONLY <2>2, Joined
  <2> QED BY <1>1, <1>2, <2>1, <2>3
<1>6. l = p + r
  OBVIOUS
<1> HIDE DEF n, h, p, r, g, l, c
<1>7. d[at + 1] = f[1]
  <2>1. 1 \in 1 .. g /\ 1 \in 1 .. 1 + n
    BY <1>3, <1>4, <1>5
  <2>2. d[at + 1] = hd[1]
    BY <2>1 DEF g
  <2> QED BY <1>5, <2>1, <2>2
<1>8. t.scheme # "none" => d[at + 1 + n + 1] = e[1]
  <2> SUFFICES ASSUME t.scheme # "none" PROVE d[at + 1 + n + 1] = e[1]
    OBVIOUS
  <2>1. /\ h = 1 /\ 1 + n + 1 \in 1 .. g /\ 1 \in 1 .. h
        /\ at + 1 + n + 1 = at + (1 + n + 1)
    BY <1>3, <1>4, <1>5
  <2>2. d[at + (1 + n + 1)] = hd[1 + n + 1]
    BY <2>1 DEF g
  <2>3. hd[1 + n + 1] = e[1]
    BY <1>5, <2>1
  <2> QED BY <2>1, <2>2, <2>3
<1>9. \A k \in 1 .. p :
         d[at + 1 + n + h + k] = Chunk(t.serial, k, Cipher(t.scheme), t.body)
  <2> TAKE k \in 1 .. p
  <2>1. at + 1 + n + h + k = at + g + k /\ k \in 1 .. l
    BY <1>3, <1>4, <1>5, <1>6
  <2>2. d[at + g + k] = s[k]
    BY <2>1 DEF g, l
  <2>3. s[k] = Chunk(t.serial, k, Cipher(t.scheme), t.body)
    BY DEF p
  <2> QED BY <2>1, <2>2, <2>3
<1>10. IsAes(t.scheme) => d[at + 1 + n + h + p + 1] = Hmac(t.serial)
  <2> SUFFICES ASSUME IsAes(t.scheme)
               PROVE  d[at + 1 + n + h + p + 1] = Hmac(t.serial)
    OBVIOUS
  <2>1. at + 1 + n + h + p + 1 = at + g + (p + 1) /\ p + 1 \in 1 .. l
    BY <1>3, <1>4, <1>5, <1>6
  <2>2. d[at + g + (p + 1)] = s[p + 1]
    BY <2>1 DEF g, l
  <2>3. s[p + 1] = Hmac(t.serial)
    BY DEF p
  <2> QED BY <2>1, <2>2, <2>3
<1>11. z.dd => d[at + 1 + n + c + 1] = Descriptor(z, zip64)
  <2>1. at + 1 + n + c + 1 = at + g + l + 1
    BY <1>3, <1>4, <1>5, <1>6
  <2>2. z.dd => d[at + g + l + 1] = Descriptor(z, zip64)
    BY DEF g, l
  <2> QED BY <2>1, <2>2
<1>12. /\ Member(d, at, z.dd, t)
       /\ MemberLen(d, at, z.dd, t) = 1 + n + c + (IF z.dd THEN 1 ELSE 0)
  <2>1. MemberCells(d, at, z, y, zip64, t, n, h)
    BY <1>7, <1>8, <1>9, <1>10, <1>11 DEF f, e, p, c, n, h, MemberCells
  <2>2. Member(d, at, z.dd, t)
    BY <2>1, MemberIsThere
  <2>3. MemberLen(d, at, z.dd, t) = 1 + n + z.csize + (IF z.dd THEN 1 ELSE 0)
    BY <2>1, MemberIsThere
  <2> QED BY <2>2, <2>3 DEF c
<1>13. 1 + n + c = g + l
  BY <1>3, <1>4, <1>5, <1>6
<1> QED BY <1>12, <1>13 DEF g, l

FinalOf(u, cs, fs, cr) == [u EXCEPT !.csize = cs, !.fsize = fs, !.crc = cr]

LEMMA FinalIs ==
    ASSUME NEW u \in Info, NEW cs \in Nat, NEW fs \in Nat, NEW cr \in Nat,
           NEW z, z = FinalOf(u, cs, fs, cr)
    PROVE  z \in Info
<1> DEFINE D == {"enc", "dd", "ctype", "crc", "csize", "fsize", "off", "extra",
                 "vendor", "version", "raw", "bad"}
<1>1. DOMAIN u = D /\ u = [x \in D |-> u[x]]
  BY DEF Info
<1> HIDE DEF D
<1>2. z = [x \in D |-> IF x = "crc" THEN cr ELSE IF x = "fsize" THEN fs
                       ELSE IF x = "csize" THEN cs ELSE u[x]]
  BY <1>1 DEF FinalOf
<1>3. z = [enc |-> u.enc, dd |-> u.dd, ctype |-> u.ctype, crc |-> cr,
           csize |-> cs, fsize |-> fs, off |-> u.off, extra |-> u.extra,
           vendor |-> u.vendor, version |-> u.version, raw |-> u.raw, bad |-> u.bad]
  BY <1>2 DEF D
<1>4. /\ u.ctype \in {Method} /\ u.off \in Nat /\ u.enc \in BOOLEAN
      /\ u.dd \in BOOLEAN /\ u.vendor \in BOOLEAN /\ u.version \in {0, 1, 2}
      /\ u.extra \in Seq(Field) /\ u.raw \in BOOLEAN /\ u.bad \in {FALSE}
  BY DEF Info
<1>5. z \in Info
  BY ONLY <1>3, <1>4, cs \in Nat, fs \in Nat, cr \in Nat DEF Info
<1> QED BY <1>3, <1>5

(* The ZipInfo that close() lists, and the member it is of.                 *)
TruthOf(body) == [serial |-> writes, scheme |-> handle.scheme, body |-> body,
                  recast |-> handle.recast]

LEMMA FinalInfoIs ==
    ASSUME Types, HandleOK, NEW body \in Bodies, SizesFit(body),
           NEW y, y = handle.info, NEW z, z = FinalInfo(body),
           NEW t, t = TruthOf(body)
    PROVE  /\ t \in Truth /\ InfoOK(z, t) /\ t.scheme = handle.scheme
           /\ t.body = body /\ t.serial = writes
           /\ z.off = start_dir /\ z.dd = y.dd /\ z.vendor = y.vendor
           /\ handle.zip64 \/ (z.fsize <= Zip64Limit /\ z.csize <= Zip64Limit)
           /\ Len(Payload(body)) = body.psize + TrailerLen(handle.scheme)
           /\ Payload(body) \in Seq(FrontCell)
<1> DEFINE c == handle.scheme  s == Payload(body)  p == body.psize
           h == HeaderLen(c)  r == TrailerLen(c)
           cs == Len(EncryptionHeader(c)) + Len(s)  fs == body.fsize
<1>1. c \in Schemes /\ handle.recast \in BOOLEAN /\ writes \in Nat
  BY DEF HandleOK, Types
<1>2. t \in Truth /\ t.scheme = c /\ t.body = body /\ t.serial = writes
      /\ t.recast = handle.recast
  BY <1>1 DEF TruthOf, Truth
<1>3. s \in Seq(FrontCell) /\ Len(s) = p + r
  <2>1. s = Payload(body)
    OBVIOUS
  <2> HIDE DEF s
  <2> QED BY <1>1, <2>1, PayloadIs
<1>4. Len(EncryptionHeader(c)) = h
  BY EncryptionHeaderIs
<1>5. fs \in Nat /\ p \in Nat /\ h \in Nat /\ r \in Nat /\ Stored(t) = h + p + r
  BY <1>2, SizesOf
<1>6. cs = Stored(t) /\ cs \in Nat
  <2> DEFINE l == Len(s)  e == Len(EncryptionHeader(c))
  <2>1. l = p + r /\ e = h
    BY <1>3, <1>4
  <2> HIDE DEF l, e, p, h, r
  <2>2. e + l = h + p + r /\ e + l \in Nat
    BY ONLY <1>5, <2>1
  <2> QED BY <1>5, <2>2 DEF l, e
<1>7. /\ z \in Info /\ z.csize = cs /\ z.fsize = fs /\ z.crc = writes
      /\ z.off = y.off /\ z.enc = y.enc /\ z.dd = y.dd
      /\ z.vendor = y.vendor /\ z.version = y.version /\ z.extra = y.extra
  <2> DEFINE w == writes
  <2>1. z = FinalOf(y, cs, fs, w)
    BY DEF FinalInfo, FinalOf
  <2>2. y \in Info /\ cs \in Nat /\ fs \in Nat /\ w \in Nat
    BY <1>1, <1>5, <1>6 DEF HandleOK
  <2> HIDE DEF cs, fs, w
  <2>3. z \in Info
    BY ONLY <2>1, <2>2, FinalIs
  <2>4. z.csize = cs /\ z.fsize = fs /\ z.crc = w
    BY ONLY <2>1, <2>2 DEF FinalOf, Info
  <2>5. z.off = y.off /\ z.enc = y.enc /\ z.dd = y.dd
    BY ONLY <2>1, <2>2 DEF FinalOf, Info
  <2>6. z.vendor = y.vendor /\ z.version = y.version /\ z.extra = y.extra
    BY ONLY <2>1, <2>2 DEF FinalOf, Info
  <2> QED BY <2>3, <2>4, <2>5, <2>6 DEF w
<1> HIDE DEF s, p, h, r, cs
<1>8. /\ y \in Info /\ VendorOK(y) /\ y.off = start_dir /\ y.enc = (c # "none")
      /\ y.dd = (~seekable \/ c = "zip")
      /\ IsAes(c) => y.vendor
      /\ ~IsAes(c) /\ ~handle.recast => ~y.vendor
  BY DEF HandleOK
<1>9. VendorOK(z)
  BY <1>7, <1>8 DEF VendorOK
<1>10. InfoOK(z, t)
  <2>1. z.fsize = t.body.fsize /\ z.csize = Stored(t) /\ z.crc = t.serial
    BY <1>2, <1>6, <1>7
  <2>2. z.enc = (t.scheme # "none") /\ (t.scheme = "zip" => z.dd)
    BY <1>2, <1>7, <1>8
  <2>3. /\ IsAes(t.scheme) => z.vendor
        /\ ~IsAes(t.scheme) /\ ~t.recast => ~z.vendor
    BY <1>2, <1>7, <1>8
  <2> QED BY <1>7, <1>9, <2>1, <2>2, <2>3 DEF InfoOK
<1>11. handle.zip64 \/ (z.fsize <= Zip64Limit /\ z.csize <= Zip64Limit)
  BY <1>7 DEF SizesFit
<1> QED BY <1>2, <1>3, <1>7, <1>8, <1>10, <1>11 DEF s, p, r

(* close() of the handle leaves a member behind those there are.            *)
LEMMA MemberClosed ==
    ASSUME Types, Below, Session, NEW body \in Bodies, CloseHandle(body),
           NEW z, z = FinalInfo(body), NEW t, t = TruthOf(body)
    PROVE  /\ disk' \in Seq(Cell) /\ start_dir' \in Nat
           /\ start_dir <= start_dir' /\ start_dir' <= Len(disk')
           /\ mode = "w" => Len(disk') = start_dir'
           /\ \A k \in 1 .. start_dir : disk'[k] = disk[k]
           /\ \A k \in start_dir + 1 .. start_dir' : disk'[k] \in FrontCell
           /\ Member(disk', start_dir, z.dd, t)
           /\ start_dir + MemberLen(disk', start_dir, z.dd, t) = start_dir'
<1> DEFINE y == handle.info  zip64 == handle.zip64  c == handle.scheme
           s == Payload(body)  next == handle.next  at == start_dir
           end == next + Len(s)  hd == HeaderCells
           f == FileHeader(z, zip64)  e == EncryptionHeader(c)
           filled == Put(disk, next, s)
<1>1. /\ HandleOK /\ handle # NoHandle /\ SizesFit(body)
      /\ z.dd => /\ disk' = Put(filled, end, <<Descriptor(z, zip64)>>)
                 /\ start_dir' = end + 1
      /\ ~z.dd => /\ disk' = Put(filled, z.off, f)
                  /\ start_dir' = end
  BY DEF CloseHandle, Session
<1>2. /\ t \in Truth /\ InfoOK(z, t) /\ t.scheme = c
      /\ t.body = body /\ t.serial = writes
      /\ z.off = at /\ z.dd = y.dd /\ z.vendor = y.vendor
      /\ zip64 \/ (z.fsize <= Zip64Limit /\ z.csize <= Zip64Limit)
  <2>1. y = handle.info
    OBVIOUS
  <2> HIDE DEF y
  <2> QED BY <1>1, <2>1, FinalInfoIs
<1>3. s \in Seq(FrontCell) /\ Len(s) = body.psize + TrailerLen(c)
  BY <1>1, FinalInfoIs
<1>4. /\ y \in Info /\ zip64 \in BOOLEAN /\ next = at + Len(hd) /\ next <= Len(disk)
      /\ mode = "w" => Len(disk) = next
      /\ \A k \in 1 .. Len(hd) : disk[at + k] = hd[k]
      /\ hd = FileHeader(y, zip64) \o e /\ c \in Schemes
  BY <1>1 DEF HandleOK, HeaderCells
<1>5. disk \in Seq(Cell) /\ at \in Nat /\ writes \in Nat /\ z \in Info
      /\ z.fsize = t.body.fsize /\ z.csize = Stored(t)
  BY <1>2 DEF Types, InfoOK
<1>6. e \in Seq(FrontCell) /\ Len(e) = HeaderLen(c)
  BY EncryptionHeaderIs
<1>7. /\ FileHeader(y, zip64) \in Seq(FrontCell) /\ f \in Seq(FrontCell)
      /\ Len(FileHeader(y, zip64)) = 1 + ExtraCount(y, zip64)
      /\ Len(f) = 1 + ExtraCount(z, zip64)
  <2> DEFINE a == FileHeader(y, zip64)
  <2>1. a = FileHeader(y, zip64) /\ f = FileHeader(z, zip64) /\ y \in Info
    BY <1>4
  <2> HIDE DEF a, f, y, zip64
  <2>2. a \in Seq(FrontCell) /\ Len(a) = 1 + ExtraCount(y, zip64)
    BY <2>1, HeaderIs
  <2>3. f \in Seq(FrontCell) /\ Len(f) = 1 + ExtraCount(z, zip64)
    <3>1. z \in Info /\ f = FileHeader(z, zip64)
      BY <1>5, <2>1
    <3> QED BY ONLY <3>1, HeaderIs
  <2> QED BY <2>2, <2>3 DEF a
<1>8. ExtraCount(y, zip64) = ExtraCount(z, zip64) /\ ExtraCount(z, zip64) \in Nat
  BY <1>2 DEF ExtraCount
<1>9. /\ \A k \in 1 .. body.psize :
            s[k] = Chunk(t.serial, k, Cipher(t.scheme), t.body)
      /\ IsAes(t.scheme) => s[body.psize + 1] = Hmac(t.serial)
  <2>1. s = Payload(body) /\ c = handle.scheme
    OBVIOUS
  <2> HIDE DEF s, c
  <2>2. /\ \A k \in 1 .. body.psize : s[k] = Chunk(writes, k, Cipher(c), body)
        /\ IsAes(c) => s[body.psize + 1] = Hmac(writes)
    BY <1>4, <1>5, <2>1, PayloadIs
  <2> QED BY <1>2, <2>2
<1> HIDE DEF y, zip64, c, s, next, at, hd, e, f
<1>10. s \in Seq(Cell) /\ Len(s) \in Nat /\ Len(hd) \in Nat /\ hd \in Seq(FrontCell)
  <2>1. hd \in Seq(FrontCell)
    <3> DEFINE a == FileHeader(y, zip64)
    <3>1. a \in Seq(FrontCell) /\ e \in Seq(FrontCell)
      BY <1>6, <1>7
    <3> HIDE DEF a
    <3>2. a \o e \in Seq(FrontCell)
      BY ONLY <3>1, Joined
    <3> QED BY <1>4, <3>2 DEF a
  <2>2. s \in Seq(Cell)
    BY <1>3, FrontIsCell, SeqOfLarger
  <2> QED BY <1>3, <2>1, <2>2
<1>11. /\ Len(hd) = Len(f) + Len(e)
       /\ \A k \in 1 .. Len(e) : hd[Len(f) + k] = e[k]
  <2> DEFINE a == FileHeader(y, zip64)
  <2>1. a \in Seq(FrontCell) /\ e \in Seq(FrontCell)
    BY <1>6, <1>7
  <2>2. hd = a \o e /\ Len(a) = Len(f)
    BY <1>4, <1>7, <1>8
  <2> HIDE DEF a
  <2>3. /\ Len(a \o e) = Len(a) + Len(e)
        /\ \A k \in 1 .. Len(e) : (a \o e)[Len(a) + k] = e[k]
    BY ONLY <2>1, Joined
  <2> QED BY <2>2, <2>3
<1>12. Len(f) \in Nat /\ Len(e) \in Nat
  BY <1>6, <1>7
<1>13. next \in Nat /\ end \in Nat /\ at <= next /\ next <= end
  BY <1>4, <1>5, <1>10
<1>14. CASE z.dd
  <2> DEFINE x == Descriptor(z, zip64)  d == disk'
  <2>1. disk' = Put(Put(disk, next, s), next + Len(s), <<x>>) /\ start_dir' = end + 1
    BY <1>1, <1>14 DEF next, s, zip64
  <2>2. x \in FrontCell
    <3>1. x \in DescCell
      <4>1. z.fsize \in Nat /\ z.csize \in Nat
        BY <1>5 DEF Info
      <4> QED BY <1>4, <4>1 DEF Descriptor, DescCell
    <3> QED BY <3>1 DEF FrontCell
  <2>3. x = Descriptor(z, zip64) /\ d = disk'
    OBVIOUS
  <2> HIDE DEF x, d
  <2>4. /\ disk \in Seq(Cell) /\ at \in Nat /\ hd \in Seq(FrontCell)
        /\ s \in Seq(FrontCell) /\ x \in FrontCell
        /\ HeaderAt(disk, at, hd, next)
        /\ d = Put(Put(disk, next, s), next + Len(s), <<x>>)
    BY <1>3, <1>4, <1>5, <1>10, <2>1, <2>2, <2>3 DEF HeaderAt
  <2>5. /\ d \in Seq(Cell) /\ next + Len(s) + 1 <= Len(d)
        /\ Len(disk) = next => Len(d) = next + Len(s) + 1
    <3>1. d \in Seq(Cell)
      BY ONLY <2>4, WrittenBehind
    <3>2. next + Len(s) + 1 <= Len(d)
      BY ONLY <2>4, WrittenBehind
    <3>3. Len(disk) = next => Len(d) = next + Len(s) + 1
      BY ONLY <2>4, WrittenBehind
    <3> QED BY <3>1, <3>2, <3>3
  <2>6. \A k \in 1 .. at : d[k] = disk[k]
    BY ONLY <2>4, WrittenBehind
  <2>7. \A k \in 1 .. Len(hd) : d[at + k] = hd[k]
    BY ONLY <2>4, WrittenBehind
  <2>8. /\ \A k \in 1 .. Len(s) : d[next + k] = s[k]
        /\ d[next + Len(s) + 1] = x
    BY ONLY <2>4, WrittenBehind
  <2>9. \A k \in at + 1 .. next + Len(s) + 1 : d[k] \in FrontCell
    BY ONLY <2>4, WrittenBehind
  <2>10. Member(d, at, z.dd, t) /\ MemberLen(d, at, z.dd, t) = Len(hd) + Len(s) + 1
    <3>1. MemberWrittenAt(d, at, z, y, zip64, t, hd, s)
      <4>1. /\ y.vendor = z.vendor /\ y.dd = z.dd /\ (~z.dd => y = z)
            /\ z.fsize = t.body.fsize /\ z.csize = Stored(t)
            /\ zip64 \/ (z.fsize <= Zip64Limit /\ z.csize <= Zip64Limit)
        BY <1>2, <1>5, <1>14
      <4>2. hd = FileHeader(y, zip64) \o EncryptionHeader(t.scheme)
        BY <1>2, <1>4 DEF e
      <4>3. Len(s) = t.body.psize + TrailerLen(t.scheme)
        BY <1>2, <1>3
      <4>4. z.dd => d[at + Len(hd) + Len(s) + 1] = Descriptor(z, zip64)
        BY <1>4, <2>3, <2>8
      <4>5. \A k \in 1 .. Len(s) : d[at + Len(hd) + k] = s[k]
        BY <1>4, <2>8
      <4>6. /\ \A k \in 1 .. t.body.psize :
                  s[k] = Chunk(t.serial, k, Cipher(t.scheme), t.body)
            /\ IsAes(t.scheme) => s[t.body.psize + 1] = Hmac(t.serial)
        BY <1>2, <1>9
      <4> QED BY <2>7, <4>1, <4>2, <4>3, <4>4, <4>5, <4>6 DEF MemberWrittenAt
    <3>2. y \in Info /\ z \in Info /\ t \in Truth /\ at \in Nat
      BY <1>2, <1>4, <1>5
    <3>3. Member(d, at, z.dd, t)
      BY ONLY <3>1, <3>2, MemberWritten
    <3>4. MemberLen(d, at, z.dd, t) = Len(hd) + Len(s) + (IF z.dd THEN 1 ELSE 0)
      BY ONLY <3>1, <3>2, MemberWritten
    <3> QED BY <1>14, <3>3, <3>4
  <2>11. at + (Len(hd) + Len(s) + 1) = end + 1
    BY <1>4, <1>5, <1>10
  <2> HIDE DEF end
  <2>12. /\ end + 1 <= Len(d)
         /\ mode = "w" => Len(d) = end + 1
         /\ \A k \in at + 1 .. end + 1 : d[k] \in FrontCell
    BY <1>4, <2>5, <2>9 DEF end
  <2>13. end + 1 \in Nat /\ at <= end + 1
    BY ONLY <1>5, <1>13
  <2> QED BY <2>1, <2>3, <2>5, <2>6, <2>10, <2>11, <2>12, <2>13 DEF at
<1>15. CASE ~z.dd
  <2> DEFINE d == disk'  hz == f \o e
  <2>1. d = Put(Put(disk, next, s), at, f) /\ start_dir' = end
    BY <1>1, <1>2, <1>15 DEF next, s, zip64, f
  <2> HIDE DEF d
  <2>2. /\ disk \in Seq(Cell) /\ at \in Nat /\ hd \in Seq(FrontCell)
        /\ s \in Seq(FrontCell) /\ f \in Seq(FrontCell) /\ Len(f) <= Len(hd)
        /\ HeaderAt(disk, at, hd, next)
        /\ d = Put(Put(disk, next, s), at, f)
    <3>1. Len(f) <= Len(hd)
      BY <1>11, <1>12
    <3> QED BY <1>3, <1>4, <1>5, <1>7, <1>10, <2>1, <3>1 DEF HeaderAt
  <2>3. d \in Seq(Cell)
    BY ONLY <2>2, WrittenTwice
  <2>4. next + Len(s) <= Len(d)
    BY ONLY <2>2, WrittenTwice
  <2>5. Len(disk) = next => Len(d) = next + Len(s)
    BY ONLY <2>2, WrittenTwice
  <2>6. \A k \in 1 .. at : d[k] = disk[k]
    BY ONLY <2>2, WrittenTwice
  <2>7. \A k \in 1 .. Len(f) : d[at + k] = f[k]
    BY ONLY <2>2, WrittenTwice
  <2>8. \A k \in Len(f) + 1 .. Len(hd) : d[at + k] = hd[k]
    BY ONLY <2>2, WrittenTwice
  <2>9. \A k \in 1 .. Len(s) : d[next + k] = s[k]
    BY ONLY <2>2, WrittenTwice
  <2>10. \A k \in at + 1 .. next + Len(s) : d[k] \in FrontCell
    BY ONLY <2>2, WrittenTwice
  <2>11. Len(hz) = Len(hd) /\ \A k \in 1 .. Len(hz) : d[at + k] = hz[k]
    <3>1. /\ Len(f \o e) = Len(f) + Len(e)
          /\ \A k \in 1 .. Len(f) : (f \o e)[k] = f[k]
          /\ \A k \in 1 .. Len(e) : (f \o e)[Len(f) + k] = e[k]
      <4>1. f \in Seq(FrontCell) /\ e \in Seq(FrontCell)
        BY <1>6, <1>7
      <4> QED BY ONLY <4>1, Joined
    <3>2. Len(hz) = Len(hd)
      BY <1>11, <3>1
    <3> HIDE DEF hz
    <3> DEFINE q == Len(f)  h == Len(e)
    <3>3. /\ Len(hz) = q + h /\ q \in Nat /\ h \in Nat /\ Len(hd) = q + h
          /\ \A k \in 1 .. q : hz[k] = f[k]
          /\ \A k \in 1 .. h : hz[q + k] = e[k] /\ hd[q + k] = e[k]
      BY <1>11, <1>12, <3>1 DEF hz
    <3> HIDE DEF q, h
    <3>4. ASSUME NEW k \in 1 .. q + h PROVE d[at + k] = hz[k]
      <4>1. CASE k <= q
        <5>1. k \in 1 .. q
          BY <3>3, <4>1
        <5> QED BY <2>7, <3>3, <5>1 DEF q
      <4>2. CASE ~(k <= q)
        <5>1. k - q \in 1 .. h /\ q + (k - q) = k /\ k \in q + 1 .. q + h
          BY <3>3, <4>2
        <5>2. hz[k] = hd[k]
          BY <3>3, <5>1
        <5>3. d[at + k] = hd[k]
          BY <2>8, <3>3, <5>1 DEF q
        <5> QED BY <5>2, <5>3
      <4> QED BY <4>1, <4>2
    <3> QED BY <3>2, <3>3, <3>4
  <2>12. Member(d, at, z.dd, t) /\ MemberLen(d, at, z.dd, t) = Len(hz) + Len(s)
    <3>1. MemberWrittenAt(d, at, z, z, zip64, t, hz, s)
      <4>1. /\ z.fsize = t.body.fsize /\ z.csize = Stored(t)
            /\ zip64 \/ (z.fsize <= Zip64Limit /\ z.csize <= Zip64Limit)
        BY <1>2, <1>5
      <4>2. hz = FileHeader(z, zip64) \o EncryptionHeader(t.scheme)
        BY <1>2 DEF e, f, c
      <4>3. Len(s) = t.body.psize + TrailerLen(t.scheme)
        BY <1>2, <1>3
      <4>4. \A k \in 1 .. Len(s) : d[at + Len(hz) + k] = s[k]
        BY <1>4, <2>9, <2>11
      <4>5. /\ \A k \in 1 .. t.body.psize :
                  s[k] = Chunk(t.serial, k, Cipher(t.scheme), t.body)
            /\ IsAes(t.scheme) => s[t.body.psize + 1] = Hmac(t.serial)
        BY <1>2, <1>9
      <4> HIDE DEF hz
      <4> QED BY <1>15, <2>11, <4>1, <4>2, <4>3, <4>4, <4>5 DEF MemberWrittenAt
    <3> HIDE DEF hz
    <3>2. z \in Info /\ t \in Truth /\ at \in Nat
      BY <1>2, <1>5
    <3>3. Member(d, at, z.dd, t)
      BY ONLY <3>1, <3>2, MemberWritten
    <3>4. MemberLen(d, at, z.dd, t) = Len(hz) + Len(s) + (IF z.dd THEN 1 ELSE 0)
      BY ONLY <3>1, <3>2, MemberWritten
    <3>5. Len(hz) \in Nat /\ Len(s) \in Nat
      BY <1>10, <2>11
    <3> QED BY <1>15, <3>3, <3>4, <3>5
  <2>13. at + (Len(hd) + Len(s)) = end
    BY <1>4, <1>5, <1>10
  <2> HIDE DEF end
  <2>14. /\ end <= Len(d)
         /\ mode = "w" => Len(d) = end
         /\ \A k \in at + 1 .. end : d[k] \in FrontCell
    BY <1>4, <2>4, <2>5, <2>10 DEF end
  <2>15. end \in Nat /\ at <= end
    BY ONLY <1>13, <1>5
  <2> QED BY <2>15, <2>1, <2>3, <2>6, <2>11, <2>12, <2>13, <2>14 DEF at, d
<1> QED BY <1>14, <1>15

LEMMA CloseHandleKeeps ==
    ASSUME Inv, NEW body \in Bodies, CloseHandle(body) PROVE Inv'
<1> DEFINE z == FinalInfo(body)  t == TruthOf(body)  at == start_dir
           up == start_dir'  d == disk'
<1>1. Types /\ Below /\ Session
  BY DEF Inv
<1>2. /\ HandleOK /\ SizesFit(body) /\ mode \in {"w", "a"}
      /\ filelist' = Append(filelist, z) /\ truth' = Append(truth, t)
      /\ handle' = NoHandle /\ reserved' = FALSE
      /\ mode' = mode /\ seekable' = seekable /\ kept' = kept
      /\ didModify' = didModify /\ sealed' = sealed /\ prefix' = prefix
      /\ writes' = writes /\ didModify
  BY <1>1 DEF CloseHandle, Session, HandleOK, TruthOf, settings, reusable, ghosts
<1>3. /\ prefix = 0 /\ at \in Nat /\ at + prefix = at
  BY <1>1, <1>2 DEF Types, Session
<1>4. t \in Truth /\ InfoOK(z, t) /\ z.off = at /\ z \in Info
  <2>1. z = FinalInfo(body) /\ t = TruthOf(body)
    OBVIOUS
  <2> DEFINE y == handle.info
  <2>2. y = handle.info
    OBVIOUS
  <2> HIDE DEF z, t, y
  <2>3. t \in Truth /\ InfoOK(z, t) /\ z.off = at
    BY <1>1, <1>2, <2>1, <2>2, FinalInfoIs
  <2> QED BY <2>3 DEF InfoOK
<1>5. /\ d \in Seq(Cell) /\ up \in Nat /\ at <= up /\ up <= Len(d)
      /\ mode = "w" => Len(d) = up
      /\ \A k \in 1 .. at : d[k] = disk[k]
      /\ \A k \in at + 1 .. up : d[k] \in FrontCell
      /\ Member(d, at, z.dd, t)
      /\ at + MemberLen(d, at, z.dd, t) = up
  <2>1. z = FinalInfo(body) /\ t = TruthOf(body)
    OBVIOUS
  <2> HIDE DEF z, t
  <2> QED BY <1>1, <2>1, MemberClosed
<1> HIDE DEF z, t, d, up, at
<1>6. /\ filelist \in Seq(Info) /\ truth \in Seq(Truth)
      /\ Len(truth) = Len(filelist)
  BY <1>1 DEF Types
<1>7. Types'
  <2>1. /\ filelist' \in Seq(Info) /\ truth' \in Seq(Truth)
        /\ Len(truth') = Len(filelist')
    BY <1>2, <1>4, <1>6
  <2>2. disk' \in Seq(Cell) /\ start_dir' \in Nat
    BY <1>5 DEF d, up
  <2>3. /\ prefix' \in Nat /\ writes' \in Nat
        /\ mode' \in {"w", "a", "r", "closed"}
        /\ seekable' \in BOOLEAN /\ didModify' \in BOOLEAN
        /\ kept' \in Info /\ VendorOK(kept')
    BY <1>1, <1>2 DEF Types
  <2>4. reserved' \in BOOLEAN /\ sealed' \in BOOLEAN
    BY <1>1, <1>2 DEF Types
  <2> QED BY <2>1, <2>2, <2>3, <2>4 DEF Types
<1>8. Below'
  <2>1. Holds(disk, filelist, prefix, truth, at)
    BY <1>1, <1>3 DEF Below, at
  <2>2. at <= Len(d)
    <3> DEFINE m == Len(d)
    <3>1. m \in Nat
      BY <1>5
    <3> HIDE DEF m
    <3>2. at <= up /\ up <= m
      BY <1>5 DEF m
    <3>3. at <= m
      BY ONLY <1>3, <1>5, <3>1, <3>2
    <3> QED BY <3>3 DEF m
  <2>3. prefix \in Nat /\ at \in Nat
    BY <1>3
  <2>4. Holds(d, filelist, prefix, truth, at)
    BY <1>5, <1>6, <2>1, <2>2, <2>3, HoldsStays
  <2>5. InPlace(d, z, prefix, t, up)
    <3>1. z.off + prefix = at
      BY <1>3, <1>4
    <3>2. at + MemberLen(d, at, z.dd, t) <= up
      BY <1>5
    <3> QED BY <1>4, <1>5, <3>1, <3>2 DEF InPlace
  <2>6. Holds(d, Append(filelist, z), prefix, Append(truth, t), up)
    <3>1. /\ filelist \in Seq(Info) /\ truth \in Seq(Truth)
          /\ Len(truth) = Len(filelist)
          /\ prefix \in Nat /\ at \in Nat /\ up \in Nat
          /\ at <= up /\ up <= Len(d) /\ at <= z.off + prefix
          /\ \A k \in at + 1 .. up : d[k] \in FrontCell
          /\ z \in Info /\ t \in Truth
      BY <1>3, <1>4, <1>5, <1>6
    <3> QED BY ONLY <2>4, <2>5, <3>1, HoldsMore
  <2>7. up + prefix = up
    BY <1>3, <1>5
  <2> QED BY <1>2, <2>6, <2>7 DEF Below, d, up
<1>9. Session'
  <2>1. mode = "w" => Len(disk') = start_dir'
    BY <1>5 DEF d, up
  <2> QED BY <1>1, <1>2, <2>1 DEF Session
<1>10. Listed'
  BY <1>2 DEF Listed, Unchanged
<1> QED BY <1>7, <1>8, <1>9, <1>10 DEF Inv

(* What is written at or behind the directory leaves the members alone.     *)
LEMMA PutKeeps ==
    ASSUME Types, Below, prefix = 0, NEW pos \in start_dir .. Len(disk),
           NEW s \in Seq(Cell), NEW e, e = Put(disk, pos, s)
    PROVE  e \in Seq(Cell) /\ Holds(e, filelist, prefix, truth, start_dir + prefix)
<1> DEFINE n == Len(disk)  sd == start_dir  m == Len(e)
<1>1. /\ disk \in Seq(Cell) /\ n \in Nat /\ sd \in Nat /\ sd + prefix = sd
      /\ filelist \in Seq(Info) /\ truth \in Seq(Truth)
      /\ Len(truth) = Len(filelist) /\ prefix \in Nat
  BY DEF Types
<1>2. pos \in Nat /\ sd <= pos /\ pos <= n /\ Len(s) \in Nat
  BY <1>1
<1>3. /\ e \in Seq(Cell)
      /\ m = IF pos + Len(s) <= n THEN n ELSE pos + Len(s)
      /\ \A k \in 1 .. pos : e[k] = disk[k]
  <2>1. pos \in 0 .. Len(disk) /\ disk \in Seq(Cell)
    BY <1>1, <1>2
  <2> QED BY <2>1, PutAt
<1> HIDE DEF n, sd, m
<1>4. sd <= m
  <2> DEFINE l == Len(s)
  <2> HIDE DEF l
  <2>1. l \in Nat /\ m = IF pos + l <= n THEN n ELSE pos + l
    BY <1>2, <1>3 DEF l
  <2> QED BY ONLY <1>1, <1>2, <2>1
<1>5. \A k \in 1 .. sd : e[k] = disk[k]
  <2>1. \A k \in 1 .. sd : k \in 1 .. pos
    BY ONLY <1>1, <1>2
  <2> QED BY <1>3, <2>1
<1>6. Holds(disk, filelist, prefix, truth, sd)
  BY <1>1 DEF Below, sd
<1>7. Holds(e, filelist, prefix, truth, sd)
  <2>1. sd <= Len(e)
    BY <1>4 DEF m
  <2> QED BY ONLY <1>1, <1>5, <1>6, <2>1, HoldsStays
<1> QED BY <1>1, <1>3, <1>7 DEF sd

LEMMA CloseHandleFailsKeeps ==
    ASSUME Inv, NEW body \in Bodies, CloseHandleFails(body) PROVE Inv'
<1>1. Types /\ Below /\ Session
  BY DEF Inv
<1>2. /\ HandleOK /\ mode \in {"w", "a"} /\ reserved /\ didModify
      /\ disk' = Put(disk, handle.next, Payload(body))
      /\ handle' = NoHandle /\ reserved' = reserved
      /\ mode' = mode /\ seekable' = seekable /\ kept' = kept
      /\ filelist' = filelist /\ start_dir' = start_dir /\ truth' = truth
      /\ didModify' = didModify /\ sealed' = sealed /\ prefix' = prefix
      /\ writes' = writes
  BY <1>1 DEF CloseHandleFails, Session, HandleOK, settings, reusable, directory, ghosts
<1>3. handle.next \in start_dir .. Len(disk)
  <2> DEFINE h == Len(HeaderCells)  n == Len(disk)
  <2>1. h \in Nat
    <3> DEFINE a == FileHeader(handle.info, handle.zip64)
               e == EncryptionHeader(handle.scheme)
    <3>1. a \in Seq(FrontCell) /\ e \in Seq(FrontCell)
      <4>1. /\ a = FileHeader(handle.info, handle.zip64) /\ handle.info \in Info
            /\ e = EncryptionHeader(handle.scheme)
        BY <1>2 DEF HandleOK
      <4> HIDE DEF a, e
      <4>2. a \in Seq(FrontCell)
        BY ONLY <4>1, HeaderIs
      <4>3. e \in Seq(FrontCell)
        BY ONLY <4>1, EncryptionHeaderIs
      <4> QED BY <4>2, <4>3
    <3> HIDE DEF a, e
    <3>2. a \o e \in Seq(FrontCell)
      BY ONLY <3>1, Joined
    <3>3. HeaderCells = a \o e
      BY DEF HeaderCells, a, e
    <3> QED BY <3>2, <3>3
  <2>2. handle.next = start_dir + h /\ handle.next <= n
    BY <1>2 DEF HandleOK
  <2>3. start_dir \in Nat /\ n \in Nat
    BY <1>1 DEF Types
  <2> HIDE DEF h, n
  <2>4. handle.next \in start_dir .. n
    BY <2>1, <2>2, <2>3
  <2> QED BY <2>4 DEF n
<1>4. Payload(body) \in Seq(Cell)
  <2> DEFINE s == Payload(body)
  <2>1. s = Payload(body) /\ handle.scheme \in Schemes /\ writes \in Nat
    BY <1>1, <1>2 DEF HandleOK, Types
  <2> HIDE DEF s
  <2>2. s \in Seq(FrontCell)
    BY <2>1, PayloadIs
  <2>3. s \in Seq(Cell)
    BY <2>2, FrontIsCell, SeqOfLarger
  <2> QED BY <2>3 DEF s
<1>5. prefix = 0
  BY <1>1, <1>2 DEF Session
<1>6. /\ disk' \in Seq(Cell)
      /\ Holds(disk', filelist, prefix, truth, start_dir + prefix)
  <2> DEFINE s == Payload(body)  pos == handle.next
  <2>1. /\ pos \in start_dir .. Len(disk) /\ s \in Seq(Cell)
        /\ disk' = Put(disk, pos, s)
    BY <1>2, <1>3, <1>4
  <2> HIDE DEF s, pos
  <2> QED BY <1>1, <1>5, <2>1, PutKeeps
<1>7. Types' /\ Below'
  BY <1>1, <1>2, <1>6 DEF Types, Below
<1>8. Session'
  BY <1>1, <1>2 DEF Session
<1>9. Listed'
  BY <1>2 DEF Listed, Unchanged
<1> QED BY <1>7, <1>8, <1>9 DEF Inv

(* What close() writes.                                                     *)
LEMMA EndIsCells ==
    ASSUME Types, Below, Session, mode # "closed"
    PROVE  /\ DirectoryCells(filelist) \in Seq(Cell)
           /\ DirectoryCells(filelist)
                \o EndRecords(Len(filelist), DirectorySize, start_dir) \in Seq(Cell)
           /\ EndRecords(Len(filelist), DirectorySize, start_dir) \in Seq(Cell)
           /\ WritePos = start_dir => DirectorySize = DirLen(filelist)
<1> DEFINE r == DirectoryCells(filelist)  n == Len(filelist)  sd == start_dir
           E == EndRecords(n, DirectorySize, sd)  pos == WritePos  D == Len(r)
<1>1. /\ pos \in sd .. Len(disk) /\ sd \in Nat /\ Len(disk) \in Nat
  BY WritePosIs
<1>2. filelist \in Seq(Info) /\ n \in Nat
  BY DEF Types
<1>3. r \in Seq(DirCell)
  BY <1>2, DirectoryIsCells
<1>4. r \in Seq(Cell) /\ D \in Nat
  <2> HIDE DEF r
  <2> QED BY <1>3, FrontIsCell, SeqOfLarger DEF D
<1>5. DirectorySize = pos + D - sd
  BY DEF DirectorySize
<1> HIDE DEF D, pos, r, n, sd
<1>6. DirectorySize \in Nat /\ (pos = sd => DirectorySize = D)
  <2>1. pos \in Nat /\ sd <= pos
    BY ONLY <1>1
  <2> QED BY ONLY <1>1, <1>4, <1>5, <2>1
<1>7. E \in Seq(LastCell)
  BY <1>1, <1>2, <1>6, EndRecordsAre
<1> HIDE DEF E
<1>8. E \in Seq(Cell)
  BY <1>7, FrontIsCell, SeqOfLarger
<1>9. r \o E \in Seq(Cell)
  BY ONLY <1>4, <1>8, Joined
<1> QED BY <1>4, <1>6, <1>8, <1>9 DEF D, pos, r, n, sd, E, DirLen

LEMMA CloseTooLargeKeeps == ASSUME Inv, CloseTooLarge PROVE Inv'
<1>1. Types /\ Below /\ Session
  BY DEF Inv
<1>2. /\ mode # "closed" /\ handle = NoHandle
      /\ disk' = Put(disk, WritePos, DirectoryCells(filelist))
      /\ mode' = "closed" /\ handle' = handle /\ reserved' = reserved
      /\ seekable' = seekable /\ kept' = kept
      /\ filelist' = filelist /\ start_dir' = start_dir /\ truth' = truth
      /\ didModify' = didModify /\ sealed' = sealed /\ prefix' = prefix
      /\ writes' = writes
  BY DEF CloseTooLarge, settings, reusable, directory, ghosts
<1>3. prefix = 0 /\ ~sealed
  BY <1>1, <1>2 DEF Session
<1>4. WritePos \in start_dir .. Len(disk)
  BY <1>1, <1>2, WritePosIs
<1>5. DirectoryCells(filelist) \in Seq(Cell)
  BY <1>1, <1>2, EndIsCells
<1>6. /\ disk' \in Seq(Cell)
      /\ Holds(disk', filelist, prefix, truth, start_dir + prefix)
  <2> DEFINE s == DirectoryCells(filelist)  pos == WritePos
  <2>1. /\ pos \in start_dir .. Len(disk) /\ s \in Seq(Cell)
        /\ disk' = Put(disk, pos, s)
    BY <1>2, <1>4, <1>5
  <2> HIDE DEF s, pos
  <2> QED BY <1>1, <1>3, <2>1, PutKeeps
<1>7. Types' /\ Below'
  BY <1>1, <1>2, <1>6 DEF Types, Below
<1>8. Session'
  BY <1>2 DEF Session
<1>9. Listed'
  BY <1>2, <1>3 DEF Listed, Unchanged
<1> QED BY <1>7, <1>8, <1>9 DEF Inv

(* What is written and cut off behind, or written at the end.               *)
LEMMA PutEnds ==
    ASSUME NEW S, NEW d \in Seq(S), NEW s \in Seq(S), NEW p \in 0 .. Len(d)
    PROVE  /\ SubSeq(Put(d, p, s), 1, p + Len(s)) = SubSeq(d, 1, p) \o s
           /\ p = Len(d) => Put(d, p, s) = SubSeq(d, 1, p) \o s
<1> DEFINE b == Put(d, p, s)  l == Len(s)  m == Len(b)  n == Len(d)
           a == SubSeq(d, 1, p)  u == SubSeq(b, 1, p + l)  v == a \o s
<1>1. p \in Nat /\ l \in Nat /\ n \in Nat /\ p <= n
  OBVIOUS
<1>2. /\ b \in Seq(S) /\ m = IF p + l <= n THEN n ELSE p + l
      /\ \A k \in 1 .. p : b[k] = d[k]
      /\ \A k \in 1 .. l : b[p + k] = s[k]
  BY PutAt
<1>3. a \in Seq(S) /\ Len(a) = p /\ \A k \in 1 .. p : a[k] = d[k]
  <2>1. /\ SubSeq(d, 0 + 1, p) \in Seq(S) /\ Len(SubSeq(d, 0 + 1, p)) = p - 0
        /\ \A k \in 1 .. p - 0 : SubSeq(d, 0 + 1, p)[k] = d[0 + k]
    BY <1>1, Slice
  <2> QED BY <2>1
<1> HIDE DEF a
<1>4. /\ v \in Seq(S) /\ Len(v) = p + l
      /\ \A k \in 1 .. p : v[k] = a[k]
      /\ \A k \in 1 .. l : v[p + k] = s[k]
  <2>1. /\ a \o s \in Seq(S) /\ Len(a \o s) = Len(a) + Len(s)
        /\ \A k \in 1 .. Len(a) : (a \o s)[k] = a[k]
        /\ \A k \in 1 .. Len(s) : (a \o s)[Len(a) + k] = s[k]
    <3>1. a \in Seq(S) /\ s \in Seq(S)
      BY <1>3
    <3> QED BY ONLY <3>1, Joined
  <2> QED BY <1>3, <2>1
<1> HIDE DEF b, l, n, v, m
<1>5. p + l \in Nat /\ p + l <= m /\ (p = n => m = p + l)
  BY ONLY <1>1, <1>2
<1>6. \A k \in 1 .. p + l : b[k] = v[k]
  <2> TAKE k \in 1 .. p + l
  <2>1. CASE k <= p
    <3>1. k \in 1 .. p
      BY <1>1, <2>1
    <3> QED BY <1>2, <1>3, <1>4, <3>1
  <2>2. CASE ~(k <= p)
    <3>1. k - p \in 1 .. l /\ p + (k - p) = k
      BY <1>1, <2>2
    <3>2. b[p + (k - p)] = s[k - p] /\ v[p + (k - p)] = s[k - p]
      BY <1>2, <1>4, <3>1
    <3> QED BY <3>1, <3>2
  <2> QED BY <2>1, <2>2
<1>7. u \in Seq(S) /\ Len(u) = p + l /\ \A k \in 1 .. p + l : u[k] = b[k]
  <2> DEFINE q == p + l
  <2>1. q \in Nat /\ q <= Len(b) /\ b \in Seq(S)
    BY <1>2, <1>5 DEF m
  <2> HIDE DEF q
  <2>2. /\ SubSeq(b, 0 + 1, q) \in Seq(S) /\ Len(SubSeq(b, 0 + 1, q)) = q - 0
        /\ \A k \in 1 .. q - 0 : SubSeq(b, 0 + 1, q)[k] = b[0 + k]
    BY ONLY <2>1, Slice
  <2>3. 0 + 1 = 1 /\ q - 0 = q
    BY <2>1
  <2>4. /\ SubSeq(b, 1, q) \in Seq(S) /\ Len(SubSeq(b, 1, q)) = q
        /\ \A k \in 1 .. q : SubSeq(b, 1, q)[k] = b[k]
    BY <2>2, <2>3
  <2> QED BY <2>4 DEF q
<1> HIDE DEF u
<1>8. u = v
  <2>1. u \in Seq(S) /\ v \in Seq(S) /\ Len(u) = Len(v)
        /\ \A k \in 1 .. Len(u) : u[k] = v[k]
    BY <1>4, <1>6, <1>7
  <2> QED BY ONLY <2>1, SameSeq
<1>9. p = n => b = v
  <2> SUFFICES ASSUME p = n PROVE b = v
    OBVIOUS
  <2>1. b \in Seq(S) /\ v \in Seq(S) /\ Len(b) = Len(v)
        /\ \A k \in 1 .. Len(b) : b[k] = v[k]
    BY <1>2, <1>4, <1>5, <1>6 DEF m
  <2> QED BY ONLY <2>1, SameSeq
<1> QED BY <1>8, <1>9 DEF b, l, n, u, v, a

(* A directory behind the members makes the archive complete.               *)
LEMMA DirectoryListed ==
    ASSUME Types, Below, Session, mode # "closed", WritePos = start_dir,
           NEW records,
           records = DirectoryCells(filelist)
                     \o EndRecords(Len(filelist), DirectorySize, start_dir),
           NEW e, e = SubSeq(disk, 1, start_dir) \o records
    PROVE  Lists(e, filelist, start_dir, 0)
<1> DEFINE r == DirectoryCells(filelist)  E == EndOf(filelist, start_dir)
           front == SubSeq(disk, 1, start_dir)
<1>1. /\ r \in Seq(Cell) /\ DirectorySize = DirLen(filelist)
      /\ EndRecords(Len(filelist), DirectorySize, start_dir) \in Seq(Cell)
  BY EndIsCells
<1>2. records = r \o E /\ E \in Seq(Cell)
  BY <1>1 DEF EndOf
<1>3. /\ start_dir \in Nat /\ prefix = 0 /\ start_dir + prefix = start_dir
      /\ start_dir <= Len(disk)
  BY WritePosIs
<1>4. disk \in Seq(Cell) /\ filelist \in Seq(Info) /\ truth \in Seq(Truth)
  BY DEF Types
<1>5. /\ front \in Seq(Cell) /\ Len(front) = start_dir
      /\ \A k \in 1 .. start_dir : front[k] = disk[k]
  <2> DEFINE q == start_dir
  <2>1. /\ SubSeq(disk, 0 + 1, q) \in Seq(Cell) /\ Len(SubSeq(disk, 0 + 1, q)) = q - 0
        /\ \A k \in 1 .. q - 0 : SubSeq(disk, 0 + 1, q)[k] = disk[0 + k]
    BY <1>3, <1>4, Slice
  <2> QED BY <1>3, <2>1
<1> HIDE DEF r, E, front
<1>6. front \in Seq(FrontCell)
  <2>1. \A k \in 1 .. start_dir : disk[k] \in FrontCell
    BY <1>3 DEF Below, Holds
  <2>2. \A k \in 1 .. Len(front) : front[k] \in FrontCell
    BY <1>5, <2>1
  <2> QED BY <1>5, <2>2
<1>7. e = (front \o r) \o E
  <2>1. front \o (r \o E) = (front \o r) \o E
    <3>1. front \in Seq(Cell) /\ r \in Seq(Cell) /\ E \in Seq(Cell)
      BY <1>1, <1>2, <1>5
    <3> QED BY ONLY <3>1, ConcatAssociative
  <2> QED BY <1>2, <2>1 DEF front
<1>8. \A i \in 1 .. Len(filelist) : InfoOK(filelist[i], truth[i])
  BY DEF Below, Holds, InPlace
<1>9. Layout(e, filelist, start_dir, 0)
  <2>1. \A i \in 1 .. Len(filelist) : VendorOK(filelist[i])
    BY <1>8 DEF InfoOK
  <2>2. Len(front) = start_dir + 0
    BY <1>3, <1>5
  <2> QED BY <1>3, <1>4, <1>6, <1>7, <2>1, <2>2 DEF Layout, r, E
<1> QED BY <1>3, <1>8, <1>9 DEF Lists

LEMMA CloseKeeps == ASSUME Inv, Close PROVE Inv'
<1> DEFINE records == DirectoryCells(filelist)
                      \o EndRecords(Len(filelist), DirectorySize, start_dir)
           written == Put(disk, WritePos, records)
           sd == start_dir
<1>1. Types /\ Below /\ Session /\ Listed
  BY DEF Inv
<1>2. /\ mode # "closed" /\ handle = NoHandle
      /\ disk' = IF ~Rewrites THEN disk
                 ELSE IF mode = "a"
                      THEN SubSeq(written, 1, WritePos + Len(records))
                      ELSE written
      /\ sealed' = (mode = "w" => sd = Len(disk))
      /\ mode' = "closed" /\ handle' = handle /\ reserved' = reserved
      /\ seekable' = seekable /\ kept' = kept
      /\ filelist' = filelist /\ start_dir' = start_dir /\ truth' = truth
      /\ didModify' = didModify /\ prefix' = prefix
      /\ writes' = writes
  BY DEF Close, settings, reusable, directory
<1>3. /\ prefix = 0 /\ ~sealed /\ sd \in Nat /\ Len(disk) \in Nat
      /\ sd + prefix = sd /\ WritePos \in sd .. Len(disk) /\ sd <= Len(disk)
      /\ mode \in {"a", "r"} => WritePos = sd
      /\ mode = "w" /\ sd = Len(disk) => WritePos = sd
  BY <1>1, <1>2, WritePosIs DEF Session
<1>4. records \in Seq(Cell)
  BY <1>1, <1>2, EndIsCells
<1>5. disk \in Seq(Cell) /\ mode \in {"w", "a", "r"}
  BY <1>1, <1>2 DEF Types
<1> HIDE DEF records
<1>6. WritePos = sd =>
         /\ SubSeq(written, 1, WritePos + Len(records))
              = SubSeq(disk, 1, sd) \o records
         /\ sd = Len(disk) => written = SubSeq(disk, 1, sd) \o records
  <2> SUFFICES ASSUME WritePos = sd
               PROVE  /\ SubSeq(Put(disk, sd, records), 1, sd + Len(records))
                           = SubSeq(disk, 1, sd) \o records
                      /\ sd = Len(disk) =>
                            Put(disk, sd, records) = SubSeq(disk, 1, sd) \o records
    OBVIOUS
  <2>1. sd \in 0 .. Len(disk)
    BY <1>3
  <2> HIDE DEF sd
  <2> QED BY ONLY <1>4, <1>5, <2>1, PutEnds
<1>7. WritePos = sd =>
         Lists(SubSeq(disk, 1, sd) \o records, filelist, sd, 0)
  BY <1>1, <1>2, DirectoryListed DEF records
<1>8. CASE ~Rewrites
  <2>1. disk' = disk /\ Unchanged
    BY <1>1, <1>2, <1>5, <1>8 DEF Rewrites, Unchanged, Session
  <2>2. Types' /\ Below'
    <3>1. sealed' \in BOOLEAN
      BY <1>2
    <3> QED BY <1>1, <1>2, <2>1, <3>1 DEF Types, Below
  <2>3. Session'
    BY <1>2 DEF Session
  <2>4. Listed'
    <3>1. PICK zs, q, p : Lists(disk, zs, q, p)
      BY <1>1, <2>1 DEF Listed
    <3>2. Lists(disk, zs, q, p)'
      BY <1>2, <2>1, <3>1 DEF Lists
    <3> QED BY <3>2 DEF Listed
  <2> QED BY <2>2, <2>3, <2>4 DEF Inv
<1>9. CASE Rewrites /\ sealed'
  <2> DEFINE e == SubSeq(disk, 1, sd) \o records
  <2>1. disk' = e /\ WritePos = sd
    BY <1>2, <1>3, <1>5, <1>6, <1>9 DEF Rewrites
  <2>2. Lists(e, filelist, sd, 0)
    BY <1>7, <2>1
  <2> HIDE DEF e
  <2>3. e \in Seq(Cell) /\ Holds(e, filelist, prefix, truth, sd)
    <3>1. e \in Seq(Cell) /\ Len(e) >= sd /\ \A k \in 1 .. sd : e[k] = disk[k]
      <4> DEFINE a == SubSeq(disk, 1, sd)
      <4>1. a \in Seq(Cell) /\ Len(a) = sd /\ \A k \in 1 .. sd : a[k] = disk[k]
        <5>1. /\ SubSeq(disk, 0 + 1, sd) \in Seq(Cell)
              /\ Len(SubSeq(disk, 0 + 1, sd)) = sd - 0
              /\ \A k \in 1 .. sd - 0 : SubSeq(disk, 0 + 1, sd)[k] = disk[0 + k]
          BY <1>3, <1>5, Slice
        <5> QED BY <1>3, <5>1
      <4> HIDE DEF a
      <4>2. /\ a \o records \in Seq(Cell)
            /\ Len(a \o records) = Len(a) + Len(records)
            /\ \A k \in 1 .. Len(a) : (a \o records)[k] = a[k]
        <5>1. a \in Seq(Cell)
          BY <4>1
        <5> QED BY ONLY <1>4, <5>1, Joined
      <4>3. e = a \o records
        BY DEF e, a
      <4>4. Len(records) \in Nat
        BY <1>4
      <4>5. Len(e) >= sd
        <5> DEFINE l == Len(records)  m == Len(e)
        <5>1. m = sd + l /\ l \in Nat
          BY <4>1, <4>2, <4>3, <4>4
        <5> HIDE DEF l, m
        <5>2. m >= sd
          BY ONLY <1>3, <5>1
        <5> QED BY <5>2 DEF m
      <4> QED BY <4>1, <4>2, <4>3, <4>5
    <3>2. Holds(disk, filelist, prefix, truth, sd)
      BY <1>1, <1>3 DEF Below
    <3>3. /\ filelist \in Seq(Info) /\ truth \in Seq(Truth)
          /\ Len(truth) = Len(filelist) /\ prefix \in Nat /\ sd \in Nat
      BY <1>1, <1>3 DEF Types
    <3>4. sd <= Len(e) /\ \A k \in 1 .. sd : e[k] = disk[k]
      BY <3>1, <1>3
    <3> HIDE DEF sd
    <3>5. Holds(e, filelist, prefix, truth, sd)
      BY ONLY <3>2, <3>3, <3>4, HoldsStays
    <3> QED BY <3>1, <3>5
  <2>4. Types' /\ Below'
    <3>1. sealed' \in BOOLEAN
      BY <1>2
    <3> QED BY <1>1, <1>2, <1>3, <2>1, <2>3, <3>1 DEF Types, Below
  <2>5. Session'
    BY <1>2 DEF Session
  <2>6. Listed'
    <3>1. Lists(disk, filelist, sd, 0)'
      BY <1>2, <2>1, <2>2 DEF Lists
    <3> QED BY <3>1 DEF Listed
  <2> QED BY <2>4, <2>5, <2>6 DEF Inv
<1>10. CASE Rewrites /\ ~sealed'
  <2>1. disk' = written
    BY <1>2, <1>10
  <2>2. /\ disk' \in Seq(Cell)
        /\ Holds(disk', filelist, prefix, truth, sd + prefix)
    <3> DEFINE pos == WritePos
    <3>1. /\ pos \in start_dir .. Len(disk) /\ records \in Seq(Cell)
          /\ disk' = Put(disk, pos, records)
      BY <1>3, <1>4, <2>1
    <3> HIDE DEF pos
    <3> QED BY <1>1, <1>3, <3>1, PutKeeps
  <2>3. Types' /\ Below'
    <3>1. sealed' \in BOOLEAN
      BY <1>2
    <3> QED BY <1>1, <1>2, <2>2, <3>1 DEF Types, Below
  <2>4. Session'
    BY <1>2 DEF Session
  <2>5. Listed'
    BY <1>2, <1>10 DEF Listed, Unchanged
  <2> QED BY <2>3, <2>4, <2>5 DEF Inv
<1> QED BY <1>8, <1>9, <1>10

LEMMA PrependKeeps == ASSUME Inv, Prepend PROVE Inv'
<1> DEFINE junk == <<[kind |-> "junk"]>>  e == disk'
<1>1. Types /\ Below /\ Session /\ Listed
  BY DEF Inv
<1>2. /\ mode = "closed" /\ sealed /\ prefix = 0 /\ disk' = junk \o disk
      /\ prefix' = 1 /\ mode' = mode /\ handle' = handle /\ reserved' = reserved
      /\ seekable' = seekable /\ kept' = kept
      /\ filelist' = filelist /\ start_dir' = start_dir /\ truth' = truth
      /\ didModify' = didModify /\ sealed' = sealed /\ writes' = writes
  BY DEF Prepend, settings, reusable, directory
<1>3. handle = NoHandle
  BY <1>1, <1>2 DEF Session, HandleOK
<1>4. junk \in Seq(FrontCell) /\ junk \in Seq(Cell) /\ Len(junk) = 1
  <2>1. [kind |-> "junk"] \in FrontCell
    BY DEF FrontCell, BareCell
  <2>2. junk \in Seq(FrontCell) /\ Len(junk) = 1
    BY <2>1
  <2> HIDE DEF junk
  <2> QED BY <2>2, FrontIsCell, SeqOfLarger
<1>5. junk[1] \in FrontCell
  BY <1>4
<1> HIDE DEF junk
<1>6. /\ disk \in Seq(Cell) /\ filelist \in Seq(Info) /\ truth \in Seq(Truth)
      /\ Len(truth) = Len(filelist) /\ start_dir \in Nat
  BY <1>1 DEF Types
<1>7. /\ e \in Seq(Cell) /\ Len(e) = 1 + Len(disk)
      /\ e[1] = junk[1]
      /\ \A k \in 1 .. Len(disk) : e[1 + k] = disk[k]
  <2>1. /\ junk \o disk \in Seq(Cell) /\ Len(junk \o disk) = Len(junk) + Len(disk)
        /\ \A k \in 1 .. Len(junk) : (junk \o disk)[k] = junk[k]
        /\ \A k \in 1 .. Len(disk) : (junk \o disk)[Len(junk) + k] = disk[k]
    <3>1. junk \in Seq(Cell) /\ disk \in Seq(Cell)
      BY <1>4, <1>6
    <3> QED BY ONLY <3>1, Joined
  <2> QED BY <1>2, <1>4, <2>1
<1> HIDE DEF e
<1>8. Holds(e, filelist, 1, truth, start_dir + 1)
  <2> DEFINE sd == start_dir  n == Len(disk)
  <2>1. Holds(disk, filelist, 0, truth, sd)
    <3>1. sd + 0 = sd
      BY <1>6
    <3> QED BY <1>1, <1>2, <3>1 DEF Below
  <2>2. sd <= n /\ n \in Nat /\ sd \in Nat
    BY <1>6, <2>1 DEF Holds
  <2> HIDE DEF sd, n
  <2>3. /\ sd + 1 <= Len(e)
        /\ \A k \in 1 .. 1 : e[k] \in FrontCell
        /\ \A k \in 1 .. sd : e[1 + k] = disk[k]
    <3>1. Len(e) = 1 + n /\ \A k \in 1 .. n : e[1 + k] = disk[k]
      BY <1>7 DEF n
    <3>2. sd + 1 <= 1 + n /\ \A k \in 1 .. sd : k \in 1 .. n
      BY ONLY <2>2
    <3>3. \A k \in 1 .. 1 : k = 1
      OBVIOUS
    <3> QED BY <1>5, <1>7, <3>1, <3>2, <3>3
  <2>4. Holds(e, filelist, 0 + 1, truth, sd + 1)
    <3> DEFINE o == 0  m == 1
    <3>1. o \in Nat /\ m \in Nat /\ Holds(disk, filelist, o, truth, sd)
      BY <2>1
    <3>2. /\ sd + m <= Len(e)
          /\ \A k \in 1 .. m : e[k] \in FrontCell
          /\ \A k \in 1 .. sd : e[m + k] = disk[k]
      BY <2>3
    <3> HIDE DEF o, m
    <3>3. Holds(e, filelist, o + m, truth, sd + m)
      BY ONLY <1>6, <2>2, <3>1, <3>2, HoldsMoves
    <3> QED BY <3>3 DEF o, m
  <2> QED BY <2>4 DEF sd
<1>9. Types'
  BY <1>1, <1>2, <1>7 DEF Types, e
<1>10. Below'
  BY <1>2, <1>8 DEF Below, e
<1>11. Session'
  BY <1>2, <1>3 DEF Session
<1>12. Listed'
  <2>1. PICK zs, q, p : Lists(disk, zs, q, p)
    BY <1>1, <1>2 DEF Listed
  <2>2. /\ zs \in Seq(Info) /\ q \in Nat /\ p \in Nat
        /\ \A i \in 1 .. Len(zs) : VendorOK(zs[i])
    BY <2>1 DEF Lists, Layout
  <2>3. Layout(e, zs, q, p + 1)
    <3> DEFINE r == DirectoryCells(zs)  E == EndOf(zs, q)
    <3>1. PICK front \in Seq(FrontCell) :
             Len(front) = q + p /\ disk = (front \o r) \o E
      BY <2>1 DEF Lists, Layout
    <3>2. r \in Seq(Cell) /\ E \in Seq(Cell) /\ front \in Seq(Cell)
      <4>1. r \in Seq(DirCell)
        BY <2>2, DirectoryIsCells
      <4>2. E \in Seq(LastCell)
        <5> DEFINE n == Len(zs)  D == DirLen(zs)
        <5>1. n \in Nat /\ D \in Nat
          BY <2>2, <4>1 DEF DirLen
        <5> HIDE DEF n, D
        <5>2. EndRecords(n, D, q) \in Seq(LastCell)
          BY <2>2, <5>1, EndRecordsAre
        <5> QED BY <5>2 DEF n, D, EndOf
      <4> HIDE DEF r, E
      <4>3. r \in Seq(Cell)
        BY <4>1, FrontIsCell, SeqOfLarger
      <4>4. E \in Seq(Cell)
        BY <4>2, FrontIsCell, SeqOfLarger
      <4>5. front \in Seq(Cell)
        BY FrontIsCell, SeqOfLarger
      <4> QED BY <4>3, <4>4, <4>5
    <3> HIDE DEF r, E
    <3> DEFINE more == junk \o front
    <3>3. e = (more \o r) \o E
      <4>1. front \o r \in Seq(Cell)
        BY ONLY <3>2, Joined
      <4>2. junk \o ((front \o r) \o E) = (junk \o (front \o r)) \o E
        <5> DEFINE x == front \o r
        <5>1. junk \in Seq(Cell) /\ x \in Seq(Cell) /\ E \in Seq(Cell)
          BY <1>4, <3>2, <4>1
        <5> HIDE DEF x
        <5>2. junk \o (x \o E) = (junk \o x) \o E
          BY ONLY <5>1, ConcatAssociative
        <5> QED BY <5>2 DEF x
      <4>3. junk \o (front \o r) = (junk \o front) \o r
        <5>1. junk \in Seq(Cell) /\ front \in Seq(Cell) /\ r \in Seq(Cell)
          BY <1>4, <3>2
        <5> QED BY ONLY SMTT(20), ZenonT(30), <5>1, ConcatAssociative
      <4> QED BY <1>2, <3>1, <4>2, <4>3 DEF e
    <3>4. more \in Seq(FrontCell) /\ Len(more) = q + (p + 1)
      <4>1. /\ junk \o front \in Seq(FrontCell)
            /\ Len(junk \o front) = Len(junk) + Len(front)
        <5>1. junk \in Seq(FrontCell) /\ front \in Seq(FrontCell)
          BY <1>4
        <5> QED BY ONLY <5>1, Joined
      <4>2. 1 + (q + p) = q + (p + 1)
        BY <2>2
      <4> QED BY <1>4, <3>1, <4>1, <4>2
    <3> HIDE DEF more
    <3>5. p + 1 \in Nat
      BY <2>2
    <3> QED BY <2>2, <3>3, <3>4, <3>5 DEF Layout, r, E
  <2>4. Lists(disk, zs, q, p + 1)'
    <3>1. /\ Len(zs) = Len(filelist) /\ q + p = start_dir + 0
          /\ \A i \in 1 .. Len(zs) :
                /\ zs[i].off + p = filelist[i].off + 0
                /\ zs[i].dd = filelist[i].dd
                /\ InfoOK(zs[i], truth[i])
      BY <1>2, <2>1 DEF Lists
    <3>2. q + (p + 1) = start_dir + 1
      BY <1>6, <2>2, <3>1
    <3>3. \A i \in 1 .. Len(zs) : zs[i].off + (p + 1) = filelist[i].off + 1
      <4> TAKE i \in 1 .. Len(zs)
      <4>1. zs[i] \in Info /\ filelist[i] \in Info
        BY <1>6, <2>2, <3>1
      <4> DEFINE a == zs[i].off  b == filelist[i].off
      <4>2. a \in Nat /\ b \in Nat /\ a + p = b + 0
        BY <3>1, <4>1 DEF Info
      <4> HIDE DEF a, b
      <4>3. a + (p + 1) = b + 1
        BY ONLY <2>2, <4>2
      <4> QED BY <4>3 DEF a, b
    <3> QED BY <1>2, <2>3, <3>1, <3>2, <3>3 DEF Lists, e
  <2> QED BY <2>4 DEF Listed
<1> QED BY <1>9, <1>10, <1>11, <1>12 DEF Inv

-----------------------------------------------------------------------------
(* The theorems                                                             *)

LEMMA StepKeeps == ASSUME Inv, Next PROVE Inv'
<1>1. CASE Create
  BY <1>1, CreateKeeps
<1>2. CASE OpenExisting
  BY <1>2, OpenExistingKeeps
<1>3. ASSUME NEW hint \in Hints, NEW force \in BOOLEAN,
             NEW reuse \in BOOLEAN, NEW scheme \in Schemes,
             OpenToWrite(reuse, scheme, hint, force)
      PROVE  Inv'
  BY <1>3, OpenToWriteKeeps
<1>4. ASSUME NEW hint \in Hints, NEW force \in BOOLEAN, OpenTooLarge(hint, force)
      PROVE  Inv'
  BY <1>4, OpenTooLargeKeeps
<1>5. ASSUME NEW body \in Bodies, CloseHandle(body) PROVE Inv'
  BY <1>5, CloseHandleKeeps
<1>6. ASSUME NEW body \in Bodies, CloseHandleFails(body) PROVE Inv'
  BY <1>6, CloseHandleFailsKeeps
<1>7. CASE SetComment
  BY <1>7, SetCommentKeeps
<1>8. CASE Close
  BY <1>8, CloseKeeps
<1>9. CASE CloseTooLarge
  BY <1>9, CloseTooLargeKeeps
<1>10. CASE Prepend
  BY <1>10, PrependKeeps
<1> QED BY <1>1, <1>2, <1>3, <1>4, <1>5, <1>6, <1>7, <1>8, <1>9, <1>10 DEF Next

(* The members of filelist lie where it says, below the directory; an open *)
(* handle has its header there; and a file that is complete, or not changed *)
(* yet, has a directory and end records that list what filelist does.       *)
THEOREM InvAlways == Spec => []Inv
<1>1. Init => Inv
  BY InitKeeps
<1>2. Inv /\ [Next]_vars => Inv'
  BY StepKeeps, StutterKeeps
<1> QED BY <1>1, <1>2, PTL DEF Spec

(* The members of filelist, each where its ZipInfo says, cannot lie outside *)
(* the file.                                                                *)
LEMMA MemberIn ==
    ASSUME NEW d, NEW zs, NEW p, NEW ts, NEW top \in Nat, Holds(d, zs, p, ts, top),
           d \in Seq(Cell), NEW i \in 1 .. Len(zs), ts[i] \in Truth,
           NEW off \in Nat, off = zs[i].off + p, NEW dd, dd = zs[i].dd
    PROVE  /\ InfoOK(zs[i], ts[i]) /\ Member(d, off, dd, ts[i])
           /\ off + MemberLen(d, off, dd, ts[i]) <= Len(d)
<1> DEFINE l == MemberLen(d, off, dd, ts[i])  n == Len(d)
<1>1. InPlace(d, zs[i], p, ts[i], top) /\ top <= n
  BY DEF Holds
<1>2. /\ InfoOK(zs[i], ts[i]) /\ Member(d, off, dd, ts[i])
      /\ off + l <= top
  BY <1>1 DEF InPlace
<1>3. l \in Nat /\ n \in Nat
  BY <1>2, MemberLenIs
<1> HIDE DEF l, n
<1>4. off + l <= n
  BY ONLY <1>1, <1>2, <1>3, off \in Nat, top \in Nat
<1> QED BY <1>2, <1>4 DEF l, n

(* What a reader is given of the member i.                                  *)
LEMMA EntryIs ==
    ASSUME Inv, NEW i \in DOMAIN Entries
    PROVE  /\ i \in DOMAIN truth /\ truth[i] \in Truth
           /\ InfoOK(Entries[i], truth[i]) /\ disk \in Seq(Cell)
           /\ Member(disk, Entries[i].off, Entries[i].dd, truth[i])
           /\ Entries[i].off + MemberLen(disk, Entries[i].off, Entries[i].dd, truth[i])
                <= Len(disk)
<1> DEFINE z == Entries[i]
<1>1. Types /\ Below /\ Session /\ Listed
  BY DEF Inv
<1>2. /\ disk \in Seq(Cell) /\ filelist \in Seq(Info) /\ truth \in Seq(Truth)
      /\ Len(truth) = Len(filelist) /\ start_dir \in Nat /\ prefix \in Nat
  BY <1>1 DEF Types
<1>3. ASSUME NEW y, i \in 1 .. Len(filelist),
             InfoOK(y, truth[i]), y.off = filelist[i].off + prefix,
             y.dd = filelist[i].dd
      PROVE  /\ i \in DOMAIN truth /\ truth[i] \in Truth
             /\ InfoOK(y, truth[i])
             /\ Member(disk, y.off, y.dd, truth[i])
             /\ y.off + MemberLen(disk, y.off, y.dd, truth[i]) <= Len(disk)
  <2> DEFINE top == start_dir + prefix  off == y.off  dd == y.dd
  <2>1. i \in DOMAIN truth /\ truth[i] \in Truth
    BY <1>2, <1>3
  <2>2. Holds(disk, filelist, prefix, truth, top) /\ top \in Nat
    BY <1>1, <1>2 DEF Below
  <2>3. off \in Nat
    BY <1>3 DEF InfoOK, Info
  <2>4. off = filelist[i].off + prefix /\ dd = filelist[i].dd
    BY <1>3
  <2> HIDE DEF top, off, dd
  <2>5. /\ Member(disk, off, dd, truth[i])
        /\ off + MemberLen(disk, off, dd, truth[i]) <= Len(disk)
    BY <1>2, <1>3, <2>1, <2>2, <2>3, <2>4, MemberIn
  <2> QED BY <1>3, <2>1, <2>5 DEF off, dd
<1>4. CASE mode # "closed" /\ seekable
  <2>1. Entries = filelist
    BY <1>4 DEF Entries
  <2>2. i \in 1 .. Len(filelist) /\ z = filelist[i] /\ z \in Info
    BY <1>2, <2>1
  <2>3. prefix = 0
    BY <1>1, <1>4 DEF Session
  <2>4. InfoOK(z, truth[i])
    BY <1>1, <2>2 DEF Below, Holds, InPlace
  <2>5. z.off = filelist[i].off + prefix
    <3> DEFINE a == filelist[i].off
    <3>1. a \in Nat /\ z.off = a
      BY <2>2 DEF Info
    <3> HIDE DEF a
    <3>2. a = a + prefix
      BY <2>3, <3>1
    <3> QED BY <3>1, <3>2 DEF a
  <2> HIDE DEF z
  <2>6. /\ i \in DOMAIN truth /\ truth[i] \in Truth
        /\ Member(disk, z.off, z.dd, truth[i])
        /\ z.off + MemberLen(disk, z.off, z.dd, truth[i]) <= Len(disk)
    BY <1>3, <2>2, <2>4, <2>5
  <2> QED BY <1>2, <2>4, <2>6 DEF z
<1>5. CASE mode = "closed" /\ sealed /\ CanBeRead(disk)
  <2>1. PICK zs, sd, p : Lists(disk, zs, sd, p)
    BY <1>1, <1>5 DEF Listed
  <2>2. Entries = [k \in 1 .. Len(zs) |-> Decoded(zs[k], p)]
    <3>1. Entries = GetContents(disk)
      BY <1>5 DEF Entries
    <3> QED BY <2>1, <3>1, LayoutReads DEF Lists
  <2>3. /\ Len(zs) = Len(filelist) /\ p \in Nat
        /\ \A k \in 1 .. Len(zs) : /\ zs[k].off + p = filelist[k].off + prefix
                                   /\ zs[k].dd = filelist[k].dd
                                   /\ InfoOK(zs[k], truth[k])
    BY <2>1 DEF Lists, Layout
  <2>4. i \in 1 .. Len(zs) /\ z = Decoded(zs[i], p)
    BY <2>2
  <2>5. truth[i] \in Truth
    BY <1>2, <2>3, <2>4
  <2>6. InfoOK(Decoded(zs[i], p), truth[i])
    BY <2>3, <2>4, <2>5, DecodedOK
  <2>7. Decoded(zs[i], p).off = zs[i].off + p /\ Decoded(zs[i], p).dd = zs[i].dd
    BY DEF Decoded
  <2>8. z.off = filelist[i].off + prefix /\ z.dd = filelist[i].dd
        /\ i \in 1 .. Len(filelist) /\ InfoOK(z, truth[i])
    BY <2>3, <2>4, <2>6, <2>7
  <2> HIDE DEF z
  <2>9. /\ i \in DOMAIN truth
        /\ Member(disk, z.off, z.dd, truth[i])
        /\ z.off + MemberLen(disk, z.off, z.dd, truth[i]) <= Len(disk)
    BY <1>3, <2>8
  <2> QED BY <1>2, <2>5, <2>8, <2>9 DEF z
<1>6. (mode # "closed" /\ seekable) \/ (mode = "closed" /\ sealed /\ CanBeRead(disk))
  <2> SUFFICES ASSUME ~(mode # "closed" /\ seekable),
                      ~(mode = "closed" /\ sealed /\ CanBeRead(disk))
               PROVE  FALSE
    OBVIOUS
  <2>1. Entries = <<>>
    BY DEF Entries
  <2> QED BY <2>1
<1> QED BY <1>4, <1>5, <1>6

-----------------------------------------------------------------------------
(* Where the members must end                                               *)

(* In the order of filelist: the next local header, or the directory.       *)
NextAt(zs, start, i) == IF i = Len(zs) THEN start ELSE zs[i + 1].off

LEMMA EndOffsetsAre ==
    ASSUME NEW zs \in Seq(Info), NEW start,
           \A i, j \in 1 .. Len(zs) : i < j => zs[i].off < zs[j].off,
           NEW i \in 1 .. Len(zs)
    PROVE  EndOffsets(zs, start)[i] = NextAt(zs, start, i)
<1> DEFINE n == Len(zs)
           K == {k \in DOMAIN zs : \/ zs[k].off > zs[i].off
                                   \/ zs[k].off = zs[i].off /\ k > i}
           behind == {zs[j].off : j \in K}
<1>1. n \in Nat /\ DOMAIN zs = 1 .. n /\ \A k \in 1 .. n : zs[k].off \in Nat
  <2>1. n \in Nat /\ DOMAIN zs = 1 .. n
    OBVIOUS
  <2>2. ASSUME NEW k \in 1 .. n PROVE zs[k].off \in Nat
    <3>1. zs[k] \in Info
      BY <2>1
    <3> QED BY <3>1 DEF Info
  <2> QED BY <2>1, <2>2
<1>2. K = {k \in 1 .. n : k > i}
  <2>1. ASSUME NEW k \in 1 .. n
        PROVE  k > i <=> \/ zs[k].off > zs[i].off
                         \/ zs[k].off = zs[i].off /\ k > i
    <3>1. zs[k].off \in Nat /\ zs[i].off \in Nat
      BY <1>1
    <3>2. k > i => zs[k].off > zs[i].off
      BY <3>1
    <3>3. k < i => zs[k].off < zs[i].off
      BY <3>1
    <3> QED BY <3>1, <3>2, <3>3
  <2> QED BY <1>1, <2>1
<1>3. EndOffsets(zs, start)[i] = IF behind = {} THEN start ELSE Min(behind)
  BY <1>1 DEF EndOffsets
<1>4. CASE i = n
  <2>1. K = {}
    BY <1>1, <1>2, <1>4
  <2> HIDE DEF K
  <2>2. behind = {}
    BY <2>1
  <2> QED BY <1>3, <1>4, <2>2 DEF NextAt
<1>5. CASE i # n
  <2>1. i + 1 \in 1 .. n /\ i + 1 > i
    <3> HIDE DEF n, K
    <3>1. i \in 1 .. n
      BY DEF n
    <3> QED BY ONLY <1>1, <1>5, <3>1
  <2>2. \A k \in K : zs[i + 1].off <= zs[k].off
    <3> TAKE k \in K
    <3>1. k \in 1 .. n /\ (k = i + 1 \/ i + 1 < k)
      BY <1>2
    <3> HIDE DEF K
    <3>2. i + 1 < k => zs[i + 1].off < zs[k].off
      BY <2>1, <3>1
    <3> QED BY <1>1, <2>1, <3>1, <3>2
  <2>3. i + 1 \in K
    BY <1>2, <2>1
  <2> HIDE DEF K
  <2>4. behind \subseteq Nat
    BY <1>1, <1>2
  <2> DEFINE a == zs[i + 1].off
  <2>5. a \in behind /\ \A b \in behind : a <= b
    BY <2>2, <2>3
  <2> HIDE DEF a, behind
  <2>6. Min(behind) = a
    <3> DEFINE P(x) == \A y \in behind : x <= y
    <3>1. Min(behind) = CHOOSE x \in behind : P(x)
      BY DEF Min
    <3>2. a \in behind /\ P(a)
      BY <2>5
    <3>3. Min(behind) \in behind /\ P(Min(behind))
      <4> HIDE DEF P
      <4> QED BY ONLY <3>1, <3>2
    <3>4. Min(behind) <= a /\ a <= Min(behind)
      BY <3>2, <3>3
    <3>5. Min(behind) \in Nat /\ a \in Nat
      BY <2>4, <3>2, <3>3
    <3> HIDE DEF P
    <3> QED BY ONLY <3>4, <3>5
  <2> QED BY <1>3, <1>5, <2>5, <2>6 DEF NextAt, a
<1> QED BY <1>4, <1>5

(* An _end_offset that is known is that of the member: in an archive that   *)
(* is not written from the start, no ZipInfo is that of another one.        *)
EndsInv ==
    /\ keptEnd \in Int /\ endOffsets \in Seq(Int)
    /\ Len(endOffsets) = Len(filelist)
    /\ handle # NoHandle => handle.end \in Int
    /\ mode \in {"a", "r"} =>
          /\ keptEnd = NoEnd
          /\ handle # NoHandle => handle.end = NoEnd
          /\ \A i \in 1 .. Len(filelist) :
                \/ endOffsets[i] = NoEnd
                \/ endOffsets[i] = NextAt(filelist, start_dir, i)

(* The places of the members grow in the order of filelist.                 *)
LEMMA PlacesGrow ==
    ASSUME Inv, NEW i \in 1 .. Len(filelist), NEW j \in 1 .. Len(filelist), i < j
    PROVE  filelist[i].off < filelist[j].off
<1> DEFINE l == MemberLen(disk, filelist[i].off + prefix, filelist[i].dd, truth[i])
           a == filelist[i].off  b == filelist[j].off
<1>1. a + l <= b /\ Member(disk, a + prefix, filelist[i].dd, truth[i])
  BY DEF Inv, Below, Holds, InOrder, InPlace
<1>2. truth[i] \in Truth /\ filelist[i] \in Info /\ filelist[j] \in Info
  BY DEF Inv, Types
<1>3. l \in Nat /\ l >= 1
  BY <1>1, <1>2, MemberLenIs
<1>4. a \in Nat /\ b \in Nat
  BY <1>2 DEF Info
<1> HIDE DEF a, b, l
<1>5. a < b
  BY ONLY <1>1, <1>3, <1>4
<1> QED BY <1>5 DEF a, b

LEMMA OpenExistingEnds == ASSUME Inv, Inv', EndsInv, OpenExisting PROVE EndsInv'
<1>1. /\ endOffsets' = EndOffsets(filelist', start_dir') /\ keptEnd' = NoEnd
      /\ handle' = NoHandle
  BY DEF OpenExisting, NewZipFile
<1>2. /\ filelist' \in Seq(Info)
      /\ \A i, j \in 1 .. Len(filelist') : i < j => filelist'[i].off < filelist'[j].off
  <2>1. \A i, j \in 1 .. Len(filelist) : i < j => filelist[i].off < filelist[j].off
    BY PlacesGrow
  <2>2. ASSUME NEW i \in 1 .. Len(filelist'), NEW j \in 1 .. Len(filelist'), i < j
        PROVE  filelist'[i].off < filelist'[j].off
    <3> DEFINE l == MemberLen(disk', filelist'[i].off + prefix', filelist'[i].dd, truth'[i])
               a == filelist'[i].off  b == filelist'[j].off
    <3>1. a + l <= b /\ Member(disk', a + prefix', filelist'[i].dd, truth'[i])
      BY <2>2 DEF Inv, Below, Holds, InOrder, InPlace
    <3>2. truth'[i] \in Truth /\ filelist'[i] \in Info /\ filelist'[j] \in Info
      BY <2>2 DEF Inv, Types
    <3>3. l \in Nat /\ l >= 1
      BY <3>1, <3>2, MemberLenIs
    <3>4. a \in Nat /\ b \in Nat
      BY <3>2 DEF Info
    <3> HIDE DEF a, b, l
    <3>5. a < b
      BY ONLY <3>1, <3>3, <3>4
    <3> QED BY <3>5 DEF a, b
  <2> QED BY <2>2 DEF Inv, Types
<1>3. start_dir' \in Nat
  BY DEF Inv, Types
<1> DEFINE zs == filelist'  sd == start_dir'  n == Len(filelist')
<1>4. \A i \in 1 .. n : EndOffsets(zs, sd)[i] = NextAt(zs, sd, i)
  <2> HIDE DEF zs, sd
  <2>1. /\ zs \in Seq(Info)
        /\ \A i, j \in 1 .. Len(zs) : i < j => zs[i].off < zs[j].off
    BY <1>2 DEF zs
  <2>2. \A i \in 1 .. Len(zs) : EndOffsets(zs, sd)[i] = NextAt(zs, sd, i)
    BY ONLY <2>1, EndOffsetsAre
  <2> QED BY <2>2 DEF zs
<1>5. EndOffsets(zs, sd) \in Seq(Int) /\ Len(EndOffsets(zs, sd)) = n
  <2> DEFINE e == EndOffsets(zs, sd)
  <2>1. n \in Nat /\ DOMAIN e = 1 .. n /\ e = [i \in 1 .. n |-> e[i]]
    <3>1. n \in Nat /\ DOMAIN zs = 1 .. n
      BY <1>2
    <3> QED BY <3>1 DEF EndOffsets
  <2>2. ASSUME NEW i \in 1 .. n PROVE e[i] \in Int
    <3>1. i = n \/ i + 1 \in 1 .. n
      BY <2>1
    <3>2. i + 1 \in 1 .. n => zs[i + 1].off \in Nat
      <4> SUFFICES ASSUME i + 1 \in 1 .. n PROVE zs[i + 1].off \in Nat
        OBVIOUS
      <4>1. zs[i + 1] \in Info
        BY <1>2
      <4> QED BY <4>1 DEF Info
    <3> QED BY <1>3, <1>4, <3>1, <3>2 DEF NextAt
  <2> HIDE DEF e, n
  <2>3. e \in [1 .. n -> Int]
    BY <2>1, <2>2
  <2>4. e \in Seq(Int) /\ Len(e) = n
    BY <2>1, <2>3
  <2> QED BY <2>4 DEF e
<1> HIDE DEF zs, sd, n
<1>6. \A i \in 1 .. Len(filelist') : endOffsets'[i] = NextAt(filelist', start_dir', i)
  BY <1>1, <1>4 DEF zs, sd, n
<1>7. NoEnd \in Int
  BY DEF NoEnd
<1>8. endOffsets' \in Seq(Int) /\ Len(endOffsets') = Len(filelist')
  BY <1>1, <1>5 DEF zs, sd, n
<1>9. (\A i \in 1 .. Len(filelist) :
          endOffsets[i] = NoEnd \/ endOffsets[i] = NextAt(filelist, start_dir, i))'
  BY <1>6
<1> QED BY <1>1, <1>7, <1>8, <1>9 DEF EndsInv

LEMMA CloseHandleEnds ==
    ASSUME Inv, EndsInv, NEW body \in Bodies, CloseHandle(body) PROVE EndsInv'
<1> DEFINE z == FinalInfo(body)  n == Len(filelist)
<1>1. /\ HandleOK /\ handle # NoHandle /\ SizesFit(body) /\ Types
      /\ filelist' = Append(filelist, z) /\ endOffsets' = Append(endOffsets, handle.end)
      /\ handle' = NoHandle /\ mode' = mode /\ keptEnd' = keptEnd
  BY DEF CloseHandle, Inv, Session, reusable
<1>2. z.off = start_dir
  <2> DEFINE y == handle.info  t == TruthOf(body)
  <2>1. y = handle.info /\ t = TruthOf(body) /\ z = FinalInfo(body)
    OBVIOUS
  <2> HIDE DEF y, t, z
  <2> QED BY <1>1, <2>1, FinalInfoIs
<1> HIDE DEF z
<1>3. /\ filelist \in Seq(Info) /\ n \in Nat /\ endOffsets \in Seq(Int)
      /\ Len(endOffsets) = n /\ handle.end \in Int
  BY <1>1 DEF Types, EndsInv
<1>4. /\ Len(filelist') = n + 1 /\ filelist'[n + 1] = z
      /\ \A i \in 1 .. n : filelist'[i] = filelist[i]
  BY <1>1, <1>3
<1>5. /\ endOffsets' \in Seq(Int) /\ Len(endOffsets') = n + 1
      /\ endOffsets'[n + 1] = handle.end
      /\ \A i \in 1 .. n : endOffsets'[i] = endOffsets[i]
  BY <1>1, <1>3
<1>6. ASSUME mode \in {"a", "r"}, NEW i \in 1 .. n + 1
      PROVE  \/ endOffsets'[i] = NoEnd
             \/ endOffsets'[i] = NextAt(filelist', start_dir', i)
  <2>1. CASE i = n + 1
    BY <1>1, <1>5, <1>6, <2>1 DEF EndsInv
  <2>2. CASE i \in 1 .. n
    <3>1. endOffsets[i] = NoEnd \/ endOffsets[i] = NextAt(filelist, start_dir, i)
      BY <1>6, <2>2 DEF EndsInv
    <3>2. NextAt(filelist', start_dir', i) = NextAt(filelist, start_dir, i)
      <4>1. i # n + 1 /\ (i = n \/ i + 1 \in 1 .. n)
        BY <1>3, <2>2
      <4> QED BY <1>2, <1>4, <4>1 DEF NextAt
    <3> QED BY <1>5, <2>2, <3>1, <3>2
  <2> QED BY <1>3, <2>1, <2>2
<1>7. (mode \in {"a", "r"} => keptEnd = NoEnd) /\ keptEnd \in Int
  BY DEF EndsInv
<1>8. mode' \in {"a", "r"} =>
        (\A i \in 1 .. Len(filelist) :
            endOffsets[i] = NoEnd \/ endOffsets[i] = NextAt(filelist, start_dir, i))'
  BY <1>1, <1>4, <1>6
<1> QED BY <1>1, <1>4, <1>5, <1>7, <1>8 DEF EndsInv

LEMMA OtherEnds ==
    ASSUME EndsInv, UNCHANGED directory,
           mode' = mode \/ mode' = "closed",
           keptEnd' \in {keptEnd, NoEnd},
           handle' \in {handle, NoHandle}
             \/ (handle' # NoHandle /\ handle'.end \in {keptEnd, NoEnd})
    PROVE  EndsInv'
<1>1. /\ endOffsets' = endOffsets /\ filelist' = filelist /\ start_dir' = start_dir
      /\ NoEnd \in Int
  BY DEF directory, NoEnd
<1>2. keptEnd' \in Int /\ (mode' \in {"a", "r"} => keptEnd' = NoEnd)
  BY <1>1 DEF EndsInv
<1>3. handle' # NoHandle =>
        handle'.end \in Int /\ (mode' \in {"a", "r"} => handle'.end = NoEnd)
  BY <1>1 DEF EndsInv
<1> QED BY <1>1, <1>2, <1>3 DEF EndsInv

LEMMA StepEnds == ASSUME Inv, Inv', EndsInv, [Next]_vars PROVE EndsInv'
<1>1. CASE Create
  <2>1. /\ endOffsets' = <<>> /\ filelist' = <<>> /\ mode' = "w" /\ handle' = NoHandle
    BY <1>1 DEF Create, NewZipFile
  <2>2. keptEnd' \in Int
    <3>1. CASE keptEnd' = NoEnd
      BY <3>1 DEF NoEnd
    <3>2. CASE \E i \in DOMAIN filelist : keptEnd' = endOffsets[i]
      <4>1. PICK i \in DOMAIN filelist : keptEnd' = endOffsets[i]
        BY <3>2
      <4>2. i \in 1 .. Len(endOffsets)
        BY <4>1 DEF EndsInv, Inv, Types
      <4> QED BY <4>1, <4>2 DEF EndsInv
    <3> QED BY <1>1, <3>1, <3>2 DEF Create
  <2>3. mode' \notin {"a", "r"} /\ Len(endOffsets') = Len(filelist')
        /\ endOffsets' \in Seq(Int)
    BY <2>1
  <2> QED BY <2>1, <2>2, <2>3 DEF EndsInv
<1>2. CASE OpenExisting
  BY <1>2, OpenExistingEnds
<1>3. ASSUME NEW hint \in Hints, NEW force \in BOOLEAN,
             NEW reuse \in BOOLEAN, NEW scheme \in Schemes,
             OpenToWrite(reuse, scheme, hint, force)
      PROVE  EndsInv'
  <2>1. /\ UNCHANGED directory /\ mode' = mode
        /\ handle'.end = IF reuse THEN keptEnd ELSE NoEnd
        /\ keptEnd' \in {keptEnd, NoEnd}
    BY <1>3 DEF OpenToWrite, reusable
  <2> QED BY <2>1, OtherEnds
<1>4. ASSUME NEW body \in Bodies, CloseHandle(body) PROVE EndsInv'
  BY <1>4, CloseHandleEnds
<1>5. CASE \/ \E hint \in Hints, force \in BOOLEAN : OpenTooLarge(hint, force)
           \/ \E body \in Bodies : CloseHandleFails(body)
           \/ SetComment \/ Close \/ CloseTooLarge \/ Prepend \/ UNCHANGED vars
  <2>1. /\ UNCHANGED directory /\ (mode' = mode \/ mode' = "closed")
        /\ keptEnd' = keptEnd /\ handle' \in {handle, NoHandle}
    BY <1>5 DEF OpenTooLarge, CloseHandleFails, SetComment, Close, CloseTooLarge,
                Prepend, vars, reusable
  <2> QED BY <2>1, OtherEnds
<1> QED BY <1>1, <1>2, <1>3, <1>4, <1>5 DEF Next

(* The _end_offset of every member of an archive that was read is the next  *)
(* local header or the directory, and of one that was written None.         *)
THEOREM EndsAlways == Spec => []EndsInv
<1>1. Init => EndsInv
  <2> SUFFICES ASSUME Init PROVE EndsInv
    OBVIOUS
  <2>1. endOffsets = <<>> /\ filelist = <<>> /\ mode = "closed" /\ handle = NoHandle
        /\ keptEnd = NoEnd
    BY DEF Init
  <2>2. keptEnd \in Int /\ endOffsets \in Seq(Int) /\ Len(endOffsets) = Len(filelist)
    BY <2>1 DEF NoEnd
  <2> QED BY <2>1, <2>2 DEF EndsInv
<1>2. Inv /\ Inv' /\ EndsInv /\ [Next]_vars => EndsInv'
  BY StepEnds
<1> QED BY <1>1, <1>2, InvAlways, PTL DEF Spec

(* A member of filelist ends before what comes behind it.                   *)
LEMMA EndsBefore ==
    ASSUME Inv, NEW i \in 1 .. Len(filelist)
    PROVE  /\ NextAt(filelist, start_dir, i) \in Nat
           /\ filelist[i].off + MemberLen(disk, filelist[i].off + prefix,
                                          filelist[i].dd, truth[i])
                <= NextAt(filelist, start_dir, i)
<1> DEFINE l == MemberLen(disk, filelist[i].off + prefix, filelist[i].dd, truth[i])
           a == filelist[i].off
<1>1. /\ filelist \in Seq(Info) /\ Len(filelist) \in Nat
      /\ start_dir \in Nat /\ prefix \in Nat
  BY DEF Inv, Types
<1>2. filelist[i] \in Info /\ truth[i] \in Truth
  BY DEF Inv, Types
<1>3. a \in Nat
  BY <1>2 DEF Info
<1>4. /\ Member(disk, a + prefix, filelist[i].dd, truth[i])
      /\ a + prefix + l <= start_dir + prefix
  BY DEF Inv, Below, Holds, InPlace
<1>5. l \in Nat
  BY <1>2, <1>4, MemberLenIs
<1>6. CASE i = Len(filelist)
  <2> HIDE DEF a, l
  <2>1. a + l <= start_dir
    BY ONLY <1>1, <1>3, <1>4, <1>5
  <2> QED BY <1>1, <1>6, <2>1 DEF NextAt, a, l
<1>7. CASE i # Len(filelist)
  <2>1. i + 1 \in 1 .. Len(filelist) /\ i < i + 1
    BY <1>1, <1>7
  <2>2. filelist[i + 1] \in Info
    BY <1>1, <2>1
  <2>3. filelist[i + 1].off \in Nat
    BY <2>2 DEF Info
  <2>4. a + l <= filelist[i + 1].off
    BY <2>1 DEF Inv, Below, Holds, InOrder
  <2> QED BY <1>7, <2>3, <2>4 DEF NextAt
<1> QED BY <1>6, <1>7

LEMMA OpenEntryEnds ==
    ASSUME Inv, EndsInv, NEW i \in DOMAIN Entries, mode \notin {"w", "closed"}
    PROVE  \/ EntryEnds(Entries)[i] = NoEnd
           \/ /\ EntryEnds(Entries)[i] \in Int
              /\ Entries[i].off
                   + MemberLen(disk, Entries[i].off, Entries[i].dd, truth[i])
                   <= EntryEnds(Entries)[i]
<1>1. /\ filelist \in Seq(Info) /\ mode \in {"a", "r"} /\ seekable /\ prefix = 0
  BY DEF Inv, Types, Session
<1>2. Entries = filelist /\ EntryEnds(Entries) = endOffsets
  BY <1>1 DEF Entries, EntryEnds
<1>3. i \in 1 .. Len(filelist)
  BY <1>1, <1>2
<1>4. endOffsets[i] = NoEnd \/ endOffsets[i] = NextAt(filelist, start_dir, i)
  BY <1>1, <1>3 DEF EndsInv
<1>5. filelist[i].off + prefix = filelist[i].off
  <2> DEFINE a == filelist[i].off
  <2>1. filelist[i] \in Info
    BY <1>1, <1>3
  <2>2. a \in Nat
    BY <2>1 DEF Info
  <2> HIDE DEF a
  <2>3. a + prefix = a
    BY <1>1, <2>2
  <2> QED BY <2>3 DEF a
<1>6. /\ NextAt(filelist, start_dir, i) \in Nat
      /\ filelist[i].off + MemberLen(disk, filelist[i].off, filelist[i].dd, truth[i])
           <= NextAt(filelist, start_dir, i)
  BY <1>3, <1>5, EndsBefore
<1> QED BY <1>2, <1>4, <1>6

LEMMA ClosedEntryEnds ==
    ASSUME Inv, NEW i \in DOMAIN Entries, mode = "closed"
    PROVE  /\ EntryEnds(Entries)[i] \in Int
           /\ Entries[i].off
                + MemberLen(disk, Entries[i].off, Entries[i].dd, truth[i])
                <= EntryEnds(Entries)[i]
<1> DEFINE es == Entries  top == StartDir(EndRecData(disk))  n == Len(filelist)
<1>1. /\ filelist \in Seq(Info) /\ n \in Nat /\ start_dir \in Nat /\ prefix \in Nat
      /\ truth \in Seq(Truth) /\ Len(truth) = n
  BY DEF Inv, Types
<1>2. sealed /\ CanBeRead(disk)
  <2> SUFFICES ASSUME ~(sealed /\ CanBeRead(disk)) PROVE FALSE
    OBVIOUS
  <2>1. Entries = <<>>
    BY DEF Entries
  <2> QED BY <2>1
<1>3. PICK zs, sd, p : Lists(disk, zs, sd, p)
  BY <1>2 DEF Inv, Listed
<1>4. /\ top = sd + p
      /\ GetContents(disk) = [k \in 1 .. Len(zs) |-> Decoded(zs[k], p)]
  BY <1>3, LayoutReads DEF Lists
<1>5. /\ Len(zs) = n /\ p \in Nat /\ sd + p = start_dir + prefix
      /\ \A k \in 1 .. n : /\ zs[k].off + p = filelist[k].off + prefix
                            /\ zs[k].dd = filelist[k].dd
                            /\ InfoOK(zs[k], truth[k])
  BY <1>3 DEF Lists, Layout
<1>6. es = [k \in 1 .. n |-> Decoded(zs[k], p)]
  BY <1>2, <1>4, <1>5 DEF Entries
<1>7. ASSUME NEW k \in 1 .. n
      PROVE  /\ es[k] \in Info /\ es[k].off = filelist[k].off + prefix
             /\ es[k].dd = filelist[k].dd /\ filelist[k].off \in Nat
  <2> HIDE DEF n
  <2>1. es[k] = Decoded(zs[k], p)
    BY <1>6
  <2>2. truth[k] \in Truth /\ filelist[k] \in Info
    BY <1>1, <1>7 DEF n
  <2>3. InfoOK(Decoded(zs[k], p), truth[k])
    BY <1>5, <2>2, DecodedOK
  <2>4. Decoded(zs[k], p).off = zs[k].off + p /\ Decoded(zs[k], p).dd = zs[k].dd
    BY DEF Decoded
  <2>5. filelist[k].off \in Nat
    BY <2>2 DEF Info
  <2>6. es[k] \in Info
    BY <2>1, <2>3 DEF InfoOK
  <2> QED BY <1>5, <2>1, <2>4, <2>5, <2>6
<1>8. es \in Seq(Info) /\ Len(es) = n /\ i \in 1 .. n
  <2> HIDE DEF n
  <2>1. DOMAIN es = 1 .. n /\ es = [k \in 1 .. n |-> es[k]]
    BY <1>6
  <2> HIDE DEF es
  <2>2. es \in [1 .. n -> Info]
    BY <1>7, <2>1
  <2>3. es \in Seq(Info) /\ Len(es) = n
    BY <1>1, <2>2
  <2> QED BY <2>1, <2>3 DEF es
<1>9. ASSUME NEW k \in 1 .. n, NEW j \in 1 .. n, k < j PROVE es[k].off < es[j].off
  <2> DEFINE a == filelist[k].off  b == filelist[j].off
  <2>1. a < b
    BY <1>9, PlacesGrow
  <2>2. a \in Nat /\ b \in Nat /\ es[k].off = a + prefix /\ es[j].off = b + prefix
    BY <1>7
  <2> HIDE DEF a, b, es
  <2> QED BY <1>1, <2>1, <2>2
<1>10. EntryEnds(Entries)[i] = NextAt(es, top, i)
  <2>1. EntryEnds(Entries) = EndOffsets(es, top)
    BY DEF EntryEnds
  <2> HIDE DEF es, top, n
  <2>2. \A k, j \in 1 .. Len(es) : k < j => es[k].off < es[j].off
    BY <1>8, <1>9
  <2>3. EndOffsets(es, top)[i] = NextAt(es, top, i)
    BY <1>8, <2>2, EndOffsetsAre
  <2> QED BY <2>1, <2>3
<1> DEFINE next == NextAt(filelist, start_dir, i)
<1>11. NextAt(es, top, i) = next + prefix
  <2>1. CASE i = n
    BY <1>4, <1>5, <1>8, <2>1 DEF NextAt
  <2>2. CASE i # n
    <3>1. i + 1 \in 1 .. n
      <4> HIDE DEF n
      <4> QED BY <1>1, <1>8, <2>2
    <3>2. es[i + 1].off = filelist[i + 1].off + prefix
      BY <1>7, <3>1
    <3> QED BY <1>8, <2>2, <3>2 DEF NextAt
  <2> QED BY <2>1, <2>2
<1> DEFINE a == filelist[i].off  l == MemberLen(disk, es[i].off, es[i].dd, truth[i])
<1>12. a \in Nat /\ es[i].off = a + prefix /\ es[i].dd = filelist[i].dd
  BY <1>7, <1>8
<1>13. next \in Nat /\ a + l <= next
  <2>1. l = MemberLen(disk, filelist[i].off + prefix, filelist[i].dd, truth[i])
    BY <1>12
  <2> HIDE DEF l
  <2> QED BY <1>8, <2>1, EndsBefore
<1>14. l \in Nat
  <2>1. truth[i] \in Truth /\ Member(disk, es[i].off, es[i].dd, truth[i])
    BY EntryIs
  <2> QED BY <2>1, MemberLenIs
<1> HIDE DEF a, l, next
<1>15. es[i].off + l <= next + prefix /\ next + prefix \in Int
  <2> HIDE DEF es
  <2> QED BY <1>1, <1>12, <1>13, <1>14
<1> QED BY <1>10, <1>11, <1>15 DEF l

(* But for a session that writes an archive from its start, no member that  *)
(* a reader is given ends behind its _end_offset.                           *)
LEMMA EntryEndsBehind ==
    ASSUME Inv, EndsInv, NEW i \in DOMAIN Entries, mode # "w"
    PROVE  ~Overlaps(Entries[i], Start(disk, Entries[i].off), EntryEnds(Entries)[i])
<1> DEFINE z == Entries[i]  t == truth[i]  off == z.off  end == EntryEnds(Entries)[i]
           l == MemberLen(disk, off, z.dd, t)
<1>1. /\ t \in Truth /\ InfoOK(z, t) /\ Member(disk, off, z.dd, t)
  BY EntryIs
<1>2. off \in Nat
  <2> HIDE DEF z
  <2> QED BY <1>1 DEF InfoOK, Info
<1>3. end = NoEnd \/ (end \in Int /\ off + l <= end)
  <2>1. CASE mode = "closed"
    BY <2>1, ClosedEntryEnds
  <2>2. CASE mode # "closed"
    BY <2>2, OpenEntryEnds
  <2> QED BY <2>1, <2>2
<1> HIDE DEF z, t, off, end, l
<1>4. end = NoEnd \/ ~(Start(disk, off) + z.csize > end)
  <2>1. Len(disk[off + 1].extra) \in Nat /\ z.csize = Stored(t) /\ Stored(t) \in Nat
    BY <1>1, SizesOf DEF Member, InfoOK
  <2> DEFINE x == Len(disk[off + 1].extra)
  <2>2. /\ Start(disk, off) = off + 1 + x
        /\ l = 1 + x + Stored(t) + (IF z.dd THEN 1 ELSE 0)
    BY DEF Start, l, MemberLen
  <2>3. x \in Nat
    BY <2>1
  <2> DEFINE c == z.csize  s == Start(disk, off)
  <2>4. c \in Nat /\ s = off + 1 + x /\ (l = 1 + x + c \/ l = 1 + x + c + 1)
    BY <2>1, <2>2
  <2> HIDE DEF x, c, s
  <2>5. end = NoEnd \/ ~(s + c > end)
    BY ONLY <1>2, <1>3, <2>3, <2>4
  <2> QED BY <2>5 DEF c, s
<1> QED BY <1>4 DEF Overlaps, z, off, end

(* The three properties in any state of the invariant.                      *)
LEMMA InvSpeaksTrue == Inv => RecordsSpeakTrue
<1> SUFFICES ASSUME Inv, mode = "closed", sealed
             PROVE  /\ CanBeRead(disk)
                    /\ StartDir(EndRecData(disk)) = start_dir + prefix
                    /\ Len(GetContents(disk)) = Len(filelist)
                    /\ \A i \in DOMAIN filelist :
                          LET z == GetContents(disk)[i]
                          IN  /\ z.off = filelist[i].off + prefix
                              /\ z.fsize = truth[i].body.fsize
                              /\ z.csize = filelist[i].csize
                              /\ LocalRecordsAgree(disk, z)
  BY DEF RecordsSpeakTrue
<1>1. PICK zs, sd, p : Lists(disk, zs, sd, p)
  BY DEF Inv, Listed
<1>2. /\ CanBeRead(disk) /\ StartDir(EndRecData(disk)) = sd + p
      /\ GetContents(disk) = [i \in 1 .. Len(zs) |-> Decoded(zs[i], p)]
  BY <1>1, LayoutReads DEF Lists
<1>3. /\ Len(zs) = Len(filelist) /\ sd + p = start_dir + prefix
      /\ Len(zs) \in Nat /\ p \in Nat
      /\ \A k \in 1 .. Len(zs) : /\ zs[k].off + p = filelist[k].off + prefix
                                 /\ InfoOK(zs[k], truth[k])
  BY <1>1 DEF Lists, Layout
<1>4. Len(GetContents(disk)) = Len(filelist)
  <2> DEFINE n == Len(zs)
  <2>1. n \in Nat
    BY <1>3
  <2> HIDE DEF n
  <2>2. Len([i \in 1 .. n |-> Decoded(zs[i], p)]) = n
    BY <2>1
  <2> QED BY <1>2, <1>3, <2>2 DEF n
<1>5. ASSUME NEW i \in DOMAIN filelist, NEW z, z = GetContents(disk)[i]
      PROVE  /\ z.off = filelist[i].off + prefix
             /\ z.fsize = truth[i].body.fsize
             /\ z.csize = filelist[i].csize
             /\ LocalRecordsAgree(disk, z)
  <2>1. filelist \in Seq(Info) /\ i \in 1 .. Len(zs) /\ i \in 1 .. Len(filelist)
    BY <1>3 DEF Inv, Types
  <2>2. z = Decoded(zs[i], p)
    BY <1>2, <1>5, <2>1
  <2>3. z.off = zs[i].off + p /\ z.fsize = zs[i].fsize /\ z.csize = zs[i].csize
    BY <2>2 DEF Decoded
  <2>4. InfoOK(zs[i], truth[i]) /\ InfoOK(filelist[i], truth[i])
    BY <1>3, <2>1 DEF Inv, Below, Holds, InPlace
  <2>5. Entries = GetContents(disk) /\ i \in DOMAIN Entries
    BY <1>2, <2>1 DEF Entries
  <2>6. /\ truth[i] \in Truth /\ InfoOK(z, truth[i])
        /\ Member(disk, z.off, z.dd, truth[i])
    BY <1>5, <2>5, EntryIs
  <2>7. LocalRecordsAgree(disk, z)
    BY <2>6, RecordsAgree
  <2> QED BY <1>3, <2>1, <2>3, <2>4, <2>7 DEF InfoOK
<1> QED BY <1>2, <1>3, <1>4, <1>5

LEMMA InvReadsBack == Inv /\ EndsInv => ContentComesBack /\ OnlyTheWrittenIsTrusted
<1> SUFFICES ASSUME Inv, EndsInv PROVE ContentComesBack /\ OnlyTheWrittenIsTrusted
  OBVIOUS
<1>1. ASSUME NEW i \in DOMAIN Entries, NEW z, z = Entries[i],
             NEW end, end = EntryEnds(Entries)[i]
      PROVE  /\ \/ truth[i].recast
                \/ z.enc /\ z.version = 0 /\ (z.vendor \/ ~z.raw)
                \/ Outgrown(i)
                \/ ReadOutcomes(disk, z, end, "right") = {truth[i].serial}
             /\ ReadOutcomes(disk, z, end, "right") \subseteq {truth[i].serial, Raises}
             /\ z.enc => ReadOutcomes(disk, z, end, "wrong") = {Raises}
  <2> DEFINE t == truth[i]
  <2>1. /\ t \in Truth /\ InfoOK(z, t) /\ disk \in Seq(Cell)
        /\ Member(disk, z.off, z.dd, t)
        /\ z.off + MemberLen(disk, z.off, z.dd, t) <= Len(disk)
    BY <1>1, EntryIs
  <2> HIDE DEF t
  <2>2. \/ t.recast
        \/ z.enc /\ z.version = 0 /\ (z.vendor \/ ~z.raw)
        \/ Overlaps(z, Start(disk, z.off), end)
        \/ ReadOutcomes(disk, z, end, "right") = {t.serial}
    BY ONLY <2>1, ReadsBack
  <2>3. ReadOutcomes(disk, z, end, "right") \subseteq {t.serial, Raises}
    BY ONLY <2>1, ReadsBack
  <2>4. z.enc => ReadOutcomes(disk, z, end, "wrong") = {Raises}
    BY ONLY <2>1, ReadsBack
  <2>5. Overlaps(z, Start(disk, z.off), end) => Outgrown(i)
    BY <1>1, EntryEndsBehind DEF Outgrown, Start
  <2> QED BY <2>2, <2>3, <2>4, <2>5 DEF t
<1>2. ContentComesBack
  BY <1>1 DEF ContentComesBack
<1>3. OnlyTheWrittenIsTrusted
  BY <1>1 DEF OnlyTheWrittenIsTrusted
<1> QED BY <1>2, <1>3

(* Of _write_end_record, _RealGetContents and FileHeader: a closed archive, *)
(* whether or not something was put in front of it, can be read; the        *)
(* directory is found where it is, and every member is listed with the      *)
(* place and the sizes it has, which its local records speak as well.       *)
THEOREM RecordsAlwaysSpeakTrue == Spec => []RecordsSpeakTrue
BY InvAlways, InvSpeaksTrue, PTL

(* Of ZipWriteFile.close, ZipFile.open and ZipExtFile.read: with the right  *)
(* password a member comes back as it was written, in this session or a     *)
(* later one, but for the ZipInfos and the members that ContentComesBack    *)
(* names; so no check of open() refuses an archive this program has closed, *)
(* and only the session that writes a member with the ZipInfo of another    *)
(* can find it to overlap.                                                  *)
THEOREM ContentAlwaysComesBack == Spec => []ContentComesBack
<1>1. Inv /\ EndsInv => ContentComesBack
  BY InvReadsBack
<1> QED BY <1>1, InvAlways, EndsAlways, PTL

(* Of check_integrity: read() returns what was written or raises, and with  *)
(* a wrong password it raises.                                              *)
THEOREM TrustIsEarned == Spec => []OnlyTheWrittenIsTrusted
<1>1. Inv /\ EndsInv => OnlyTheWrittenIsTrusted
  BY InvReadsBack
<1> QED BY <1>1, InvAlways, EndsAlways, PTL
==============================================================================
