--------------------------- MODULE ExtFileProofs ---------------------------
(***************************************************************************)
(* Proofs about ExtFile: that a ZipExtFile behaves as one sequence of      *)
(* bytes (ImplementsBytes), that the CRC covers what has been given out,   *)
(* that a member's end is reported only after it was verified, that a      *)
(* sound member is never called damaged, and that no loop stands still.    *)
(***************************************************************************)
EXTENDS ExtFile, FoldTheorems

-----------------------------------------------------------------------------
(* Least and greatest numbers                                               *)

LEMMA MinOfTwo ==
    ASSUME NEW a \in Int, NEW b \in Int
    PROVE  Min({a, b}) = IF a <= b THEN a ELSE b
BY DEF Min

LEMMA MaxOfTwo ==
    ASSUME NEW a \in Int, NEW b \in Int
    PROVE  Max({a, b}) = IF a >= b THEN a ELSE b
BY DEF Max

LEMMA MinOfThree ==
    ASSUME NEW a \in Int, NEW b \in Int, NEW c \in Int
    PROVE  /\ Min({a, b, c}) \in {a, b, c}
           /\ Min({a, b, c}) <= a /\ Min({a, b, c}) <= b /\ Min({a, b, c}) <= c
<1> DEFINE S == {a, b, c}
<1>1. \E x \in S : \A y \in S : x <= y
  <2>1. CASE a <= b /\ a <= c
    BY <2>1
  <2>2. CASE b <= a /\ b <= c
    BY <2>2
  <2>3. CASE c <= a /\ c <= b
    BY <2>3
  <2> QED BY <2>1, <2>2, <2>3
<1> HIDE DEF S
<1>2. Min(S) \in S /\ \A y \in S : Min(S) <= y
  BY <1>1 DEF Min
<1> QED BY <1>2 DEF S

LEMMA MinOfNumbers ==
    ASSUME NEW n \in Nat, NEW S, S \subseteq 0 .. n, S # {}
    PROVE  Min(S) \in S /\ \A y \in S : Min(S) <= y
<1> DEFINE T == {x + 1 : x \in S}
<1>1. T \subseteq 1 .. n + 1 /\ T # {} /\ n + 1 \in Nat
  <2>1. ASSUME NEW x \in S PROVE x + 1 \in 1 .. n + 1
    <3>1. x \in 0 .. n
      OBVIOUS
    <3> QED BY <3>1
  <2>2. T \subseteq 1 .. n + 1
    BY <2>1
  <2>3. T # {}
    OBVIOUS
  <2> HIDE DEF T
  <2> QED BY <2>2, <2>3
<1>2. PICK t \in T : \A y \in T : t <= y
  <2> HIDE DEF T
  <2> QED BY <1>1, LeastUpTo
<1>3. PICK x \in S : t = x + 1
  OBVIOUS
<1>4. \A y \in S : x <= y
  <2> TAKE y \in S
  <2>1. y + 1 \in T /\ x \in 0 .. n /\ y \in 0 .. n
    OBVIOUS
  <2> HIDE DEF T
  <2> QED BY <2>1, <1>2, <1>3
<1> HIDE DEF T
<1> QED BY <1>4 DEF Min

-----------------------------------------------------------------------------
(* Units and the bytes they give                                            *)

Pieces(us) == [k \in DOMAIN us |-> us[k].bytes]

LEMMA PiecesType ==
    ASSUME NEW us \in Seq(Unit)
    PROVE  Pieces(us) \in Seq(Seq(Byte)) /\ Len(Pieces(us)) = Len(us)
<1>1. Len(us) \in Nat /\ DOMAIN us = 1 .. Len(us)
  BY LenProperties
<1>2. \A k \in 1 .. Len(us) : us[k].bytes \in Seq(Byte)
  <2>1. \A k \in 1 .. Len(us) : us[k] \in Unit
    BY LenProperties
  <2> QED BY <2>1 DEF Unit
<1> DEFINE p == [k \in 1 .. Len(us) |-> us[k].bytes]
<1>3. p = Pieces(us)
  BY <1>1 DEF Pieces
<1>4. p \in Seq(Seq(Byte)) /\ Len(p) = Len(us)
  BY <1>1, <1>2
<1> HIDE DEF p
<1> QED BY <1>3, <1>4

LEMMA UnitSlice ==
    ASSUME NEW us \in Seq(Unit), NEW i \in Nat, NEW j \in Nat, i <= j, j <= Len(us)
    PROVE  /\ SubSeq(us, i + 1, j) \in Seq(Unit)
           /\ Pieces(SubSeq(us, i + 1, j)) = SubSeq(Pieces(us), i + 1, j)
<1> DEFINE v == SubSeq(us, i + 1, j)
           p == Pieces(us)
           q == SubSeq(p, i + 1, j)
           r == Pieces(v)
<1>1. /\ v \in Seq(Unit) /\ Len(v) = j - i
      /\ \A k \in 1 .. j - i : v[k] = us[i + k]
  BY Slice
<1>2. p \in Seq(Seq(Byte)) /\ Len(p) = Len(us)
  BY PiecesType
<1>3. /\ q \in Seq(Seq(Byte)) /\ Len(q) = j - i
      /\ \A k \in 1 .. j - i : q[k] = p[i + k]
  <2> HIDE DEF p
  <2> QED BY <1>2, Slice
<1>4. r \in Seq(Seq(Byte)) /\ Len(r) = j - i
  <2> HIDE DEF v
  <2> QED BY <1>1, PiecesType
<1>5. \A k \in 1 .. j - i : r[k] = q[k]
  <2> TAKE k \in 1 .. j - i
  <2>1. Len(us) \in Nat /\ DOMAIN us = 1 .. Len(us) /\ DOMAIN v = 1 .. Len(v)
    <3> HIDE DEF v
    <3> QED BY <1>1, LenProperties
  <2>2. k \in DOMAIN v /\ i + k \in DOMAIN us
    <3> HIDE DEF v
    <3> QED BY <1>1, <2>1
  <2>3. r[k] = v[k].bytes
    <3> HIDE DEF v
    <3> QED BY <2>2 DEF Pieces
  <2>4. p[i + k] = us[i + k].bytes
    BY <2>2 DEF Pieces
  <2> HIDE DEF v, p, q, r
  <2> QED BY <1>1, <1>3, <2>3, <2>4
<1> HIDE DEF v, p, q, r
<1>6. r = q
  BY <1>3, <1>4, <1>5, SeqEqual
<1> QED BY <1>1, <1>6 DEF v, p, q, r

LEMMA BytesArePieces ==
    ASSUME NEW us
    PROVE  Bytes(us) = FlattenSeq(Pieces(us))
BY DEF Bytes, Pieces

LEMMA BytesType ==
    ASSUME NEW us \in Seq(Unit)
    PROVE  Bytes(us) \in Seq(Byte)
BY PiecesType, FlattenType, BytesArePieces

(* What units give in between is a slice of what they give.                 *)
LEMMA BytesSlice ==
    ASSUME NEW us \in Seq(Unit), NEW i \in Nat, NEW j \in Nat, i <= j, j <= Len(us)
    PROVE  LET at(k) == Len(Bytes(SubSeq(us, 1, k)))
           IN  /\ at(i) \in Nat /\ at(j) \in Nat
               /\ at(i) <= at(j) /\ at(j) <= Len(Bytes(us))
               /\ Bytes(SubSeq(us, i + 1, j)) = SubSeq(Bytes(us), at(i) + 1, at(j))
<1> DEFINE p == Pieces(us)
           pat(k) == Len(FlattenSeq(SubSeq(p, 1, k)))
           at(k) == Len(Bytes(SubSeq(us, 1, k)))
<1>1. p \in Seq(Seq(Byte)) /\ Len(p) = Len(us)
  BY PiecesType
<1>2. /\ pat(i) \in Nat /\ pat(j) \in Nat
      /\ pat(i) <= pat(j) /\ pat(j) <= Len(FlattenSeq(p))
      /\ FlattenSeq(SubSeq(p, i + 1, j)) = SubSeq(FlattenSeq(p), pat(i) + 1, pat(j))
  <2> HIDE DEF p
  <2> QED BY <1>1, FlattenSlice
<1>3. FlattenSeq(p) = Bytes(us)
  BY BytesArePieces
<1>4. at(i) = pat(i) /\ at(j) = pat(j)
  <2>1. 0 \in Nat /\ 0 + 1 = 1 /\ 0 <= i /\ 0 <= j /\ i <= Len(us)
    BY LenProperties
  <2>2. /\ Pieces(SubSeq(us, 0 + 1, i)) = SubSeq(p, 0 + 1, i)
        /\ Pieces(SubSeq(us, 0 + 1, j)) = SubSeq(p, 0 + 1, j)
    BY <2>1, UnitSlice
  <2> HIDE DEF p
  <2> QED BY <2>1, <2>2, BytesArePieces
<1>5. Bytes(SubSeq(us, i + 1, j)) = FlattenSeq(SubSeq(p, i + 1, j))
  BY UnitSlice, BytesArePieces
<1> HIDE DEF p, pat, at
<1>6. /\ at(i) \in Nat /\ at(j) \in Nat
      /\ at(i) <= at(j) /\ at(j) <= Len(Bytes(us))
      /\ Bytes(SubSeq(us, i + 1, j)) = SubSeq(Bytes(us), at(i) + 1, at(j))
  BY <1>2, <1>3, <1>4, <1>5
<1> QED BY <1>6 DEF at

(* Of units of one byte, k give k bytes.                                    *)
LEMMA BytesOfSingles ==
    ASSUME NEW us \in Seq(Unit), NEW k \in Nat, k <= Len(us),
           \A x \in DOMAIN us : Len(us[x].bytes) = 1
    PROVE  Len(Bytes(SubSeq(us, 1, k))) = k
<1> DEFINE at(x) == Len(Bytes(SubSeq(us, 1, x)))
           Bad == {x \in 1 .. k : at(x) # x}
<1>1. Len(us) \in Nat /\ DOMAIN us = 1 .. Len(us)
  BY LenProperties
<1>2. at(0) = 0
  <2>1. SubSeq(us, 1, 0) = <<>>
    BY SubSeqEmpty
  <2>2. Pieces(<<>>) = <<>>
    BY DEF Pieces
  <2>3. Bytes(SubSeq(us, 1, 0)) = <<>>
    BY <2>1, <2>2, BytesArePieces, FlattenEmpty, Zenon
  <2> QED BY <2>3
<1>3. ASSUME Bad # {} PROVE FALSE
  <2>1. PICK x \in Bad : \A y \in Bad : x <= y
    <3>1. Bad \subseteq 1 .. k
      OBVIOUS
    <3> HIDE DEF Bad
    <3> QED BY <1>3, <3>1, LeastUpTo
  <2>2. x \in 1 .. k /\ at(x) # x
    OBVIOUS
  <2>3. x \in Nat /\ x - 1 \in Nat /\ x <= Len(us) /\ 0 < x /\ x \in DOMAIN us
    <3> HIDE DEF Bad
    <3> QED BY <1>1, <2>2
  <2>4. at(x - 1) = x - 1
    <3>1. CASE x = 1
      <4>1. x - 1 = 0
        BY <3>1
      <4> HIDE DEF at, Bad
      <4> QED BY <1>2, <4>1
    <3>2. CASE x # 1
      <4>1. x - 1 \in 1 .. k /\ ~(x <= x - 1)
        <5> HIDE DEF Bad
        <5> QED BY <2>2, <3>2
      <4>2. x - 1 \notin Bad
        <5> HIDE DEF Bad
        <5> QED BY <4>1, <2>1
      <4> HIDE DEF at
      <4> QED BY <4>1, <4>2
    <3> QED BY <3>1, <3>2
  <2> DEFINE p == Pieces(us)
  <2>5. /\ p[x] \in Seq(Byte) /\ Len(p[x]) = 1
        /\ Bytes(SubSeq(us, 1, x)) = Bytes(SubSeq(us, 1, x - 1)) \o p[x]
    <3>1. p \in Seq(Seq(Byte)) /\ Len(p) = Len(us)
      BY PiecesType
    <3>2. p[x] = us[x].bytes
      BY <2>3 DEF Pieces
    <3>3. 0 \in Nat /\ 0 + 1 = 1 /\ 0 <= x /\ 0 <= x - 1 /\ x - 1 <= Len(us)
      <4> HIDE DEF Bad
      <4> QED BY <1>1, <2>3
    <3>4. /\ p[x] \in Seq(Byte)
          /\ FlattenSeq(SubSeq(p, 0 + 1, x)) =
                FlattenSeq(SubSeq(p, 0 + 1, x - 1)) \o p[x]
      <4> HIDE DEF p, Bad
      <4> QED BY <2>3, <3>1, <3>3, FlattenPart
    <3>5. /\ Pieces(SubSeq(us, 0 + 1, x)) = SubSeq(p, 0 + 1, x)
          /\ Pieces(SubSeq(us, 0 + 1, x - 1)) = SubSeq(p, 0 + 1, x - 1)
      <4> HIDE DEF Bad
      <4> QED BY <2>3, <3>3, UnitSlice
    <3> HIDE DEF p, Bad
    <3> QED BY <2>3, <3>2, <3>3, <3>4, <3>5, BytesArePieces
  <2>6. Bytes(SubSeq(us, 1, x - 1)) \in Seq(Byte)
    <3>1. 0 \in Nat /\ 0 + 1 = 1 /\ 0 <= x - 1 /\ x - 1 <= Len(us)
      <4> HIDE DEF Bad
      <4> QED BY <1>1, <2>3
    <3>2. SubSeq(us, 0 + 1, x - 1) \in Seq(Unit)
      <4> HIDE DEF Bad
      <4> QED BY <2>3, <3>1, UnitSlice
    <3> HIDE DEF Bad
    <3> QED BY <3>1, <3>2, BytesType
  <2>7. at(x) = at(x - 1) + 1
    <3> DEFINE b == Bytes(SubSeq(us, 1, x - 1))
               c == Bytes(SubSeq(us, 1, x))
    <3>1. c = b \o p[x] /\ b \in Seq(Byte) /\ p[x] \in Seq(Byte)
      <4> HIDE DEF p, Bad
      <4> QED BY <2>5, <2>6
    <3> HIDE DEF b, c, p, Bad
    <3>2. Len(c) = Len(b) + Len(p[x])
      BY <3>1, ConcatProperties
    <3> QED BY <2>5, <3>2 DEF b, c
  <2> HIDE DEF at, Bad
  <2> QED BY <2>2, <2>3, <2>4, <2>7
<1>4. CASE k = 0
  <2> HIDE DEF at
  <2>1. at(k) = k
    BY <1>2, <1>4
  <2> QED BY <2>1 DEF at
<1>5. CASE k # 0
  <2>1. k \in 1 .. k /\ k \notin Bad
    <3> HIDE DEF Bad
    <3> QED BY <1>3, <1>5
  <2>2. at(k) = k
    <3> HIDE DEF at
    <3> QED BY <2>1
  <2> QED BY <2>2
<1> QED BY <1>4, <1>5

-----------------------------------------------------------------------------
(* The decompressor                                                         *)

(* The bytes there are when k of the units have been decompressed.          *)
Output(pending, us, k) == pending \o Bytes(SubSeq(us, 1, k))

(* It decompresses some number k of units.                                  *)
Decompressed(d, pending, ended, us, n, k) ==
    LET x == Output(pending, us, k)
        m == IF n <= Len(x) THEN n ELSE Len(x)
    IN  /\ d.data = SubSeq(x, 1, m)
        /\ d.pending = SubSeq(x, m + 1, Len(x))
        /\ d.ended = (ended \/ (k > 0 /\ us[k].ends))
        /\ d.tail = IF d.ended THEN <<>> ELSE SubSeq(us, k + 1, Len(us))
        /\ ended => k = 0
        /\ \A j \in 1 .. k - 1 : ~us[j].ends
        /\ k = Len(us) \/ d.ended \/ Len(x) >= n

LEMMA OutputType ==
    ASSUME NEW pending \in Seq(Byte), NEW us \in Seq(Unit), NEW k \in Nat, k <= Len(us)
    PROVE  /\ Output(pending, us, k) \in Seq(Byte)
           /\ Bytes(SubSeq(us, 1, k)) \in Seq(Byte)
           /\ Len(Output(pending, us, k)) = Len(pending) + Len(Bytes(SubSeq(us, 1, k)))
           /\ Len(pending) \in Nat /\ Len(Bytes(SubSeq(us, 1, k))) \in Nat
<1>1. 0 \in Nat /\ 0 <= k /\ 0 + 1 = 1
  OBVIOUS
<1>2. SubSeq(us, 0 + 1, k) \in Seq(Unit)
  BY <1>1, UnitSlice
<1>3. Bytes(SubSeq(us, 1, k)) \in Seq(Byte)
  BY <1>1, <1>2, BytesType
<1> QED BY <1>3, ConcatProperties, LenProperties DEF Output

LEMMA DecompressGives ==
    ASSUME NEW tail \in Seq(Unit), NEW pending \in Seq(Byte), NEW ended \in BOOLEAN,
           NEW input \in Seq(Unit), NEW n \in Nat, n > 0
    PROVE  LET us == tail \o input
           IN  \E k \in 0 .. Len(us) :
                  Decompressed(Decompress(tail, pending, ended, input, n),
                               pending, ended, us, n, k)
<1> DEFINE us == tail \o input
           endsAt(j) == ended \/ (j > 0 /\ us[j].ends)
           enough(j) == j = Len(us) \/ endsAt(j) \/ Len(Output(pending, us, j)) >= n
           S == {j \in 0 .. Len(us) : enough(j)}
           k == Min(S)
           x == Output(pending, us, k)
           d == Decompress(tail, pending, ended, input, n)
<1>1. us \in Seq(Unit) /\ Len(us) \in Nat
  BY ConcatProperties, LenProperties
<1> HIDE DEF us
<1>2. k \in S /\ \A j \in S : k <= j
  <2>1. Len(us) \in S /\ S \subseteq 0 .. Len(us)
    BY <1>1
  <2> HIDE DEF S
  <2> QED BY <1>1, <2>1, MinOfNumbers
<1>3. k \in 0 .. Len(us) /\ enough(k)
  <2> HIDE DEF k, enough
  <2> QED BY <1>2
<1>4. \A j \in 0 .. k - 1 : ~enough(j)
  <2> SUFFICES ASSUME NEW j \in 0 .. k - 1 PROVE ~enough(j)
    OBVIOUS
  <2>1. j \in 0 .. Len(us) /\ ~(k <= j)
    <3> HIDE DEF k, enough
    <3> QED BY <1>1, <1>3
  <2> HIDE DEF k, enough
  <2> QED BY <1>2, <2>1
<1>5. x \in Seq(Byte) /\ Len(x) \in Nat
  <2>1. k \in Nat /\ k <= Len(us)
    <3> HIDE DEF k
    <3> QED BY <1>1, <1>3
  <2> HIDE DEF k
  <2> QED BY <1>1, <2>1, OutputType, LenProperties
<1>6. d = [data    |-> SubSeq(x, 1, Min({n, Len(x)})),
           pending |-> SubSeq(x, n + 1, Len(x)),
           tail    |-> IF endsAt(k) THEN <<>> ELSE SubSeq(us, k + 1, Len(us)),
           ended   |-> endsAt(k)]
  BY DEF Decompress, Output, us
<1> HIDE DEF k, x, d
<1> DEFINE m == IF n <= Len(x) THEN n ELSE Len(x)
<1>7. Min({n, Len(x)}) = m
  BY <1>5, MinOfTwo
<1>8. SubSeq(x, n + 1, Len(x)) = SubSeq(x, m + 1, Len(x))
  <2>1. CASE n <= Len(x)
    BY <2>1
  <2>2. CASE ~(n <= Len(x))
    <3>1. SubSeq(x, n + 1, Len(x)) = <<>> /\ SubSeq(x, Len(x) + 1, Len(x)) = <<>>
      BY <1>5, <2>2, SubSeqEmpty
    <3>2. m = Len(x)
      BY <2>2
    <3> HIDE DEF m
    <3> QED BY <3>1, <3>2
  <2> QED BY <2>1, <2>2
<1>9. /\ d.data = SubSeq(x, 1, m) /\ d.pending = SubSeq(x, m + 1, Len(x))
      /\ d.ended = endsAt(k)
      /\ d.tail = IF d.ended THEN <<>> ELSE SubSeq(us, k + 1, Len(us))
  <2> HIDE DEF m, endsAt
  <2> QED BY <1>6, <1>7, <1>8
<1>10. ended => k = 0
  <2> SUFFICES ASSUME ended, k # 0 PROVE FALSE
    OBVIOUS
  <2>1. 0 \in 0 .. k - 1
    BY <1>1, <1>3
  <2>2. enough(0)
    OBVIOUS
  <2> HIDE DEF enough
  <2> QED BY <1>4, <2>1, <2>2
<1>11. \A j \in 1 .. k - 1 : ~us[j].ends
  <2> SUFFICES ASSUME NEW j \in 1 .. k - 1, us[j].ends PROVE FALSE
    OBVIOUS
  <2>1. j \in 0 .. k - 1 /\ j > 0
    BY <1>1, <1>3
  <2>2. enough(j)
    BY <2>1
  <2> HIDE DEF enough
  <2> QED BY <1>4, <2>1, <2>2
<1>12. k = Len(us) \/ endsAt(k) \/ Len(x) >= n
  BY <1>3 DEF x
<1>13. Decompressed(d, pending, ended, us, n, k)
  <2>1. d.ended = (ended \/ (k > 0 /\ us[k].ends))
    BY <1>9
  <2> HIDE DEF endsAt
  <2> QED BY <1>9, <1>10, <1>11, <1>12, <2>1 DEF Decompressed, x
<1> QED BY <1>3, <1>13 DEF us, d

-----------------------------------------------------------------------------
(* Where the reader is.  All of this is about a member in which no call has *)
(* found damage.                                                            *)

All == Bytes(entry.raw)
Off(k) == Len(Bytes(SubSeq(entry.raw, 1, k)))    \* where unit k ends
EndOff == Off(Reach(entry.raw))                  \* where the stream ends
Given == Size - st.left       \* bytes the decompressor has given
Used == rawPos - Len(st.tail) \* units it has decompressed
Span(i, j) == SubSeq(All, i + 1, j)

(* The raw stream, the decrypter and the counter of what is left of the     *)
(* compressed data are at the same unit, in a stored member at the same     *)
(* byte as the reader.                                                      *)
RawInStep ==
    /\ ~st.eof \/ Direct =>
          /\ st.compressLeft = entry.csize - rawPos
          /\ Stored => rawPos = Given
    /\ ~st.eof /\ ~Direct => rawPos <= Len(entry.raw)
    /\ ~st.eof /\ entry.enc # "none" => st.decrypted = SubSeq(entry.raw, 1, rawPos)
    /\ Stored => st.tail = <<>> /\ st.pending = <<>> /\ ~st.ended

(* What the decompressor keeps follows what it has given: the output, the   *)
(* bytes up to the unit it is at, the input, the units from there on.       *)
KeptFollows ==
    ~st.eof /\ ~Stored =>
        /\ st.pending = Span(Given, Given + Len(st.pending))
        /\ st.ended => /\ st.tail = <<>> /\ st.pending # <<>> /\ Ends(entry.raw) # {}
                       /\ Given + Len(st.pending) = EndOff
                       /\ Reach(entry.raw) <= rawPos
        /\ ~st.ended => /\ Used >= 0 /\ Given + Len(st.pending) = Off(Used)
                        /\ st.tail = SubSeq(entry.raw, Used + 1, rawPos)
                        /\ \A k \in 1 .. Used : ~entry.raw[k].ends

(* The buffer and the CRC are what they should be of what has been given.   *)
GivenIsKnown ==
    /\ expected \/ ~Direct => Given <= EndOff
    /\ expected => st.crc = Span(0, Given)
    /\ ~expected => Direct /\ skipped # {}
    /\ Len(st.buffer) <= Given
    /\ st.buffer = Span(Given - Len(st.buffer), Given)
    /\ st.buffer # <<>> => Given <= EndOff

(* At the end everything has been given, and it has been verified.          *)
EndIsReached ==
    st.eof => /\ Size <= Given \/ EndOff <= Given
              /\ HonestMacs /\ skipped = {} => Data = Content

(* A call's bytes are those from where it began to where the reader is.     *)
CallInStep ==
    /\ call.need > 0 => st.buffer = <<>>
    /\ call.op \in {"read", "readall", "read1", "peek"} =>
          /\ call.at + Len(call.acc) = Tell
          /\ call.acc = Span(call.at, Tell)
          /\ call.acc # <<>> => Tell <= EndOff
    /\ call.op \in {"read", "read1"} => call.asked \in Requests \cup {MaxN}
    /\ call.op \in {"read", "peek"} => call.asked = Len(call.acc) + call.need
    /\ call.op = "readall" => call.asked = MaxN /\ call.need = MaxN
    /\ call.op = "read1" /\ call.need = 0 /\ call.acc = <<>> => call.asked = 0

(* Types, also of what TypeOK leaves open.                                  *)
StateType ==
    /\ st \in [crc : Seq(Byte), compressLeft : Int, left : Int,
               buffer : Seq(Byte), offset : Int, eof : BOOLEAN,
               decrypted : Seq(Unit), tail : Seq(Unit), pending : Seq(Byte),
               ended : BOOLEAN]
    /\ st.left \in 0 .. Size /\ st.offset \in 0 .. Len(st.buffer)
    /\ Tell \in 0 .. Size

CallType ==
    /\ call \in [op : {"none", "read", "readall", "read1", "peek", "seek"},
                 asked : Nat, at : 0 .. Size, need : Nat, acc : Seq(Byte), todo : Nat]
    /\ call.op = "none" => call = NoCall

Types ==
    /\ entry \in Entries /\ rawPos \in Nat
    /\ StateType /\ CallType
    /\ last \in [asked : Nat, bytes : Seq(Byte)]
    /\ expected \in BOOLEAN /\ closed \in BOOLEAN /\ broken \in BOOLEAN
    /\ skipped \subseteq {"seek", "refused seek", "refused trailer"}
    /\ broken => call = NoCall

InStep == RawInStep /\ KeptFollows /\ GivenIsKnown /\ EndIsReached /\ CallInStep

(* The invariant that the theorems rest on.                                 *)
Inv ==
    /\ Types
    /\ Unpadded => SoundMembersNeverFail
    /\ HonestMacs => EndMeansVerified
    /\ ~broken => InStep

-----------------------------------------------------------------------------
(* The member                                                               *)

LEMMA EntryFacts ==
    ASSUME entry \in Entries
    PROVE  /\ entry.raw \in Seq(Unit) /\ entry.mac \in Seq(Unit)
           /\ Len(entry.raw) \in Nat /\ DOMAIN entry.raw = 1 .. Len(entry.raw)
           /\ entry.csize \in Nat /\ Len(entry.raw) <= entry.csize
           /\ Stored => \A k \in 1 .. Len(entry.raw) :
                           Len(entry.raw[k].bytes) = 1 /\ ~entry.raw[k].ends
           /\ All \in Seq(Byte) /\ Len(All) \in Nat
<1>1. entry.raw \in Seq(Unit) /\ entry.mac \in Seq(Unit) /\ entry.csize \in Nat
  BY ExtAssumption DEF Entry
<1>2. /\ Len(entry.raw) <= entry.csize
      /\ Stored => \A k \in DOMAIN entry.raw :
                      Len(entry.raw[k].bytes) = 1 /\ ~entry.raw[k].ends
  BY ExtAssumption DEF Stored
<1>3. Len(entry.raw) \in Nat /\ DOMAIN entry.raw = 1 .. Len(entry.raw)
  BY <1>1, LenProperties
<1>4. All \in Seq(Byte)
  BY <1>1, BytesType DEF All
<1>5. Len(All) \in Nat
  BY <1>4, LenProperties
<1> QED BY <1>1, <1>2, <1>3, <1>4, <1>5

LEMMA SizeType == Size \in Nat /\ Content \in Seq(Byte) /\ Size < MaxN
<1>1. Content \in Seq(Range(Content)) /\ Size < MaxN
  BY ExtAssumption
<1>2. Range(Content) \subseteq Byte
  BY DEF Byte
<1>3. Content \in Seq(Byte)
  <2> DEFINE R == Range(Content)
  <2> HIDE DEF R
  <2>1. \A s \in Seq(R) : R \subseteq Byte => s \in Seq(Byte)
    BY SeqMonotonic
  <2> QED BY <1>1, <1>2, <2>1 DEF R
<1>4. Len(Content) \in Nat
  BY <1>3, LenProperties
<1> QED BY <1>1, <1>3, <1>4 DEF Size

(* Slices of what the member decompresses to                                *)
LEMMA SpanType ==
    ASSUME entry \in Entries, NEW i \in Int, NEW j \in Int,
           0 <= i, i <= j, j <= Len(All)
    PROVE  Span(i, j) \in Seq(Byte) /\ Len(Span(i, j)) = j - i
<1>1. All \in Seq(Byte) /\ i \in Nat /\ j \in Nat
  BY EntryFacts
<1> QED BY <1>1, Slice DEF Span

LEMMA SpanEmpty ==
    ASSUME NEW i \in Int
    PROVE  Span(i, i) = <<>>
BY SubSeqEmpty DEF Span

LEMMA SpanOfSpan ==
    ASSUME entry \in Entries, NEW i \in Int, NEW j \in Int, 0 <= i, i <= j, j <= Len(All),
           NEW a \in Int, NEW b \in Int, 0 <= a, a <= b, b <= j - i
    PROVE  SubSeq(Span(i, j), a + 1, b) = Span(i + a, i + b)
<1>1. All \in Seq(Byte) /\ i \in Nat /\ j \in Nat /\ a \in Nat /\ b \in Nat
  BY EntryFacts
<1> QED BY <1>1, SliceOfSlice DEF Span

(* The same, where SubSeq is not to be looked into.                         *)
Part(s, a, b) == SubSeq(s, a + 1, b)

LEMMA SpanPart ==
    ASSUME NEW i \in Int, NEW j \in Int, NEW a \in Int, NEW b \in Int, entry \in Entries,
           0 <= i, i <= j, j <= Len(All), 0 <= a, a <= b, b <= j - i
    PROVE  Part(Span(i, j), a, b) = Span(i + a, i + b)
BY SMTT(20), ZenonT(30), SpanOfSpan DEF Part

LEMMA SpansJoin ==
    ASSUME entry \in Entries, NEW i \in Int, NEW j \in Int, NEW k \in Int,
           0 <= i, i <= j, j <= k, k <= Len(All)
    PROVE  Span(i, j) \o Span(j, k) = Span(i, k)
<1>1. All \in Seq(Byte) /\ i \in Nat /\ j \in Nat /\ k \in Nat
  BY EntryFacts
<1> QED BY <1>1, SlicesJoin DEF Span

(* Where the units end                                                      *)
LEMMA OffsetFacts ==
    ASSUME entry \in Entries, NEW i \in Nat, NEW j \in Nat,
           i <= j, j <= Len(entry.raw)
    PROVE  /\ Off(i) \in Nat /\ Off(j) \in Nat
           /\ Off(i) <= Off(j) /\ Off(j) <= Len(All)
           /\ Bytes(SubSeq(entry.raw, i + 1, j)) = Span(Off(i), Off(j))
BY EntryFacts, BytesSlice DEF Off, Span, All

LEMMA OffsetsAtTheEnds ==
    ASSUME entry \in Entries
    PROVE  Off(0) = 0 /\ Off(Len(entry.raw)) = Len(All)
<1>1. entry.raw \in Seq(Unit) /\ Len(entry.raw) \in Nat
  BY EntryFacts
<1>2. SubSeq(entry.raw, 1, Len(entry.raw)) = entry.raw
  BY <1>1, SubSeqFull
<1>3. Bytes(SubSeq(entry.raw, 0 + 1, 0)) = <<>>
  <2>1. FlattenSeq(SubSeq(Pieces(entry.raw), 0 + 1, 0)) = <<>>
    BY FlattenNothing
  <2>2. Pieces(SubSeq(entry.raw, 0 + 1, 0)) = SubSeq(Pieces(entry.raw), 0 + 1, 0)
    <3>1. 0 \in Nat /\ 0 <= 0 /\ 0 <= Len(entry.raw)
      BY <1>1
    <3> QED BY <1>1, <3>1, UnitSlice
  <2> QED BY <2>1, <2>2, BytesArePieces, Zenon
<1>4. Off(0) = 0
  <2>1. 0 + 1 = 1
    OBVIOUS
  <2>2. Bytes(SubSeq(entry.raw, 1, 0)) = <<>>
    BY <2>1, <1>3
  <2> QED BY <2>2 DEF Off
<1> QED BY <1>2, <1>4 DEF Off, All

LEMMA OffsetsOfStored ==
    ASSUME entry \in Entries, Stored, NEW k \in Nat, k <= Len(entry.raw)
    PROVE  Off(k) = k
BY EntryFacts, BytesOfSingles DEF Off

LEMMA ReachFacts ==
    ASSUME entry \in Entries
    PROVE  LET r == Reach(entry.raw)
           IN  /\ r \in Nat /\ r <= Len(entry.raw)
               /\ Ends(entry.raw) = {} => r = Len(entry.raw)
               /\ Ends(entry.raw) # {} => r \in Ends(entry.raw)
               /\ \A k \in Ends(entry.raw) : r <= k
               /\ EndOff \in Nat /\ EndOff <= Len(All)
<1> DEFINE E == Ends(entry.raw)
           r == Reach(entry.raw)
<1>1. Len(entry.raw) \in Nat /\ E \subseteq 1 .. Len(entry.raw)
  BY EntryFacts DEF Ends
<1>2. /\ r \in Nat /\ r <= Len(entry.raw)
      /\ E = {} => r = Len(entry.raw)
      /\ E # {} => r \in E
      /\ \A k \in E : r <= k
  <2>1. CASE E = {}
    <3>1. r = Len(entry.raw)
      BY <2>1 DEF Reach
    <3> HIDE DEF E, r
    <3> QED BY <2>1, <3>1, <1>1
  <2>2. CASE E # {}
    <3>1. r = Min(E)
      BY <2>2 DEF Reach
    <3>2. E \subseteq 0 .. Len(entry.raw)
      BY <1>1
    <3> HIDE DEF E, r
    <3>3. r \in E /\ \A k \in E : r <= k
      BY <1>1, <2>2, <3>1, <3>2, MinOfNumbers
    <3> QED BY <1>1, <2>2, <3>3
  <2> QED BY <2>1, <2>2
<1> HIDE DEF E, r
<1>3. EndOff \in Nat /\ EndOff <= Len(All)
  BY <1>2, OffsetFacts DEF EndOff, r
<1> QED BY <1>2, <1>3 DEF E, r

(* Data is what the stream holds, as far as file_size reaches.              *)
Extent == IF Size <= EndOff THEN Size ELSE EndOff

LEMMA DataFacts ==
    ASSUME entry \in Entries
    PROVE  /\ Stream(entry.raw) = Span(0, EndOff) /\ Len(Stream(entry.raw)) = EndOff
           /\ Data = Span(0, Extent) /\ Len(Data) = Extent
           /\ Extent \in Nat /\ Extent <= Size /\ Extent <= EndOff
           /\ EndOff \in Nat /\ EndOff <= Len(All)
<1>1. /\ Reach(entry.raw) \in Nat /\ Reach(entry.raw) <= Len(entry.raw)
      /\ EndOff \in Nat /\ EndOff <= Len(All)
  BY ReachFacts
<1>2. Stream(entry.raw) = Span(0, EndOff)
  <2>1. Bytes(SubSeq(entry.raw, 0 + 1, Reach(entry.raw))) = Span(Off(0), EndOff)
    <3>1. 0 \in Nat /\ 0 <= Reach(entry.raw)
      BY <1>1
    <3> QED BY <1>1, <3>1, OffsetFacts DEF EndOff
  <2>2. 0 + 1 = 1 /\ Off(0) = 0
    BY OffsetsAtTheEnds
  <2> QED BY <2>1, <2>2 DEF Stream
<1>3. Len(Stream(entry.raw)) = EndOff
  <2>1. Len(Span(0, EndOff)) = EndOff - 0
    BY <1>1, SpanType
  <2> QED BY <1>1, <1>2, <2>1
<1>4. Extent \in Nat /\ Extent <= Size /\ Extent <= EndOff
  BY <1>1, SizeType DEF Extent
<1>5. Data = SubSeq(Stream(entry.raw), 1, Extent)
  <2>1. Min({Size, EndOff}) = Extent
    BY <1>1, SizeType, MinOfTwo DEF Extent
  <2> QED BY <1>3, <2>1 DEF Data
<1>6. Data = Span(0, Extent)
  <2>1. SubSeq(Span(0, EndOff), 0 + 1, Extent) = Span(0 + 0, 0 + Extent)
    <3>1. /\ Extent <= EndOff - 0 /\ 0 \in Int /\ 0 <= 0 /\ 0 <= EndOff
          /\ EndOff \in Int /\ Extent \in Int /\ 0 <= Extent
      BY <1>1, <1>4
    <3> QED BY <1>1, <3>1, SpanOfSpan
  <2>2. 0 + 1 = 1 /\ 0 + 0 = 0 /\ 0 + Extent = Extent
    BY <1>4
  <2> QED BY <1>2, <1>5, <2>1, <2>2
<1>7. Len(Data) = Extent
  <2>1. Len(Span(0, Extent)) = Extent - 0
    <3>1. Extent <= Len(All)
      BY <1>1, <1>4, EntryFacts
    <3> QED BY <1>4, <3>1, SpanType
  <2> QED BY <1>4, <1>6, <2>1
<1> QED BY <1>1, <1>2, <1>3, <1>4, <1>6, <1>7

-----------------------------------------------------------------------------
(* Reading units                                                            *)

LEMMA StateFacts ==
    ASSUME Types
    PROVE  /\ entry \in Entries /\ rawPos \in Nat
           /\ st.crc \in Seq(Byte) /\ st.buffer \in Seq(Byte) /\ st.pending \in Seq(Byte)
           /\ st.decrypted \in Seq(Unit) /\ st.tail \in Seq(Unit)
           /\ Len(st.buffer) \in Nat /\ Len(st.pending) \in Nat /\ Len(st.tail) \in Nat
           /\ st.compressLeft \in Int /\ st.left \in Int /\ st.offset \in Int
           /\ 0 <= st.left /\ st.left <= Size /\ 0 <= st.offset /\ st.offset <= Len(st.buffer)
           /\ st.eof \in BOOLEAN /\ st.ended \in BOOLEAN
           /\ Given \in Nat /\ Given <= Size /\ Size \in Nat
           /\ Used \in Int
           /\ Tell \in Int /\ 0 <= Tell /\ Tell <= Size
<1>1. Size \in Nat
  BY SizeType
<1>2. /\ entry \in Entries /\ rawPos \in Nat
      /\ st.crc \in Seq(Byte) /\ st.buffer \in Seq(Byte) /\ st.pending \in Seq(Byte)
      /\ st.decrypted \in Seq(Unit) /\ st.tail \in Seq(Unit)
      /\ st.compressLeft \in Int /\ st.left \in Int /\ st.offset \in Int
      /\ st.left \in 0 .. Size /\ st.offset \in 0 .. Len(st.buffer)
      /\ st.eof \in BOOLEAN /\ st.ended \in BOOLEAN /\ Tell \in 0 .. Size
  BY DEF Types, StateType
<1>3. Len(st.buffer) \in Nat /\ Len(st.pending) \in Nat /\ Len(st.tail) \in Nat
  BY <1>2, LenProperties
<1> QED BY <1>1, <1>2, <1>3 DEF Given, Used

LEMMA RawUnitsGive ==
    ASSUME Types, NEW n \in Int, n > 0, st.compressLeft > 0
    PROVE  LET r == RawUnits(n)
           IN  /\ r \in Seq(Unit) /\ Len(r) \in Nat /\ Len(r) <= st.compressLeft
               /\ r = SubSeq(entry.raw, rawPos + 1, rawPos + Len(r))
               /\ rawPos <= Len(entry.raw) => rawPos + Len(r) <= Len(entry.raw)
               /\ rawPos >= Len(entry.raw) => r = <<>>
               /\ rawPos < Len(entry.raw) => Len(r) > 0
<1> DEFINE w == Max({n, MinRead})
           q == Min({w, MaxRead, st.compressLeft})
           m == Min({rawPos + q, Len(entry.raw)})
           r == RawUnits(n)
<1>1. /\ rawPos \in Nat /\ st.compressLeft \in Int /\ entry.raw \in Seq(Unit)
      /\ Len(entry.raw) \in Nat
  BY StateFacts, EntryFacts
<1>2. MinRead \in Int /\ MaxRead \in Int /\ MinRead > 0 /\ MaxRead > 0
  BY ExtAssumption
<1>3. w \in Int /\ w > 0
  BY <1>2, MaxOfTwo
<1> HIDE DEF w
<1>4. q \in Int /\ q > 0 /\ q <= st.compressLeft
  <2>1. q \in {w, MaxRead, st.compressLeft} /\ q <= st.compressLeft
    BY <1>1, <1>2, <1>3, MinOfThree
  <2> HIDE DEF q
  <2> QED BY <1>1, <1>2, <1>3, <2>1
<1> HIDE DEF q
<1>5. /\ m = IF rawPos + q <= Len(entry.raw) THEN rawPos + q ELSE Len(entry.raw)
  BY <1>1, <1>4, MinOfTwo
<1>6. r = SubSeq(entry.raw, rawPos + 1, m)
  BY DEF RawUnits, q, w
<1> HIDE DEF m, r
<1>7. CASE rawPos < Len(entry.raw)
  <2>1. m \in Nat /\ rawPos < m /\ rawPos <= m /\ m <= Len(entry.raw) /\ m - rawPos <= q
    BY <1>1, <1>4, <1>5, <1>7
  <2>2. r \in Seq(Unit) /\ Len(r) = m - rawPos
    BY <1>1, <1>6, <2>1, Slice
  <2>3. rawPos + Len(r) = m
    BY <1>1, <2>1, <2>2
  <2> QED BY <1>1, <1>4, <1>6, <1>7, <2>1, <2>2, <2>3 DEF r
<1>8. CASE ~(rawPos < Len(entry.raw))
  <2>1. m = Len(entry.raw) /\ m < rawPos + 1
    BY <1>1, <1>4, <1>5, <1>8
  <2>2. r = <<>>
    BY <1>1, <1>6, <2>1, SubSeqEmpty
  <2>3. Len(r) = 0 /\ r \in Seq(Unit)
    BY <2>2, EmptySeq
  <2>4. SubSeq(entry.raw, rawPos + 1, rawPos) = <<>>
    BY <1>1, SubSeqEmpty
  <2>5. rawPos + Len(r) = rawPos
    BY <1>1, <2>3
  <2> QED BY <1>1, <1>8, <2>2, <2>3, <2>4, <2>5 DEF r
<1> QED BY <1>7, <1>8

LEMMA DecryptedInTurn ==
    ASSUME Types, ~st.eof, RawInStep, NEW us
    PROVE  Decrypt(us) = us
<1>1. CASE entry.enc = "none"
  BY <1>1 DEF Decrypt
<1>2. CASE entry.enc # "none"
  <2>1. st.decrypted = SubSeq(entry.raw, 1, rawPos) /\ rawPos <= Len(entry.raw)
    BY <1>2 DEF RawInStep, Direct
  <2>2. /\ rawPos \in Nat /\ entry.raw \in Seq(Unit) /\ 0 \in Nat /\ 0 + 1 = 1
        /\ 0 <= rawPos /\ rawPos - 0 = rawPos
    BY StateFacts, EntryFacts
  <2>3. Len(SubSeq(entry.raw, 0 + 1, rawPos)) = rawPos - 0
    BY <2>1, <2>2, Slice
  <2>4. rawPos = Len(st.decrypted)
    BY <2>1, <2>2, <2>3
  <2> QED BY <2>4 DEF Decrypt
<1> QED BY <1>1, <1>2

(* What a turn of a loop begins with: as asked for, or what is left of it.  *)
TheInput(n) ==
    IF Demand(n) = 0 \/ st.compressLeft <= 0 THEN <<>> ELSE RawUnits(Demand(n))

(* The input of a turn: the units that follow, up to the p-th.              *)
Follows(input, p) ==
    /\ input \in Seq(Unit) /\ p = rawPos + Len(input) /\ p \in Nat /\ rawPos <= p
    /\ input = SubSeq(entry.raw, rawPos + 1, p)
    /\ ~Direct => p <= Len(entry.raw)
    /\ rawPos <= Len(entry.raw) => p <= Len(entry.raw)
    /\ rawPos >= Len(entry.raw) => input = <<>>
    /\ st.compressLeft <= 0 => input = <<>>

LEMMA DemandType ==
    ASSUME Types, NEW n \in Nat, n > 0
    PROVE  /\ Demand(n) \in Nat
           /\ Stored => Demand(n) = n
           /\ st.tail = <<>> /\ st.pending = <<>> => Demand(n) > 0
           /\ entry.kind = "deflated" /\ st.tail = <<>> => Demand(n) > 0
<1>1. Len(st.tail) \in Nat
  BY StateFacts
<1>2. Max({0, n - Len(st.tail)}) = IF 0 >= n - Len(st.tail) THEN 0 ELSE n - Len(st.tail)
  BY <1>1, MaxOfTwo
<1>3. st.tail = <<>> => Len(st.tail) = 0
  BY EmptySeq
<1>4. CASE Stored
  BY <1>4 DEF Demand, Stored
<1>5. CASE entry.kind = "deflated"
  <2>1. ~Stored /\ Demand(n) = Max({0, n - Len(st.tail)})
    BY <1>5 DEF Demand, Stored
  <2> QED BY <1>1, <1>2, <1>3, <2>1
<1>6. CASE ~Stored /\ entry.kind # "deflated"
  <2>1. Demand(n) = IF st.tail = <<>> /\ st.pending = <<>> THEN n ELSE 0
    BY <1>6 DEF Demand
  <2> QED BY <1>6, <2>1
<1> QED BY <1>4, <1>5, <1>6

LEMMA InputFollows ==
    ASSUME Types, ~st.eof, RawInStep, NEW n \in Nat, n > 0
    PROVE  /\ Follows(TheInput(n), rawPos + Len(TheInput(n)))
           /\ Demand(n) > 0 /\ st.compressLeft > 0 /\ rawPos < Len(entry.raw) =>
                 TheInput(n) # <<>>
<1> DEFINE r == TheInput(n)
           p == rawPos + Len(r)
<1>1. /\ rawPos \in Nat /\ st.compressLeft \in Int /\ entry.raw \in Seq(Unit)
      /\ Len(entry.raw) \in Nat /\ Demand(n) \in Nat
      /\ ~Direct => rawPos <= Len(entry.raw)
  BY StateFacts, EntryFacts, DemandType DEF RawInStep
<1>2. CASE Demand(n) = 0 \/ st.compressLeft <= 0
  <2>1. r = <<>>
    BY <1>2 DEF TheInput
  <2>2. Len(r) = 0 /\ r \in Seq(Unit)
    BY <2>1, EmptySeq
  <2>3. SubSeq(entry.raw, rawPos + 1, rawPos) = <<>>
    BY <1>1, SubSeqEmpty
  <2>4. p = rawPos
    <3> HIDE DEF r
    <3> QED BY <1>1, <2>2
  <2> HIDE DEF r, p
  <2> QED BY <1>1, <1>2, <2>1, <2>2, <2>3, <2>4 DEF Follows, r, p
<1>3. CASE ~(Demand(n) = 0 \/ st.compressLeft <= 0)
  <2>1. Demand(n) \in Int /\ Demand(n) > 0 /\ st.compressLeft > 0
    BY <1>1, <1>3
  <2>2. r = RawUnits(Demand(n))
    BY <1>3 DEF TheInput
  <2>3. /\ r \in Seq(Unit) /\ Len(r) \in Nat
        /\ r = SubSeq(entry.raw, rawPos + 1, rawPos + Len(r))
        /\ rawPos <= Len(entry.raw) => rawPos + Len(r) <= Len(entry.raw)
        /\ rawPos >= Len(entry.raw) => r = <<>>
        /\ rawPos < Len(entry.raw) => Len(r) > 0
    <3> HIDE DEF r
    <3> QED BY <2>1, <2>2, RawUnitsGive
  <2>4. Follows(r, p)
    <3> HIDE DEF r
    <3> QED BY <1>1, <1>3, <2>1, <2>3 DEF Follows
  <2>5. rawPos < Len(entry.raw) => r # <<>>
    <3>1. Len(<<>>) = 0
      OBVIOUS
    <3> HIDE DEF r
    <3> QED BY <2>3, <3>1
  <2> QED BY <2>4, <2>5
<1> QED BY <1>2, <1>3

-----------------------------------------------------------------------------
(* One turn                                                                 *)

(* Data given, and kept as pending, of the bytes up to y.                   *)
LEMMA SpanIsCut ==
    ASSUME entry \in Entries, NEW a \in Nat, NEW y \in Nat, a <= y, y <= Len(All),
           NEW n \in Nat, n > 0
    PROVE  LET x == Span(a, y)
               m == IF n <= Len(x) THEN n ELSE Len(x)
               u == SubSeq(x, 1, m)
               v == SubSeq(x, m + 1, Len(x))
           IN  /\ u \in Seq(Byte) /\ v \in Seq(Byte)
               /\ Len(u) \in Nat /\ Len(v) \in Nat
               /\ u = Span(a, a + Len(u))
               /\ v = Span(a + Len(u), a + Len(u) + Len(v))
               /\ a + Len(u) + Len(v) = y
               /\ u = <<>> => v = <<>> /\ a = y
<1> DEFINE x == Span(a, y)
           m == IF n <= Len(x) THEN n ELSE Len(x)
           u == SubSeq(x, 1, m)
           v == SubSeq(x, m + 1, Len(x))
<1>1. x \in Seq(Byte) /\ Len(x) = y - a /\ Len(x) \in Nat
  <2>1. a \in Int /\ y \in Int /\ 0 <= a
    OBVIOUS
  <2>2. Span(a, y) \in Seq(Byte) /\ Len(Span(a, y)) = y - a
    BY <2>1, SpanType
  <2> QED BY <2>2
<1>2. m \in Nat /\ m <= y - a /\ (m = 0 => y = a)
  <2> HIDE DEF x
  <2> QED BY <1>1
<1>3. u = Span(a, a + m) /\ v = Span(a + m, y)
  <2> HIDE DEF m
  <2>1. SubSeq(Span(a, y), 0 + 1, m) = Span(a + 0, a + m)
    <3>1. 0 \in Int /\ 0 <= 0 /\ 0 <= a /\ 0 <= m /\ a \in Int /\ y \in Int /\ m \in Int
      BY <1>2
    <3> QED BY SMTT(20), ZenonT(30), <1>2, <3>1, SpanOfSpan
  <2>2. SubSeq(Span(a, y), m + 1, y - a) = Span(a + m, a + (y - a))
    <3>1. /\ 0 <= a /\ 0 <= m /\ a \in Int /\ y \in Int /\ m \in Int /\ y - a \in Int
          /\ m <= y - a /\ y - a <= y - a
      BY <1>2
    <3> QED BY <3>1, SpanOfSpan
  <2>3. 0 + 1 = 1 /\ a + 0 = a /\ a + (y - a) = y
    OBVIOUS
  <2> QED BY <1>1, <2>1, <2>2, <2>3
<1> HIDE DEF m
<1>4. u \in Seq(Byte) /\ v \in Seq(Byte) /\ Len(u) = m /\ Len(v) = y - (a + m)
  <2>1. /\ a + m \in Int /\ 0 <= a /\ a <= a + m /\ a + m <= Len(All) /\ 0 <= a + m
        /\ a + m <= y /\ a \in Int /\ y \in Int /\ (a + m) - a = m
    <3>1. Len(All) \in Nat
      BY EntryFacts
    <3> QED BY <1>2, <3>1
  <2>2. Span(a, a + m) \in Seq(Byte) /\ Len(Span(a, a + m)) = (a + m) - a
    BY <2>1, SpanType
  <2>3. Span(a + m, y) \in Seq(Byte) /\ Len(Span(a + m, y)) = y - (a + m)
    BY <2>1, SpanType
  <2> HIDE DEF u, v
  <2> QED BY <1>3, <2>1, <2>2, <2>3
<1> HIDE DEF u, v
<1>5. Len(v) \in Nat /\ a + Len(u) + Len(v) = y
  BY <1>2, <1>4
<1>6. u = <<>> => v = <<>> /\ a = y
  <2> SUFFICES ASSUME u = <<>> PROVE v = <<>> /\ a = y
    OBVIOUS
  <2>1. Len(u) = 0
    BY EmptySeq
  <2>2. a = y
    BY <1>2, <1>4, <2>1
  <2>3. v = Span(a, a)
    BY <1>3, <1>4, <2>1, <2>2
  <2> QED BY <2>2, <2>3, SpanEmpty
<1> QED BY <1>2, <1>3, <1>4, <1>5, <1>6 DEF u, v, m, x

(* What was true of the decompressor is true of it after a turn.            *)
Advances(d, p) ==
    LET g == Given + Len(d.data)
        u == p - Len(d.tail)
    IN  /\ d.data \in Seq(Byte) /\ d.pending \in Seq(Byte)
        /\ d.tail \in Seq(Unit) /\ d.ended \in BOOLEAN
        /\ d.data = Span(Given, g)
        /\ d.pending = Span(g, g + Len(d.pending))
        /\ g + Len(d.pending) <= EndOff
        /\ d.ended => /\ d.tail = <<>> /\ g + Len(d.pending) = EndOff
                      /\ Reach(entry.raw) <= p /\ Ends(entry.raw) # {}
        /\ ~d.ended => /\ u >= 0 /\ g + Len(d.pending) = Off(u)
                       /\ d.tail = SubSeq(entry.raw, u + 1, p)
                       /\ \A k \in 1 .. u : ~entry.raw[k].ends
        /\ d.data = <<>> => /\ d.pending = <<>> /\ st.pending = <<>>
                            /\ d.ended \/ d.tail = <<>>

(* An ended decompressor gives what is pending.                             *)
LEMMA EndedAdvances ==
    ASSUME Types, ~st.eof, ~Stored, KeptFollows, Given <= EndOff,
           NEW input, NEW p, Follows(input, p), st.ended, NEW n \in Nat, n > 0
    PROVE  Advances(Decompress(st.tail, st.pending, st.ended, input, n), p)
<1> DEFINE us == st.tail \o input
           d == Decompress(st.tail, st.pending, st.ended, input, n)
           x == Output(st.pending, us, 0)
<1>1. /\ entry \in Entries /\ st.tail \in Seq(Unit) /\ st.pending \in Seq(Byte)
      /\ st.ended \in BOOLEAN /\ input \in Seq(Unit) /\ rawPos \in Nat /\ Given \in Nat
      /\ p \in Nat /\ rawPos <= p /\ Len(st.pending) \in Nat
  BY StateFacts DEF Follows
<1>2. /\ st.pending = Span(Given, Given + Len(st.pending)) /\ st.tail = <<>>
      /\ Ends(entry.raw) # {} /\ Given + Len(st.pending) = EndOff
      /\ Reach(entry.raw) <= rawPos
  BY DEF KeptFollows
<1>3. EndOff \in Nat /\ EndOff <= Len(All)
  BY <1>1, ReachFacts
<1>4. PICK k \in 0 .. Len(us) : Decompressed(d, st.pending, st.ended, us, n, k)
  <2> HIDE DEF d
  <2> QED BY <1>1, DecompressGives DEF d
<1>5. k = 0
  BY <1>4 DEF Decompressed
<1>6. x = st.pending
  <2>1. SubSeq(us, 1, 0) = <<>>
    BY SubSeqEmpty
  <2>2. Pieces(<<>>) = <<>>
    BY DEF Pieces
  <2>3. Bytes(SubSeq(us, 1, 0)) = <<>>
    BY <2>1, <2>2, BytesArePieces, FlattenEmpty, Zenon
  <2>4. st.pending \o <<>> = st.pending
    BY <1>1, ConcatEmptySeq
  <2> QED BY <2>3, <2>4 DEF Output
<1>7. x = Span(Given, EndOff)
  BY <1>2, <1>6
<1> HIDE DEF x, us, d
<1> DEFINE w == Span(Given, EndOff)
           m == IF n <= Len(w) THEN n ELSE Len(w)
<1>8. /\ d.data = SubSeq(w, 1, m) /\ d.pending = SubSeq(w, m + 1, Len(w))
      /\ d.ended = TRUE /\ d.ended /\ d.tail = <<>>
  <2>1. w = x
    BY <1>7
  <2> HIDE DEF w
  <2> QED BY <1>4, <1>5, <2>1 DEF Decompressed, x
<1>9. /\ d.data \in Seq(Byte) /\ d.pending \in Seq(Byte)
      /\ Len(d.data) \in Nat /\ Len(d.pending) \in Nat
      /\ d.data = Span(Given, Given + Len(d.data))
      /\ d.pending = Span(Given + Len(d.data), Given + Len(d.data) + Len(d.pending))
      /\ Given + Len(d.data) + Len(d.pending) = EndOff
      /\ d.data = <<>> => d.pending = <<>> /\ Given = EndOff
  <2> DEFINE u == SubSeq(w, 1, m)
             v == SubSeq(w, m + 1, Len(w))
  <2>1. /\ u \in Seq(Byte) /\ v \in Seq(Byte)
        /\ Len(u) \in Nat /\ Len(v) \in Nat
        /\ u = Span(Given, Given + Len(u))
        /\ v = Span(Given + Len(u), Given + Len(u) + Len(v))
        /\ Given + Len(u) + Len(v) = EndOff
        /\ u = <<>> => v = <<>> /\ Given = EndOff
    BY <1>1, <1>3, SpanIsCut
  <2>2. d.data = u /\ d.pending = v
    BY <1>8
  <2> HIDE DEF u, v
  <2> QED BY <2>1, <2>2
<1>10. Given = EndOff => st.pending = <<>>
  BY <1>1, <1>2, SpanEmpty
<1>11. d.tail \in Seq(Unit)
  BY <1>8, EmptySeq
<1>12. Reach(entry.raw) \in Nat
  BY <1>1, ReachFacts
<1>13. Reach(entry.raw) <= p
  BY <1>1, <1>2, <1>12
<1> HIDE DEF w, m
<1>14. Advances(d, p)
  <2>1. d.ended \in BOOLEAN /\ d.ended /\ d.tail = <<>>
    BY <1>8
  <2>2. Given + Len(d.data) + Len(d.pending) <= EndOff
    BY <1>3, <1>9
  <2> QED BY <1>2, <1>9, <1>10, <1>11, <1>13, <2>1, <2>2 DEF Advances
<1> QED BY <1>14 DEF d

(* One that has not ended goes on where it was.                             *)
LEMMA RunningAdvances ==
    ASSUME Types, ~st.eof, ~Stored, KeptFollows, RawInStep, Given <= EndOff,
           NEW input, NEW p, Follows(input, p), ~st.ended, NEW n \in Nat, n > 0
    PROVE  Advances(Decompress(st.tail, st.pending, st.ended, input, n), p)
<1> DEFINE us == st.tail \o input
           d == Decompress(st.tail, st.pending, st.ended, input, n)
           L == Len(entry.raw)
<1>1. /\ entry \in Entries /\ st.tail \in Seq(Unit) /\ st.pending \in Seq(Byte)
      /\ st.ended \in BOOLEAN /\ input \in Seq(Unit) /\ rawPos \in Nat /\ Given \in Nat
      /\ p \in Nat /\ rawPos <= p /\ Len(st.pending) \in Nat /\ Len(st.tail) \in Nat
  BY StateFacts DEF Follows
<1>2. /\ st.pending = Span(Given, Given + Len(st.pending))
      /\ Used >= 0 /\ Given + Len(st.pending) = Off(Used)
      /\ st.tail = SubSeq(entry.raw, Used + 1, rawPos)
      /\ \A k \in 1 .. Used : ~entry.raw[k].ends
  BY DEF KeptFollows
<1>3. /\ entry.raw \in Seq(Unit) /\ L \in Nat /\ p <= L /\ Used \in Nat /\ Used <= rawPos
      /\ Used <= p /\ Used <= L
  <2>1. ~Direct
    BY DEF Direct
  <2>2. p <= L
    BY <2>1 DEF Follows
  <2>3. Used \in Nat /\ Used <= rawPos
    BY <1>1, <1>2 DEF Used
  <2> QED BY <1>1, <2>2, <2>3, EntryFacts
<1> HIDE DEF L
<1>4. us = SubSeq(entry.raw, Used + 1, p)
  <2>1. input = SubSeq(entry.raw, rawPos + 1, p)
    BY DEF Follows
  <2>2. SubSeq(entry.raw, Used + 1, rawPos) \o SubSeq(entry.raw, rawPos + 1, p) =
           SubSeq(entry.raw, Used + 1, p)
    BY <1>1, <1>3, SlicesJoin DEF L
  <2> QED BY <1>2, <2>1, <2>2
<1> HIDE DEF us
<1>5. /\ us \in Seq(Unit) /\ Len(us) = p - Used
      /\ \A j \in 1 .. p - Used : us[j] = entry.raw[Used + j]
  BY <1>1, <1>3, <1>4, Slice DEF L
<1>6. PICK k \in 0 .. Len(us) : Decompressed(d, st.pending, st.ended, us, n, k)
  <2> HIDE DEF d
  <2> QED BY <1>1, DecompressGives DEF d, us
<1> HIDE DEF d
<1> DEFINE b == Used + k
           x == Output(st.pending, us, k)
           w == Span(Given, Off(b))
           m == IF n <= Len(w) THEN n ELSE Len(w)
<1>7. k \in Nat /\ k <= p - Used /\ b \in Nat /\ Used <= b /\ b <= p /\ b <= L
  <2>1. p - Used \in Nat /\ k \in 0 .. p - Used
    BY <1>1, <1>3, <1>5
  <2> QED BY <1>1, <1>3, <2>1
<1>8. /\ Off(Used) \in Nat /\ Off(b) \in Nat /\ Off(Used) <= Off(b) /\ Off(b) <= Len(All)
      /\ Bytes(SubSeq(entry.raw, Used + 1, b)) = Span(Off(Used), Off(b))
  <2> HIDE DEF b
  <2> QED BY <1>1, <1>3, <1>7, OffsetFacts DEF L
<1>9. x = w
  <2>1. SubSeq(us, 1, k) = SubSeq(entry.raw, Used + 1, b)
    <3>1. SubSeq(SubSeq(entry.raw, Used + 1, p), 0 + 1, k) =
             SubSeq(entry.raw, Used + 0 + 1, Used + k)
      <4>1. 0 \in Nat /\ 0 <= k /\ p <= Len(entry.raw)
        BY <1>3, <1>7 DEF L
      <4> QED BY <1>1, <1>3, <1>7, <4>1, SliceOfSlice
    <3>2. 0 + 1 = 1 /\ Used + 0 + 1 = Used + 1
      BY <1>3
    <3> QED BY <1>4, <3>1, <3>2
  <2>2. x = Span(Given, Off(Used)) \o Span(Off(Used), Off(b))
    <3> HIDE DEF b
    <3> QED BY <1>2, <1>8, <2>1 DEF Output
  <2>3. Span(Given, Off(Used)) \o Span(Off(Used), Off(b)) = Span(Given, Off(b))
    <3>1. /\ Given \in Int /\ Off(Used) \in Int /\ Off(b) \in Int /\ 0 <= Given
          /\ Given <= Off(Used)
      <4> HIDE DEF b
      <4> QED BY <1>1, <1>2, <1>8
    <3> HIDE DEF b
    <3> QED BY <1>1, <1>8, <3>1, SpansJoin
  <2> HIDE DEF b, x
  <2> QED BY <2>2, <2>3 DEF w
<1>10. Given <= Off(b)
  <2> HIDE DEF b
  <2> QED BY <1>1, <1>2, <1>8
<1>11. /\ d.data = SubSeq(w, 1, m) /\ d.pending = SubSeq(w, m + 1, Len(w))
       /\ d.ended = (k > 0 /\ us[k].ends)
       /\ d.tail = IF d.ended THEN <<>> ELSE SubSeq(us, k + 1, Len(us))
       /\ \A j \in 1 .. k - 1 : ~us[j].ends
       /\ k = Len(us) \/ d.ended \/ Len(w) >= n
  <2> HIDE DEF w
  <2> QED BY <1>6, <1>9 DEF Decompressed, x
<1>12. /\ d.data \in Seq(Byte) /\ d.pending \in Seq(Byte)
       /\ Len(d.data) \in Nat /\ Len(d.pending) \in Nat
       /\ d.data = Span(Given, Given + Len(d.data))
       /\ d.pending = Span(Given + Len(d.data), Given + Len(d.data) + Len(d.pending))
       /\ Given + Len(d.data) + Len(d.pending) = Off(b)
       /\ d.data = <<>> => d.pending = <<>> /\ Given = Off(b)
  <2> DEFINE u == SubSeq(w, 1, m)
             v == SubSeq(w, m + 1, Len(w))
  <2>1. /\ u \in Seq(Byte) /\ v \in Seq(Byte)
        /\ Len(u) \in Nat /\ Len(v) \in Nat
        /\ u = Span(Given, Given + Len(u))
        /\ v = Span(Given + Len(u), Given + Len(u) + Len(v))
        /\ Given + Len(u) + Len(v) = Off(b)
        /\ u = <<>> => v = <<>> /\ Given = Off(b)
    <3> HIDE DEF b
    <3> QED BY SMTT(20), ZenonT(30), <1>1, <1>8, <1>10, SpanIsCut
  <2>2. d.data = u /\ d.pending = v
    BY <1>11
  <2> HIDE DEF u, v, b
  <2> QED BY <2>1, <2>2
<1> HIDE DEF w, m, x
<1>13. \A j \in 1 .. b : j < b => ~entry.raw[j].ends
  <2> SUFFICES ASSUME NEW j \in 1 .. b, j < b PROVE ~entry.raw[j].ends
    OBVIOUS
  <2>1. CASE j <= Used
    BY <1>2, <2>1, <1>3
  <2>2. CASE ~(j <= Used)
    <3>1. /\ j - Used \in 1 .. k - 1 /\ j - Used \in 1 .. p - Used
          /\ Used + (j - Used) = j
      <4>1. j \in Nat /\ j >= 1 /\ Used < j /\ j < Used + k
        BY <1>1, <1>3, <1>7, <2>2
      <4> HIDE DEF b
      <4> QED BY <1>1, <1>3, <1>7, <4>1
    <3>2. us[j - Used] = entry.raw[Used + (j - Used)]
      BY <1>5, <3>1
    <3> HIDE DEF b
    <3> QED BY <1>11, <3>1, <3>2
  <2> QED BY <2>1, <2>2
<1>14. k > 0 => us[k] = entry.raw[b]
  BY <1>5, <1>7
<1>15. /\ Reach(entry.raw) \in Nat /\ Reach(entry.raw) <= L
       /\ Ends(entry.raw) = {} => Reach(entry.raw) = L
       /\ Ends(entry.raw) # {} => Reach(entry.raw) \in Ends(entry.raw)
       /\ \A j \in Ends(entry.raw) : Reach(entry.raw) <= j
       /\ EndOff \in Nat /\ EndOff <= Len(All)
  BY <1>1, ReachFacts DEF L
<1>16. Ends(entry.raw) = {j \in 1 .. L : entry.raw[j].ends}
  BY <1>1, EntryFacts DEF Ends, L
<1>17. CASE d.ended
  <2>1. k > 0 /\ entry.raw[b].ends /\ d.tail = <<>>
    <3> HIDE DEF b
    <3> QED BY <1>11, <1>14, <1>17
  <2>2. b \in 1 .. L
    BY <1>3, <1>7, <2>1
  <2>3. b \in Ends(entry.raw)
    <3> HIDE DEF b
    <3> QED BY <1>16, <2>1, <2>2
  <2>4. Reach(entry.raw) = b
    <3>1. Reach(entry.raw) \in Ends(entry.raw) /\ Reach(entry.raw) <= b
      <4> HIDE DEF b
      <4> QED BY <1>15, <2>3
    <3>2. Reach(entry.raw) \in 1 .. L /\ entry.raw[Reach(entry.raw)].ends
      <4> HIDE DEF b
      <4> QED BY <1>16, <3>1
    <3>3. ~(Reach(entry.raw) < b)
      <4>1. Reach(entry.raw) < b => Reach(entry.raw) \in 1 .. b
        <5> HIDE DEF b
        <5> QED BY <2>2, <3>2, <1>7
      <4> HIDE DEF b
      <4> QED BY <1>13, <3>2, <4>1
    <3> HIDE DEF b
    <3> QED BY <1>7, <1>15, <3>1, <3>3
  <2>5. EndOff = Off(b)
    <3> HIDE DEF b
    <3> QED BY <2>4 DEF EndOff
  <2>6. d.data = <<>> => st.pending = <<>>
    <3>1. d.data = <<>> => Len(st.pending) = 0
      <4> HIDE DEF b
      <4> QED BY <1>1, <1>2, <1>8, <1>12
    <3> QED BY <1>1, <3>1, EmptySeq
  <2>7. d.ended \in BOOLEAN /\ d.tail \in Seq(Unit)
    <3>1. d.tail \in Seq(Unit)
      BY <2>1, EmptySeq
    <3> QED BY <3>1, <1>17
  <2>8. Reach(entry.raw) <= p /\ Ends(entry.raw) # {}
    <3> HIDE DEF b
    <3> QED BY <1>7, <2>3, <2>4
  <2>9. Given + Len(d.data) + Len(d.pending) = EndOff
    <3> HIDE DEF b
    <3> QED BY <1>12, <2>5
  <2>10. Given + Len(d.data) + Len(d.pending) <= EndOff
    <3> HIDE DEF b
    <3> QED BY <1>15, <2>9
  <2> HIDE DEF b
  <2> QED BY <1>12, <1>17, <2>1, <2>6, <2>7, <2>8, <2>9, <2>10 DEF Advances, d
<1>18. CASE ~d.ended
  <2>1. d.tail = SubSeq(us, k + 1, Len(us))
    BY <1>11, <1>18
  <2>2. d.tail = SubSeq(entry.raw, b + 1, p)
    <3>1. SubSeq(SubSeq(entry.raw, Used + 1, p), k + 1, p - Used) =
             SubSeq(entry.raw, Used + k + 1, Used + (p - Used))
      <4>1. p - Used \in Nat /\ k <= p - Used /\ p - Used <= p - Used /\ p <= Len(entry.raw)
        BY <1>1, <1>3, <1>7 DEF L
      <4> QED BY <1>1, <1>3, <1>7, <4>1, SliceOfSlice
    <3>2. Used + (p - Used) = p
      BY <1>1, <1>3
    <3> QED BY <1>4, <1>5, <2>1, <3>1, <3>2
  <2>3. d.tail \in Seq(Unit) /\ Len(d.tail) = p - b
    <3> HIDE DEF b
    <3> QED BY <1>1, <1>3, <1>7, <2>2, Slice DEF L
  <2>4. p - Len(d.tail) = b
    <3> HIDE DEF b
    <3> QED BY <1>1, <1>7, <2>3
  <2>5. \A j \in 1 .. b : ~entry.raw[j].ends
    <3> SUFFICES ASSUME NEW j \in 1 .. b PROVE ~entry.raw[j].ends
      OBVIOUS
    <3>1. CASE j < b
      <4> HIDE DEF b
      <4> QED BY <1>13, <3>1
    <3>2. CASE ~(j < b)
      <4>1. j = b
        <5> HIDE DEF b
        <5> QED BY <1>7, <3>2
      <4>2. CASE k = 0
        <5>1. j \in 1 .. Used
          BY <1>3, <4>1, <4>2
        <5> HIDE DEF b
        <5> QED BY <1>2, <5>1
      <4>3. CASE k # 0
        <5>1. k > 0
          BY <1>7, <4>3
        <5> HIDE DEF b
        <5> QED BY <1>11, <1>14, <1>18, <4>1, <5>1
      <4> QED BY <4>2, <4>3
    <3> QED BY <3>1, <3>2
  <2>6. Off(b) <= EndOff
    <3>1. b <= Reach(entry.raw)
      <4>1. CASE Ends(entry.raw) = {}
        <5> HIDE DEF b
        <5> QED BY <1>7, <1>15, <4>1
      <4>2. CASE Ends(entry.raw) # {}
        <5>1. Reach(entry.raw) \in 1 .. L /\ entry.raw[Reach(entry.raw)].ends
          <6> HIDE DEF b
          <6> QED BY <1>15, <1>16, <4>2
        <5>2. ~(Reach(entry.raw) \in 1 .. b)
          <6> HIDE DEF b
          <6> QED BY <2>5, <5>1
        <5> HIDE DEF b
        <5> QED BY <1>7, <5>1, <5>2
      <4> QED BY <4>1, <4>2
    <3> HIDE DEF b
    <3> QED BY <1>1, <1>7, <1>15, <3>1, OffsetFacts DEF EndOff, L
  <2>7. d.data = <<>> => st.pending = <<>> /\ d.tail = <<>>
    <3> SUFFICES ASSUME d.data = <<>> PROVE st.pending = <<>> /\ d.tail = <<>>
      OBVIOUS
    <3>1. Given = Off(b)
      <4> HIDE DEF b
      <4> QED BY <1>12
    <3>2. Len(st.pending) = 0
      <4> HIDE DEF b
      <4> QED BY <1>1, <1>2, <1>8, <3>1
    <3>3. st.pending = <<>>
      BY <1>1, <3>2, EmptySeq
    <3>4. Len(w) = 0
      <4>1. Len(Span(Given, Off(b))) = Off(b) - Given
        <5>1. Given \in Int /\ Off(b) \in Int /\ 0 <= Given
          <6> HIDE DEF b
          <6> QED BY <1>1, <1>8
        <5> HIDE DEF b
        <5> QED BY <1>1, <1>8, <1>10, <5>1, SpanType
      <4> HIDE DEF b
      <4> QED BY <1>8, <3>1, <4>1 DEF w
    <3>5. k = Len(us)
      <4> HIDE DEF b
      <4> QED BY <1>11, <1>18, <3>4
    <3>6. Len(d.tail) = 0
      <4>1. b = p
        BY <1>1, <1>3, <1>5, <1>7, <3>5
      <4> HIDE DEF b
      <4> QED BY <1>1, <2>3, <4>1
    <3> HIDE DEF b
    <3> QED BY <2>3, <3>3, <3>6, EmptySeq
  <2>8. d.ended \in BOOLEAN
    <3> HIDE DEF b
    <3> QED BY <1>11
  <2>9. Given + Len(d.data) + Len(d.pending) <= EndOff
    <3> HIDE DEF b
    <3> QED BY <1>8, <1>12, <1>15, <2>6
  <2>10. p - Len(d.tail) >= 0
    <3> HIDE DEF b
    <3> QED BY <1>7, <2>4
  <2> HIDE DEF b
  <2> QED BY <1>12, <1>18, <2>2, <2>3, <2>4, <2>5, <2>7, <2>8, <2>9, <2>10 DEF Advances, d
<1> QED BY <1>17, <1>18 DEF d

(* What a turn of a loop makes of this: c is what it reads and              *)
(* decompresses, p where the raw stream is after it.                        *)
GoesOn(c, p) ==
    LET g == Given + Len(c.data)
        u == p - Len(c.tail)
    IN  /\ c.pending = Span(g, g + Len(c.pending))
        /\ c.ended => /\ c.tail = <<>> /\ c.pending # <<>> /\ Ends(entry.raw) # {}
                      /\ g + Len(c.pending) = EndOff /\ Reach(entry.raw) <= p
        /\ ~c.ended => /\ u >= 0 /\ g + Len(c.pending) = Off(u)
                       /\ c.tail = SubSeq(entry.raw, u + 1, p)
                       /\ \A k \in 1 .. u : ~entry.raw[k].ends

Turn(c, p) ==
    LET g == Given + Len(c.data)
    IN  /\ c.data \in Seq(Byte) /\ c.pending \in Seq(Byte) /\ c.tail \in Seq(Unit)
        /\ c.ended \in BOOLEAN /\ c.eof \in BOOLEAN
        /\ Follows(c.input, p)
        /\ c.data = Span(Given, g)
        /\ c.data # <<>> \/ Given <= EndOff => g <= EndOff
        /\ c.eof => EndOff <= g
        /\ Stored => /\ g = p /\ c.tail = <<>> /\ c.pending = <<>> /\ ~c.ended
                     /\ st.compressLeft <= Len(c.input) => c.eof
        /\ ~Stored => /\ ~c.eof => GoesOn(c, p)
                      /\ c.ended => Reach(entry.raw) <= p
                      /\ c.eof => c.ended \/ st.compressLeft <= Len(c.input)
                      /\ c.data = <<>> /\ ~c.eof =>
                            st.pending = <<>> /\ ~c.ended /\ c.tail = <<>>

LEMMA StoredTurn ==
    ASSUME Types, ~st.eof, RawInStep, Stored, NEW n \in Nat, n > 0
    PROVE  /\ Turn(Chunk(n), rawPos + Len(TheInput(n)))
           /\ Chunk(n).input = TheInput(n)
<1> DEFINE r == TheInput(n)
           p == rawPos + Len(r)
           c == Chunk(n)
           L == Len(entry.raw)
           left == st.compressLeft
<1>1. Follows(r, p)
  BY InputFollows
<1>2. Decrypt(r) = r
  BY DecryptedInTurn
<1>3. c = [input |-> r, data |-> Bytes(Decrypt(r)), eof |-> left - Len(r) <= 0,
           tail |-> <<>>, pending |-> <<>>, ended |-> FALSE]
  <2>1. r = IF Demand(n) = 0 \/ st.compressLeft <= 0 THEN <<>> ELSE RawUnits(Demand(n))
    BY DEF TheInput
  <2> HIDE DEF r
  <2> QED BY <2>1 DEF Chunk, Stored
<1>4. /\ left = entry.csize - rawPos /\ rawPos = Given /\ rawPos \in Nat
      /\ L \in Nat /\ entry.csize \in Nat /\ L <= entry.csize /\ entry \in Entries
      /\ left \in Int /\ entry.raw \in Seq(Unit)
  BY StateFacts, EntryFacts DEF RawInStep
<1>5. r \in Seq(Unit) /\ p \in Nat /\ rawPos <= p /\ Len(r) \in Nat
  <2>1. r \in Seq(Unit) /\ p \in Nat /\ rawPos <= p
    BY <1>1 DEF Follows
  <2> HIDE DEF r, p
  <2> QED BY <2>1, LenProperties
<1>6. /\ Reach(entry.raw) = L /\ EndOff = L /\ Len(All) = L
  <2>1. Ends(entry.raw) = {}
    BY <1>4, EntryFacts DEF Ends
  <2>2. Reach(entry.raw) = L
    BY <1>4, <2>1, ReachFacts
  <2>3. Off(L) = L
    BY <1>4, OffsetsOfStored
  <2>4. Off(L) = Len(All)
    BY <1>4, OffsetsAtTheEnds
  <2> QED BY <2>2, <2>3, <2>4 DEF EndOff
<1>7. /\ Bytes(r) \in Seq(Byte) /\ Bytes(r) = Span(Given, Given + Len(Bytes(r)))
      /\ Len(Bytes(r)) = Len(r)
      /\ Bytes(r) # <<>> => p <= L
  <2>1. CASE rawPos <= L
    <3>1. p <= L /\ r = SubSeq(entry.raw, rawPos + 1, p)
      BY <1>1, <2>1 DEF Follows
    <3>2. Bytes(SubSeq(entry.raw, rawPos + 1, p)) = Span(Off(rawPos), Off(p))
      <4> HIDE DEF p
      <4> QED BY <1>4, <1>5, <3>1, OffsetFacts
    <3>3. Off(rawPos) = rawPos /\ Off(p) = p
      <4> HIDE DEF p
      <4> QED BY <1>4, <1>5, <2>1, <3>1, OffsetsOfStored
    <3>4. Span(rawPos, p) \in Seq(Byte) /\ Len(Span(rawPos, p)) = p - rawPos
      <4>1. rawPos \in Int /\ p \in Int /\ 0 <= rawPos /\ p <= Len(All)
        <5> HIDE DEF p
        <5> QED BY <1>4, <1>5, <1>6, <3>1
      <4> HIDE DEF p
      <4> QED BY <1>4, <1>5, <4>1, SpanType
    <3>5. Bytes(r) = Span(rawPos, p)
      <4> HIDE DEF p, r
      <4> QED BY <3>1, <3>2, <3>3
    <3>6. p - rawPos = Len(r)
      <4> HIDE DEF r
      <4> QED BY <1>4, <1>5
    <3>7. Len(Bytes(r)) = Len(r) /\ Given + Len(Bytes(r)) = p
      <4> HIDE DEF r
      <4> QED BY <1>4, <1>5, <3>4, <3>5, <3>6
    <3> HIDE DEF p, r
    <3> QED BY <1>4, <3>1, <3>4, <3>5, <3>7
  <2>2. CASE ~(rawPos <= L)
    <3>1. r = <<>>
      <4>1. rawPos >= L
        BY <1>4, <2>2
      <4> QED BY <1>1, <4>1 DEF Follows
    <3>2. Bytes(<<>>) = <<>>
      <4>1. Pieces(<<>>) = <<>>
        BY DEF Pieces
      <4> QED BY <4>1, BytesArePieces, FlattenEmpty, Zenon
    <3>3. Bytes(r) = <<>>
      BY <3>1, <3>2, Zenon
    <3>4. Len(r) = 0 /\ Len(Bytes(r)) = 0
      <4> HIDE DEF r
      <4> QED BY <3>1, <3>3, EmptySeq
    <3>5. Given \in Int /\ Given + Len(Bytes(r)) = Given
      <4> HIDE DEF r
      <4> QED BY <1>4, <3>4
    <3>6. Span(Given, Given) = <<>>
      BY <3>5, SpanEmpty
    <3>7. <<>> \in Seq(Byte)
      BY EmptySeq
    <3> HIDE DEF r, p
    <3> QED BY <3>3, <3>4, <3>5, <3>6, <3>7
  <2> QED BY <2>1, <2>2
<1>8. /\ c.input = r /\ c.data = Bytes(r)
      /\ c.eof \in BOOLEAN /\ (c.eof <=> left - Len(r) <= 0)
      /\ c.tail = <<>> /\ c.pending = <<>> /\ c.ended = FALSE
  <2> DEFINE over == left - Len(r) <= 0
  <2>1. over \in BOOLEAN
    OBVIOUS
  <2>2. c = [input |-> r, data |-> Bytes(Decrypt(r)), eof |-> over,
             tail |-> <<>>, pending |-> <<>>, ended |-> FALSE]
    BY <1>3
  <2> HIDE DEF c, r, over
  <2>3. /\ c.input = r /\ c.data = Bytes(r) /\ c.eof = over
        /\ c.tail = <<>> /\ c.pending = <<>> /\ c.ended = FALSE
    BY <1>2, <2>2
  <2>4. c.eof \in BOOLEAN /\ (c.eof <=> over)
    BY <2>1, <2>3, Zenon
  <2> QED BY <2>3, <2>4 DEF over
<1>9. Given + Len(Bytes(r)) = p
  <2> HIDE DEF r
  <2> QED BY <1>4, <1>5, <1>7
<1>10. (left - Len(r) <= 0) => L <= p
  <2> HIDE DEF r
  <2> QED BY <1>4, <1>5
<1>11. <<>> \in Seq(Byte) /\ <<>> \in Seq(Unit)
  BY EmptySeq
<1> HIDE DEF r, p, c, L
<1>12. Given + Len(c.data) = p
  BY <1>8, <1>9
<1>13. left <= Len(r) => c.eof
  BY <1>4, <1>5, <1>8
<1>14. Given <= EndOff => p <= EndOff
  BY <1>1, <1>4, <1>6 DEF Follows, L
<1>15. /\ c.data \in Seq(Byte) /\ c.pending \in Seq(Byte) /\ c.tail \in Seq(Unit)
       /\ c.ended \in BOOLEAN /\ c.eof \in BOOLEAN
  BY <1>7, <1>8, <1>11
<1>16. /\ c.data = Span(Given, Given + Len(c.data))
       /\ c.data # <<>> => p <= EndOff
       /\ c.eof => EndOff <= p
  BY <1>6, <1>7, <1>8, <1>10
<1>17. Turn(c, p)
  BY <1>1, <1>8, <1>12, <1>13, <1>14, <1>15, <1>16 DEF Turn
<1> QED BY <1>8, <1>17 DEF c, p, r

LEMMA CompressedTurn ==
    ASSUME Types, ~st.eof, RawInStep, ~Stored, KeptFollows, Given <= EndOff,
           NEW n \in Nat, n > 0
    PROVE  /\ Turn(Chunk(n), rawPos + Len(TheInput(n)))
           /\ Chunk(n).input = TheInput(n)
<1> DEFINE r == TheInput(n)
           p == rawPos + Len(r)
           c == Chunk(n)
           d == Decompress(st.tail, st.pending, st.ended, r, n)
           L == Len(entry.raw)
           left == st.compressLeft
           exhausted == left - Len(r) <= 0 /\ d.tail = <<>>
           finished == d.ended /\ d.pending = <<>>
           g == Given + Len(d.data)
<1>1. Follows(r, p)
  BY InputFollows
<1>2. Decrypt(r) = r
  BY DecryptedInTurn
<1>3. Advances(d, p)
  <2> HIDE DEF r, p
  <2>1. CASE st.ended
    BY <1>1, <2>1, EndedAdvances
  <2>2. CASE ~st.ended
    BY <1>1, <2>2, RunningAdvances
  <2> QED BY <2>1, <2>2
<1>4. /\ entry.kind = "deflated" =>
           c = [input |-> r, data |-> IF exhausted THEN d.data \o d.pending ELSE d.data,
                eof |-> finished \/ exhausted, tail |-> d.tail,
                pending |-> IF exhausted THEN <<>> ELSE d.pending, ended |-> d.ended]
      /\ entry.kind # "deflated" =>
           c = [input |-> r, data |-> d.data, eof |-> finished,
                tail |-> d.tail, pending |-> d.pending, ended |-> d.ended]
  <2>1. r = IF Demand(n) = 0 \/ st.compressLeft <= 0 THEN <<>> ELSE RawUnits(Demand(n))
    BY DEF TheInput
  <2> HIDE DEF r
  <2> QED BY <1>2, <2>1 DEF Chunk
<1>5. /\ left = entry.csize - rawPos /\ rawPos \in Nat /\ rawPos <= L
      /\ L \in Nat /\ entry.csize \in Nat /\ L <= entry.csize /\ entry \in Entries
      /\ left \in Int /\ entry.raw \in Seq(Unit) /\ Given \in Nat /\ Len(st.pending) \in Nat
  BY StateFacts, EntryFacts DEF RawInStep, Direct
<1>6. /\ r \in Seq(Unit) /\ p \in Nat /\ rawPos <= p /\ Len(r) \in Nat /\ p <= L
  <2>1. r \in Seq(Unit) /\ p \in Nat /\ rawPos <= p /\ p <= L
    BY <1>1 DEF Follows, Direct
  <2> HIDE DEF r, p
  <2> QED BY <2>1, LenProperties
<1>7. left - Len(r) <= 0 => p = L
  <2> HIDE DEF r
  <2> QED BY <1>5, <1>6
<1>8. EndOff \in Nat /\ EndOff <= Len(All) /\ Off(L) = Len(All)
  BY <1>5, ReachFacts, OffsetsAtTheEnds
<1> HIDE DEF r, p, d, L
<1>9. /\ d.data \in Seq(Byte) /\ d.pending \in Seq(Byte)
      /\ d.tail \in Seq(Unit) /\ d.ended \in BOOLEAN
      /\ Len(d.data) \in Nat /\ Len(d.pending) \in Nat /\ Len(d.tail) \in Nat
      /\ d.data = Span(Given, g) /\ d.pending = Span(g, g + Len(d.pending))
      /\ g + Len(d.pending) <= EndOff
      /\ d.ended => /\ d.tail = <<>> /\ g + Len(d.pending) = EndOff
                    /\ Reach(entry.raw) <= p /\ Ends(entry.raw) # {}
      /\ d.data = <<>> => /\ d.pending = <<>> /\ st.pending = <<>>
                          /\ d.ended \/ d.tail = <<>>
  BY <1>3, LenProperties DEF Advances
<1>10. ~d.ended => /\ p - Len(d.tail) >= 0 /\ g + Len(d.pending) = Off(p - Len(d.tail))
                   /\ d.tail = SubSeq(entry.raw, p - Len(d.tail) + 1, p)
                   /\ \A k \in 1 .. (p - Len(d.tail)) : ~entry.raw[k].ends
  BY <1>3 DEF Advances
<1>11. g \in Nat /\ Given <= g /\ g <= g + Len(d.pending) /\ g + Len(d.pending) <= Len(All)
       /\ g <= EndOff
  <2>1. Len(d.data) \in Nat /\ Len(d.pending) \in Nat /\ g + Len(d.pending) <= EndOff
    BY <1>9
  <2>2. g \in Nat /\ Given <= g
    BY <1>5, <2>1
  <2>3. Len(All) \in Nat
    BY <1>5, EntryFacts
  <2> HIDE DEF g
  <2> QED BY <1>8, <2>1, <2>2, <2>3
<1>12. finished => g = EndOff
  <2> SUFFICES ASSUME finished PROVE g = EndOff
    OBVIOUS
  <2>1. Len(d.pending) = 0
    BY EmptySeq
  <2>2. g + Len(d.pending) = EndOff
    BY <1>9
  <2> HIDE DEF g
  <2> QED BY <1>11, <2>1, <2>2
<1>13. exhausted => g + Len(d.pending) = EndOff
  <2> SUFFICES ASSUME exhausted PROVE g + Len(d.pending) = EndOff
    OBVIOUS
  <2>1. CASE d.ended
    BY <1>9, <2>1
  <2>2. CASE ~d.ended
    <3>1. Len(d.tail) = 0 /\ p = L
      BY <1>7, EmptySeq
    <3>2. p - Len(d.tail) = L
      BY <1>5, <3>1
    <3>3. g + Len(d.pending) = Len(All)
      <4> HIDE DEF g
      <4> QED BY <1>8, <1>10, <2>2, <3>2
    <3> HIDE DEF g
    <3> QED BY <1>8, <1>9, <1>11, <3>3
  <2> QED BY <2>1, <2>2
<1>14. ~finished /\ d.data = <<>> => ~d.ended /\ d.tail = <<>> /\ st.pending = <<>>
  BY <1>9
<1>15. CASE entry.kind = "deflated" /\ exhausted
  <2>1. c = [input |-> r, data |-> d.data \o d.pending, eof |-> TRUE, tail |-> d.tail,
             pending |-> <<>>, ended |-> d.ended]
    BY <1>4, <1>15
  <2> HIDE DEF c
  <2>2. /\ c.input = r /\ c.data = d.data \o d.pending /\ c.eof = TRUE /\ c.tail = d.tail
        /\ c.pending = <<>> /\ c.ended = d.ended
    BY <2>1
  <2>3. c.data \in Seq(Byte) /\ Len(c.data) = Len(d.data) + Len(d.pending)
    BY <1>9, <2>2, ConcatProperties
  <2>4. Given + Len(c.data) = g + Len(d.pending)
    <3> DEFINE x == d.data
               y == d.pending
               z == c.data
    <3>1. Len(x) \in Nat /\ Len(y) \in Nat /\ Given \in Nat
      BY <1>5, <1>9
    <3>2. Len(z) = Len(x) + Len(y)
      BY <2>3
    <3>3. Given + Len(z) = (Given + Len(x)) + Len(y)
      <4> HIDE DEF x, y, z
      <4> QED BY <3>1, <3>2
    <3> QED BY <3>3
  <2>5. Given + Len(c.data) = EndOff
    BY <1>13, <1>15, <2>4
  <2>6. c.data = Span(Given, Given + Len(c.data))
    <3>1. /\ Given \in Int /\ g \in Int /\ g + Len(d.pending) \in Int /\ 0 <= Given
          /\ Given <= g /\ g <= g + Len(d.pending) /\ g + Len(d.pending) <= Len(All)
      <4>1. Len(d.pending) \in Nat /\ Given \in Nat
        BY <1>5, <1>9
      <4> HIDE DEF g
      <4> QED BY <1>11, <4>1
    <3>2. Span(Given, g) \o Span(g, g + Len(d.pending)) = Span(Given, g + Len(d.pending))
      <4> HIDE DEF g
      <4> QED BY <1>5, <3>1, SpansJoin
    <3>3. d.data = Span(Given, g) /\ d.pending = Span(g, g + Len(d.pending))
      BY <1>9
    <3> HIDE DEF g
    <3> QED BY <2>2, <2>4, <3>2, <3>3
  <2>7. <<>> \in Seq(Byte)
    BY EmptySeq
  <2>8. st.compressLeft <= Len(r)
    BY <1>5, <1>6, <1>15
  <2>9. c.ended => Reach(entry.raw) <= p
    BY <1>9, <2>2
  <2>10. EndOff <= EndOff /\ TRUE \in BOOLEAN
    BY <1>8
  <2> HIDE DEF g, exhausted, finished
  <2>11. Turn(c, p)
    BY <1>1, <2>10, <1>9, <2>2, <2>3, <2>5, <2>6, <2>7, <2>8, <2>9 DEF Turn
  <2> QED BY <2>2, <2>11 DEF c, p, r
<1>16. CASE ~(entry.kind = "deflated" /\ exhausted)
  <2>1. /\ c.input = r /\ c.data = d.data /\ c.tail = d.tail
        /\ c.pending = d.pending /\ c.ended = d.ended
        /\ c.eof = finished
    <3>1. CASE entry.kind = "deflated"
      <4>1. ~exhausted
        BY <1>16, <3>1
      <4> HIDE DEF c, exhausted, finished
      <4>2. c = [input |-> r, data |-> d.data, eof |-> finished, tail |-> d.tail,
                 pending |-> d.pending, ended |-> d.ended]
        <5>1. (finished \/ exhausted) = finished
          BY <4>1, <1>9 DEF finished
        <5> QED BY <1>4, <3>1, <4>1, <5>1
      <4> QED BY <4>2
    <3>2. CASE entry.kind # "deflated"
      <4> HIDE DEF c, exhausted, finished
      <4> QED BY <1>4, <3>2
    <3> QED BY <3>1, <3>2
  <2> HIDE DEF c
  <2>2. Given + Len(c.data) = g
    BY <2>1
  <2> HIDE DEF g
  <2>3. ~c.eof => GoesOn(c, p)
    <3> SUFFICES ASSUME ~c.eof PROVE GoesOn(c, p)
      OBVIOUS
    <3>1. c.ended => c.pending # <<>>
      BY <2>1
    <3> QED BY <1>9, <1>10, <2>1, <2>2, <3>1 DEF GoesOn
  <2>4. c.eof \in BOOLEAN
    BY <2>1, <1>9
  <2>5. c.eof => c.ended /\ EndOff <= g
    <3> SUFFICES ASSUME c.eof PROVE c.ended /\ EndOff <= g
      OBVIOUS
    <3>1. finished
      BY <2>1
    <3> QED BY <1>8, <1>12, <2>1, <3>1
  <2>6. c.data = <<>> /\ ~c.eof => st.pending = <<>> /\ ~c.ended /\ c.tail = <<>>
    <3> HIDE DEF finished
    <3> QED BY <1>14, <2>1
  <2> HIDE DEF finished
  <2>7. Turn(c, p)
    <3>1. c.ended => Reach(entry.raw) <= p
      BY <1>9, <2>1
    <3> QED BY <1>1, <1>9, <1>11, <2>1, <2>2, <2>3, <2>4, <2>5, <2>6, <3>1 DEF Turn
  <2> QED BY <2>1, <2>7 DEF c, p, r
<1> QED BY <1>15, <1>16

(* A turn of a loop, whatever the member.                                   *)
LEMMA TurnTaken ==
    ASSUME Types, ~st.eof, RawInStep, KeptFollows, GivenIsKnown, NEW n \in Nat, n > 0
    PROVE  LET c == Chunk(n)
               p == rawPos + Len(c.input)
           IN  /\ Turn(c, p)
               /\ Demand(n) > 0 /\ st.compressLeft > 0 /\ rawPos < Len(entry.raw) =>
                     c.input # <<>>
<1>1. /\ Turn(Chunk(n), rawPos + Len(TheInput(n)))
      /\ Chunk(n).input = TheInput(n)
  <2>1. CASE Stored
    BY <2>1, StoredTurn
  <2>2. CASE ~Stored
    <3>1. Given <= EndOff
      BY <2>2 DEF GivenIsKnown, Direct
    <3> QED BY <2>2, <3>1, CompressedTurn
  <2> QED BY <2>1, <2>2
<1> QED BY <1>1, InputFollows

-----------------------------------------------------------------------------
(* The calls                                                                *)

LEMMA TypeOKHolds == ASSUME Types PROVE TypeOK
BY DEF Types, StateType, CallType, TypeOK

LEMMA CallFacts ==
    ASSUME Types
    PROVE  /\ call.op \in {"none", "read", "readall", "read1", "peek", "seek"}
           /\ call.asked \in Nat /\ call.at \in 0 .. Size /\ call.need \in Nat
           /\ call.acc \in Seq(Byte) /\ Len(call.acc) \in Nat /\ call.todo \in Nat
           /\ call.op = "none" => call = NoCall
           /\ call.op # "none" => ~broken
           /\ call = NoCall => call.op = "none"
<1>1. /\ call.op \in {"none", "read", "readall", "read1", "peek", "seek"}
      /\ call.asked \in Nat /\ call.at \in 0 .. Size /\ call.need \in Nat
      /\ call.acc \in Seq(Byte) /\ call.todo \in Nat
      /\ call.op = "none" => call = NoCall
  BY DEF Types, CallType
<1>2. Len(call.acc) \in Nat
  BY <1>1, LenProperties
<1>3. call = NoCall => call.op = "none"
  BY DEF NoCall
<1>4. broken => call = NoCall
  BY DEF Types
<1> QED BY <1>1, <1>2, <1>3, <1>4

(* What depends on the member alone.                                        *)
LEMMA SameMember ==
    ASSUME entry' = entry
    PROVE  /\ \A i, j : Span(i, j)' = Span(i, j)
           /\ \A k : Off(k)' = Off(k)
           /\ EndOff' = EndOff /\ Data' = Data /\ Extent' = Extent
           /\ Stored' = Stored /\ Direct' = Direct /\ Aes' = Aes /\ Complete' = Complete
<1>1. \A i, j : Span(i, j)' = Span(i, j)
  BY DEF Span, All
<1>2. \A k : Off(k)' = Off(k)
  BY DEF Off
<1>3. EndOff' = EndOff
  BY DEF EndOff, Off
<1>4. Data' = Data
  BY DEF Data
<1>5. Extent' = Extent
  BY <1>3 DEF Extent
<1>6. Stored' = Stored /\ Direct' = Direct /\ Aes' = Aes
  BY DEF Stored, Direct, Aes
<1>7. Complete' = Complete
  BY <1>6 DEF Complete
<1> QED BY <1>1, <1>2, <1>3, <1>4, <1>5, <1>6, <1>7

(* Nothing is done but to the buffer.                                       *)
SameStream ==
    /\ entry' = entry /\ rawPos' = rawPos
    /\ st'.eof = st.eof /\ st'.left = st.left /\ st'.compressLeft = st.compressLeft
    /\ st'.decrypted = st.decrypted /\ st'.crc = st.crc
    /\ st'.tail = st.tail /\ st'.pending = st.pending /\ st'.ended = st.ended
    /\ skipped \subseteq skipped'

LEMMA StreamKept ==
    ASSUME RawInStep, KeptFollows, EndIsReached, SameStream
    PROVE  RawInStep' /\ KeptFollows' /\ EndIsReached'
<1>1. /\ \A i, j : Span(i, j)' = Span(i, j)
      /\ \A k : Off(k)' = Off(k)
      /\ EndOff' = EndOff /\ Data' = Data
      /\ Stored' = Stored /\ Direct' = Direct
  BY SameMember DEF SameStream
<1>2. Given' = Given /\ Used' = Used
  BY DEF SameStream, Given, Used
<1>3. RawInStep'
  BY <1>1, <1>2 DEF RawInStep, SameStream
<1>4. KeptFollows'
  BY <1>1, <1>2 DEF KeptFollows, SameStream
<1>5. EndIsReached'
  <2>1. skipped' = {} => skipped = {}
    BY DEF SameStream
  <2> QED BY <1>1, <1>2, <2>1 DEF EndIsReached, SameStream
<1> QED BY <1>3, <1>4, <1>5

(* What is in the buffer is what comes next.                                *)
LEMMA TellIs == Types => Tell = Given - Len(st.buffer) + st.offset
BY StateFacts DEF Tell, Given

LEMMA BufferIsNext ==
    ASSUME Types, GivenIsKnown, NEW k \in Int, 0 <= k, st.offset + k <= Len(st.buffer)
    PROVE  /\ SubSeq(st.buffer, st.offset + 1, st.offset + k) = Span(Tell, Tell + k)
           /\ SubSeq(st.buffer, st.offset + 1, st.offset + k) \in Seq(Byte)
           /\ Len(SubSeq(st.buffer, st.offset + 1, st.offset + k)) = k
           /\ Tell + k <= Given
           /\ k > 0 => Given <= EndOff
<1> DEFINE b == Len(st.buffer)
           o == st.offset
           s == SubSeq(st.buffer, o + 1, o + k)
<1>1. /\ entry \in Entries /\ st.buffer \in Seq(Byte) /\ b \in Nat /\ o \in Int /\ 0 <= o
      /\ Given \in Nat /\ Tell = Given - b + o /\ Tell \in Int
  BY StateFacts, TellIs
<1>2. b <= Given /\ st.buffer = Span(Given - b, Given)
      /\ (st.buffer # <<>> => Given <= EndOff)
  BY DEF GivenIsKnown
<1>3. o \in Nat /\ o + k \in Nat /\ o <= o + k /\ o + k <= Len(st.buffer)
  BY <1>1
<1>4. s \in Seq(Byte) /\ Len(s) = k
  <2>1. s \in Seq(Byte) /\ Len(s) = (o + k) - o
    <3> HIDE DEF o
    <3> QED BY <1>1, <1>3, Slice
  <2>2. (o + k) - o = k
    BY <1>1
  <2> QED BY <2>1, <2>2
<1>5. Tell + k <= Given
  <2> HIDE DEF b, o
  <2> QED BY <1>1, <1>3 DEF b
<1>6. CASE st.buffer # <<>>
  <2>1. Given <= EndOff /\ EndOff <= Len(All) /\ EndOff \in Nat /\ Len(All) \in Nat
    BY <1>1, <1>2, <1>6, ReachFacts, EntryFacts
  <2>2. Given - b \in Int /\ 0 <= Given - b /\ Given - b <= Given /\ Given <= Len(All)
    <3> HIDE DEF b, o
    <3> QED BY <1>1, <1>2, <2>1
  <2>3. SubSeq(Span(Given - b, Given), o + 1, o + k) = Span(Given - b + o, Given - b + (o + k))
    <3>1. /\ o \in Int /\ o + k \in Int /\ 0 <= o /\ o <= o + k
          /\ o + k <= Given - (Given - b)
      <4> HIDE DEF b, o
      <4> QED BY <1>1, <1>3 DEF b
    <3> DEFINE i == Given - b
               e == o + k
    <3>2. /\ i \in Int /\ 0 <= i /\ i <= Given /\ Given \in Int /\ Given <= Len(All)
          /\ o \in Int /\ e \in Int /\ 0 <= o /\ o <= e /\ e <= Given - i
      BY <1>1, <2>2, <3>1
    <3> HIDE DEF i, e, o, b
    <3>3. Part(Span(i, Given), o, e) = Span(i + o, i + e)
      BY <1>1, <3>2, SpanPart
    <3> QED BY <3>3 DEF i, e, Part
  <2>4. Given - b + (o + k) = Tell + k
    <3> HIDE DEF b, o
    <3> QED BY <1>1
  <2>5. s = Span(Tell, Tell + k)
    <3> HIDE DEF b, o
    <3> QED BY <1>1, <1>2, <2>3, <2>4 DEF s
  <2> HIDE DEF b, o, s
  <2> QED BY <1>4, <1>5, <2>1, <2>5 DEF s, o
<1>7. CASE st.buffer = <<>>
  <2>1. b = 0
    BY <1>7, EmptySeq
  <2>2. k = 0
    <3> HIDE DEF b, o
    <3> QED BY <1>1, <1>3, <2>1 DEF b
  <2>3. Len(s) = 0
    <3> HIDE DEF s
    <3> QED BY <1>4, <2>2
  <2>4. s = <<>>
    <3> HIDE DEF s
    <3> QED BY <1>4, <2>3, EmptySeq
  <2>5. Tell + k = Tell
    BY <1>1, <2>2
  <2>6. Span(Tell, Tell) = <<>>
    BY <1>1, SpanEmpty
  <2>7. s = Span(Tell, Tell + k)
    BY <2>4, <2>5, <2>6, Zenon
  <2>8. ~(k > 0)
    BY <2>2
  <2> HIDE DEF b, o, s
  <2> QED BY <1>4, <1>5, <2>7, <2>8 DEF s, o
<1> QED BY <1>6, <1>7

LEMMA AheadIs ==
    ASSUME Types, GivenIsKnown
    PROVE  /\ Ahead = Span(Tell, Given) /\ Ahead \in Seq(Byte)
           /\ Len(Ahead) = Given - Tell /\ Len(Ahead) = Len(st.buffer) - st.offset
           /\ Tell <= Given
           /\ Ahead # <<>> => Given <= EndOff
<1> DEFINE k == Len(st.buffer) - st.offset
<1>1. /\ Len(st.buffer) \in Nat /\ st.offset \in Int /\ st.offset <= Len(st.buffer)
      /\ Given \in Nat /\ Tell \in Int /\ Tell = Given - Len(st.buffer) + st.offset
  BY StateFacts, TellIs
<1>2. /\ k \in Int /\ 0 <= k /\ st.offset + k = Len(st.buffer) /\ Tell + k = Given
      /\ k = Given - Tell
  BY SMTT(20), ZenonT(30), <1>1
<1>3. st.offset + k <= Len(st.buffer)
  BY <1>1, <1>2
<1> HIDE DEF k
<1>4. /\ SubSeq(st.buffer, st.offset + 1, st.offset + k) = Span(Tell, Tell + k)
      /\ SubSeq(st.buffer, st.offset + 1, st.offset + k) \in Seq(Byte)
      /\ Len(SubSeq(st.buffer, st.offset + 1, st.offset + k)) = k
      /\ k > 0 => Given <= EndOff
  BY <1>2, <1>3, BufferIsNext
<1>5. Ahead = SubSeq(st.buffer, st.offset + 1, st.offset + k)
  BY <1>2 DEF Ahead
<1>6. Len(Ahead) = k /\ Ahead = Span(Tell, Given) /\ Ahead \in Seq(Byte)
  BY <1>2, <1>4, <1>5
<1>7. Ahead # <<>> => k > 0
  BY <1>2, <1>6, EmptySeq
<1>8. Tell <= Given
  BY <1>1, <1>2
<1>9. Len(Ahead) = Given - Tell /\ Len(Ahead) = Len(st.buffer) - st.offset
  BY <1>2, <1>6 DEF k
<1> QED BY <1>4, <1>6, <1>7, <1>8, <1>9

LEMMA KnownKept ==
    ASSUME Types, GivenIsKnown, SameStream, expected' = expected,
           st'.buffer = st.buffer \/ st'.buffer = <<>>
    PROVE  GivenIsKnown'
<1>1. /\ \A i, j : Span(i, j)' = Span(i, j)
      /\ EndOff' = EndOff /\ Direct' = Direct
  BY SameMember DEF SameStream
<1>2. Given' = Given /\ Given \in Nat
  BY StateFacts DEF SameStream, Given
<1>3. skipped # {} => skipped' # {}
  BY DEF SameStream
<1>4. CASE st'.buffer = st.buffer
  BY <1>1, <1>2, <1>3, <1>4 DEF GivenIsKnown, SameStream
<1>5. CASE st'.buffer = <<>>
  <2>1. Len(st'.buffer) = 0
    BY <1>5, EmptySeq
  <2>2. Given - Len(st'.buffer) = Given /\ Len(st'.buffer) <= Given
    BY <1>2, <2>1
  <2>3. Span(Given, Given) = <<>>
    BY <1>2, SpanEmpty
  <2>4. st'.buffer = Span(Given - Len(st'.buffer), Given)
    BY <1>5, <2>2, <2>3
  <2> QED BY <1>1, <1>2, <1>3, <1>5, <2>2, <2>4 DEF GivenIsKnown, SameStream
<1> QED BY <1>4, <1>5

(* What a call has after its beginning.                                     *)
LEMMA Begun ==
    ASSUME NEW op \in {"read", "read1", "peek", "seek"}, NEW at \in 0 .. Size,
           NEW n \in Nat, NEW todo \in Nat, Types, InStep,
           op # "seek" => at = Tell,
           op \in {"read", "read1"} => n \in Requests \cup {MaxN},
           BeginRead(op, at, n, todo),
           entry' = entry, rawPos' = rawPos, expected' = expected, skipped' = skipped
    PROVE  /\ StateType' /\ CallType' /\ InStep'
           /\ call'.op = op /\ call'.at = at /\ call' # NoCall
<1> DEFINE b == Len(st.buffer)
           o == st.offset
           end == o + n
           begun(need, acc) == [op |-> op, asked |-> n, at |-> at, need |-> need,
                                acc |-> acc, todo |-> todo]
<1>1. /\ entry \in Entries /\ st.buffer \in Seq(Byte) /\ b \in Nat /\ o \in Int
      /\ 0 <= o /\ o <= b
      /\ Given \in Nat /\ Given <= Size /\ Size \in Nat /\ Tell = Given - b + o /\ Tell \in Int
      /\ end \in Nat /\ EndOff \in Nat
  <2>1. /\ entry \in Entries /\ st.buffer \in Seq(Byte) /\ b \in Nat /\ o \in Int
        /\ 0 <= o /\ o <= b
        /\ Given \in Nat /\ Given <= Size /\ Size \in Nat /\ Tell \in Int
    BY StateFacts
  <2>2. Tell = Given - b + o
    BY TellIs
  <2>3. EndOff \in Nat
    BY <2>1, ReachFacts
  <2> HIDE DEF b, o
  <2> QED BY <2>1, <2>2, <2>3
<1>2. /\ RawInStep /\ KeptFollows /\ GivenIsKnown /\ EndIsReached
  BY DEF InStep
<1>3. st \in [crc : Seq(Byte), compressLeft : Int, left : Int,
              buffer : Seq(Byte), offset : Int, eof : BOOLEAN,
              decrypted : Seq(Unit), tail : Seq(Unit), pending : Seq(Byte),
              ended : BOOLEAN] /\ st.left \in 0 .. Size
  BY DEF Types, StateType
<1>4. CASE end < b
  <2> DEFINE acc == SubSeq(st.buffer, o + 1, end)
  <2>1. call' = begun(0, acc) /\ st' = [st EXCEPT !.offset = end]
    BY <1>4 DEF BeginRead
  <2>2. /\ acc = Span(Tell, Tell + n) /\ acc \in Seq(Byte) /\ Len(acc) = n
        /\ Tell + n <= Given /\ (n > 0 => Given <= EndOff)
    <3>1. n \in Int /\ 0 <= n /\ st.offset + n <= Len(st.buffer)
      BY <1>1, <1>4
    <3> QED BY <1>2, <3>1, BufferIsNext
  <2> HIDE DEF acc
  <2>3. /\ st'.offset = end /\ st'.buffer = st.buffer /\ st'.left = st.left
        /\ SameStream
    <3> HIDE DEF end
    <3> QED BY <1>3, <2>1 DEF SameStream
  <2>4. Tell' = Tell + n
    <3>1. Tell' = Given - b + (o + n)
      BY <2>3 DEF Tell, Given
    <3> HIDE DEF o, b
    <3> QED BY <1>1, <3>1
  <2>5. Tell' \in 0 .. Size
    <3>1. 0 <= Tell
      BY StateFacts
    <3> HIDE DEF o
    <3> QED BY <1>1, <2>2, <2>4, <3>1
  <2>6. StateType'
    <3>1. st' \in [crc : Seq(Byte), compressLeft : Int, left : Int,
                   buffer : Seq(Byte), offset : Int, eof : BOOLEAN,
                   decrypted : Seq(Unit), tail : Seq(Unit), pending : Seq(Byte),
                   ended : BOOLEAN]
      <4>1. end \in Int
        BY <1>1
      <4> HIDE DEF end
      <4> QED BY <1>3, <2>1, <4>1
    <3>2. st'.offset \in 0 .. Len(st'.buffer) /\ st'.left \in 0 .. Size
      BY SMTT(20), ZenonT(30), <1>1, <1>3, <1>4, <2>3
    <3> QED BY <2>5, <3>1, <3>2 DEF StateType
  <2>7. /\ call'.op = op /\ call'.asked = n /\ call'.at = at /\ call'.need = 0
        /\ call'.acc = acc /\ call'.todo = todo
    BY <2>1
  <2>8. CallType' /\ call' # NoCall
    <3>1. call' # NoCall
      BY <2>7 DEF NoCall
    <3>2. op # "none"
      OBVIOUS
    <3>3. 0 \in Nat
      OBVIOUS
    <3> HIDE DEF begun
    <3>4. call' \in [op : {"none", "read", "readall", "read1", "peek", "seek"},
                     asked : Nat, at : 0 .. Size, need : Nat, acc : Seq(Byte), todo : Nat]
      BY <2>1, <2>2, <3>3 DEF begun
    <3> QED BY <2>7, <3>1, <3>2, <3>4 DEF CallType
  <2>9. GivenIsKnown'
    BY <1>2, <2>3, KnownKept
  <2>10. RawInStep' /\ KeptFollows' /\ EndIsReached'
    BY <1>2, <2>3, StreamKept
  <2>11. CallInStep'
    <3>1. /\ \A i, j : Span(i, j)' = Span(i, j)
          /\ EndOff' = EndOff
      BY SameMember
    <3>2. acc # <<>> => Tell + n <= EndOff
      <4>1. acc # <<>> => n > 0
        BY <2>2, EmptySeq
      <4> QED BY <1>1, <2>2, <4>1
    <3>3. op \in {"read", "read1", "peek"} =>
             at + Len(acc) = Tell + n /\ acc = Span(at, Tell + n)
      BY <2>2
    <3>4. acc = <<>> => n = 0
      BY <2>2, EmptySeq
    <3>5. n = Len(acc) + 0
      BY <2>2
    <3> QED BY <2>3, <2>4, <2>7, <3>1, <3>2, <3>3, <3>4, <3>5 DEF CallInStep
  <2> QED BY <2>6, <2>7, <2>8, <2>9, <2>10, <2>11 DEF InStep
<1>5. CASE ~(end < b)
  <2> DEFINE need == end - b
  <2>1. call' = begun(need, Ahead) /\ st' = [st EXCEPT !.buffer = <<>>, !.offset = 0]
    BY <1>5 DEF BeginRead
  <2>2. /\ Ahead = Span(Tell, Given) /\ Ahead \in Seq(Byte)
        /\ Len(Ahead) = Given - Tell /\ Len(Ahead) = b - o
        /\ Ahead # <<>> => Given <= EndOff
    BY <1>2, AheadIs
  <2>3. /\ st'.offset = 0 /\ st'.buffer = <<>> /\ st'.left = st.left
        /\ SameStream
    BY <1>3, <2>1 DEF SameStream
  <2>4. Len(st'.buffer) = 0
    BY <2>3, EmptySeq
  <2>5. Tell' = Given
    <3>1. Tell' = Size - st.left - 0 + 0
      BY <2>3, <2>4 DEF Tell
    <3>2. st.left \in Int
      BY <1>3
    <3> QED BY <1>1, <3>1, <3>2 DEF Given
  <2>6. StateType'
    <3>1. st' \in [crc : Seq(Byte), compressLeft : Int, left : Int,
                   buffer : Seq(Byte), offset : Int, eof : BOOLEAN,
                   decrypted : Seq(Unit), tail : Seq(Unit), pending : Seq(Byte),
                   ended : BOOLEAN]
      <4>1. <<>> \in Seq(Byte) /\ 0 \in Int
        BY EmptySeq
      <4> QED BY <1>3, <2>1, <4>1
    <3>2. st'.offset \in 0 .. Len(st'.buffer) /\ st'.left \in 0 .. Size
      BY <1>3, <2>3, <2>4
    <3>3. Tell' \in 0 .. Size
      BY <1>1, <2>5
    <3> QED BY <3>1, <3>2, <3>3 DEF StateType
  <2>7. /\ call'.op = op /\ call'.asked = n /\ call'.at = at /\ call'.need = need
        /\ call'.acc = Ahead /\ call'.todo = todo
    <3> HIDE DEF need
    <3> QED BY <2>1
  <2>8. need \in Nat
    BY <1>1, <1>5
  <2>9. CallType' /\ call' # NoCall
    <3>1. call' # NoCall
      BY <2>7 DEF NoCall
    <3>2. op # "none"
      OBVIOUS
    <3> HIDE DEF begun, need
    <3>4. call' \in [op : {"none", "read", "readall", "read1", "peek", "seek"},
                     asked : Nat, at : 0 .. Size, need : Nat, acc : Seq(Byte), todo : Nat]
      BY <2>1, <2>2, <2>8 DEF begun
    <3> QED BY <2>7, <3>1, <3>2, <3>4 DEF CallType
  <2>10. GivenIsKnown'
    BY <1>2, <2>3, KnownKept
  <2>11. RawInStep' /\ KeptFollows' /\ EndIsReached'
    BY <1>2, <2>3, StreamKept
  <2>12. CallInStep'
    <3>1. /\ \A i, j : Span(i, j)' = Span(i, j)
          /\ EndOff' = EndOff
      BY SameMember
    <3>2. op \in {"read", "read1", "peek"} =>
             at + Len(Ahead) = Given /\ Ahead = Span(at, Given)
      <4>1. Tell + Len(Ahead) = Given
        <5> HIDE DEF o, b
        <5> QED BY <1>1, <2>2
      <4>2. op \in {"read", "read1", "peek"} => at = Tell
        OBVIOUS
      <4>3. Ahead = Span(Tell, Given)
        BY <2>2
      <4> QED BY <4>1, <4>2, <4>3
    <3>3. n = Len(Ahead) + need
      <4> HIDE DEF o, b
      <4> QED BY <1>1, <2>2
    <3>4. Ahead = <<>> /\ need = 0 => n = 0
      <4>1. Ahead = <<>> => Len(Ahead) = 0
        BY EmptySeq
      <4> HIDE DEF need
      <4> QED BY <3>3, <4>1
    <3> HIDE DEF need
    <3> QED BY <2>2, <2>3, <2>5, <2>7, <3>1, <3>2, <3>3, <3>4 DEF CallInStep
  <2> HIDE DEF need
  <2> QED BY <2>6, <2>7, <2>9, <2>10, <2>11, <2>12 DEF InStep
<1> QED BY <1>4, <1>5

(* A call that has nothing, or is over.                                     *)
LEMMA CallLeft ==
    ASSUME Types, InStep, SameStream, expected' = expected,
           st'.buffer = st.buffer \/ st'.buffer = <<>>,
           call'.op \in {"none", "seek"}, call'.need = 0
    PROVE  InStep'
<1>1. RawInStep' /\ KeptFollows' /\ EndIsReached'
  BY StreamKept DEF InStep
<1>2. GivenIsKnown'
  BY KnownKept DEF InStep
<1>3. CallInStep'
  BY DEF CallInStep
<1> QED BY <1>1, <1>2, <1>3 DEF InStep

LEMMA OverType == call' = NoCall => CallType' /\ call'.op = "none" /\ call'.need = 0
<1>1. 0 \in 0 .. Size /\ 0 \in Nat /\ <<>> \in Seq(Byte)
  BY SizeType, EmptySeq
<1> QED BY <1>1 DEF CallType, NoCall

LEMMA SeekingType ==
    ASSUME NEW todo \in Nat, Types, call' = Seeking(todo)
    PROVE  /\ CallType' /\ call'.op = "seek" /\ call'.need = 0
           /\ call'.at = Tell /\ call' # NoCall
<1>1. 0 \in Nat /\ <<>> \in Seq(Byte) /\ Tell \in 0 .. Size
  BY StateFacts, EmptySeq
<1>2. call' = [op |-> "seek", asked |-> 0, at |-> Tell, need |-> 0, acc |-> <<>>,
               todo |-> todo]
  BY DEF Seeking, NoCall
<1>3. call'.op = "seek" /\ call'.need = 0 /\ call'.at = Tell
  BY <1>2
<1>4. call' # NoCall
  BY <1>3 DEF NoCall
<1>5. call' \in [op : {"none", "read", "readall", "read1", "peek", "seek"},
                 asked : Nat, at : 0 .. Size, need : Nat, acc : Seq(Byte), todo : Nat]
  BY <1>1, <1>2
<1> QED BY <1>3, <1>4, <1>5 DEF CallType

(* Nothing but the place in the buffer.                                     *)
LEMMA MovedType ==
    ASSUME NEW o \in 0 .. Len(st.buffer), Types, GivenIsKnown,
           st' = [st EXCEPT !.offset = o]
    PROVE  /\ StateType' /\ st'.buffer = st.buffer /\ st'.offset = o /\ st'.left = st.left
           /\ st'.eof = st.eof /\ st'.compressLeft = st.compressLeft
           /\ st'.decrypted = st.decrypted /\ st'.crc = st.crc
           /\ st'.tail = st.tail /\ st'.pending = st.pending /\ st'.ended = st.ended
           /\ Tell' = Tell - st.offset + o
<1>1. st \in [crc : Seq(Byte), compressLeft : Int, left : Int,
              buffer : Seq(Byte), offset : Int, eof : BOOLEAN,
              decrypted : Seq(Unit), tail : Seq(Unit), pending : Seq(Byte),
              ended : BOOLEAN] /\ st.left \in 0 .. Size
  BY DEF Types, StateType
<1>2. /\ Len(st.buffer) \in Nat /\ st.offset \in Int /\ Given \in Nat /\ Tell \in Int
      /\ 0 <= Tell /\ Given <= Size /\ Size \in Nat /\ o \in Int
  BY StateFacts
<1>3. Tell = Given - Len(st.buffer) + st.offset
  BY TellIs
<1>4. /\ st'.buffer = st.buffer /\ st'.offset = o /\ st'.left = st.left
      /\ st'.eof = st.eof /\ st'.compressLeft = st.compressLeft
      /\ st'.decrypted = st.decrypted /\ st'.crc = st.crc
      /\ st'.tail = st.tail /\ st'.pending = st.pending /\ st'.ended = st.ended
  BY <1>1
<1>5. Tell' = Given - Len(st.buffer) + o
  BY <1>4 DEF Tell, Given
<1>6. Tell' = Tell - st.offset + o
  <2> HIDE DEF Tell
  <2> QED BY <1>2, <1>3, <1>5
<1>7. st' \in [crc : Seq(Byte), compressLeft : Int, left : Int,
              buffer : Seq(Byte), offset : Int, eof : BOOLEAN,
              decrypted : Seq(Unit), tail : Seq(Unit), pending : Seq(Byte),
              ended : BOOLEAN]
  BY <1>1, <1>2
<1>8. Tell' \in 0 .. Size
  <2>1. Len(st.buffer) <= Given
    BY DEF GivenIsKnown
  <2>2. 0 <= o /\ o <= Len(st.buffer)
    BY <1>2
  <2> QED BY <1>2, <1>5, <2>1, <2>2
<1>9. StateType'
  BY <1>1, <1>4, <1>7, <1>8 DEF StateType
<1> QED BY <1>4, <1>6, <1>9

-----------------------------------------------------------------------------
(* Every action keeps the reader in step.                                   *)

LEMMA ReadKeeps ==
    ASSUME NEW n \in Requests, Types, InStep, Read(n) \/ Read1(n) \/ Peek(n)
    PROVE  Types' /\ InStep' /\ call'.at = Tell /\ call' # NoCall
<1>1. n \in Nat /\ 0 \in Nat /\ n \in Requests \cup {MaxN}
  BY ExtAssumption
<1>2. Tell \in 0 .. Size
  BY StateFacts
<1>3. /\ UNCHANGED <<entry, rawPos, expected, closed, last, skipped, broken>>
      /\ ~broken
  BY DEF Read, Read1, Peek, Ready
<1>4. PICK op \in {"read", "read1", "peek"} : BeginRead(op, Tell, n, 0)
  BY DEF Read, Read1, Peek
<1>5. op \in {"read", "read1", "peek", "seek"} /\ op # "seek"
  OBVIOUS
<1>6. StateType' /\ CallType' /\ InStep' /\ call'.at = Tell /\ call' # NoCall
  BY <1>1, <1>2, <1>3, <1>4, <1>5, Begun
<1>7. Types'
  BY <1>3, <1>6 DEF Types
<1> QED BY <1>6, <1>7

LEMMA SeekOnKeeps ==
    ASSUME Types, InStep, SeekOn
    PROVE  Types' /\ InStep' /\ call'.at = call.at /\ call' # NoCall
<1> DEFINE n == Min({MaxSeekRead, call.todo})
           rest == call.todo - n
<1>1. call.todo \in Nat /\ call.at \in 0 .. Size /\ ~broken
  BY CallFacts DEF SeekOn, Returns
<1>2. n \in Nat /\ rest \in Nat
  <2>1. MaxSeekRead \in Nat
    BY ExtAssumption
  <2>2. n = IF MaxSeekRead <= call.todo THEN MaxSeekRead ELSE call.todo
    BY <1>1, <2>1, MinOfTwo
  <2> HIDE DEF n
  <2> QED BY <1>1, <2>1, <2>2
<1>3. /\ UNCHANGED <<entry, rawPos, expected, closed, last, skipped, broken>>
      /\ BeginRead("seek", call.at, n, rest)
  BY DEF SeekOn
<1> HIDE DEF n, rest
<1>4. StateType' /\ CallType' /\ InStep' /\ call'.at = call.at /\ call' # NoCall
  <2>1. "seek" \in {"read", "read1", "peek", "seek"} /\ "seek" \notin {"read", "read1"}
    OBVIOUS
  <2> QED BY <1>1, <1>2, <1>3, <2>1, Begun
<1>5. Types'
  BY <1>1, <1>3, <1>4 DEF Types
<1> QED BY <1>4, <1>5

LEMMA ReadAllKeeps ==
    ASSUME NEW op \in {"readall", "read1"}, Types, InStep, ReadAll(op)
    PROVE  Types' /\ InStep' /\ call'.at = Tell /\ call' # NoCall
<1>1. /\ Given \in Nat /\ Given <= Size /\ Size \in Nat /\ Tell \in 0 .. Size
      /\ entry \in Entries /\ EndOff \in Nat /\ Tell \in Int
  BY StateFacts, ReachFacts
<1>2. /\ RawInStep /\ KeptFollows /\ GivenIsKnown /\ EndIsReached
  BY DEF InStep
<1>3. st \in [crc : Seq(Byte), compressLeft : Int, left : Int,
              buffer : Seq(Byte), offset : Int, eof : BOOLEAN,
              decrypted : Seq(Unit), tail : Seq(Unit), pending : Seq(Byte),
              ended : BOOLEAN] /\ st.left \in 0 .. Size
  BY DEF Types, StateType
<1>4. MaxN \in Nat /\ MaxN > 0
  BY ExtAssumption
<1>5. /\ call' = [op |-> op, asked |-> MaxN, at |-> Tell, need |-> MaxN,
                  acc |-> Ahead, todo |-> 0]
      /\ st' = [st EXCEPT !.buffer = <<>>, !.offset = 0]
      /\ UNCHANGED <<entry, rawPos, expected, closed, last, skipped, broken>> /\ ~broken
  BY DEF ReadAll, Ready
<1>6. /\ Ahead = Span(Tell, Given) /\ Ahead \in Seq(Byte)
      /\ Len(Ahead) = Given - Tell
      /\ Ahead # <<>> => Given <= EndOff
  BY <1>2, AheadIs
<1>7. /\ st'.offset = 0 /\ st'.buffer = <<>> /\ st'.left = st.left
      /\ SameStream
  BY <1>3, <1>5 DEF SameStream
<1>8. Len(st'.buffer) = 0
  BY <1>7, EmptySeq
<1>9. Tell' = Given
  <2>1. Tell' = Size - st.left - 0 + 0
    BY <1>7, <1>8 DEF Tell
  <2>2. st.left \in Int
    BY <1>3
  <2> QED BY <1>1, <2>1, <2>2 DEF Given
<1>10. StateType'
  <2>1. st' \in [crc : Seq(Byte), compressLeft : Int, left : Int,
                 buffer : Seq(Byte), offset : Int, eof : BOOLEAN,
                 decrypted : Seq(Unit), tail : Seq(Unit), pending : Seq(Byte),
                 ended : BOOLEAN]
    <3>1. <<>> \in Seq(Byte) /\ 0 \in Int
      BY EmptySeq
    <3> QED BY <1>3, <1>5, <3>1
  <2>2. st'.offset \in 0 .. Len(st'.buffer) /\ st'.left \in 0 .. Size
    BY <1>3, <1>7, <1>8
  <2>3. Tell' \in 0 .. Size
    BY <1>1, <1>9
  <2> QED BY <2>1, <2>2, <2>3 DEF StateType
<1>11. /\ call'.op = op /\ call'.asked = MaxN /\ call'.at = Tell /\ call'.need = MaxN
       /\ call'.acc = Ahead /\ call'.todo = 0
  BY <1>5
<1>12. CallType' /\ call' # NoCall
  <2>1. call' # NoCall
    BY <1>11 DEF NoCall
  <2>2. op # "none" /\ 0 \in Nat
    OBVIOUS
  <2>3. call' \in [op : {"none", "read", "readall", "read1", "peek", "seek"},
                   asked : Nat, at : 0 .. Size, need : Nat, acc : Seq(Byte), todo : Nat]
    BY <1>1, <1>4, <1>5, <1>6, <2>2
  <2> QED BY <1>11, <2>1, <2>2, <2>3 DEF CallType
<1>13. GivenIsKnown'
  BY <1>2, <1>5, <1>7, KnownKept
<1>14. RawInStep' /\ KeptFollows' /\ EndIsReached'
  BY <1>2, <1>7, StreamKept
<1>15. CallInStep'
  <2>1. /\ \A i, j : Span(i, j)' = Span(i, j)
        /\ EndOff' = EndOff
    BY <1>5, SameMember
  <2>2. Tell + Len(Ahead) = Given
    <3> HIDE DEF Tell
    <3> QED BY <1>1, <1>6
  <2> QED BY <1>4, <1>6, <1>7, <1>9, <1>11, <2>1, <2>2 DEF CallInStep
<1>16. Types'
  BY <1>5, <1>10, <1>12 DEF Types
<1> QED BY <1>11, <1>12, <1>13, <1>14, <1>15, <1>16 DEF InStep

(* The bytes peek() shows.                                                  *)
LEMMA PeekedType ==
    ASSUME NEW s, s.buffer \in Seq(Byte), s.offset \in 0 .. Len(s.buffer)
    PROVE  /\ Peeked(s) \in Seq(Byte) /\ Len(Peeked(s)) \in Nat
           /\ \E k \in Nat : /\ s.offset + k <= Len(s.buffer)
                             /\ Peeked(s) = SubSeq(s.buffer, s.offset + 1, s.offset + k)
<1> DEFINE b == Len(s.buffer)
           o == s.offset
           e == Min({o + PeekLimit, b})
<1>1. b \in Nat /\ o \in Nat /\ o <= b /\ PeekLimit \in Nat
  BY ExtAssumption, LenProperties
<1>2. e = IF o + PeekLimit <= b THEN o + PeekLimit ELSE b
  <2>1. o + PeekLimit \in Int /\ b \in Int
    BY <1>1
  <2> HIDE DEF b, o
  <2> QED BY <2>1, MinOfTwo
<1> HIDE DEF e
<1>3. e \in Nat /\ o <= e /\ e <= b
  <2> HIDE DEF b, o
  <2> QED BY <1>1, <1>2
<1>4. Peeked(s) = SubSeq(s.buffer, o + 1, e)
  BY DEF Peeked, e
<1>5. Peeked(s) \in Seq(Byte)
  BY <1>1, <1>3, <1>4, Slice
<1> DEFINE k == e - o
<1>6. k \in Nat /\ o + k = e
  <2> HIDE DEF o, b
  <2> QED BY <1>1, <1>3
<1>7. o + k <= b /\ Peeked(s) = SubSeq(s.buffer, o + 1, o + k)
  <2> HIDE DEF o, k, b
  <2> QED BY <1>3, <1>4, <1>6
<1> HIDE DEF k
<1> QED BY <1>5, <1>6, <1>7, LenProperties

LEMMA PeekedIs ==
    Types /\ GivenIsKnown =>
       \E k \in Nat : /\ Peeked(st) = Span(Tell, Tell + k) /\ Len(Peeked(st)) = k
                      /\ Tell + k <= Given /\ (k > 0 => Given <= EndOff)
<1> SUFFICES ASSUME Types, GivenIsKnown
             PROVE  \E k \in Nat : /\ Peeked(st) = Span(Tell, Tell + k)
                                   /\ Len(Peeked(st)) = k
                                   /\ Tell + k <= Given /\ (k > 0 => Given <= EndOff)
  OBVIOUS
<1>1. st.buffer \in Seq(Byte) /\ st.offset \in 0 .. Len(st.buffer)
  BY StateFacts
<1>2. PICK k \in Nat : /\ st.offset + k <= Len(st.buffer)
                       /\ Peeked(st) = SubSeq(st.buffer, st.offset + 1, st.offset + k)
  BY <1>1, PeekedType
<1>3. k \in Int /\ 0 <= k
  BY <1>2
<1>4. /\ SubSeq(st.buffer, st.offset + 1, st.offset + k) = Span(Tell, Tell + k)
      /\ Len(SubSeq(st.buffer, st.offset + 1, st.offset + k)) = k
      /\ Tell + k <= Given
      /\ k > 0 => Given <= EndOff
  BY <1>2, <1>3, BufferIsNext
<1>5. Peeked(st) = Span(Tell, Tell + k) /\ Len(Peeked(st)) = k
  BY <1>2, <1>4
<1> QED BY <1>4, <1>5

LEMMA PeekBufferKeeps ==
    ASSUME NEW n \in Requests, Types, InStep, PeekBuffer(n)
    PROVE  Types' /\ InStep'
<1>1. /\ UNCHANGED <<entry, rawPos, st, expected, closed, call, skipped, broken>>
      /\ call = NoCall /\ ~broken /\ last' = Showing(Peeked(st))
  BY DEF PeekBuffer, Ready, Idle
<1>2. Peeked(st) \in Seq(Byte) /\ Len(Peeked(st)) \in Nat
  <2>1. st.buffer \in Seq(Byte) /\ st.offset \in 0 .. Len(st.buffer)
    BY StateFacts
  <2> QED BY <2>1, PeekedType
<1>3. last' \in [asked : Nat, bytes : Seq(Byte)]
  BY <1>1, <1>2 DEF Showing
<1>4. StateType' /\ CallType'
  BY <1>1 DEF Types, StateType, CallType, Tell
<1>5. Types'
  BY <1>1, <1>3, <1>4 DEF Types
<1>6. InStep'
  <2>1. SameStream /\ call'.op = "none" /\ call'.need = 0 /\ st'.buffer = st.buffer
    BY <1>1 DEF SameStream, NoCall
  <2> QED BY <1>1, <2>1, CallLeft
<1> QED BY <1>5, <1>6

LEMMA ReadLineKeeps ==
    ASSUME NEW k \in 1 .. MaxRead, Types, InStep, ReadLine(k)
    PROVE  /\ Types' /\ InStep'
           /\ last'.bytes = Span(Tell, Tell + k) /\ last'.asked = k
           /\ Len(last'.bytes) = k
           /\ Tell' = Tell + k /\ Given <= EndOff /\ Tell + k <= Given
<1>1. /\ UNCHANGED <<entry, rawPos, expected, closed, call, skipped, broken>>
      /\ call = NoCall /\ ~broken /\ last' = Showing(SubSeq(Ahead, 1, k))
      /\ st' = [st EXCEPT !.offset = st.offset + k] /\ k <= Len(Ahead)
  BY DEF ReadLine, Ready, Idle
<1>2. /\ Len(st.buffer) \in Nat /\ st.offset \in Int /\ 0 <= st.offset
      /\ Given \in Nat /\ Tell \in Int /\ 0 <= Tell /\ k \in Nat /\ k > 0
      /\ entry \in Entries
  <2>1. MaxRead \in Nat
    BY ExtAssumption
  <2> QED BY <2>1, StateFacts
<1>3. GivenIsKnown
  BY DEF InStep
<1>4. /\ Ahead = Span(Tell, Given) /\ Ahead \in Seq(Byte)
      /\ Len(Ahead) = Given - Tell /\ Len(Ahead) = Len(st.buffer) - st.offset
      /\ Tell <= Given /\ (Ahead # <<>> => Given <= EndOff)
  BY <1>3, AheadIs
<1>5. Given <= EndOff /\ Given <= Len(All) /\ Tell + k <= Given
  <2>1. Ahead # <<>>
    BY <1>1, <1>2, EmptySeq
  <2>2. EndOff \in Nat /\ EndOff <= Len(All) /\ Len(All) \in Nat
    BY <1>2, ReachFacts, EntryFacts
  <2>3. Tell + k <= Given
    <3>1. k <= Given - Tell
      BY <1>1, <1>4
    <3> QED BY <1>2, <3>1
  <2> QED BY <1>2, <1>4, <2>1, <2>2, <2>3
<1> DEFINE o == st.offset + k
<1>6. o \in 0 .. Len(st.buffer)
  <2>1. k <= Len(st.buffer) - st.offset
    BY <1>1, <1>4
  <2> QED BY <1>2, <2>1
<1>7. /\ StateType' /\ st'.buffer = st.buffer /\ Tell' = Tell - st.offset + o
      /\ st'.left = st.left
      /\ st'.eof = st.eof /\ st'.compressLeft = st.compressLeft
      /\ st'.decrypted = st.decrypted /\ st'.crc = st.crc
      /\ st'.tail = st.tail /\ st'.pending = st.pending /\ st'.ended = st.ended
  <2>1. st' = [st EXCEPT !.offset = o]
    BY <1>1
  <2> HIDE DEF o
  <2> QED BY <1>3, <1>6, <2>1, MovedType
<1>8. Tell' = Tell + k
  BY <1>2, <1>7
<1>9. /\ SubSeq(Ahead, 1, k) = Span(Tell, Tell + k)
      /\ SubSeq(Ahead, 1, k) \in Seq(Byte) /\ Len(SubSeq(Ahead, 1, k)) = k
  <2>1. 0 \in Int /\ 0 <= 0 /\ 0 <= k /\ k <= Given - Tell /\ Given \in Int /\ k \in Int
    BY <1>1, <1>2, <1>4
  <2>2. Part(Span(Tell, Given), 0, k) = Span(Tell + 0, Tell + k)
    BY <1>2, <1>4, <1>5, <2>1, SpanPart
  <2>3. SubSeq(Ahead, 1, k) = Part(Span(Tell, Given), 0, k)
    <3>1. 0 + 1 = 1
      OBVIOUS
    <3> QED BY <1>4, <3>1 DEF Part
  <2>4. Tell + 0 = Tell /\ Tell + k \in Int /\ Tell <= Tell + k
    BY <1>2
  <2>5. SubSeq(Ahead, 1, k) = Span(Tell, Tell + k)
    BY <2>2, <2>3, <2>4, Zenon
  <2>6. Tell + k <= Len(All)
    <3>1. Len(All) \in Nat
      BY <1>2, EntryFacts
    <3> QED BY <1>2, <1>5, <2>4, <3>1
  <2> DEFINE y == Tell + k
  <2>7. y \in Int /\ Tell <= y /\ y <= Len(All) /\ y - Tell = k
    BY <1>2, <2>4, <2>6
  <2> HIDE DEF y
  <2>8. Span(Tell, y) \in Seq(Byte) /\ Len(Span(Tell, y)) = y - Tell
    BY <1>2, <2>7, SpanType
  <2>9. Span(Tell, y) \in Seq(Byte) /\ Len(Span(Tell, y)) = k
    BY <2>7, <2>8
  <2>10. SubSeq(Ahead, 1, k) = Span(Tell, y)
    BY <2>5 DEF y
  <2> QED BY <2>5, <2>9, <2>10, Zenon
<1>10. last' \in [asked : Nat, bytes : Seq(Byte)] /\ last'.asked = k
       /\ last'.bytes = Span(Tell, Tell + k) /\ Len(last'.bytes) = k
  <2> DEFINE x == SubSeq(Ahead, 1, k)
  <2>1. last' = [asked |-> Len(x), bytes |-> x]
    BY <1>1 DEF Showing
  <2>2. x \in Seq(Byte) /\ Len(x) = k /\ x = Span(Tell, Tell + k)
    BY <1>9
  <2> HIDE DEF x
  <2> QED BY <1>2, <2>1, <2>2
<1>11. CallType'
  BY <1>1 DEF Types, CallType
<1>12. Types'
  BY <1>1, <1>7, <1>10, <1>11 DEF Types
<1>13. InStep'
  <2>1. SameStream /\ call'.op = "none" /\ call'.need = 0
    BY <1>1, <1>7 DEF SameStream, NoCall
  <2> QED BY <1>1, <1>7, <2>1, CallLeft
<1> QED BY <1>5, <1>8, <1>10, <1>12, <1>13

LEMMA CloseKeeps ==
    ASSUME Types, Close
    PROVE  Types' /\ (InStep => InStep') /\ call' = NoCall /\ Tell' = Tell
<1>1. /\ UNCHANGED <<entry, rawPos, st, expected, call, last, skipped, broken>>
      /\ call = NoCall /\ closed' = TRUE
  BY DEF Close, Idle
<1>2. StateType' /\ CallType' /\ Tell' = Tell
  BY <1>1 DEF Types, StateType, CallType, Tell
<1>3. Types'
  BY <1>1, <1>2 DEF Types
<1>4. ASSUME InStep PROVE InStep'
  <2>1. SameStream /\ call'.op = "none" /\ call'.need = 0 /\ st'.buffer = st.buffer
    BY <1>1 DEF SameStream, NoCall
  <2> QED BY <1>1, <1>4, <2>1, CallLeft
<1> QED BY <1>1, <1>2, <1>3, <1>4

LEMMA ClipType == ASSUME NEW t \in Targets PROVE Clip(t) \in 0 .. Size
<1> DEFINE m == Min({t, Size})
<1>1. t \in Int /\ Size \in Nat
  BY ExtAssumption, SizeType
<1>2. m = IF t <= Size THEN t ELSE Size
  BY <1>1, MinOfTwo
<1>3. m \in Int /\ m <= Size
  <2> HIDE DEF m
  <2> QED BY <1>1, <1>2
<1>4. Clip(t) = Max({0, m})
  BY DEF Clip
<1> HIDE DEF m
<1>5. Max({0, m}) = IF 0 >= m THEN 0 ELSE m
  BY <1>3, MaxOfTwo
<1> QED BY <1>1, <1>3, <1>4, <1>5

LEMMA SeekInBufferKeeps ==
    ASSUME NEW p \in 0 .. Size, Types, InStep, SeekInBuffer(p)
    PROVE  Types' /\ InStep' /\ call'.at = Tell /\ call' # NoCall
<1> DEFINE o == p - Tell + st.offset
<1>1. /\ UNCHANGED <<entry, rawPos, expected, closed, last, skipped, broken>>
      /\ ~broken /\ call' = Seeking(0) /\ st' = [st EXCEPT !.offset = o]
      /\ o \in 0 .. Len(st.buffer) - 1
  BY DEF SeekInBuffer, Ready, InBuffer
<1>2. o \in 0 .. Len(st.buffer)
  <2>1. Len(st.buffer) \in Nat
    BY StateFacts
  <2> HIDE DEF o
  <2> QED BY <1>1, <2>1
<1>3. /\ StateType' /\ st'.buffer = st.buffer
      /\ st'.left = st.left
      /\ st'.eof = st.eof /\ st'.compressLeft = st.compressLeft
      /\ st'.decrypted = st.decrypted /\ st'.crc = st.crc
      /\ st'.tail = st.tail /\ st'.pending = st.pending /\ st'.ended = st.ended
  <2> HIDE DEF o
  <2> QED BY <1>1, <1>2, MovedType DEF InStep
<1>4. /\ CallType' /\ call'.op = "seek" /\ call'.need = 0
      /\ call'.at = Tell /\ call' # NoCall
  <2>1. 0 \in Nat
    OBVIOUS
  <2> QED BY <1>1, <2>1, SeekingType
<1>5. Types'
  BY <1>1, <1>3, <1>4 DEF Types
<1>6. SameStream
  BY <1>1, <1>3 DEF SameStream
<1>7. InStep'
  BY <1>1, <1>3, <1>4, <1>6, CallLeft
<1> QED BY <1>4, <1>5, <1>7

LEMMA SeekAheadKeeps ==
    ASSUME NEW p \in 0 .. Size, Types, InStep, SeekAhead(p)
    PROVE  Types' /\ InStep' /\ call'.at = Tell /\ call' # NoCall
<1>1. /\ UNCHANGED <<entry, rawPos, st, expected, closed, last, skipped, broken>>
      /\ ~broken /\ call' = Seeking(p - Tell)
      /\ p = Tell \/ p > Tell
  BY DEF SeekAhead, Ready
<1>2. p - Tell \in Nat
  <2>1. Tell \in Int
    BY StateFacts
  <2> QED BY <1>1, <2>1
<1>3. /\ CallType' /\ call'.op = "seek" /\ call'.need = 0
      /\ call'.at = Tell /\ call' # NoCall
  <2> DEFINE d == p - Tell
  <2>1. d \in Nat /\ call' = Seeking(d)
    BY <1>1, <1>2
  <2> HIDE DEF d
  <2> QED BY <2>1, SeekingType
<1>4. StateType'
  BY <1>1 DEF Types, StateType, Tell
<1>5. Types'
  BY <1>1, <1>3, <1>4 DEF Types
<1>6. SameStream /\ st'.buffer = st.buffer
  BY <1>1 DEF SameStream
<1>7. InStep'
  BY <1>1, <1>3, <1>6, CallLeft
<1> QED BY <1>3, <1>5, <1>7

(* The reader at the first byte.                                            *)
Fresh == entry \in Entries /\ rawPos = 0 /\ st = ReadInit /\ expected = TRUE

LEMMA FreshIsInStep ==
    Fresh => StateType /\ RawInStep /\ KeptFollows /\ GivenIsKnown /\ EndIsReached /\ Tell = 0
<1> SUFFICES ASSUME Fresh
             PROVE  /\ StateType /\ RawInStep /\ KeptFollows /\ GivenIsKnown /\ EndIsReached
                    /\ Tell = 0
  OBVIOUS
<1>1. entry \in Entries /\ rawPos = 0 /\ expected = TRUE
  BY DEF Fresh
<1>2. /\ st.crc = <<>> /\ st.compressLeft = entry.csize /\ st.left = Size
      /\ st.buffer = <<>> /\ st.offset = 0 /\ st.eof = FALSE /\ st.decrypted = <<>>
      /\ st.tail = <<>> /\ st.pending = <<>> /\ st.ended = FALSE
  BY DEF Fresh, ReadInit
<1>3. /\ Size \in Nat /\ entry.csize \in Nat /\ Len(entry.raw) \in Nat
      /\ Len(<<>>) = 0 /\ <<>> \in Seq(Byte) /\ <<>> \in Seq(Unit)
      /\ EndOff \in Nat /\ Off(0) = 0
  BY <1>1, SizeType, EntryFacts, EmptySeq, ReachFacts, OffsetsAtTheEnds
<1>4. Given = 0 /\ Used = 0 /\ Tell = 0
  <2>1. Given = 0
    BY <1>2, <1>3 DEF Given
  <2>2. Len(st.buffer) = 0 /\ Len(st.tail) = 0
    BY <1>2, <1>3
  <2>3. Used = 0
    BY <1>1, <2>2 DEF Used
  <2>4. Tell = 0
    <3>1. Tell = Size - Size - 0 + 0
      BY <1>2, <2>2 DEF Tell
    <3> QED BY <1>3, <3>1
  <2> QED BY <2>1, <2>3, <2>4
<1>5. StateType
  <2>1. st \in [crc : Seq(Byte), compressLeft : Int, left : Int,
               buffer : Seq(Byte), offset : Int, eof : BOOLEAN,
               decrypted : Seq(Unit), tail : Seq(Unit), pending : Seq(Byte),
               ended : BOOLEAN]
    <3>1. entry.csize \in Int /\ Size \in Int /\ 0 \in Int /\ FALSE \in BOOLEAN
      BY <1>3
    <3>2. st = ReadInit
      BY DEF Fresh
    <3> QED BY <1>3, <3>1, <3>2 DEF ReadInit
  <2>2. st.left \in 0 .. Size /\ st.offset \in 0 .. Len(st.buffer)
    BY <1>2, <1>3
  <2>3. Tell \in 0 .. Size
    BY <1>3, <1>4
  <2> QED BY <2>1, <2>2, <2>3 DEF StateType
<1>6. SubSeq(entry.raw, 1, 0) = <<>>
  BY SubSeqEmpty
<1>7. RawInStep
  <2>1. entry.csize = entry.csize - 0
    BY <1>3
  <2> QED BY <1>1, <1>2, <1>3, <1>4, <1>6, <2>1 DEF RawInStep
<1>8. Span(0, 0) = <<>> /\ 0 + Len(<<>>) = 0 /\ 0 + 1 = 1 /\ 0 - Len(<<>>) = 0
  <2>1. 0 \in Int
    OBVIOUS
  <2>2. Span(0, 0) = <<>>
    BY <2>1, SpanEmpty
  <2>3. 0 + Len(<<>>) = 0 /\ 0 - Len(<<>>) = 0
    <3>1. \A x \in Int : x = 0 => 0 + x = 0 /\ 0 - x = 0
      OBVIOUS
    <3>2. Len(<<>>) = 0 /\ Len(<<>>) \in Int
      BY <1>3
    <3> QED BY <3>1, <3>2, Zenon
  <2> QED BY <2>2, <2>3
<1>9. KeptFollows
  <2>1. st.pending = Span(Given, Given + Len(st.pending))
    BY <1>2, <1>4, <1>8, Zenon
  <2>2. Used >= 0 /\ Given + Len(st.pending) = Off(Used)
    BY <1>2, <1>3, <1>4, <1>8
  <2>3. st.tail = SubSeq(entry.raw, Used + 1, rawPos)
    BY <1>1, <1>2, <1>4, <1>6, <1>8, Zenon
  <2>4. \A k \in 1 .. Used : ~entry.raw[k].ends
    BY <1>4
  <2> QED BY <1>2, <2>1, <2>2, <2>3, <2>4 DEF KeptFollows
<1>10. GivenIsKnown
  <2>1. st.crc = Span(0, Given)
    BY <1>2, <1>4, <1>8, Zenon
  <2>2. st.buffer = Span(Given - Len(st.buffer), Given)
    BY <1>2, <1>4, <1>8, Zenon
  <2>3. Given <= EndOff /\ Len(st.buffer) <= Given
    BY <1>2, <1>3, <1>4
  <2> QED BY <1>1, <2>1, <2>2, <2>3 DEF GivenIsKnown
<1>11. EndIsReached
  BY <1>2 DEF EndIsReached
<1> QED BY <1>4, <1>5, <1>7, <1>9, <1>10, <1>11

LEMMA SeekBackKeeps ==
    ASSUME NEW p \in 0 .. Size, Types, InStep, SeekBack(p)
    PROVE  Types' /\ InStep' /\ call'.at = Tell /\ call' # NoCall
<1>1. /\ UNCHANGED <<entry, expected, closed, last, skipped, broken>>
      /\ ~broken /\ ~Direct /\ call' = Seeking(p) /\ rawPos' = 0 /\ st' = Rewound
  BY DEF SeekBack, Ready
<1>2. p \in Nat
  BY SizeType
<1>3. /\ CallType' /\ call'.op = "seek" /\ call'.need = 0
      /\ call'.at = Tell /\ call' # NoCall
  BY <1>1, <1>2, SeekingType
<1>4. expected = TRUE
  <2>1. expected \in BOOLEAN
    BY DEF Types
  <2>2. ~expected => Direct
    BY DEF InStep, GivenIsKnown
  <2> QED BY <1>1, <2>1, <2>2
<1>5. Fresh'
  <2>1. entry \in Entries
    BY StateFacts
  <2>2. st' = ReadInit'
    BY <1>1 DEF Rewound, ReadInit
  <2> QED BY <1>1, <1>4, <2>1, <2>2 DEF Fresh
<1>6. (Fresh => StateType /\ RawInStep /\ KeptFollows /\ GivenIsKnown /\ EndIsReached /\ Tell = 0)'
  BY FreshIsInStep, PTL
<1>7. StateType' /\ RawInStep' /\ KeptFollows' /\ GivenIsKnown' /\ EndIsReached'
  BY <1>5, <1>6
<1>8. CallInStep'
  BY <1>3 DEF CallInStep
<1>9. Types'
  BY <1>1, <1>3, <1>7 DEF Types
<1> QED BY <1>3, <1>7, <1>8, <1>9 DEF InStep

LEMMA SeekDirectKeeps ==
    ASSUME NEW p \in 0 .. Size, Types, InStep, SeekDirect(p)
    PROVE  Types' /\ InStep' /\ call'.at = Tell /\ call' # NoCall
<1> DEFINE by == RawShift(p)
<1>1. /\ UNCHANGED <<entry, closed, last, broken>>
      /\ ~broken /\ Direct /\ call' = Seeking(0) /\ expected' = FALSE
      /\ skipped' = skipped \cup {"seek"} /\ rawPos' = rawPos + by
      /\ st' = [st EXCEPT !.left = @ - by, !.compressLeft = @ - by,
                          !.eof = st.left - by <= 0, !.buffer = <<>>, !.offset = 0]
  BY DEF SeekDirect, Ready
<1>2. /\ entry \in Entries /\ rawPos \in Nat /\ st.compressLeft \in Int /\ st.left \in Int
      /\ Given \in Nat /\ Size \in Nat /\ Tell \in Int /\ p \in Int /\ 0 <= p /\ p <= Size
      /\ EndOff \in Nat /\ entry.csize \in Nat
  BY StateFacts, ReachFacts, EntryFacts, SizeType
<1>3. /\ RawInStep /\ KeptFollows /\ GivenIsKnown /\ EndIsReached /\ Stored
      /\ entry.enc = "none"
  BY <1>1 DEF InStep, Direct
<1>4. st.compressLeft = entry.csize - rawPos /\ rawPos = Given
  BY <1>1, <1>3 DEF RawInStep
<1>5. by = p - Given
  <2>1. Len(Ahead) = Given - Tell
    BY <1>3, AheadIs
  <2>2. by = p - Tell - Len(Ahead)
    BY DEF RawShift
  <2> HIDE DEF by
  <2> QED BY <1>2, <2>1, <2>2
<1> HIDE DEF by
<1>6. st \in [crc : Seq(Byte), compressLeft : Int, left : Int,
              buffer : Seq(Byte), offset : Int, eof : BOOLEAN,
              decrypted : Seq(Unit), tail : Seq(Unit), pending : Seq(Byte),
              ended : BOOLEAN]
  BY DEF Types, StateType
<1>7. by \in Int /\ rawPos' = p /\ st.left - by = Size - p /\ st.left - by \in Int
      /\ st.compressLeft - by = entry.csize - p /\ st.compressLeft - by \in Int
  BY <1>1, <1>2, <1>4, <1>5 DEF Given
<1> DEFINE left == st.left - by
           cleft == st.compressLeft - by
           over == left <= 0
<1>8. st' = [st EXCEPT !.left = left, !.compressLeft = cleft,
                       !.eof = over, !.buffer = <<>>, !.offset = 0]
  BY <1>1
<1>9. over \in BOOLEAN /\ <<>> \in Seq(Byte) /\ Len(<<>>) = 0 /\ 0 \in Int
      /\ left = Size - p /\ cleft = entry.csize - p /\ (over <=> Size - p <= 0)
      /\ left \in Int /\ cleft \in Int
  BY <1>7, EmptySeq
<1> HIDE DEF left, cleft, over
<1>10. /\ st'.left = Size - p /\ st'.compressLeft = entry.csize - p
       /\ (st'.eof <=> Size - p <= 0) /\ st'.buffer = <<>> /\ st'.offset = 0
       /\ st'.decrypted = st.decrypted /\ st'.crc = st.crc
       /\ st'.tail = st.tail /\ st'.pending = st.pending /\ st'.ended = st.ended
  BY <1>6, <1>8, <1>9
<1>11. Given' = p /\ Tell' = p /\ Len(st'.buffer) = 0
  <2>1. Len(st'.buffer) = 0
    BY <1>9, <1>10
  <2>2. Given' = Size - (Size - p)
    BY <1>10 DEF Given
  <2>3. Tell' = Size - (Size - p) - 0 + 0
    BY <1>10, <2>1 DEF Tell
  <2> QED BY <1>2, <2>1, <2>2, <2>3
<1>12. StateType'
  <2>1. st' \in [crc : Seq(Byte), compressLeft : Int, left : Int,
                 buffer : Seq(Byte), offset : Int, eof : BOOLEAN,
                 decrypted : Seq(Unit), tail : Seq(Unit), pending : Seq(Byte),
                 ended : BOOLEAN]
    BY <1>6, <1>8, <1>9
  <2>2. st'.left \in 0 .. Size /\ st'.offset \in 0 .. Len(st'.buffer)
    BY <1>2, <1>10, <1>11
  <2>3. Tell' \in 0 .. Size
    BY <1>2, <1>11
  <2> QED BY <2>1, <2>2, <2>3 DEF StateType
<1>13. /\ CallType' /\ call'.op = "seek" /\ call'.need = 0
       /\ call'.at = Tell /\ call' # NoCall
  <2>1. 0 \in Nat
    OBVIOUS
  <2> QED BY <1>1, <2>1, SeekingType
<1>14. Types'
  <2>1. /\ entry \in Entries /\ last \in [asked : Nat, bytes : Seq(Byte)]
        /\ closed \in BOOLEAN /\ broken \in BOOLEAN
        /\ skipped \subseteq {"seek", "refused seek", "refused trailer"}
    BY DEF Types
  <2>2. rawPos' \in Nat /\ FALSE \in BOOLEAN
    BY <1>2, <1>7
  <2> QED BY <1>1, <1>12, <1>13, <2>1, <2>2 DEF Types
<1>15. /\ \A i, j : Span(i, j)' = Span(i, j)
       /\ EndOff' = EndOff /\ Stored' = Stored /\ Direct' = Direct
  BY <1>1, SameMember
<1>16. RawInStep'
  BY <1>1, <1>3, <1>7, <1>10, <1>11, <1>15 DEF RawInStep
<1>17. KeptFollows'
  BY <1>3, <1>15 DEF KeptFollows
<1>18. GivenIsKnown'
  <2>1. p - 0 = p /\ 0 <= p
    BY <1>2
  <2>2. Span(p, p) = <<>>
    BY <1>2, SpanEmpty
  <2>3. st'.buffer = Span(Given' - Len(st'.buffer), Given')
    BY <1>10, <1>11, <2>1, <2>2, Zenon
  <2>4. skipped' # {}
    BY <1>1
  <2> QED BY <1>1, <1>10, <1>11, <1>15, <2>1, <2>3, <2>4 DEF GivenIsKnown
<1>19. EndIsReached'
  <2>1. st'.eof => Size <= p
    BY <1>2, <1>10
  <2>2. skipped' # {}
    BY <1>1
  <2> QED BY <1>11, <2>1, <2>2 DEF EndIsReached
<1>20. CallInStep'
  BY <1>13 DEF CallInStep
<1> QED BY <1>13, <1>14, <1>16, <1>17, <1>18, <1>19, <1>20 DEF InStep

(* A call that is refused, or raises, without a step of the stream.         *)
LEMMA RaiseType == Raise => /\ CallType' /\ call'.op = "none" /\ call'.need = 0
                            /\ last' \in [asked : Nat, bytes : Seq(Byte)]
                            /\ last'.asked = 0 /\ Len(last'.bytes) = 0 /\ call' = NoCall
<1> SUFFICES ASSUME Raise
             PROVE  /\ CallType' /\ call'.op = "none" /\ call'.need = 0
                    /\ last' \in [asked : Nat, bytes : Seq(Byte)]
                    /\ last'.asked = 0 /\ Len(last'.bytes) = 0 /\ call' = NoCall
  OBVIOUS
<1>1. call' = NoCall /\ last' = [asked |-> 0, bytes |-> <<>>]
  BY DEF Raise, Nothing
<1>2. 0 \in Nat /\ <<>> \in Seq(Byte) /\ Len(<<>>) = 0
  BY EmptySeq
<1>3. last' \in [asked : Nat, bytes : Seq(Byte)] /\ last'.asked = 0 /\ last'.bytes = <<>>
  BY <1>1, <1>2
<1> QED BY <1>1, <1>2, <1>3, OverType

LEMMA RefusedKeeps ==
    ASSUME NEW p \in 0 .. Size, Types, InStep,
           SeekBackRefused(p) \/ FillRefused
    PROVE  Types' /\ InStep' /\ Tell' = Tell /\ call' = NoCall
<1>1. UNCHANGED <<entry, rawPos, st, expected, closed, skipped, broken>> /\ Raise
  BY DEF SeekBackRefused, FillRefused
<1>2. StateType' /\ Tell' = Tell
  BY <1>1 DEF Types, StateType, Tell
<1>3. /\ CallType' /\ call'.op = "none" /\ call'.need = 0
      /\ last' \in [asked : Nat, bytes : Seq(Byte)] /\ call' = NoCall
  BY <1>1, RaiseType
<1>4. Types'
  BY <1>1, <1>2, <1>3 DEF Types
<1>5. InStep'
  <2>1. SameStream /\ st'.buffer = st.buffer /\ call'.op \in {"none", "seek"}
    BY <1>1, <1>3 DEF SameStream
  <2> QED BY <1>1, <1>3, <2>1, CallLeft
<1> QED BY <1>2, <1>3, <1>4, <1>5

LEMMA SeekDirectRefusedKeeps ==
    ASSUME NEW p \in 0 .. Size, Types, InStep, SeekDirectRefused(p)
    PROVE  Types' /\ InStep' /\ Tell' = Tell /\ call' = NoCall
<1>1. /\ UNCHANGED <<entry, rawPos, st, closed, broken>> /\ Raise /\ Direct
      /\ expected' = FALSE /\ skipped' = skipped \cup {"refused seek"}
  BY DEF SeekDirectRefused
<1>2. StateType' /\ Tell' = Tell
  BY <1>1 DEF Types, StateType, Tell
<1>3. /\ CallType' /\ call'.op = "none" /\ call'.need = 0
      /\ last' \in [asked : Nat, bytes : Seq(Byte)] /\ call' = NoCall
  BY <1>1, RaiseType
<1>4. Types'
  <2>1. /\ entry \in Entries /\ rawPos \in Nat
        /\ closed \in BOOLEAN /\ broken \in BOOLEAN
        /\ skipped \subseteq {"seek", "refused seek", "refused trailer"}
    BY DEF Types
  <2>2. FALSE \in BOOLEAN
    OBVIOUS
  <2> QED BY <1>1, <1>2, <1>3, <2>1, <2>2 DEF Types
<1>5. SameStream
  BY <1>1 DEF SameStream
<1>6. RawInStep' /\ KeptFollows' /\ EndIsReached'
  BY <1>5, StreamKept DEF InStep
<1>7. /\ \A i, j : Span(i, j)' = Span(i, j)
      /\ EndOff' = EndOff /\ Direct' = Direct /\ Given' = Given
  BY <1>1, SameMember DEF Given
<1>8. GivenIsKnown'
  <2>1. skipped' # {}
    BY <1>1
  <2> QED BY <1>1, <1>7, <2>1 DEF GivenIsKnown, InStep
<1>9. CallInStep'
  BY <1>3 DEF CallInStep
<1> QED BY <1>2, <1>3, <1>4, <1>6, <1>8, <1>9 DEF InStep

-----------------------------------------------------------------------------
(* The calls' ends                                                          *)

LEMMA ReturnsKeep ==
    ASSUME Types, InStep, ReadReturns \/ Read1Returns \/ SeekReturns
    PROVE  Types' /\ InStep' /\ Tell' = Tell /\ call' = NoCall
<1>1. /\ UNCHANGED <<entry, rawPos, st, expected, closed, skipped, broken>>
      /\ call' = NoCall
  BY DEF ReadReturns, Read1Returns, SeekReturns
<1>2. StateType' /\ Tell' = Tell
  BY <1>1 DEF Types, StateType, Tell
<1>3. CallType' /\ call'.op = "none" /\ call'.need = 0
  BY <1>1, OverType
<1>4. last' \in [asked : Nat, bytes : Seq(Byte)]
  <2>1. /\ call.asked \in Nat /\ call.acc \in Seq(Byte) /\ Len(call.acc) \in Nat
        /\ 0 \in Nat /\ <<>> \in Seq(Byte)
    BY CallFacts, EmptySeq
  <2>2. CASE ReadReturns
    BY <2>1, <2>2 DEF ReadReturns
  <2>3. CASE Read1Returns
    BY <2>1, <2>3 DEF Read1Returns, Showing
  <2>4. CASE SeekReturns
    BY <2>1, <2>4 DEF SeekReturns, Nothing
  <2> QED BY <2>2, <2>3, <2>4
<1>5. Types'
  BY <1>1, <1>2, <1>3, <1>4 DEF Types
<1>6. InStep'
  <2>1. SameStream /\ st'.buffer = st.buffer /\ call'.op \in {"none", "seek"}
    BY <1>1, <1>3 DEF SameStream
  <2> QED BY <1>1, <1>3, <2>1, CallLeft
<1> QED BY <1>1, <1>2, <1>5, <1>6

LEMMA PeekReturnsKeeps ==
    ASSUME Types, InStep, PeekReturns
    PROVE  /\ Types' /\ InStep' /\ Tell' = call.at /\ call' = NoCall
           /\ last' = Showing(Peeked(st'))
<1> DEFINE acc == call.acc
           a == Len(acc)
           o == st.offset
<1>1. /\ UNCHANGED <<entry, rawPos, expected, closed, skipped, broken>>
      /\ call' = NoCall /\ last' = Showing(Peeked(st')) /\ call.op = "peek"
      /\ st' = IF a > o THEN [st EXCEPT !.buffer = acc \o Ahead, !.offset = 0]
               ELSE [st EXCEPT !.offset = o - a]
  BY DEF PeekReturns, Returns
<1>2. /\ entry \in Entries /\ Len(st.buffer) \in Nat /\ o \in Int /\ 0 <= o
      /\ o <= Len(st.buffer) /\ Given \in Nat /\ Given <= Size /\ Size \in Nat
      /\ Tell \in Int /\ 0 <= Tell /\ EndOff \in Nat /\ EndOff <= Len(All)
      /\ Len(All) \in Nat /\ Tell = Given - Len(st.buffer) + o
  <2>1. Tell = Given - Len(st.buffer) + o
    BY TellIs
  <2>2. /\ entry \in Entries /\ Len(st.buffer) \in Nat /\ o \in Int /\ 0 <= o
        /\ o <= Len(st.buffer) /\ Given \in Nat /\ Given <= Size /\ Size \in Nat
        /\ Tell \in Int /\ 0 <= Tell
    BY StateFacts
  <2>3. EndOff \in Nat /\ EndOff <= Len(All) /\ Len(All) \in Nat
    BY <2>2, ReachFacts, EntryFacts
  <2> QED BY <2>1, <2>2, <2>3
<1>3. acc \in Seq(Byte) /\ a \in Nat /\ call.at \in Int /\ 0 <= call.at /\ ~broken
  BY <1>1, <1>2, CallFacts
<1>4. call.at + a = Tell /\ acc = Span(call.at, Tell) /\ (acc # <<>> => Tell <= EndOff)
  BY <1>1 DEF InStep, CallInStep
<1>14. call.at <= Tell /\ Tell \in Int /\ call.at \in Int
  <2>1. call.at + a = Tell
    BY <1>4
  <2>2. a \in Int /\ 0 <= a
    BY <1>3
  <2> HIDE DEF a
  <2> QED BY <1>2, <1>3, <2>1, <2>2
<1>5. RawInStep /\ KeptFollows /\ GivenIsKnown /\ EndIsReached
  BY DEF InStep
<1>6. /\ Ahead = Span(Tell, Given) /\ Ahead \in Seq(Byte)
      /\ Len(Ahead) = Given - Tell /\ Tell <= Given
      /\ Ahead # <<>> => Given <= EndOff
  BY <1>5, AheadIs
<1>7. CallType' /\ call'.op = "none" /\ call'.need = 0
  BY <1>1, OverType
<1>8. st \in [crc : Seq(Byte), compressLeft : Int, left : Int,
              buffer : Seq(Byte), offset : Int, eof : BOOLEAN,
              decrypted : Seq(Unit), tail : Seq(Unit), pending : Seq(Byte),
              ended : BOOLEAN] /\ st.left \in 0 .. Size
  BY DEF Types, StateType
<1>15. call.at <= Given /\ Given \in Int /\ Tell <= Given
  <2>1. Tell <= Given /\ Given \in Int
    BY <1>2, <1>6
  <2> QED BY <1>14, <2>1
<1> HIDE DEF a, o, acc
<1>9. StateType' /\ SameStream /\ GivenIsKnown' /\ Tell' = call.at
  <2>1. CASE a > o
    <3> DEFINE b == acc \o Ahead
    <3>1. st' = [st EXCEPT !.buffer = b, !.offset = 0]
      BY <1>1, <2>1
    <3>2. Given <= EndOff /\ Given <= Len(All)
      <4>1. acc # <<>>
        <5>1. a > 0
          BY <1>2, <1>3, <2>1
        <5>2. acc = <<>> => a = 0
          BY EmptySeq DEF a
        <5> QED BY <1>3, <5>1, <5>2
      <4>2. CASE Ahead = <<>>
        <5>1. Given - Tell = 0
          BY <1>6, <4>2, EmptySeq
        <5> QED BY <1>2, <1>4, <4>1, <5>1
      <4>3. CASE Ahead # <<>>
        BY <1>2, <1>6, <4>3
      <4> QED BY <4>2, <4>3
    <3>3. b = Span(call.at, Given)
      <4>1. entry \in Entries /\ 0 <= call.at
        BY <1>2, <1>3
      <4>2. Span(call.at, Tell) \o Span(Tell, Given) = Span(call.at, Given)
        BY <1>14, <1>15, <3>2, <4>1, SpansJoin
      <4> QED BY <1>4, <1>6, <4>2, Zenon
    <3>4. call.at <= Given
      BY <1>15
    <3> HIDE DEF b
    <3>5. b \in Seq(Byte) /\ Len(b) = Given - call.at
      <4>1. Given \in Int
        BY <1>2
      <4>2. Span(call.at, Given) \in Seq(Byte) /\ Len(Span(call.at, Given)) = Given - call.at
        BY <1>2, <1>3, <3>2, <3>4, <4>1, SpanType
      <4> QED BY <3>3, <4>2, Zenon
    <3>6. st'.buffer = b /\ st'.offset = 0 /\ st'.left = st.left /\ SameStream
      BY <1>1, <1>8, <3>1 DEF SameStream
    <3>7. Given' = Given /\ Tell' = call.at
      <4>1. Tell' = Size - st.left - (Given - call.at) + 0
        BY <3>5, <3>6 DEF Tell
      <4>2. st.left \in Int /\ Given = Size - st.left
        BY <1>8 DEF Given
      <4>3. Given' = Given
        BY <3>6 DEF Given
      <4> HIDE DEF Given
      <4> QED BY SMTT(20), ZenonT(30), <1>2, <1>3, <4>1, <4>2, <4>3
    <3>8. StateType'
      <4>1. 0 \in Int
        OBVIOUS
      <4>2. st' \in [crc : Seq(Byte), compressLeft : Int, left : Int,
                     buffer : Seq(Byte), offset : Int, eof : BOOLEAN,
                     decrypted : Seq(Unit), tail : Seq(Unit), pending : Seq(Byte),
                     ended : BOOLEAN]
        BY <1>8, <3>1, <3>5, <4>1
      <4>3. Len(st'.buffer) \in Nat
        BY <1>2, <1>3, <3>4, <3>5, <3>6
      <4>4. st'.left \in 0 .. Size /\ st'.offset \in 0 .. Len(st'.buffer)
        BY <1>8, <3>6, <4>3
      <4>5. Tell' \in 0 .. Size
        BY <1>2, <1>3, <3>4, <3>7
      <4> QED BY <4>2, <4>4, <4>5 DEF StateType
    <3>9. GivenIsKnown'
      <4>1. /\ \A i, j : Span(i, j)' = Span(i, j)
            /\ EndOff' = EndOff /\ Direct' = Direct
        BY <3>6, SameMember DEF SameStream
      <4>2. Given - Len(st'.buffer) = call.at /\ Len(st'.buffer) <= Given
        <5>1. Len(st'.buffer) = Given - call.at
          BY <3>5, <3>6
        <5>2. 0 <= call.at
          BY <1>3
        <5> QED BY <1>14, <1>15, <5>1, <5>2
      <4>3. (st.crc)' = st.crc /\ expected' = expected /\ skipped' = skipped
        BY <1>1, <3>6 DEF SameStream
      <4>4. st'.buffer = Span(Given - Len(st'.buffer), Given)
        BY <3>3, <3>6, <4>2
      <4> QED BY <1>5, <3>2, <3>7, <4>1, <4>2, <4>3, <4>4 DEF GivenIsKnown
    <3> QED BY <3>6, <3>7, <3>8, <3>9
  <2>2. CASE ~(a > o)
    <3> DEFINE d == o - a
    <3>1. d \in 0 .. Len(st.buffer) /\ st' = [st EXCEPT !.offset = d]
      BY <1>1, <1>2, <1>3, <2>2
    <3> HIDE DEF d
    <3>2. /\ StateType' /\ st'.buffer = st.buffer /\ Tell' = Tell - st.offset + d
          /\ st'.left = st.left
          /\ st'.eof = st.eof /\ st'.compressLeft = st.compressLeft
          /\ st'.decrypted = st.decrypted /\ st'.crc = st.crc
          /\ st'.tail = st.tail /\ st'.pending = st.pending /\ st'.ended = st.ended
      BY <1>5, <3>1, MovedType
    <3>3. SameStream
      BY <1>1, <3>2 DEF SameStream
    <3>4. GivenIsKnown'
      BY <1>1, <1>5, <3>2, <3>3, KnownKept
    <3>5. Tell' = call.at
      BY SMTT(20), ZenonT(30), <1>2, <1>3, <1>4, <3>2 DEF d, o
    <3> QED BY <3>2, <3>3, <3>4, <3>5
  <2> QED BY <2>1, <2>2
<1>10. last' \in [asked : Nat, bytes : Seq(Byte)]
  <2>1. st'.buffer \in Seq(Byte) /\ st'.offset \in 0 .. Len(st'.buffer)
    BY <1>9 DEF StateType
  <2>2. Peeked(st') \in Seq(Byte) /\ Len(Peeked(st')) \in Nat
    BY <2>1, PeekedType
  <2> QED BY <1>1, <2>2 DEF Showing
<1>11. Types'
  BY <1>1, <1>7, <1>9, <1>10 DEF Types
<1>12. RawInStep' /\ KeptFollows' /\ EndIsReached'
  BY <1>5, <1>9, StreamKept
<1>13. CallInStep'
  BY <1>7 DEF CallInStep
<1> QED BY <1>1, <1>9, <1>11, <1>12, <1>13 DEF InStep

-----------------------------------------------------------------------------
(* A turn of a loop                                                         *)

(* What is chosen for a turn is what TurnTaken is about.                    *)
LEMMA TurnOfCall ==
    ASSUME NEW c, c = Chunk(call.need), Types, InStep, Looping
    PROVE  /\ Turn(c, rawPos + Len(c.input))
           /\ Demand(call.need) > 0 /\ st.compressLeft > 0 /\ rawPos < Len(entry.raw) =>
                 c.input # <<>>
           /\ call.need \in Nat /\ call.need > 0 /\ ~st.eof /\ st.buffer = <<>>
           /\ Tell = Given /\ ~broken /\ call.op # "none"
<1>1. /\ call.need > 0 /\ ~st.eof /\ call.op # "none"
  BY DEF Looping
<1>2. /\ RawInStep /\ KeptFollows /\ GivenIsKnown
      /\ st.buffer = <<>>
  BY <1>1 DEF InStep, CallInStep
<1>3. call.need \in Nat /\ ~broken
  BY <1>1, CallFacts
<1>4. /\ Turn(c, rawPos + Len(c.input))
      /\ Demand(call.need) > 0 /\ st.compressLeft > 0 /\ rawPos < Len(entry.raw) =>
            c.input # <<>>
  BY <1>1, <1>2, <1>3, TurnTaken
<1>5. Tell = Given
  <2>1. Ahead = <<>> /\ Len(Ahead) = Given - Tell
    <3>1. Len(Ahead) = Len(st.buffer) - st.offset /\ Len(Ahead) = Given - Tell /\ Ahead \in Seq(Byte)
      BY <1>2, AheadIs
    <3>2. Len(st.buffer) = 0 /\ 0 <= st.offset /\ st.offset <= Len(st.buffer) /\ st.offset \in Int
      BY <1>2, EmptySeq, StateFacts
    <3>3. Len(Ahead) = 0
      BY <3>1, <3>2
    <3> QED BY <3>1, <3>3, EmptySeq
  <2>2. Len(Ahead) = 0
    BY <2>1, EmptySeq
  <2>3. Given \in Int /\ Tell \in Int
    BY StateFacts
  <2> QED BY <2>1, <2>2, <2>3
<1> QED BY <1>1, <1>2, <1>3, <1>4, <1>5

StateRecord == [crc : Seq(Byte), compressLeft : Int, left : Int,
                buffer : Seq(Byte), offset : Int, eof : BOOLEAN,
                decrypted : Seq(Unit), tail : Seq(Unit), pending : Seq(Byte),
                ended : BOOLEAN]

(* The state after a turn, field by field.                                  *)
LEMMA AcceptType ==
    ASSUME NEW c, NEW p, Types, Turn(c, p), call.need \in Nat
    PROVE  LET s == Accept(c)
           IN  /\ s \in StateRecord
               /\ s.compressLeft = st.compressLeft - Len(c.input)
               /\ s.left = st.left - Len(c.data)
               /\ s.eof <=> c.eof \/ (Stored /\ st.left <= Len(c.data))
               /\ s.crc = IF expected THEN st.crc \o c.data ELSE st.crc
               /\ s.decrypted = IF entry.enc = "none" THEN st.decrypted
                                ELSE st.decrypted \o c.input
               /\ s.tail = c.tail /\ s.pending = c.pending /\ s.ended = c.ended
               /\ s.buffer = IF call.need < Len(c.data) THEN c.data ELSE <<>>
               /\ s.offset = IF call.need < Len(c.data) THEN call.need ELSE 0
<1> DEFINE over == c.eof \/ (Stored /\ st.left <= Len(c.data))
           crc == IF expected THEN st.crc \o c.data ELSE st.crc
           decrypted == IF entry.enc = "none" THEN st.decrypted
                        ELSE st.decrypted \o c.input
           buffer == IF call.need < Len(c.data) THEN c.data ELSE <<>>
           offset == IF call.need < Len(c.data) THEN call.need ELSE 0
           cleft == st.compressLeft - Len(c.input)
           left == st.left - Len(c.data)
<1>1. /\ c.data \in Seq(Byte) /\ c.pending \in Seq(Byte) /\ c.tail \in Seq(Unit)
      /\ c.ended \in BOOLEAN /\ c.eof \in BOOLEAN /\ c.input \in Seq(Unit)
  BY DEF Turn, Follows
<1>2. Len(c.data) \in Nat /\ Len(c.input) \in Nat /\ <<>> \in Seq(Byte) /\ 0 \in Int
  BY <1>1, LenProperties, EmptySeq
<1>3. st \in StateRecord
  BY DEF Types, StateType, StateRecord
<1>4. st.compressLeft \in Int /\ st.left \in Int /\ st.crc \in Seq(Byte) /\ st.decrypted \in Seq(Unit)
  BY StateFacts
<1>5. crc \in Seq(Byte) /\ decrypted \in Seq(Unit)
  <2>1. st.crc \o c.data \in Seq(Byte)
    BY <1>1, <1>4, ConcatProperties
  <2>2. st.decrypted \o c.input \in Seq(Unit)
    BY <1>1, <1>4, ConcatProperties
  <2> QED BY <1>4, <2>1, <2>2
<1>6. buffer \in Seq(Byte) /\ offset \in Int
  BY <1>1, <1>2
<1>7. cleft \in Int /\ left \in Int /\ over \in BOOLEAN
  BY <1>2, <1>4
<1>8. Accept(c) =
        [st EXCEPT !.compressLeft = cleft, !.left = left, !.eof = over, !.crc = crc,
                   !.decrypted = decrypted,
                   !.tail = c.tail, !.pending = c.pending, !.ended = c.ended,
                   !.buffer = buffer, !.offset = offset]
  BY DEF Accept
<1> HIDE DEF over, crc, decrypted, buffer, offset, cleft, left
<1>9. Accept(c) \in StateRecord
  BY SMTT(20), ZenonT(30), <1>1, <1>3, <1>5, <1>6, <1>7, <1>8 DEF StateRecord
<1>10. LET s == Accept(c)
       IN  /\ s.compressLeft = cleft /\ s.left = left /\ s.eof = over /\ s.crc = crc
           /\ s.decrypted = decrypted
           /\ s.tail = c.tail /\ s.pending = c.pending /\ s.ended = c.ended
           /\ s.buffer = buffer /\ s.offset = offset
  BY <1>3, <1>8 DEF StateRecord
<1> QED BY <1>9, <1>10 DEF over, crc, decrypted, buffer, offset, cleft, left

LEMMA UnitsJoin ==
    ASSUME NEW us \in Seq(Unit), NEW j \in Nat, NEW k \in Nat, j <= k, k <= Len(us)
    PROVE  SubSeq(us, 1, j) \o SubSeq(us, j + 1, k) = SubSeq(us, 1, k)
<1> DEFINE i == 0
<1>1. i \in Nat /\ i <= j /\ i + 1 = 1
  OBVIOUS
<1> HIDE DEF i
<1>2. SubSeq(us, i + 1, j) \o SubSeq(us, j + 1, k) = SubSeq(us, i + 1, k)
  BY <1>1, SlicesJoin
<1> QED BY <1>1, <1>2

(* What a turn that is accepted makes of the member's bytes.                *)
LEMMA AcceptGives ==
    ASSUME NEW c, NEW p, Types, InStep, Looping, c = Chunk(call.need),
           p = rawPos + Len(c.input), ~TooLong(c)
    PROVE  LET s == Accept(c)
               g == Given + Len(c.data)
           IN  /\ g \in Nat /\ Given <= g /\ g <= Size /\ s.left = Size - g
               /\ s.eof => Size <= g \/ EndOff <= g
               /\ expected \/ ~Direct => g <= EndOff
               /\ expected => s.crc = Span(0, g)
               /\ entry.enc # "none" => s.decrypted = SubSeq(entry.raw, 1, p)
                                        /\ p <= Len(entry.raw)
<1> DEFINE s == Accept(c)
           g == Given + Len(c.data)
<1>1. /\ Turn(c, p) /\ call.need \in Nat /\ ~st.eof
  BY TurnOfCall
<1>2. /\ s.left = st.left - Len(c.data)
      /\ s.eof <=> c.eof \/ (Stored /\ st.left <= Len(c.data))
      /\ s.crc = IF expected THEN st.crc \o c.data ELSE st.crc
      /\ s.decrypted = IF entry.enc = "none" THEN st.decrypted
                       ELSE st.decrypted \o c.input
  BY <1>1, AcceptType
<1> HIDE DEF s
<1>3. /\ c.data \in Seq(Byte) /\ Len(c.data) \in Nat /\ c.data = Span(Given, g)
      /\ c.data # <<>> \/ Given <= EndOff => g <= EndOff
      /\ c.eof => EndOff <= g
      /\ Follows(c.input, p)
  <2>1. c.data \in Seq(Byte)
    BY <1>1 DEF Turn
  <2> QED BY <1>1, <2>1, LenProperties DEF Turn
<1>4. /\ Given \in Nat /\ Size \in Nat /\ st.left \in Int /\ Given = Size - st.left
      /\ entry \in Entries /\ rawPos \in Nat /\ EndOff \in Nat /\ EndOff <= Len(All)
      /\ entry.raw \in Seq(Unit) /\ Len(All) \in Nat
  BY StateFacts, ReachFacts, EntryFacts DEF Given
<1>5. RawInStep /\ GivenIsKnown
  BY DEF InStep
<1>6. Len(c.data) <= st.left
  BY <1>3, <1>4 DEF TooLong
<1> DEFINE x == Len(c.data)
<1>7. g \in Nat /\ Given <= g /\ g <= Size /\ s.left = Size - g /\ (st.left <= x => Size <= g)
  <2>1. x \in Nat /\ x <= st.left /\ s.left = st.left - x /\ g = Given + x
    BY <1>2, <1>3, <1>6
  <2>2. Given \in Int /\ Given >= 0 /\ Size \in Int /\ st.left = Size - Given /\ x \in Int /\ x >= 0
    <3> HIDE DEF x
    <3> QED BY <1>4, <2>1
  <2> HIDE DEF x, g
  <2>3. g \in Nat /\ Given <= g
    BY <2>1, <2>2
  <2>4. s.left = Size - g /\ g <= Size /\ (st.left <= x => Size <= g)
    BY <2>1, <2>2
  <2> QED BY <2>3, <2>4
<1>8. s.eof => Size <= g \/ EndOff <= g
  BY <1>2, <1>3, <1>7
<1>9. expected \/ ~Direct => g <= EndOff
  BY <1>3, <1>5 DEF GivenIsKnown
<1> HIDE DEF g, x
<1>10. ASSUME expected PROVE s.crc = Span(0, g)
  <2>1. st.crc = Span(0, Given) /\ s.crc = st.crc \o c.data
    BY <1>2, <1>5, <1>10 DEF GivenIsKnown
  <2>2. /\ 0 \in Int /\ Given \in Int /\ g \in Int /\ 0 <= 0 /\ 0 <= Given /\ Given <= g
        /\ g <= Len(All)
    BY <1>4, <1>7, <1>9, <1>10
  <2>3. Span(0, Given) \o Span(Given, g) = Span(0, g)
    BY <1>4, <2>2, SpansJoin
  <2> QED BY <1>3, <2>1, <2>3, Zenon
<1>11. ASSUME entry.enc # "none"
       PROVE  s.decrypted = SubSeq(entry.raw, 1, p) /\ p <= Len(entry.raw)
  <2>1. st.decrypted = SubSeq(entry.raw, 1, rawPos)
    BY <1>1, <1>5, <1>11 DEF RawInStep
  <2>2. ~Direct
    BY <1>11 DEF Direct
  <2>3. /\ c.input = SubSeq(entry.raw, rawPos + 1, p) /\ p \in Nat /\ rawPos <= p
        /\ p <= Len(entry.raw)
    BY <1>3, <2>2 DEF Follows
  <2>6. SubSeq(entry.raw, 1, rawPos) \o SubSeq(entry.raw, rawPos + 1, p)
        = SubSeq(entry.raw, 1, p)
    <3>1. /\ entry.raw \in Seq(Unit) /\ rawPos \in Nat
          /\ p \in Nat /\ rawPos <= p /\ p <= Len(entry.raw)
      BY <1>4, <2>3
    <3> QED BY <3>1, UnitsJoin
  <2>7. s.decrypted = st.decrypted \o c.input
    BY <1>2, <1>11
  <2>8. s.decrypted = SubSeq(entry.raw, 1, p)
    BY <2>1, <2>3, <2>6, <2>7, Zenon
  <2> QED BY <2>3, <2>8
<1> QED BY <1>7, <1>8, <1>9, <1>10, <1>11 DEF s, g

(* What the call keeps of it.                                               *)
Kept(data) == IF call.need <= Len(data) THEN call.need ELSE Len(data)

LEMMA TakenGives ==
    ASSUME NEW data \in Seq(Byte), Types, Looping
    PROVE  LET t == Taken(data)
               m == Kept(data)
               part == SubSeq(data, 1, m)
           IN  /\ t \in [op : {"none", "read", "readall", "read1", "peek", "seek"},
                         asked : Nat, at : 0 .. Size, need : Nat, acc : Seq(Byte),
                         todo : Nat]
               /\ t.op = call.op /\ t.asked = call.asked /\ t.at = call.at
               /\ t.acc = call.acc \o part
               /\ m \in Nat /\ m <= Len(data) /\ m <= call.need
               /\ data # <<>> => m > 0
               /\ call.op = "readall" => t.need = call.need
               /\ call.op = "read1" /\ data # <<>> => t.need = 0
               /\ call.op # "readall" /\ ~(call.op = "read1" /\ data # <<>>) =>
                     t.need = call.need - m
<1> DEFINE t == Taken(data)
           m == Kept(data)
           part == SubSeq(data, 1, m)
           need == CASE call.op = "readall" -> call.need
                     [] call.op = "read1" /\ data # <<>> -> 0
                     [] OTHER -> call.need - Len(part)
           acc == call.acc \o part
<1>1. call.need \in Nat /\ call.need > 0 /\ Len(data) \in Nat /\ call.acc \in Seq(Byte)
  BY CallFacts, LenProperties DEF Looping
<1>2. m \in Nat /\ m <= Len(data) /\ m <= call.need /\ (data # <<>> => m > 0)
  <2>1. data # <<>> => Len(data) > 0
    BY <1>1, EmptySeq
  <2> QED BY <1>1, <2>1 DEF Kept
<1>3. Min({call.need, Len(data)}) = m
  BY <1>1, MinOfTwo DEF Kept
<1> HIDE DEF m
<1>4. part \in Seq(Byte) /\ Len(part) = m
  <2> DEFINE z == 0
  <2>1. z \in Nat /\ z <= m /\ z + 1 = 1 /\ m - z = m
    BY <1>2
  <2> HIDE DEF z
  <2>2. SubSeq(data, z + 1, m) \in Seq(Byte) /\ Len(SubSeq(data, z + 1, m)) = m - z
    BY <1>2, <2>1, Slice
  <2> QED BY <2>1, <2>2
<1>5. t = [call EXCEPT !.acc = acc, !.need = need]
  <2>1. part = SubSeq(data, 1, Min({call.need, Len(data)}))
    BY <1>3
  <2> HIDE DEF part
  <2> QED BY <2>1 DEF Taken
<1>6. /\ call.op = "readall" => need = call.need
      /\ call.op = "read1" /\ data # <<>> => need = 0
      /\ call.op # "readall" /\ ~(call.op = "read1" /\ data # <<>>) =>
            need = call.need - m
  <2> HIDE DEF part
  <2>1. call.op = "readall" => ~(call.op = "read1" /\ data # <<>>)
    OBVIOUS
  <2> QED BY <1>4, <2>1
<1>7. need \in Nat
  <2> HIDE DEF need
  <2>1. call.need - m \in Nat
    BY <1>1, <1>2
  <2> QED BY <1>1, <1>6, <2>1
<1>8. acc \in Seq(Byte)
  <2> HIDE DEF part
  <2> QED BY <1>1, <1>4, ConcatProperties
<1> HIDE DEF acc, need, part
<1>9. call \in [op : {"none", "read", "readall", "read1", "peek", "seek"},
                asked : Nat, at : 0 .. Size, need : Nat, acc : Seq(Byte), todo : Nat]
  BY DEF Types, CallType
<1>10. /\ t \in [op : {"none", "read", "readall", "read1", "peek", "seek"},
                 asked : Nat, at : 0 .. Size, need : Nat, acc : Seq(Byte), todo : Nat]
       /\ t.op = call.op /\ t.asked = call.asked /\ t.at = call.at
       /\ t.acc = acc /\ t.need = need
  BY <1>5, <1>7, <1>8, <1>9
<1> HIDE DEF t
<1> QED BY <1>2, <1>6, <1>10 DEF acc, part, m, t

LEMMA FillKeeps ==
    ASSUME Types, InStep, Fill
    PROVE  /\ Types' /\ InStep' /\ call'.at = call.at /\ call' # NoCall
<1>1. /\ Looping /\ UNCHANGED <<entry, expected, closed, last, skipped, broken>>
  BY DEF Fill
<1>2. PICK c \in {Chunk(call.need)} :
          LET p == rawPos + Len(c.input)
          IN  /\ ~RunsOut(c) /\ ~TooLong(c) /\ ~Truncated(c)
              /\ st' = Accept(c)
              /\ st'.eof => CheckIntegrity(st', p)
              /\ rawPos' = IF st'.eof /\ Aes THEN p + 1 ELSE p
              /\ call' = Taken(c.data)
  BY DEF Fill
<1> DEFINE p == rawPos + Len(c.input)
           x == Len(c.data)
           g == Given + x
           m == Kept(c.data)
<1>3. /\ c = Chunk(call.need) /\ ~TooLong(c) /\ st' = Accept(c)
      /\ st'.eof => CheckIntegrity(st', p)
      /\ rawPos' = IF st'.eof /\ Aes THEN p + 1 ELSE p
      /\ call' = Taken(c.data)
  BY <1>2
<1>4. /\ Turn(c, p)
      /\ call.need \in Nat /\ call.need > 0 /\ ~st.eof /\ st.buffer = <<>>
      /\ Tell = Given /\ ~broken /\ call.op # "none"
  BY <1>1, <1>3, TurnOfCall
<1>5. /\ st' \in StateRecord
      /\ st'.compressLeft = st.compressLeft - Len(c.input)
      /\ st'.eof <=> c.eof \/ (Stored /\ st.left <= x)
      /\ st'.tail = c.tail /\ st'.pending = c.pending /\ st'.ended = c.ended
      /\ st'.buffer = IF call.need < x THEN c.data ELSE <<>>
      /\ st'.offset = IF call.need < x THEN call.need ELSE 0
      /\ ~expected => st'.crc = st.crc
  BY <1>3, <1>4, AcceptType
<1>6. /\ g \in Nat /\ Given <= g /\ g <= Size /\ st'.left = Size - g
      /\ st'.eof => Size <= g \/ EndOff <= g
      /\ expected \/ ~Direct => g <= EndOff
      /\ expected => st'.crc = Span(0, g)
      /\ entry.enc # "none" => st'.decrypted = SubSeq(entry.raw, 1, p)
                               /\ p <= Len(entry.raw)
  BY <1>1, <1>3, AcceptGives
<1>7. /\ c.data \in Seq(Byte) /\ c.data = Span(Given, g) /\ c.input \in Seq(Unit)
      /\ c.data # <<>> \/ Given <= EndOff => g <= EndOff
      /\ Follows(c.input, p) /\ p \in Nat /\ rawPos <= p
      /\ Stored => g = p /\ c.tail = <<>> /\ c.pending = <<>> /\ ~c.ended
      /\ ~Stored => /\ ~c.eof => GoesOn(c, p)
  BY <1>4 DEF Turn, Follows
<1>8. x \in Nat /\ Len(c.input) \in Nat
  BY <1>7, LenProperties
<1> HIDE DEF p, x, g
<1>9. /\ Given \in Nat /\ Size \in Nat /\ rawPos \in Nat /\ entry \in Entries
      /\ EndOff \in Nat /\ EndOff <= Len(All) /\ Len(All) \in Nat
      /\ st.compressLeft \in Int /\ entry.csize \in Nat /\ Size < MaxN /\ MaxN \in Nat
  <2>1. MaxN \in Nat
    BY ExtAssumption
  <2> QED BY <2>1, StateFacts, ReachFacts, EntryFacts, SizeType
<1>10. /\ RawInStep /\ KeptFollows /\ GivenIsKnown /\ EndIsReached /\ CallInStep
  BY DEF InStep
<1>11. /\ call' \in [op : {"none", "read", "readall", "read1", "peek", "seek"},
                     asked : Nat, at : 0 .. Size, need : Nat, acc : Seq(Byte),
                     todo : Nat]
       /\ call'.op = call.op /\ call'.asked = call.asked /\ call'.at = call.at
       /\ call'.acc = call.acc \o SubSeq(c.data, 1, m)
       /\ m \in Nat /\ m <= x /\ m <= call.need
       /\ c.data # <<>> => m > 0
       /\ call.op = "readall" => call'.need = call.need
       /\ call.op = "read1" /\ c.data # <<>> => call'.need = 0
       /\ call.op # "readall" /\ ~(call.op = "read1" /\ c.data # <<>>) =>
             call'.need = call.need - m
  BY <1>1, <1>3, <1>7, TakenGives DEF x
<1>12. m = IF call.need <= x THEN call.need ELSE x
  BY DEF Kept, x
<1> HIDE DEF m
<1>13. g = Given + x /\ Given' = g
  <2>1. g = Given + x
    BY DEF g
  <2>2. Given' = Size - (Size - g)
    BY <1>6 DEF Given
  <2> QED BY <1>6, <1>9, <2>1, <2>2
<1>14. Len(st'.buffer) = (IF call.need < x THEN x ELSE 0)
       /\ (st'.buffer # <<>> => call.need < x /\ c.data # <<>>)
  BY <1>4, <1>5, <1>8, EmptySeq DEF x
<1>15. Tell' = Given + m
  <2>1. Tell' = Size - (Size - g) - Len(st'.buffer) + st'.offset
    BY <1>6 DEF Tell
  <2> QED BY SMTT(20), ZenonT(30), <1>4, <1>5, <1>6, <1>8, <1>9, <1>12, <1>13, <1>14,
              <2>1
<1>16. StateType'
  <2>1. st' \in [crc : Seq(Byte), compressLeft : Int, left : Int,
                 buffer : Seq(Byte), offset : Int, eof : BOOLEAN,
                 decrypted : Seq(Unit), tail : Seq(Unit), pending : Seq(Byte),
                 ended : BOOLEAN]
    BY <1>5 DEF StateRecord
  <2>2. st'.left \in 0 .. Size
    BY <1>6, <1>9
  <2>3. st'.offset \in 0 .. Len(st'.buffer)
    BY <1>4, <1>5, <1>8, <1>14
  <2>4. Tell' \in 0 .. Size
    <3>1. m \in Int /\ 0 <= m /\ m <= x /\ x \in Int /\ Given \in Int /\ 0 <= Given
      BY <1>8, <1>9, <1>11
    <3>2. g <= Size /\ g = Given + x /\ Size \in Int
      BY <1>6, <1>9, <1>13
    <3>3. 0 <= Given + m /\ Given + m <= Size /\ Given + m \in Int
      BY <3>1, <3>2
    <3> QED BY <1>15, <3>3
  <2> QED BY <2>1, <2>2, <2>3, <2>4 DEF StateType
<1>17. CallType' /\ call' # NoCall
  <2>1. call'.op # "none"
    BY <1>4, <1>11
  <2>2. call' # NoCall
    BY <2>1 DEF NoCall
  <2> QED BY <1>11, <2>1, <2>2 DEF CallType
<1>18. Types'
  <2>1. /\ entry \in Entries /\ last \in [asked : Nat, bytes : Seq(Byte)]
        /\ expected \in BOOLEAN /\ closed \in BOOLEAN /\ broken \in BOOLEAN
        /\ skipped \subseteq {"seek", "refused seek", "refused trailer"}
    BY DEF Types
  <2>2. rawPos' \in Nat
    BY <1>3, <1>7
  <2> QED BY <1>1, <1>4, <1>16, <1>17, <2>1, <2>2 DEF Types
<1>19. /\ \A i, j : Span(i, j)' = Span(i, j)
       /\ \A k : Off(k)' = Off(k)
       /\ EndOff' = EndOff /\ Stored' = Stored /\ Direct' = Direct /\ Data' = Data
  BY <1>1, SameMember
<1>20. RawInStep'
  <2>1. Direct \/ ~st'.eof => rawPos' = p
    BY <1>3 DEF Direct, Aes
  <2>2. st.compressLeft = entry.csize - rawPos
    BY <1>4, <1>10 DEF RawInStep
  <2>3. st'.compressLeft = entry.csize - p
    <3>1. p = rawPos + Len(c.input)
      BY DEF p
    <3> QED BY <1>5, <1>8, <1>9, <2>2, <3>1
  <2>4. ~Direct => p <= Len(entry.raw)
    BY <1>7 DEF Follows
  <2>5. Stored => st'.tail = <<>> /\ st'.pending = <<>> /\ ~st'.ended
    BY <1>5, <1>7
  <2>6. Stored => p = Given'
    BY <1>7, <1>13
  <2> QED BY <1>1, <1>6, <1>19, <2>1, <2>3, <2>4, <2>5, <2>6 DEF RawInStep
<1>21. KeptFollows'
  <2>1. SUFFICES ASSUME ~st'.eof, ~Stored PROVE KeptFollows'
    BY <1>19 DEF KeptFollows
  <2>2. rawPos' = p /\ GoesOn(c, p) /\ Given' = Given + Len(c.data)
    BY <1>3, <1>5, <1>7, <1>13, <2>1 DEF x
  <2>3. Used' = p - Len(c.tail)
    BY <1>5, <2>2 DEF Used
  <2>4. Ends(entry.raw)' = Ends(entry.raw) /\ Reach(entry.raw)' = Reach(entry.raw)
    BY <1>1
  <2> QED BY <1>1, <1>5, <1>19, <2>2, <2>3, <2>4 DEF KeptFollows, GoesOn
<1>22. GivenIsKnown'
  <2>1. ~expected => Direct /\ skipped # {}
    BY <1>10 DEF GivenIsKnown
  <2>2. st'.buffer = Span(g - Len(st'.buffer), g) /\ Len(st'.buffer) <= g
    <3>1. CASE call.need < x
      <4>1. st'.buffer = c.data /\ Len(st'.buffer) = x
        BY <1>5, <1>14, <3>1
      <4>2. g - Len(st'.buffer) = Given /\ Len(st'.buffer) <= g
        BY <1>8, <1>9, <1>13, <4>1
      <4> QED BY <1>7, <4>1, <4>2
    <3>2. CASE ~(call.need < x)
      <4>1. st'.buffer = <<>> /\ Len(st'.buffer) = 0
        BY <1>5, <1>14, <3>2
      <4>2. g - Len(st'.buffer) = g /\ Len(st'.buffer) <= g /\ g \in Int
        BY <1>6, <4>1
      <4>3. Span(g, g) = <<>>
        BY <4>2, SpanEmpty
      <4> QED BY <4>1, <4>2, <4>3
    <3> QED BY <3>1, <3>2
  <2>3. st'.buffer # <<>> => g <= EndOff
    BY <1>7, <1>14
  <2> QED BY <1>1, <1>6, <1>13, <1>19, <2>1, <2>2, <2>3 DEF GivenIsKnown
<1>23. ASSUME st'.eof, HonestMacs, skipped = {} PROVE Data = Content
  <2>1. expected /\ CheckIntegrity(st', p)
    <3>1. expected \in BOOLEAN
      BY DEF Types
    <3> QED BY <1>3, <1>10, <1>23, <3>1 DEF GivenIsKnown
  <2>2. /\ Extent \in Nat /\ Extent <= Size /\ Extent <= EndOff
        /\ Data = Span(0, Extent) /\ Len(Stream(entry.raw)) = EndOff
        /\ Stream(entry.raw) = Span(0, EndOff)
    BY <1>9, DataFacts
  <2>3. CASE ~Aes \/ entry.enc = "aes1"
    <3>1. st'.crc = Content
      BY <2>1, <2>3 DEF CheckIntegrity
    <3>2. Content = Span(0, g) /\ g <= EndOff
      BY <1>6, <2>1, <3>1
    <3>3. Size = g
      <4>1. 0 \in Int /\ g \in Int /\ 0 <= 0 /\ 0 <= g /\ g <= Len(All) /\ g - 0 = g
        BY <1>6, <1>9, <3>2
      <4>2. Len(Span(0, g)) = g - 0
        BY <1>9, <4>1, SpanType
      <4>3. Size = Len(Span(0, g))
        BY <3>2 DEF Size
      <4> QED BY <4>1, <4>2, <4>3
    <3>4. Extent = g
      BY <1>6, <1>9, <3>2, <3>3 DEF Extent
    <3> QED BY <2>2, <3>2, <3>4
  <2>4. CASE Aes /\ entry.enc # "aes1"
    <3>1. entry.enc = "aes2"
      BY <2>4 DEF Aes
    <3>2. st'.decrypted = entry.mac /\ p = entry.csize
      BY <2>1, <2>4 DEF CheckIntegrity
    <3>3. st'.decrypted = SubSeq(entry.raw, 1, p) /\ p <= Len(entry.raw)
      BY <1>6, <3>1
    <3>4. entry.raw \in Seq(Unit) /\ Len(entry.raw) \in Nat /\ Len(entry.raw) <= entry.csize
      BY <1>9, EntryFacts
    <3>5. p = Len(entry.raw)
      BY <1>7, <1>9, <3>2, <3>3, <3>4
    <3>6. SubSeq(entry.raw, 1, Len(entry.raw)) = entry.raw
      BY <3>4, SubSeqFull
    <3>7. entry.mac = entry.raw
      BY <3>2, <3>3, <3>5, <3>6, Zenon
    <3>8. Stream(entry.raw) = Content
      BY <1>9, <1>23, <3>1, <3>7 DEF HonestMacs
    <3>9. EndOff = Size
      BY <2>2, <3>8 DEF Size
    <3>10. Extent = EndOff
      BY <1>9, <3>9 DEF Extent
    <3> QED BY <2>2, <3>8, <3>10
  <2> QED BY <2>3, <2>4
<1>24. EndIsReached'
  BY <1>1, <1>6, <1>13, <1>19, <1>23 DEF EndIsReached, HonestMacs
<1>25. CallInStep'
  <2> DEFINE part == SubSeq(c.data, 1, m)
             at == call.at
  <2>1. call'.need > 0 => st'.buffer = <<>>
    <3>1. CASE call.op = "readall"
      <4>1. call.need = MaxN
        BY <1>10, <3>1 DEF CallInStep
      <4>2. ~(call.need < x)
        BY <1>6, <1>8, <1>9, <1>13, <4>1
      <4> QED BY <1>5, <4>2
    <3>2. CASE call.op = "read1" /\ c.data # <<>>
      BY <1>11, <3>2
    <3>3. CASE call.op # "readall" /\ ~(call.op = "read1" /\ c.data # <<>>)
      <4>1. call'.need = call.need - m
        BY <1>11, <3>3
      <4>2. call'.need > 0 => ~(call.need < x)
        BY <1>4, <1>8, <1>12, <4>1
      <4> QED BY <1>5, <4>2
    <3> QED BY <3>1, <3>2, <3>3
  <2>2. /\ part = Span(Given, Given + m) /\ part \in Seq(Byte) /\ Len(part) = m
        /\ c.data # <<>> => Given + m <= EndOff
        /\ c.data = <<>> => m = 0 /\ part = <<>>
    <3>1. CASE c.data = <<>>
      <4>1. x = 0
        BY <3>1, EmptySeq DEF x
      <4>2. m = 0 /\ Given + m = Given
        BY <1>9, <1>11, <4>1
      <4>3. part = <<>>
        <5>1. part = SubSeq(<<>>, 1, 0)
          BY <3>1, <4>2
        <5>2. SubSeq(<<>>, 1, 0) = <<>>
          BY SubSeqEmpty
        <5> QED BY <5>1, <5>2
      <4>4. Span(Given, Given) = <<>>
        BY <1>9, SpanEmpty
      <4>5. Len(<<>>) = 0 /\ <<>> \in Seq(Byte)
        BY EmptySeq
      <4> HIDE DEF part
      <4> QED BY <3>1, <4>2, <4>3, <4>4, <4>5
    <3>2. CASE c.data # <<>>
      <4>1. g <= EndOff
        BY <1>7, <3>2
      <4> DEFINE z == 0
                 e == Given + m
      <4>2. /\ z \in Int /\ 0 <= z /\ z <= m /\ m \in Int /\ m <= g - Given
            /\ Given \in Int /\ 0 <= Given /\ Given <= g /\ g <= Len(All) /\ g \in Int
            /\ z + 1 = 1 /\ Given + z = Given /\ e <= EndOff /\ Given <= e /\ e <= Len(All)
            /\ e \in Int /\ e - Given = m
        BY <1>6, <1>8, <1>9, <1>11, <1>13, <4>1
      <4> HIDE DEF z
      <4>3. Part(Span(Given, g), z, m) = Span(Given + z, Given + m)
        BY <1>9, <4>2, SpanPart
      <4>4. part = Part(Span(Given, g), z, m)
        BY <1>7, <4>2 DEF Part
      <4>5. part = Span(Given, e)
        BY <4>2, <4>3, <4>4, Zenon
      <4> HIDE DEF e
      <4>6. Span(Given, e) \in Seq(Byte) /\ Len(Span(Given, e)) = e - Given
        BY <1>9, <4>2, SpanType
      <4> HIDE DEF part
      <4>7. part \in Seq(Byte) /\ Len(part) = m
        BY <4>2, <4>5, <4>6
      <4>8. part = Span(Given, Given + m) /\ Given + m <= EndOff
        BY <4>2, <4>5 DEF e
      <4> QED BY <3>2, <4>7, <4>8
    <3> QED BY <3>1, <3>2
  <2> HIDE DEF part
  <2>3. call'.acc = call.acc \o part /\ call.acc \in Seq(Byte) /\ Len(call.acc) \in Nat
        /\ Len(call'.acc) = Len(call.acc) + m
    <3>1. call'.acc = call.acc \o part /\ call.acc \in Seq(Byte) /\ Len(call.acc) \in Nat
      BY <1>11, CallFacts DEF part
    <3>2. Len(call.acc \o part) = Len(call.acc) + Len(part)
      BY <2>2, <3>1, ConcatProperties
    <3> QED BY <2>2, <3>1, <3>2
  <2>4. ASSUME call.op \in {"read", "readall", "read1", "peek"}
        PROVE  /\ at + Len(call'.acc) = Tell'
               /\ call'.acc = Span(at, Tell')
               /\ call'.acc # <<>> => Tell' <= EndOff
    <3>1. /\ at + Len(call.acc) = Given /\ call.acc = Span(at, Given)
          /\ call.acc # <<>> => Given <= EndOff
      BY <1>4, <1>10, <2>4 DEF CallInStep
    <3>2. at \in Int /\ 0 <= at /\ at <= Given
      <4>1. at \in 0 .. Size
        BY CallFacts
      <4>2. at \in Int /\ 0 <= at
        BY <1>9, <4>1
      <4> HIDE DEF at
      <4> QED BY <1>9, <2>3, <3>1, <4>2
    <3>3. at + Len(call'.acc) = Tell'
      <4> DEFINE y == Len(call.acc)
      <4>1. y \in Int /\ m \in Int /\ Given \in Int /\ at + y = Given
        BY <1>9, <1>11, <2>3, <3>1
      <4>2. Len(call'.acc) = y + m
        BY <2>3
      <4> HIDE DEF at, y
      <4>3. at + (y + m) = Given + m
        BY <3>2, <4>1
      <4> QED BY <1>15, <4>2, <4>3
    <3>4. CASE c.data = <<>>
      <4>1. part = <<>> /\ m = 0 /\ Tell' = Given
        BY <1>9, <1>15, <2>2, <3>4
      <4>2. call.acc \o <<>> = call.acc
        BY <2>3, ConcatEmptySeq
      <4>3. call'.acc = call.acc
        BY <2>3, <4>1, <4>2
      <4> QED BY <3>1, <3>3, <4>1, <4>3
    <3>5. CASE c.data # <<>>
      <4> DEFINE e == Given + m
      <4>1. /\ e <= EndOff /\ Tell' = e /\ e \in Int /\ Given <= e /\ e <= Len(All)
            /\ Given \in Int
        BY <1>9, <1>11, <1>15, <2>2, <3>5
      <4>2. part = Span(Given, e)
        BY <2>2
      <4> HIDE DEF e, at
      <4>3. Span(at, Given) \o Span(Given, e) = Span(at, e)
        BY <1>9, <3>2, <4>1, SpansJoin
      <4>4. call'.acc = Span(at, e)
        BY <2>3, <3>1, <4>2, <4>3, Zenon
      <4> QED BY <3>3, <4>1, <4>4
    <3> QED BY <3>4, <3>5
  <2>5. call.op \in {"read", "peek"} => call.asked = Len(call'.acc) + call'.need
    <3>1. SUFFICES ASSUME call.op \in {"read", "peek"}
                   PROVE  call.asked = Len(call'.acc) + call'.need
      OBVIOUS
    <3>2. call.asked = Len(call.acc) + call.need
      BY <1>10, <3>1 DEF CallInStep
    <3>3. call'.need = call.need - m
      BY <1>11, <3>1
    <3> DEFINE y == Len(call.acc)
    <3>4. y \in Int /\ m \in Int /\ call.need \in Int
      BY <1>4, <1>11, <2>3
    <3>5. call.asked = y + call.need /\ Len(call'.acc) = y + m
      BY <2>3, <3>2
    <3> HIDE DEF y
    <3>6. y + call.need = (y + m) + (call.need - m)
      BY <3>4
    <3> QED BY <3>3, <3>5, <3>6
  <2>6. ~(call.op = "read1" /\ call'.need = 0 /\ call'.acc = <<>>)
    <3>1. SUFFICES ASSUME call.op = "read1", call'.need = 0, call'.acc = <<>>
                   PROVE  FALSE
      OBVIOUS
    <3>2. Len(call.acc) + m = 0
      BY <2>3, <3>1, EmptySeq
    <3>3. m = 0 /\ c.data = <<>>
      BY <1>11, <2>3, <3>2
    <3>4. call'.need = call.need - m
      BY <1>11, <3>1, <3>3
    <3> QED BY <1>4, <3>1, <3>3, <3>4
  <2> HIDE DEF at
  <2> QED BY <1>10, <1>11, <1>19, <2>1, <2>4, <2>5, <2>6 DEF CallInStep, at
<1> QED BY <1>11, <1>17, <1>18, <1>20, <1>21, <1>22, <1>24, <1>25 DEF InStep

(* The state after a turn, when nothing is put into the buffer.             *)
LEMMA EmptiedType ==
    ASSUME NEW c, NEW p, Types, Turn(c, p), call.need \in Nat
    PROVE  LET s == Accept(c)
               e == [s EXCEPT !.buffer = <<>>, !.offset = 0]
           IN  /\ e \in StateRecord
               /\ e.compressLeft = st.compressLeft - Len(c.input)
               /\ e.left = s.left /\ s.left = st.left - Len(c.data) /\ e.eof = s.eof
               /\ e.crc = s.crc /\ e.decrypted = s.decrypted
               /\ e.tail = c.tail /\ e.pending = c.pending /\ e.ended = c.ended
               /\ e.buffer = <<>> /\ e.offset = 0 /\ Len(e.buffer) = 0
               /\ ~expected => e.crc = st.crc
               /\ s.eof <=> c.eof \/ (Stored /\ st.left <= Len(c.data))
<1> DEFINE s == Accept(c)
           e == [s EXCEPT !.buffer = <<>>, !.offset = 0]
<1>1. /\ s \in StateRecord
      /\ s.compressLeft = st.compressLeft - Len(c.input)
      /\ s.left = st.left - Len(c.data)
      /\ s.tail = c.tail /\ s.pending = c.pending /\ s.ended = c.ended
      /\ ~expected => s.crc = st.crc
      /\ s.eof <=> c.eof \/ (Stored /\ st.left <= Len(c.data))
  BY AcceptType
<1> HIDE DEF s
<1>2. <<>> \in Seq(Byte) /\ Len(<<>>) = 0 /\ 0 \in Int
  BY EmptySeq
<1>3. e \in StateRecord
  BY <1>1, <1>2 DEF StateRecord
<1>4. /\ e.compressLeft = s.compressLeft /\ e.left = s.left /\ e.eof = s.eof
      /\ e.crc = s.crc /\ e.decrypted = s.decrypted
      /\ e.tail = s.tail /\ e.pending = s.pending /\ e.ended = s.ended
      /\ e.buffer = <<>> /\ e.offset = 0
  BY <1>1 DEF StateRecord
<1> HIDE DEF e
<1>5. Len(e.buffer) = 0
  BY <1>2, <1>4
<1> QED BY <1>1, <1>3, <1>4, <1>5 DEF s, e

LEMMA TrailerRefusedKeeps ==
    ASSUME Types, InStep, TrailerRefused
    PROVE  Types' /\ InStep' /\ call' = NoCall
<1>1. /\ Looping /\ Aes /\ skipped' = skipped \cup {"refused trailer"} /\ Raise
      /\ UNCHANGED <<entry, expected, closed, broken>>
  BY DEF TrailerRefused
<1>2. PICK c \in {Chunk(call.need)} :
          /\ ~RunsOut(c) /\ ~TooLong(c) /\ ~Truncated(c) /\ Accept(c).eof
          /\ st' = [Accept(c) EXCEPT !.buffer = <<>>, !.offset = 0]
          /\ rawPos' = rawPos + Len(c.input)
  BY DEF TrailerRefused
<1> DEFINE p == rawPos + Len(c.input)
           x == Len(c.data)
           g == Given + x
<1>3. /\ c = Chunk(call.need) /\ ~TooLong(c) /\ Accept(c).eof
      /\ st' = [Accept(c) EXCEPT !.buffer = <<>>, !.offset = 0]
      /\ rawPos' = p
  BY <1>2
<1>4. Turn(c, p) /\ call.need \in Nat /\ ~broken
  BY <1>1, <1>3, TurnOfCall
<1>5. /\ st' \in StateRecord /\ st'.eof
      /\ st'.left = Accept(c).left /\ st'.crc = Accept(c).crc
      /\ st'.tail = c.tail /\ st'.pending = c.pending /\ st'.ended = c.ended
      /\ st'.buffer = <<>> /\ st'.offset = 0 /\ Len(st'.buffer) = 0
      /\ ~expected => st'.crc = st.crc
  BY <1>3, <1>4, EmptiedType
<1>6. /\ g \in Nat /\ Given <= g /\ g <= Size /\ Accept(c).left = Size - g
      /\ Size <= g \/ EndOff <= g
      /\ expected \/ ~Direct => g <= EndOff
      /\ expected => Accept(c).crc = Span(0, g)
  BY <1>1, <1>3, AcceptGives
<1>7. /\ p \in Nat
      /\ Stored => c.tail = <<>> /\ c.pending = <<>> /\ ~c.ended
  BY <1>4 DEF Turn, Follows
<1> HIDE DEF p, x, g
<1>8. Size \in Nat /\ entry \in Entries
  BY StateFacts
<1>9. Given' = g /\ Tell' = g
  <2>1. Given' = Size - (Size - g)
    BY <1>5, <1>6 DEF Given
  <2>2. Tell' = Size - (Size - g) - 0 + 0
    BY <1>5, <1>6 DEF Tell
  <2> QED BY <1>6, <1>8, <2>1, <2>2
<1>10. StateType'
  <2>1. st'.left \in 0 .. Size /\ st'.offset \in 0 .. Len(st'.buffer) /\ Tell' \in 0 .. Size
    BY <1>5, <1>6, <1>8, <1>9
  <2> QED BY <1>5, <2>1 DEF StateType, StateRecord
<1>11. /\ CallType' /\ call'.op = "none" /\ call'.need = 0
       /\ last' \in [asked : Nat, bytes : Seq(Byte)] /\ call' = NoCall
  BY <1>1, RaiseType
<1>12. Types'
  <2>1. /\ expected \in BOOLEAN /\ closed \in BOOLEAN /\ broken \in BOOLEAN
        /\ skipped \subseteq {"seek", "refused seek", "refused trailer"}
    BY DEF Types
  <2>2. rawPos' \in Nat
    BY <1>3, <1>7
  <2> QED BY <1>1, <1>4, <1>8, <1>10, <1>11, <2>1, <2>2 DEF Types
<1>13. /\ \A i, j : Span(i, j)' = Span(i, j)
       /\ EndOff' = EndOff /\ Stored' = Stored /\ Direct' = Direct
  BY <1>1, SameMember
<1>14. ~Direct
  BY <1>1 DEF Direct, Aes
<1>15. RawInStep' /\ KeptFollows'
  BY <1>1, <1>5, <1>7, <1>13, <1>14 DEF RawInStep, KeptFollows
<1>16. GivenIsKnown'
  <2>1. g - Len(st'.buffer) = g /\ Len(st'.buffer) <= g /\ g \in Int
    BY <1>5, <1>6
  <2>2. Span(g, g) = <<>>
    BY <2>1, SpanEmpty
  <2>3. st'.buffer = Span(g - Len(st'.buffer), g)
    BY <1>5, <2>1, <2>2, Zenon
  <2>4. expected
    BY <1>14 DEF InStep, GivenIsKnown, Types
  <2> QED BY <1>1, <1>5, <1>6, <1>9, <1>13, <2>1, <2>3, <2>4 DEF GivenIsKnown
<1>17. EndIsReached'
  <2>1. skipped' # {}
    BY <1>1
  <2> QED BY <1>6, <1>9, <1>13, <2>1 DEF EndIsReached
<1>18. CallInStep'
  BY <1>11 DEF CallInStep
<1> QED BY <1>11, <1>12, <1>15, <1>16, <1>17, <1>18 DEF InStep

(* A member that is what its ZipInfo says, with nothing after its stream.   *)
Sound ==
    /\ Data = Content /\ Complete /\ Reach(entry.raw) = Len(entry.raw)
    /\ Len(entry.raw) >= entry.csize /\ entry.mac = entry.raw

LEMMA SoundTurn ==
    ASSUME NEW c, NEW p, Types, InStep, Looping, Sound, c = Chunk(call.need),
           p = rawPos + Len(c.input)
    PROVE  /\ ~RunsOut(c) /\ ~TooLong(c) /\ ~Truncated(c)
           /\ Accept(c).eof => CheckIntegrity([Accept(c) EXCEPT !.buffer = <<>>, !.offset = 0], p)
<1> DEFINE L == Len(entry.raw)
           g == Given + Len(c.data)
<1>1. /\ Turn(c, p) /\ ~st.eof /\ call.need \in Nat
      /\ Demand(call.need) > 0 /\ st.compressLeft > 0 /\ rawPos < L => c.input # <<>>
  BY TurnOfCall
<1>2. /\ entry \in Entries /\ L \in Nat /\ entry.csize \in Nat /\ rawPos \in Nat
      /\ entry.csize = L /\ Size \in Nat /\ Given \in Nat /\ entry.raw \in Seq(Unit)
      /\ st.left \in Int /\ Given = Size - st.left /\ 0 <= st.left /\ EndOff \in Nat
  <2>1. L \in Nat /\ entry.csize \in Nat /\ L <= entry.csize /\ L >= entry.csize
    BY StateFacts, EntryFacts DEF Sound
  <2>2. entry.csize = L
    BY <2>1
  <2> QED BY <2>1, <2>2, StateFacts, EntryFacts, ReachFacts DEF Given
<1>3. EndOff = Size /\ Content = Span(0, Size)
  <2>1. /\ Len(Stream(entry.raw)) = EndOff /\ Data = Span(0, Extent)
    BY <1>2, DataFacts
  <2>2. EndOff = Size
    BY <2>1 DEF Sound, Complete
  <2>3. Extent = Size
    BY <1>2, <2>2 DEF Extent
  <2> QED BY <2>1, <2>2, <2>3 DEF Sound
<1>4. RawInStep /\ GivenIsKnown
  BY DEF InStep
<1>5. /\ c.data \in Seq(Byte) /\ c.input \in Seq(Unit)
      /\ p \in Nat /\ rawPos <= p /\ (~Direct => p <= L)
      /\ c.data # <<>> \/ Given <= EndOff => g <= EndOff
      /\ Stored => g = p
      /\ ~Stored => /\ ~c.eof => GoesOn(c, p)
                    /\ c.ended => Reach(entry.raw) <= p
                    /\ c.eof => c.ended \/ st.compressLeft <= Len(c.input)
                    /\ c.data = <<>> /\ ~c.eof => ~c.ended /\ c.tail = <<>>
  BY <1>1 DEF Turn, Follows
<1>6. /\ Len(c.data) \in Nat /\ Len(c.input) \in Nat
      /\ st.compressLeft = L - rawPos
      /\ st.compressLeft - Len(c.input) = L - p
      /\ st.compressLeft <= Len(c.input) => L <= p
  <2>1. Len(c.data) \in Nat /\ Len(c.input) \in Nat
    BY <1>5, LenProperties
  <2>2. st.compressLeft = L - rawPos
    BY <1>1, <1>2, <1>4 DEF RawInStep
  <2> HIDE DEF L
  <2> QED BY <1>2, <2>1, <2>2
<1> HIDE DEF L
<1>7. ~RunsOut(c)
  <2>1. SUFFICES ASSUME Demand(call.need) > 0, st.compressLeft > 0, c.input = <<>>
                 PROVE  FALSE
    BY DEF RunsOut
  <2>2. ~(rawPos < L)
    BY <1>1, <2>1
  <2> QED BY <1>2, <1>6, <2>1, <2>2
<1>8. ~TooLong(c)
  <2>1. SUFFICES ASSUME Len(c.data) > st.left PROVE FALSE
    BY DEF TooLong
  <2>2. c.data # <<>>
    <3>1. Len(c.data) > 0
      BY <1>2, <1>6, <2>1
    <3> QED BY <3>1, EmptySeq
  <2>3. g <= Size
    BY <1>3, <1>5, <2>2
  <2> QED BY <1>2, <1>6, <2>1, <2>3
<1> HIDE DEF g
<1>9. ~Truncated(c)
  <2>1. SUFFICES ASSUME ~Stored, st.compressLeft - Len(c.input) <= 0, ~c.eof, c.data = <<>>
                 PROVE  FALSE
    BY DEF Truncated
  <2>2. ~c.ended /\ c.tail = <<>> /\ GoesOn(c, p)
    BY <1>5, <2>1
  <2>3. p = L
    <3>1. p <= L
      BY <1>5, <2>1 DEF Direct
    <3> QED BY <1>2, <1>5, <1>6, <2>1, <3>1
  <2>4. p - Len(c.tail) = p
    <3>1. Len(c.tail) = 0
      BY <2>2, EmptySeq
    <3> QED BY <1>5, <3>1
  <2>5. \A k \in 1 .. p : ~entry.raw[k].ends
    BY <2>2, <2>4 DEF GoesOn
  <2>6. Ends(entry.raw) # {} /\ Ends(entry.raw) \subseteq 1 .. L
    <3>1. Ends(entry.raw) # {}
      BY <2>1 DEF Sound, Complete
    <3>2. Ends(entry.raw) \subseteq 1 .. L
      BY <1>2, EntryFacts DEF Ends, L
    <3> QED BY <3>1, <3>2
  <2>7. PICK k \in Ends(entry.raw) : k \in 1 .. p
    BY <2>3, <2>6
  <2>8. entry.raw[k].ends
    BY <2>7 DEF Ends
  <2> QED BY <2>5, <2>7, <2>8
<1>10. ASSUME Accept(c).eof
       PROVE  CheckIntegrity([Accept(c) EXCEPT !.buffer = <<>>, !.offset = 0], p)
  <2> DEFINE s == Accept(c)
             e == [s EXCEPT !.buffer = <<>>, !.offset = 0]
  <2>1. /\ g \in Nat /\ Given <= g /\ g <= Size
        /\ Size <= g \/ EndOff <= g
        /\ expected => s.crc = Span(0, g)
        /\ entry.enc # "none" => s.decrypted = SubSeq(entry.raw, 1, p)
                                 /\ p <= L
    BY <1>8, <1>10, AcceptGives DEF g, L
  <2>2. /\ e.compressLeft = st.compressLeft - Len(c.input)
        /\ e.crc = s.crc /\ e.decrypted = s.decrypted
        /\ c.eof \/ (Stored /\ st.left <= Len(c.data))
    BY <1>1, <1>10, EmptiedType
  <2> HIDE DEF s, e
  <2>3. g = Size
    BY <1>2, <1>3, <2>1
  <2>4. expected => e.crc = Content
    BY <1>3, <2>1, <2>2, <2>3
  <2>5. L <= p
    <3>1. CASE Stored
      <4>1. p = Size
        BY <1>5, <2>3, <3>1
      <4>2. EndOff = L
        <5>1. L \in Nat /\ L <= Len(entry.raw)
          BY <1>2 DEF L
        <5>2. Off(L) = L
          BY <1>2, <3>1, <5>1, OffsetsOfStored
        <5> QED BY <5>2 DEF EndOff, Sound, L
      <4> QED BY <1>2, <1>3, <4>1, <4>2
    <3>2. CASE ~Stored
      <4>1. c.ended => L <= p
        BY <1>5, <3>2 DEF Sound, L
      <4> QED BY <1>5, <1>6, <2>2, <3>2, <4>1
    <3> QED BY <3>1, <3>2
  <2>6. e.compressLeft <= 0
    BY <1>2, <1>5, <1>6, <2>2, <2>5
  <2>7. Aes => e.decrypted = entry.mac /\ p = entry.csize
    <3>1. SUFFICES ASSUME Aes PROVE e.decrypted = entry.mac /\ p = entry.csize
      OBVIOUS
    <3>2. entry.enc # "none"
      BY <3>1 DEF Aes
    <3>3. p = L
      <4>1. p <= L
        BY <2>1, <3>2
      <4>2. p \in Nat
        BY <1>5
      <4> QED BY <1>2, <2>5, <4>1, <4>2
    <3>4. SubSeq(entry.raw, 1, L) = entry.raw
      BY <1>2, SubSeqFull DEF L
    <3>5. e.decrypted = entry.raw
      BY <2>1, <2>2, <3>2, <3>3, <3>4, Zenon
    <3> QED BY <1>2, <3>3, <3>5 DEF Sound
  <2>8. CheckIntegrity(e, p)
    BY <2>4, <2>6, <2>7 DEF CheckIntegrity
  <2> QED BY <2>8 DEF e, s
<1> QED BY <1>7, <1>8, <1>9, <1>10

LEMMA DamageKeeps ==
    ASSUME Types, InStep, FillFindsDamage
    PROVE  /\ Types' /\ broken' = TRUE /\ call' = NoCall
           /\ Unpadded => SoundMembersNeverFail'
<1>1. /\ Looping /\ broken' = TRUE /\ Raise
      /\ UNCHANGED <<entry, expected, closed, skipped>>
  BY DEF FillFindsDamage
<1>2. PICK c \in {Chunk(call.need)} :
          LET p == rawPos + Len(c.input)
              kept == [Accept(c) EXCEPT !.buffer = <<>>, !.offset = 0]
          IN  \/ RunsOut(c) /\ UNCHANGED <<st, rawPos>>
              \/ /\ TooLong(c)
                 /\ st' = [kept EXCEPT !.left = st.left, !.crc = st.crc,
                                       !.eof = c.eof]
                 /\ rawPos' = p
              \/ /\ ~RunsOut(c) /\ ~TooLong(c)
                 /\ Truncated(c) \/ (kept.eof /\ ~CheckIntegrity(kept, p))
                 /\ st' = kept /\ rawPos' = p
  BY DEF FillFindsDamage
<1> DEFINE p == rawPos + Len(c.input)
           kept == [Accept(c) EXCEPT !.buffer = <<>>, !.offset = 0]
<1>3. Turn(c, p) /\ call.need \in Nat
  BY <1>1, TurnOfCall
<1>4. /\ kept \in StateRecord /\ kept.left = Accept(c).left
      /\ kept.buffer = <<>> /\ kept.offset = 0 /\ Len(kept.buffer) = 0
      /\ kept.eof = Accept(c).eof
  BY <1>3, EmptiedType
<1>5. /\ p \in Nat /\ c.eof \in BOOLEAN
  BY <1>3 DEF Turn, Follows
<1>6. /\ Size \in Nat /\ entry \in Entries /\ st.left \in Int /\ 0 <= st.left /\ st.left <= Size
      /\ st.crc \in Seq(Byte)
  BY StateFacts
<1>7. /\ CallType' /\ call' = NoCall /\ last' \in [asked : Nat, bytes : Seq(Byte)]
  BY <1>1, RaiseType
<1>8. StateType' /\ rawPos' \in Nat
  <2>1. CASE RunsOut(c) /\ UNCHANGED <<st, rawPos>>
    BY <2>1 DEF Types, StateType, Tell
  <2>2. CASE /\ TooLong(c) /\ rawPos' = p
             /\ st' = [kept EXCEPT !.left = st.left, !.crc = st.crc, !.eof = c.eof]
    <3> HIDE DEF kept, p
    <3>1. st' \in StateRecord
      BY <1>4, <1>5, <1>6, <2>2 DEF StateRecord
    <3>2. st'.left = st.left /\ st'.buffer = kept.buffer /\ st'.offset = 0
      BY <1>4, <2>2 DEF StateRecord
    <3>3. Len(st'.buffer) = 0
      BY <1>4, <3>2
    <3>4. Tell' = Size - st.left - 0 + 0
      BY <3>2, <3>3 DEF Tell
    <3>5. st'.left \in 0 .. Size /\ st'.offset \in 0 .. Len(st'.buffer) /\ Tell' \in 0 .. Size
      BY <1>6, <3>2, <3>3, <3>4
    <3> QED BY <1>5, <2>2, <3>1, <3>5 DEF StateType, StateRecord
  <2>3. CASE ~TooLong(c) /\ st' = kept /\ rawPos' = p
    <3> DEFINE g == Given + Len(c.data)
    <3>1. g \in Nat /\ g <= Size /\ Accept(c).left = Size - g
      BY <1>1, <2>3, AcceptGives
    <3> HIDE DEF kept, p, g
    <3>2. Tell' = Size - (Size - g) - 0 + 0
      BY <1>4, <2>3, <3>1 DEF Tell
    <3>3. st'.left \in 0 .. Size /\ st'.offset \in 0 .. Len(st'.buffer) /\ Tell' \in 0 .. Size
      BY <1>4, <1>6, <2>3, <3>1, <3>2
    <3> QED BY <1>4, <1>5, <2>3, <3>3 DEF StateType, StateRecord
  <2> QED BY <1>2, <2>1, <2>2, <2>3
<1>9. Types'
  <2>1. /\ expected \in BOOLEAN /\ closed \in BOOLEAN
        /\ skipped \subseteq {"seek", "refused seek", "refused trailer"}
    BY DEF Types
  <2>2. TRUE \in BOOLEAN
    OBVIOUS
  <2> QED BY <1>1, <1>6, <1>7, <1>8, <2>1, <2>2 DEF Types
<1>10. ASSUME Unpadded PROVE SoundMembersNeverFail'
  <2>1. Data' = Data /\ Complete' = Complete
    BY <1>1, SameMember
  <2>2. ~Sound
    <3>1. ASSUME Sound PROVE FALSE
      <4>1. /\ ~RunsOut(c) /\ ~TooLong(c) /\ ~Truncated(c)
            /\ Accept(c).eof => CheckIntegrity(kept, p)
        BY <1>1, <3>1, SoundTurn
      <4> HIDE DEF kept, p
      <4> QED BY <1>2, <1>4, <4>1 DEF kept, p
    <3> QED BY <3>1
  <2>3. Reach(entry.raw) = Len(entry.raw)
    BY <1>6, <1>10 DEF Unpadded
  <2>4. Len(entry.raw) \in Nat /\ entry.csize \in Nat
    BY <1>6, EntryFacts
  <2>5. \/ Data # Content \/ ~Complete
        \/ Len(entry.raw) < entry.csize \/ entry.mac # entry.raw
    BY <2>2, <2>3, <2>4 DEF Sound
  <2> QED BY <1>1, <2>1, <2>5 DEF SoundMembersNeverFail
<1> QED BY <1>1, <1>7, <1>9, <1>10

-----------------------------------------------------------------------------
(* What the client sees                                                     *)

(* The bytes a read of n at position a promises.                            *)
DataSlice(a, n) == SubSeq(Data, a + 1, IF a + n <= Len(Data) THEN a + n ELSE Len(Data))

LEMMA SliceWithin ==
    ASSUME NEW a \in Nat, NEW n \in Nat, entry \in Entries, a + n <= Size,
           n > 0 => a + n <= EndOff
    PROVE  DataSlice(a, n) = Span(a, a + n)
<1>1. /\ Data = Span(0, Extent) /\ Len(Data) = Extent /\ Extent \in Nat
      /\ EndOff <= Len(All) /\ Extent <= EndOff /\ Len(All) \in Nat /\ EndOff \in Nat
      /\ Size \in Nat
  BY DataFacts, EntryFacts, SizeType
<1> DEFINE e == a + n
<1>2. CASE n = 0
  <2>1. Span(a, e) = <<>>
    <3>1. e = a /\ a \in Int
      BY <1>2
    <3> HIDE DEF e
    <3> QED BY <3>1, SpanEmpty
  <2> DEFINE z == IF e <= Len(Data) THEN e ELSE Len(Data)
  <2>2. z \in Int /\ z < a + 1 /\ a + 1 \in Int
    <3> HIDE DEF e
    <3>1. e = a
      BY <1>2 DEF e
    <3> QED BY <1>1, <3>1
  <2>3. DataSlice(a, n) = SubSeq(Data, a + 1, z)
    BY DEF DataSlice
  <2> HIDE DEF z
  <2>4. SubSeq(Data, a + 1, z) = <<>>
    BY <2>2, SubSeqEmpty
  <2> QED BY <2>1, <2>3, <2>4
<1>3. CASE n > 0
  <2>1. e <= Extent /\ e \in Nat /\ a <= e
    BY <1>1, <1>3 DEF Extent
  <2>2. DataSlice(a, n) = Part(Span(0, Extent), a, e)
    BY <1>1, <2>1 DEF DataSlice, Part
  <2> DEFINE z == 0
  <2>3. /\ z \in Int /\ 0 <= z /\ z <= Extent /\ Extent \in Int /\ Extent <= Len(All)
        /\ a \in Int /\ e \in Int /\ 0 <= a /\ e <= Extent - z
        /\ z + a = a /\ z + e = e
    <3> HIDE DEF e
    <3> QED BY <1>1, <2>1
  <2> HIDE DEF z, e
  <2>4. Part(Span(z, Extent), a, e) = Span(z + a, z + e)
    BY <2>1, <2>3, SpanPart
  <2>5. DataSlice(a, n) = Span(a, e)
    BY <2>2, <2>3, <2>4 DEF z
  <2> QED BY <2>5 DEF e
<1> QED BY <1>2, <1>3

LEMMA SliceToTheEnd ==
    ASSUME NEW a \in Nat, NEW n \in Nat, entry \in Entries, a + n >= Extent
    PROVE  /\ a <= Extent => DataSlice(a, n) = Span(a, Extent)
           /\ a >= Extent => DataSlice(a, n) = <<>>
<1>1. /\ Len(Data) = Extent /\ Extent \in Nat /\ Extent <= Size /\ Extent <= EndOff
      /\ EndOff \in Nat
  BY DataFacts
<1>2. DataSlice(a, n) = SubSeq(Data, a + 1, Extent)
  <2>1. (IF a + n <= Extent THEN a + n ELSE Extent) = Extent
    BY <1>1
  <2> QED BY <1>1, <2>1 DEF DataSlice
<1>3. ASSUME a >= Extent PROVE DataSlice(a, n) = <<>>
  <2>1. Extent < a + 1 /\ Extent \in Int /\ a + 1 \in Int
    BY <1>1, <1>3
  <2>2. SubSeq(Data, a + 1, Extent) = <<>>
    BY <2>1, SubSeqEmpty
  <2> QED BY <1>2, <2>2
<1>4. ASSUME a <= Extent PROVE DataSlice(a, n) = Span(a, Extent)
  <2> DEFINE k == Extent - a
  <2>1. k \in Nat /\ a + k = Extent
    BY <1>1, <1>4
  <2> HIDE DEF k
  <2>2. a + k <= Size /\ a + k <= EndOff
    BY <1>1, <2>1
  <2>3. DataSlice(a, k) = Span(a, a + k)
    BY <2>1, <2>2, SliceWithin
  <2>4. DataSlice(a, k) = SubSeq(Data, a + 1, Extent)
    <3>1. (IF a + k <= Extent THEN a + k ELSE Extent) = Extent
      BY <1>1, <2>1
    <3> QED BY <1>1, <3>1 DEF DataSlice
  <2> QED BY <1>2, <2>1, <2>3, <2>4
<1> QED BY <1>3, <1>4

(* What a peek shows.                                                       *)
LEMMA PeekedSlice ==
    Types /\ GivenIsKnown =>
       /\ Peeked(st) = DataSlice(Tell, Len(Peeked(st))) /\ Len(Peeked(st)) \in 0 .. Size
<1> SUFFICES ASSUME Types, GivenIsKnown
             PROVE  /\ Peeked(st) = DataSlice(Tell, Len(Peeked(st)))
                    /\ Len(Peeked(st)) \in 0 .. Size
  OBVIOUS
<1>1. /\ entry \in Entries /\ Tell \in Int /\ 0 <= Tell /\ Given \in Nat /\ Given <= Size
      /\ Size \in Nat /\ EndOff \in Nat
  BY StateFacts, ReachFacts
<1>2. PICK k \in Nat : /\ Peeked(st) = Span(Tell, Tell + k) /\ Len(Peeked(st)) = k
                       /\ Tell + k <= Given /\ (k > 0 => Given <= EndOff)
  BY PeekedIs
<1>3. Tell \in Nat /\ Tell + k <= Size /\ k <= Size /\ (k > 0 => Tell + k <= EndOff)
  BY <1>1, <1>2
<1>4. DataSlice(Tell, k) = Span(Tell, Tell + k)
  BY <1>1, <1>3, SliceWithin
<1>5. k \in 0 .. Size
  BY <1>1, <1>3
<1> QED BY <1>2, <1>4, <1>5

(* What a read returns.                                                     *)
LEMMA ReturnGives ==
    ASSUME Types, InStep, ReadReturns \/ Read1Returns
    PROVE  /\ last'.bytes = call.acc /\ last' = [asked |-> last'.asked, bytes |-> call.acc]
           /\ last'.asked \in Requests \cup {MaxN} \cup 0 .. Size
           /\ last'.asked \in Nat
           /\ \/ last'.asked = Len(call.acc)
              \/ st.eof /\ call.need > 0 /\ call.at + last'.asked >= Tell
<1>1. /\ call.asked \in Nat /\ call.need \in Nat /\ Len(call.acc) \in Nat
      /\ call.at \in Int /\ 0 <= call.at /\ call.acc \in Seq(Byte)
      /\ Tell \in Int /\ Tell <= Size /\ Size \in Nat /\ st.eof \in BOOLEAN
  <2>1. call.at \in 0 .. Size
    BY CallFacts
  <2> QED BY SMTT(20), ZenonT(30), <2>1, CallFacts, StateFacts
<1>2. CallInStep
  BY DEF InStep
<1>3. call.op \in {"read", "readall", "read1"} /\ call.op # "none" /\ ~Looping
  BY DEF ReadReturns, Read1Returns, Returns
<1>4. call.at + Len(call.acc) = Tell /\ (call.need > 0 => st.eof)
  BY <1>2, <1>3 DEF CallInStep, Looping
<1>5. Len(call.acc) \in 0 .. Size
  BY <1>1, <1>4
<1>6. MaxN \in Nat /\ Size < MaxN /\ Requests \subseteq Nat
  BY ExtAssumption
<1>7. CASE ReadReturns /\ call.op = "read"
  <2>1. last' = [asked |-> call.asked, bytes |-> call.acc]
    BY <1>7 DEF ReadReturns
  <2>2. /\ call.asked = Len(call.acc) + call.need /\ call.asked \in Requests \cup {MaxN}
    BY <1>2, <1>7 DEF CallInStep
  <2>3. \/ call.asked = Len(call.acc)
        \/ call.need > 0 /\ call.at + call.asked >= Tell
    BY <1>1, <1>4, <2>2
  <2> QED BY <1>1, <1>4, <2>1, <2>2, <2>3
<1>8. CASE ReadReturns /\ call.op = "readall"
  <2>1. last' = [asked |-> call.asked, bytes |-> call.acc]
    BY <1>8 DEF ReadReturns
  <2>2. /\ call.asked = MaxN /\ call.need = MaxN
    BY <1>2, <1>8 DEF CallInStep
  <2>3. call.need > 0 /\ call.at + call.asked >= Tell
    BY <1>1, <1>6, <2>2
  <2> QED BY <1>4, <1>6, <2>1, <2>2, <2>3
<1>9. CASE Read1Returns /\ call.acc = <<>>
  <2>1. last' = [asked |-> call.asked, bytes |-> call.acc] /\ call.op = "read1"
    BY <1>9 DEF Read1Returns, Returns
  <2>2. /\ call.asked \in Requests \cup {MaxN}
        /\ call.need = 0 => call.asked = 0
    BY <1>2, <1>9, <2>1 DEF CallInStep
  <2>3. Len(call.acc) = 0
    BY <1>9, EmptySeq
  <2>4. \/ call.asked = Len(call.acc)
        \/ call.need > 0 /\ call.at + call.asked >= Tell
    BY <1>1, <1>4, <2>2, <2>3
  <2> QED BY <1>1, <1>4, <2>1, <2>2, <2>4
<1>10. CASE Read1Returns /\ call.acc # <<>>
  <2>1. last' = [asked |-> Len(call.acc), bytes |-> call.acc]
    BY <1>10 DEF Read1Returns, Showing
  <2> QED BY <1>1, <1>5, <2>1
<1>11. ReadReturns => call.op \in {"read", "readall"}
  BY DEF ReadReturns, Returns
<1> QED BY <1>7, <1>8, <1>9, <1>10, <1>11

LEMMA ReturnSlice ==
    ASSUME Types, InStep, ReadReturns \/ Read1Returns
    PROVE  /\ last'.bytes = DataSlice(call.at, last'.asked)
           /\ call.at + Len(last'.bytes) = Tell
<1> DEFINE at == call.at
           n == last'.asked
<1>1. /\ entry \in Entries /\ Tell \in Int /\ 0 <= Tell /\ Tell <= Size /\ Given \in Nat
      /\ Size \in Nat /\ EndOff \in Nat /\ Extent \in Nat
  BY StateFacts, ReachFacts, DataFacts
<1>2. at \in Nat /\ Len(call.acc) \in Nat
  <2>1. at \in 0 .. Size
    BY CallFacts
  <2> HIDE DEF at
  <2> QED BY <1>1, <2>1, CallFacts
<1>3. /\ at + Len(call.acc) = Tell /\ call.acc = Span(at, Tell)
      /\ call.acc # <<>> => Tell <= EndOff
      /\ call.need > 0 => st.buffer = <<>>
  <2>1. call.op \in {"read", "readall", "read1"}
    BY DEF ReadReturns, Read1Returns, Returns
  <2> QED BY <2>1 DEF InStep, CallInStep
<1>4. /\ last'.bytes = call.acc /\ n \in Nat
      /\ \/ n = Len(call.acc)
         \/ st.eof /\ call.need > 0 /\ at + n >= Tell
  BY ReturnGives
<1> HIDE DEF at, n
<1>5. CASE n = Len(call.acc)
  <2>1. at + n = Tell /\ at + n <= Size
    BY <1>1, <1>2, <1>3, <1>5
  <2>2. n > 0 => at + n <= EndOff
    <3>1. n > 0 => call.acc # <<>>
      BY <1>5, EmptySeq
    <3> QED BY <1>3, <2>1, <3>1
  <2>3. DataSlice(at, n) = Span(at, at + n)
    BY <1>1, <1>2, <1>4, <2>1, <2>2, SliceWithin
  <2> QED BY <1>3, <1>4, <2>1, <2>3 DEF at, n
<1>6. CASE st.eof /\ call.need > 0 /\ at + n >= Tell
  <2>1. Tell = Given
    <3>1. st.buffer = <<>> /\ Tell = Given - Len(st.buffer) + st.offset
      BY <1>3, <1>6, TellIs
    <3>2. Len(st.buffer) = 0
      BY <3>1, EmptySeq
    <3>3. st.offset \in Int /\ 0 <= st.offset /\ st.offset <= Len(st.buffer)
      BY StateFacts
    <3> QED BY <1>1, <3>1, <3>2, <3>3
  <2>2. Extent <= Tell
    <3>1. Size <= Given \/ EndOff <= Given
      BY <1>6 DEF InStep, EndIsReached
    <3> QED BY <1>1, <2>1, <3>1 DEF Extent
  <2>3. at + n >= Extent
    BY <1>1, <1>2, <1>4, <1>6, <2>2
  <2>4. /\ at <= Extent => DataSlice(at, n) = Span(at, Extent)
        /\ at >= Extent => DataSlice(at, n) = <<>>
    BY <1>1, <1>2, <1>4, <2>3, SliceToTheEnd
  <2>5. DataSlice(at, n) = call.acc
    <3>1. CASE call.acc = <<>>
      <4>1. at >= Extent
        <5>1. Len(call.acc) = 0
          BY <3>1, EmptySeq
        <5> QED BY <1>1, <1>2, <1>3, <2>2, <5>1
      <4> QED BY <2>4, <3>1, <4>1
    <3>2. CASE call.acc # <<>>
      <4>1. Extent = Tell
        BY <1>1, <1>3, <2>2, <3>2 DEF Extent
      <4>2. at <= Extent
        BY <1>1, <1>2, <1>3, <4>1
      <4> QED BY <1>3, <2>4, <4>1, <4>2
    <3> QED BY <3>1, <3>2
  <2> QED BY <1>3, <1>4, <2>5 DEF at, n
<1> QED BY <1>4, <1>5, <1>6

(* A step, as the client sees it: nothing has come of it yet; a seek, or a  *)
(* call that was refused; bytes read; bytes shown; damage.                  *)
Asked == Requests \cup {MaxN} \cup 0 .. Size

Quiet ==
    /\ Types' /\ (~broken => InStep') /\ UNCHANGED <<entry, last, broken>>
    /\ skipped \subseteq skipped' /\ Position' = Position

Moves ==
    /\ Types' /\ InStep' /\ UNCHANGED <<entry, broken>>
    /\ last' = Nothing

Reads ==
    /\ Types' /\ InStep' /\ UNCHANGED <<entry, broken, skipped>>
    /\ \E n \in Asked :
          LET bytes == DataSlice(Position, n)
          IN  /\ last' = [asked |-> n, bytes |-> bytes]
              /\ Position' = Position + Len(bytes)
              /\ HonestMacs /\ skipped = {} /\ Len(bytes) < n => Data = Content

Peeks ==
    /\ Types' /\ InStep' /\ UNCHANGED <<entry, broken>> /\ Position' = Position
    /\ \E n \in Asked :
          LET bytes == DataSlice(Position, n)
          IN  last' = [asked |-> Len(bytes), bytes |-> bytes]

Damages ==
    /\ Types' /\ UNCHANGED entry /\ broken' = TRUE
    /\ Unpadded => SoundMembersNeverFail'

LEMMA CallBegins ==
    ASSUME Idle, Types', InStep', call'.at = Tell, call' # NoCall,
           UNCHANGED <<entry, last, broken>>, skipped \subseteq skipped'
    PROVE  Quiet
BY DEF Quiet, Position, Idle

LEMMA StartGives ==
    ASSUME Types, ~broken => InStep, Start
    PROVE  Quiet \/ Moves \/ Reads \/ Peeks
<1>1. ASSUME NEW n \in Requests, Read(n) \/ Read1(n) \/ Peek(n) PROVE Quiet
  <2>1. /\ Ready /\ UNCHANGED <<entry, rawPos, expected, closed, last, skipped, broken>>
    BY <1>1 DEF Read, Read1, Peek
  <2>2. Types' /\ InStep' /\ call'.at = Tell /\ call' # NoCall
    BY <1>1, <2>1, ReadKeeps DEF Ready
  <2>3. Idle /\ skipped \subseteq skipped'
    BY <2>1 DEF Ready
  <2> QED BY <2>1, <2>2, <2>3, CallBegins
<1>2. ASSUME NEW n \in Requests, PeekBuffer(n) PROVE Peeks
  <2>1. /\ Ready /\ last' = Showing(Peeked(st))
        /\ UNCHANGED <<entry, rawPos, st, expected, closed, call, skipped, broken>>
    BY <1>2 DEF PeekBuffer
  <2>2. Types' /\ InStep'
    BY <1>2, <2>1, PeekBufferKeeps DEF Ready
  <2>3. Position = Tell /\ Position' = Position
    BY <2>1 DEF Ready, Idle, Position, Tell
  <2>4. Peeked(st) = DataSlice(Tell, Len(Peeked(st))) /\ Len(Peeked(st)) \in 0 .. Size
    BY <2>1, PeekedSlice DEF Ready, InStep
  <2> DEFINE n0 == Len(Peeked(st))
             bytes == DataSlice(Position, n0)
  <2>5. n0 \in Asked /\ bytes = Peeked(st)
    BY <2>3, <2>4 DEF Asked
  <2>6. last' = [asked |-> Len(bytes), bytes |-> bytes]
    BY <2>1, <2>5 DEF Showing
  <2> HIDE DEF n0
  <2> QED BY <2>1, <2>2, <2>3, <2>5, <2>6 DEF Peeks
<1>3. ASSUME NEW op \in {"readall", "read1"}, ReadAll(op) PROVE Quiet
  <2>1. /\ Ready /\ UNCHANGED <<entry, rawPos, expected, closed, last, skipped, broken>>
    BY <1>3 DEF ReadAll
  <2>2. Types' /\ InStep' /\ call'.at = Tell /\ call' # NoCall
    BY <1>3, <2>1, ReadAllKeeps DEF Ready
  <2>3. Idle /\ skipped \subseteq skipped'
    BY <2>1 DEF Ready
  <2> QED BY <2>1, <2>2, <2>3, CallBegins
<1>4. ASSUME NEW k \in 1 .. MaxRead, ReadLine(k) PROVE Reads
  <2>1. /\ Ready /\ last' = Showing(SubSeq(Ahead, 1, k))
        /\ UNCHANGED <<entry, rawPos, expected, closed, call, skipped, broken>>
    BY <1>4 DEF ReadLine
  <2>2. /\ Types' /\ InStep'
        /\ last'.bytes = Span(Tell, Tell + k) /\ last'.asked = k
        /\ Len(last'.bytes) = k
        /\ Tell' = Tell + k /\ Given <= EndOff /\ Tell + k <= Given
    BY <1>4, <2>1, ReadLineKeeps DEF Ready
  <2>3. /\ entry \in Entries /\ Tell \in Nat /\ Given \in Nat /\ Given <= Size
        /\ Size \in Nat /\ EndOff \in Nat /\ k \in Nat
    <3>1. MaxRead \in Nat
      BY ExtAssumption
    <3>2. /\ entry \in Entries /\ Tell \in Int /\ 0 <= Tell /\ Given \in Nat /\ Given <= Size
          /\ Size \in Nat /\ EndOff \in Nat
      BY StateFacts, ReachFacts
    <3>3. Tell \in Nat /\ k \in Nat
      BY <3>1, <3>2
    <3> QED BY <3>2, <3>3
  <2>4. Tell + k <= Size /\ Tell + k <= EndOff /\ k \in 0 .. Size
    BY <2>2, <2>3
  <2>5. DataSlice(Tell, k) = Span(Tell, Tell + k)
    BY <2>3, <2>4, SliceWithin
  <2> DEFINE bytes == DataSlice(Position, k)
  <2>6. Position = Tell /\ Position' = Tell'
    BY <2>1 DEF Ready, Idle, Position
  <2>7. bytes = last'.bytes /\ Len(bytes) = k /\ k \in Asked
    BY <2>2, <2>4, <2>5, <2>6 DEF Asked
  <2>8. last' = [asked |-> k, bytes |-> bytes]
    <3> DEFINE s == SubSeq(Ahead, 1, k)
    <3>1. last' = [asked |-> Len(s), bytes |-> s]
      BY <2>1 DEF Showing
    <3> HIDE DEF s, bytes
    <3> QED BY <2>2, <2>7, <3>1
  <2>9. Position' = Position + Len(bytes) /\ ~(Len(bytes) < k)
    <3> HIDE DEF bytes
    <3> QED BY <2>2, <2>3, <2>6, <2>7
  <2> QED BY <2>1, <2>2, <2>7, <2>8, <2>9 DEF Reads
<1>5. ASSUME NEW t \in Targets, NEW p, p = Clip(t),
             \/ SeekInBuffer(p) \/ SeekDirect(p) \/ SeekDirectRefused(p)
             \/ SeekBack(p) \/ SeekBackRefused(p) \/ SeekAhead(p)
      PROVE  Quiet \/ Moves
  <2>1. p \in 0 .. Size
    BY <1>5, ClipType
  <2>2. Idle /\ ~broken /\ InStep
    BY <1>5 DEF SeekInBuffer, SeekDirect, SeekDirectRefused, SeekBack, SeekBackRefused,
                SeekAhead, Ready
  <2>3. CASE SeekInBuffer(p) \/ SeekAhead(p) \/ SeekBack(p)
    <3>1. UNCHANGED <<entry, last, broken>> /\ skipped \subseteq skipped'
      BY <2>3 DEF SeekInBuffer, SeekAhead, SeekBack
    <3>2. Types' /\ InStep' /\ call'.at = Tell /\ call' # NoCall
      BY <2>1, <2>2, <2>3, SeekInBufferKeeps, SeekAheadKeeps, SeekBackKeeps
    <3> QED BY <2>2, <3>1, <3>2, CallBegins
  <2>4. CASE SeekDirect(p)
    <3>1. UNCHANGED <<entry, last, broken>> /\ skipped \subseteq skipped'
      BY <2>4 DEF SeekDirect
    <3>2. Types' /\ InStep' /\ call'.at = Tell /\ call' # NoCall
      BY <2>1, <2>2, <2>4, SeekDirectKeeps
    <3> QED BY <2>2, <3>1, <3>2, CallBegins
  <2>5. CASE SeekDirectRefused(p)
    <3>1. UNCHANGED <<entry, broken>> /\ last' = Nothing
      BY <2>5 DEF SeekDirectRefused, Raise
    <3>2. Types' /\ InStep'
      BY <2>1, <2>2, <2>5, SeekDirectRefusedKeeps
    <3> QED BY <3>1, <3>2 DEF Moves
  <2>6. CASE SeekBackRefused(p)
    <3>1. UNCHANGED <<entry, broken>> /\ last' = Nothing
      BY <2>6 DEF SeekBackRefused, Raise
    <3>2. Types' /\ InStep'
      BY <2>1, <2>2, <2>6, RefusedKeeps
    <3> QED BY <3>1, <3>2 DEF Moves
  <2> QED BY <1>5, <2>3, <2>4, <2>5, <2>6
<1>6. ASSUME Close PROVE Quiet
  <2>1. UNCHANGED <<entry, rawPos, st, expected, call, last, skipped, broken>> /\ call = NoCall
    BY <1>6 DEF Close, Idle
  <2>2. Types' /\ (InStep => InStep')
    BY <1>6, CloseKeeps
  <2>3. Position' = Position
    BY <2>1 DEF Position, Idle, Tell
  <2> QED BY <2>1, <2>2, <2>3 DEF Quiet
<1>7. \/ \E n \in Requests : Read(n) \/ Read1(n) \/ PeekBuffer(n) \/ Peek(n)
      \/ \E op \in {"readall", "read1"} : ReadAll(op)
      \/ \E k \in 1 .. MaxRead : ReadLine(k)
      \/ \E t \in Targets : LET p == Clip(t) IN
            \/ SeekInBuffer(p) \/ SeekDirect(p) \/ SeekDirectRefused(p)
            \/ SeekBack(p) \/ SeekBackRefused(p) \/ SeekAhead(p)
      \/ Close
  BY DEF Start
<1> QED BY <1>1, <1>2, <1>3, <1>4, <1>5, <1>6, <1>7

LEMMA StepGives ==
    ASSUME Types, ~broken => InStep, Step
    PROVE  Quiet \/ Moves \/ Reads \/ Peeks \/ Damages
<1>1. call.op # "none"
  BY DEF Step, Fill, FillFindsDamage, FillRefused, TrailerRefused, ReadReturns,
         Read1Returns, PeekReturns, SeekOn, SeekReturns, Looping, Returns
<1>2. ~broken /\ InStep /\ ~Idle
  <2>1. ~broken /\ call # NoCall
    BY <1>1, CallFacts
  <2> QED BY <2>1 DEF Idle
<1>3. Position = call.at
  BY <1>2 DEF Position
<1>4. ASSUME call' = NoCall PROVE Position' = Tell'
  BY <1>4 DEF Position, Idle
<1>5. CASE Fill \/ SeekOn
  <2>1. UNCHANGED <<entry, last, broken, skipped>>
    BY <1>5 DEF Fill, SeekOn
  <2>2. Types' /\ InStep' /\ call'.at = call.at /\ call' # NoCall
    BY <1>2, <1>5, FillKeeps, SeekOnKeeps
  <2>3. Position' = Position
    BY <1>3, <2>2 DEF Position, Idle
  <2> QED BY <2>1, <2>2, <2>3 DEF Quiet
<1>6. CASE FillFindsDamage
  <2>1. entry' = entry
    BY <1>6 DEF FillFindsDamage
  <2> QED BY <1>2, <1>6, <2>1, DamageKeeps DEF Damages
<1>7. CASE FillRefused \/ TrailerRefused \/ SeekReturns
  <2>1. UNCHANGED <<entry, broken>> /\ last' = Nothing
    BY <1>7 DEF FillRefused, TrailerRefused, SeekReturns, Raise
  <2>2. Types' /\ InStep'
    <3>1. 0 \in 0 .. Size
      BY SizeType
    <3> QED BY <1>2, <1>7, <3>1, RefusedKeeps, TrailerRefusedKeeps, ReturnsKeep
  <2> QED BY <2>1, <2>2 DEF Moves
<1>8. CASE PeekReturns
  <2>1. UNCHANGED <<entry, broken>>
    BY <1>8 DEF PeekReturns
  <2>2. /\ Types' /\ InStep' /\ Tell' = call.at /\ call' = NoCall
        /\ last' = Showing(Peeked(st'))
    BY <1>2, <1>8, PeekReturnsKeeps
  <2>3. Position' = Position
    BY <1>3, <1>4, <2>2
  <2>4. (Types /\ GivenIsKnown =>
           /\ Peeked(st) = DataSlice(Tell, Len(Peeked(st))) /\ Len(Peeked(st)) \in 0 .. Size)'
    BY PeekedSlice, PTL
  <2>5. Types' /\ GivenIsKnown'
    BY <2>2 DEF InStep
  <2> DEFINE n0 == Len(Peeked(st'))
             bytes == DataSlice(Position, n0)
  <2>6. Peeked(st') = DataSlice(Tell, Len(Peeked(st)))' /\ n0 \in 0 .. Size
    BY <2>4, <2>5
  <2>7. DataSlice(Tell, Len(Peeked(st)))' = DataSlice(Tell', n0)
    <3>1. Data' = Data
      BY <2>1, SameMember
    <3> QED BY <3>1 DEF DataSlice
  <2>8. n0 \in Asked /\ bytes = Peeked(st')
    BY <1>3, <2>2, <2>6, <2>7 DEF Asked
  <2>9. last' = [asked |-> Len(bytes), bytes |-> bytes]
    BY <2>2, <2>8 DEF Showing
  <2> HIDE DEF n0
  <2> QED BY <2>1, <2>2, <2>3, <2>8, <2>9 DEF Peeks
<1>9. CASE ReadReturns \/ Read1Returns
  <2>1. UNCHANGED <<entry, broken, skipped>>
    BY <1>9 DEF ReadReturns, Read1Returns
  <2>2. Types' /\ InStep' /\ Tell' = Tell /\ call' = NoCall
    BY <1>2, <1>9, ReturnsKeep
  <2> DEFINE n0 == last'.asked
             bytes == DataSlice(Position, n0)
  <2>3. /\ last'.bytes = bytes /\ call.at + Len(last'.bytes) = Tell
    BY <1>2, <1>3, <1>9, ReturnSlice
  <2>4. /\ last'.bytes = call.acc /\ last' = [asked |-> n0, bytes |-> call.acc]
        /\ n0 \in Asked
        /\ \/ n0 = Len(call.acc)
           \/ st.eof
    BY <1>2, <1>9, ReturnGives DEF Asked
  <2> HIDE DEF n0, bytes
  <2>5. Position' = Position + Len(bytes)
    BY <1>3, <1>4, <2>2, <2>3
  <2>6. last' = [asked |-> n0, bytes |-> bytes]
    BY <2>3, <2>4
  <2>7. HonestMacs /\ skipped = {} /\ Len(bytes) < n0 => Data = Content
    <3>1. Len(bytes) < n0 => st.eof
      <4>1. Len(call.acc) \in Nat /\ Len(bytes) = Len(call.acc)
        BY <2>3, <2>4, CallFacts
      <4> QED BY <2>4, <4>1
    <3> QED BY <1>2, <3>1 DEF InStep, EndIsReached
  <2> QED BY <2>1, <2>2, <2>4, <2>5, <2>6, <2>7 DEF Reads, bytes
<1> QED BY <1>5, <1>6, <1>7, <1>8, <1>9 DEF Step

-----------------------------------------------------------------------------
(* The theorems                                                             *)

LEMMA InvInit == Init => Inv /\ Position = 0
<1> SUFFICES ASSUME Init PROVE Inv /\ Position = 0
  OBVIOUS
<1>1. /\ Fresh /\ closed = FALSE /\ skipped = {} /\ broken = FALSE
      /\ call = NoCall /\ last = Nothing
  BY DEF Init, Fresh
<1>2. /\ StateType /\ RawInStep /\ KeptFollows /\ GivenIsKnown /\ EndIsReached /\ Tell = 0
  BY <1>1, FreshIsInStep
<1>3. 0 \in Nat /\ 0 \in 0 .. Size /\ <<>> \in Seq(Byte) /\ Len(<<>>) = 0
  BY SizeType, EmptySeq
<1>4. CallType /\ call.op = "none" /\ call.need = 0
  BY <1>1, <1>3 DEF CallType, NoCall
<1>5. last \in [asked : Nat, bytes : Seq(Byte)] /\ last.asked = 0 /\ last.bytes = <<>>
  BY <1>1, <1>3 DEF Nothing
<1>6. Types
  <2>1. entry \in Entries /\ rawPos = 0 /\ expected = TRUE
    BY <1>1 DEF Fresh
  <2> QED BY <1>1, <1>2, <1>3, <1>4, <1>5, <2>1 DEF Types
<1>7. CallInStep
  BY <1>4 DEF CallInStep
<1>8. ~(Len(last.bytes) < last.asked)
  BY <1>3, <1>5
<1>9. SoundMembersNeverFail /\ EndMeansVerified
  BY <1>1, <1>8 DEF SoundMembersNeverFail, EndMeansVerified
<1>10. Position = 0
  BY <1>1, <1>2 DEF Position, Idle
<1> QED BY <1>2, <1>6, <1>7, <1>9, <1>10 DEF Inv, InStep

LEMMA InvStep == Inv /\ [Next]_vars => Inv'
<1> SUFFICES ASSUME Inv, [Next]_vars PROVE Inv'
  OBVIOUS
<1>1. /\ Types /\ (~broken => InStep)
      /\ Unpadded => SoundMembersNeverFail
      /\ HonestMacs => EndMeansVerified
  BY DEF Inv
<1>2. CASE Quiet
  <2>1. /\ UNCHANGED <<entry, last, broken>> /\ skipped \subseteq skipped'
        /\ Types' /\ (~broken => InStep')
    BY <1>2 DEF Quiet
  <2>2. Data' = Data /\ Complete' = Complete
    BY <2>1, SameMember
  <2>3. Unpadded => SoundMembersNeverFail'
    BY <1>1, <2>1, <2>2 DEF SoundMembersNeverFail
  <2>4. HonestMacs => EndMeansVerified'
    BY <1>1, <2>1, <2>2 DEF EndMeansVerified
  <2> QED BY <2>1, <2>3, <2>4 DEF Inv, Unpadded, HonestMacs
<1>3. CASE Damages
  <2>1. /\ Types' /\ broken' = TRUE /\ Unpadded => SoundMembersNeverFail'
    BY <1>3 DEF Damages
  <2> QED BY <1>3, <2>1 DEF Damages, Inv, EndMeansVerified, Unpadded, HonestMacs
<1>4. ASSUME Types', InStep', UNCHANGED <<entry, broken>>,
             \/ ~(Len(last'.bytes) < last'.asked)
             \/ HonestMacs /\ skipped' = {} => Data = Content
      PROVE  Inv'
  <2>1. Data' = Data /\ Complete' = Complete
    BY <1>4, SameMember
  <2>2. Unpadded => SoundMembersNeverFail'
    BY <1>1, <1>4, <2>1 DEF SoundMembersNeverFail
  <2>3. HonestMacs => EndMeansVerified'
    BY <1>4, <2>1 DEF EndMeansVerified
  <2> QED BY <1>4, <2>2, <2>3 DEF Inv, Unpadded, HonestMacs
<1>5. CASE Moves
  <2>1. ~(Len(last'.bytes) < last'.asked)
    <3>1. last'.asked = 0 /\ last'.bytes = <<>>
      BY <1>5 DEF Moves, Nothing
    <3>2. Len(<<>>) = 0
      BY EmptySeq
    <3> QED BY <3>1, <3>2
  <2> QED BY <1>4, <1>5, <2>1 DEF Moves
<1>6. CASE Reads
  <2>1. PICK n \in Asked :
          LET bytes == DataSlice(Position, n)
          IN  /\ last' = [asked |-> n, bytes |-> bytes]
              /\ Position' = Position + Len(bytes)
              /\ HonestMacs /\ skipped = {} /\ Len(bytes) < n => Data = Content
    BY <1>6 DEF Reads
  <2> DEFINE bytes == DataSlice(Position, n)
  <2>2. /\ last'.bytes = bytes /\ last'.asked = n
        /\ HonestMacs /\ skipped = {} /\ Len(bytes) < n => Data = Content
    BY <2>1
  <2> HIDE DEF bytes
  <2>3. \/ ~(Len(last'.bytes) < last'.asked)
        \/ HonestMacs /\ skipped' = {} => Data = Content
    BY <1>6, <2>2 DEF Reads
  <2> QED BY <1>4, <1>6, <2>3 DEF Reads
<1>7. CASE Peeks
  <2>1. PICK n \in Asked :
          LET bytes == DataSlice(Position, n)
          IN  last' = [asked |-> Len(bytes), bytes |-> bytes]
    BY <1>7 DEF Peeks
  <2> DEFINE bytes == DataSlice(Position, n)
  <2>2. last'.bytes = bytes /\ last'.asked = Len(bytes)
    BY <2>1
  <2>3. last' \in [asked : Nat, bytes : Seq(Byte)]
    BY <1>7 DEF Peeks, Types
  <2> HIDE DEF bytes
  <2>4. ~(Len(last'.bytes) < last'.asked)
    BY <2>2, <2>3
  <2> QED BY <1>4, <1>7, <2>4 DEF Peeks
<1>8. CASE Next
  <2>1. Quiet \/ Moves \/ Reads \/ Peeks \/ Damages
    BY <1>1, <1>8, StartGives, StepGives DEF Next
  <2> QED BY <1>2, <1>3, <1>5, <1>6, <1>7, <2>1
<1>9. CASE UNCHANGED vars
  <2>1. /\ UNCHANGED <<entry, rawPos, st, expected, closed, call, last, skipped, broken>>
    BY <1>9 DEF vars
  <2>2. Types' = Types
    BY <2>1 DEF Types, StateType, CallType, Tell
  <2>3. InStep => InStep'
    <3>1. ASSUME InStep PROVE InStep'
      <4>1. RawInStep' /\ KeptFollows' /\ EndIsReached' /\ GivenIsKnown'
        <5>1. SameStream
          BY <2>1 DEF SameStream
        <5> QED BY <1>1, <2>1, <3>1, <5>1, StreamKept, KnownKept DEF InStep
      <4>2. CallInStep'
        <5>1. /\ \A i, j : Span(i, j)' = Span(i, j)
              /\ EndOff' = EndOff
          BY <2>1, SameMember
        <5>2. Tell' = Tell
          BY <2>1 DEF Tell
        <5> QED BY <2>1, <3>1, <5>1, <5>2 DEF InStep, CallInStep
      <4> QED BY <4>1, <4>2 DEF InStep
    <3> QED BY <3>1
  <2>4. Position' = Position
    BY <2>1 DEF Position, Idle, Tell
  <2>5. Quiet
    BY <1>1, <2>1, <2>2, <2>3, <2>4 DEF Quiet
  <2> QED BY <1>2, <2>5
<1> QED BY <1>8, <1>9

THEOREM InvAlways == Spec => []Inv
<1>1. Init => Inv
  BY InvInit
<1> QED BY <1>1, InvStep, PTL DEF Spec

(* TypeOK, for every member.                                                *)
THEOREM TypeCorrect == Spec => []TypeOK
<1>1. Inv => TypeOK
  BY TypeOKHolds DEF Inv
<1> QED BY <1>1, InvAlways, PTL

(* The running CRC is that of the bytes handed over so far, whatever the    *)
(* client does.                                                             *)
THEOREM CrcAlwaysCoversPrefix == Spec => []CrcCoversPrefix
<1>1. Inv => CrcCoversPrefix
  <2> SUFFICES ASSUME Inv, ~broken, expected
               PROVE  st.crc = SubSeq(Data, 1, Given)
    BY DEF CrcCoversPrefix, Given
  <2>1. Types /\ GivenIsKnown
    BY DEF Inv, InStep
  <2>2. /\ entry \in Entries /\ Given \in Nat /\ Given <= Size /\ Size \in Nat
        /\ EndOff \in Nat
    BY <2>1, StateFacts, ReachFacts
  <2>3. st.crc = Span(0, Given) /\ Given <= EndOff
    BY <2>1 DEF GivenIsKnown
  <2>4. Len(Data) = Extent /\ Given <= Extent /\ Extent \in Nat
    BY <2>2, <2>3, DataFacts DEF Extent
  <2> DEFINE z == 0
  <2>5. z \in Nat /\ z + Given = Given /\ z + 1 = 1
    BY <2>2
  <2> HIDE DEF z
  <2>6. z + Given <= Size /\ (Given > 0 => z + Given <= EndOff)
    BY <2>2, <2>3, <2>5
  <2>7. DataSlice(z, Given) = Span(z, z + Given)
    BY <2>2, <2>5, <2>6, SliceWithin
  <2>8. DataSlice(z, Given) = SubSeq(Data, 1, Given)
    <3>1. (IF Given <= Len(Data) THEN Given ELSE Len(Data)) = Given
      BY <2>2, <2>4
    <3> QED BY <2>5, <3>1 DEF DataSlice
  <2>9. Span(0, Given) = Span(z, z + Given)
    BY <2>5 DEF z
  <2> QED BY <2>3, <2>7, <2>8, <2>9, Zenon
<1> QED BY <1>1, InvAlways, PTL

(* A client that is told that the member has ended has bytes that were      *)
(* verified, if HMACs are made for what the ZipInfo describes: an AE-2      *)
(* member has no CRC.                                                       *)
THEOREM EndIsVerifiedIfMacsAreHonest ==
    ASSUME HonestMacs PROVE Spec => []EndMeansVerified
<1>1. Inv => EndMeansVerified
  BY DEF Inv
<1> QED BY <1>1, InvAlways, PTL

(* No sound member is called damaged, if nothing follows the end of its     *)
(* stream.                                                                  *)
THEOREM SoundMembersPassIfUnpadded ==
    ASSUME Unpadded PROVE Spec => []SoundMembersNeverFail
<1>1. Inv => SoundMembersNeverFail
  BY DEF Inv
<1> QED BY <1>1, InvAlways, PTL

(* No turn of a loop leaves everything as it was, whatever the data.        *)
THEOREM EveryTurnAlwaysAdvances == Spec => []EveryTurnAdvances
<1>1. Inv => EveryTurnAdvances
  <2> SUFFICES ASSUME Inv, Looping, NEW c, c = Chunk(call.need),
                      c.input = <<>>, c.data = <<>>, ~Accept(c).eof,
                      ~(Len(c.tail) < Len(st.tail))
               PROVE  RunsOut(c) \/ Truncated(c)
    BY DEF EveryTurnAdvances
  <2> DEFINE p == rawPos + Len(c.input)
  <2>1. Types /\ InStep
    BY CallFacts DEF Inv, Looping
  <2>2. Turn(c, p) /\ call.need \in Nat /\ call.need > 0 /\ ~st.eof
    BY <2>1, TurnOfCall
  <2>3. ~(c.eof \/ (Stored /\ st.left <= Len(c.data)))
    BY <2>1, <2>2, AcceptType
  <2> HIDE DEF p
  <2>4. Len(c.input) = 0 /\ st.compressLeft \in Int /\ Len(st.tail) \in Nat /\ st.tail \in Seq(Unit)
    BY <2>1, EmptySeq, StateFacts
  <2>5. CASE Stored
    <3>1. Demand(call.need) > 0
      BY <2>1, <2>2, <2>5, DemandType
    <3>2. st.compressLeft > 0
      BY <2>2, <2>3, <2>4, <2>5 DEF Turn
    <3> QED BY <3>1, <3>2 DEF RunsOut
  <2>6. CASE ~Stored
    <3>1. st.pending = <<>> /\ ~c.ended /\ c.tail = <<>>
      BY <2>2, <2>3, <2>6 DEF Turn
    <3>2. st.tail = <<>>
      <4>1. Len(c.tail) = 0
        BY <3>1, EmptySeq
      <4>2. Len(st.tail) = 0
        BY <2>4, <4>1
      <4> QED BY <2>4, <4>2, EmptySeq
    <3>3. Demand(call.need) > 0
      BY <2>1, <2>2, <3>1, <3>2, DemandType
    <3>4. CASE st.compressLeft > 0
      BY <3>3, <3>4 DEF RunsOut
    <3>5. CASE ~(st.compressLeft > 0)
      BY <2>3, <2>4, <2>6, <3>5 DEF Truncated
    <3> QED BY <3>4, <3>5
  <2> QED BY <2>5, <2>6
<1> QED BY <1>1, InvAlways, PTL

(* A ZipExtFile keeps the promise of MemberBytes.                           *)
THEOREM MembersAreBytes == Spec => ImplementsBytes
<1>1. Init => Promise!Init
  BY InvInit DEF Init, Promise!Init, Promise!Nothing, Nothing
<1>2. Inv /\ [Next]_vars => [Promise!Next]_(Promise!vars)
  <2> SUFFICES ASSUME Inv, [Next]_vars PROVE [Promise!Next]_(Promise!vars)
    OBVIOUS
  <2>1. Types /\ (~broken => InStep)
    BY DEF Inv
  <2>2. ASSUME entry' = entry PROVE Data' = Data
    BY <2>2, SameMember
  <2>3. CASE Quiet
    BY <2>2, <2>3 DEF Quiet, Promise!vars
  <2>4. CASE Damages
    BY <2>2, <2>4 DEF Damages, Promise!Next, Promise!FindDamage
  <2>5. CASE Moves
    <3>1. Types' /\ UNCHANGED <<entry, broken>> /\ last' = Nothing
      BY <2>5 DEF Moves
    <3>2. Position' \in 0 .. Size
      BY <3>1 DEF Types, StateType, CallType, Position
    <3>3. Promise!Move
      BY <2>2, <3>1, <3>2 DEF Promise!Move, Promise!Nothing, Nothing
    <3> QED BY <3>3 DEF Promise!Next
  <2>6. CASE Reads
    <3>1. PICK n \in Asked :
            LET bytes == DataSlice(Position, n)
            IN  /\ last' = [asked |-> n, bytes |-> bytes]
                /\ Position' = Position + Len(bytes)
      BY <2>6 DEF Reads
    <3>2. DataSlice(Position, n) = Promise!Slice(n)
      BY DEF DataSlice, Promise!Slice, Promise!Lesser
    <3>3. Promise!Read
      BY <2>2, <2>6, <3>1, <3>2 DEF Promise!Read, Reads, Asked
    <3> QED BY <3>3 DEF Promise!Next
  <2>7. CASE Peeks
    <3>1. PICK n \in Asked :
            LET bytes == DataSlice(Position, n)
            IN  last' = [asked |-> Len(bytes), bytes |-> bytes]
      BY <2>7 DEF Peeks
    <3>2. DataSlice(Position, n) = Promise!Slice(n)
      BY DEF DataSlice, Promise!Slice, Promise!Lesser
    <3>3. Promise!Peek
      BY <2>2, <2>7, <3>1, <3>2 DEF Promise!Peek, Peeks, Asked
    <3> QED BY <3>3 DEF Promise!Next
  <2>8. CASE Next
    <3>1. Quiet \/ Moves \/ Reads \/ Peeks \/ Damages
      BY <2>1, <2>8, StartGives, StepGives DEF Next
    <3> QED BY <2>3, <2>4, <2>5, <2>6, <2>7, <3>1
  <2>9. CASE UNCHANGED vars
    BY <2>2, <2>9 DEF vars, Promise!vars, Position, Idle, Tell
  <2> QED BY <2>8, <2>9
<1> QED BY <1>1, <1>2, InvAlways, PTL DEF Spec, ImplementsBytes, Promise!Spec
=============================================================================
