---------------------------- MODULE PathDirsProofs ----------------------------
(***************************************************************************)
(* Proofs about PathDirs, for any names and parts, numbers of entries and  *)
(* sessions: what a wrapped archive shows is the tree of its entries, each *)
(* can be reached in it, and inject() completes an archive.                *)
(***************************************************************************)
EXTENDS PathDirs, FoldTheorems

-----------------------------------------------------------------------------
(* Names                                                                    *)

Part == Parts \cup {Empty}
Name == Seq(Part) \ {<<>>}

(* A name without a slash at its end, other than that of the root.          *)
Solid(n) == n \in Name /\ n[Len(n)] # Empty

LEMMA OneOrMore == \A k \in Nat : k >= 1 => k = 1 \/ (k > 1 /\ k # 1)
OBVIOUS

LEMMA NameShape ==
    ASSUME NEW n \in Name
    PROVE  /\ n \in Seq(Part) /\ Len(n) \in Nat /\ Len(n) >= 1
           /\ Len(n) = 1 \/ (Len(n) > 1 /\ Len(n) # 1)
           /\ DOMAIN n = 1 .. Len(n) /\ \A k \in 1 .. Len(n) : n[k] \in Part
<1>1. n \in Seq(Part) /\ n # <<>>
  BY DEF Name
<1>2. Len(n) >= 1
  BY <1>1
<1>3. Len(n) \in Nat
  BY <1>1
<1>4. Len(n) = 1 \/ (Len(n) > 1 /\ Len(n) # 1)
  BY <1>2, <1>3, OneOrMore
<1> QED BY <1>1, <1>2, <1>4

LEMMA RootIsName == Root \in Name /\ Len(Root) = 1 /\ Root[1] = Empty
BY DEF Root, Name, Part

LEMMA GreatestIn ==
    ASSUME NEW n \in Nat, NEW S, S \subseteq 1 .. n, S # {}
    PROVE  \E x \in S : \A y \in S : y <= x
<1> DEFINE T == {(n + 1) - x : x \in S}
<1>1. T \subseteq 1 .. n /\ T # {}
  <2>1. ASSUME NEW x \in S PROVE (n + 1) - x \in 1 .. n
    BY x \in 1 .. n
  <2> QED BY <2>1
<1>2. PICK t \in T : \A y \in T : t <= y
  <2> HIDE DEF T
  <2> QED BY <1>1, LeastUpTo
<1>3. PICK x \in S : t = (n + 1) - x
  OBVIOUS
<1>4. ASSUME NEW y \in S PROVE y <= x
  <2>1. (n + 1) - x <= (n + 1) - y
    BY <1>2, <1>3
  <2>2. x \in 1 .. n /\ y \in 1 .. n
    OBVIOUS
  <2> QED BY <2>1, <2>2
<1> QED BY <1>4

(* The beginning of a name, up to part k.                                   *)
LEMMA Beginning ==
    ASSUME NEW n \in Name, NEW k \in 1 .. Len(n)
    PROVE  /\ SubSeq(n, 1, k) \in Name /\ Len(SubSeq(n, 1, k)) = k
           /\ \A j \in 1 .. k : SubSeq(n, 1, k)[j] = n[j]
<1>1. /\ n \in Seq(Part) /\ k \in Nat /\ 0 \in Nat /\ 0 <= k /\ k <= Len(n)
      /\ 0 + 1 = 1 /\ k - 0 = k
  BY NameShape
<1>2. /\ SubSeq(n, 1, k) \in Seq(Part) /\ Len(SubSeq(n, 1, k)) = k
      /\ \A j \in 1 .. k : SubSeq(n, 1, k)[j] = n[j]
  <2>1. /\ SubSeq(n, 0 + 1, k) \in Seq(Part) /\ Len(SubSeq(n, 0 + 1, k)) = k - 0
        /\ \A j \in 1 .. k - 0 : SubSeq(n, 0 + 1, k)[j] = n[0 + j]
    BY <1>1, Slice
  <2> QED BY <1>1, <2>1
<1>3. SubSeq(n, 1, k) # <<>>
  BY <1>2
<1> QED BY <1>2, <1>3 DEF Name

LEMMA BeginningOfBeginning ==
    ASSUME NEW n \in Name, NEW k \in 1 .. Len(n), NEW j \in 1 .. k
    PROVE  SubSeq(SubSeq(n, 1, k), 1, j) = SubSeq(n, 1, j)
<1> DEFINE a == SubSeq(SubSeq(n, 1, k), 1, j)
           b == SubSeq(n, 1, j)
<1>0. Len(n) \in Nat /\ j \in 1 .. Len(n)
  BY NameShape
<1>1. /\ b \in Name /\ Len(b) = j /\ \A i \in 1 .. j : b[i] = n[i]
  BY <1>0, Beginning
<1>2. /\ SubSeq(n, 1, k) \in Name /\ Len(SubSeq(n, 1, k)) = k
      /\ \A i \in 1 .. k : SubSeq(n, 1, k)[i] = n[i]
  BY Beginning
<1>3. /\ a \in Name /\ Len(a) = j /\ \A i \in 1 .. j : a[i] = SubSeq(n, 1, k)[i]
  BY <1>2, Beginning
<1>4. \A i \in 1 .. j : a[i] = b[i]
  BY <1>1, <1>2, <1>3
<1> HIDE DEF a, b
<1>5. a = b
  <2>1. a \in Seq(Part) /\ b \in Seq(Part)
    BY <1>1, <1>3, NameShape
  <2> QED BY <1>1, <1>3, <1>4, <2>1, SeqEqual
<1> QED BY <1>5 DEF a, b

LEMMA WholeName ==
    ASSUME NEW n \in Name
    PROVE  SubSeq(n, 1, Len(n)) = n
<1>1. Len(n) \in 1 .. Len(n)
  BY NameShape
<1>2. /\ SubSeq(n, 1, Len(n)) \in Name /\ Len(SubSeq(n, 1, Len(n))) = Len(n)
      /\ \A j \in 1 .. Len(n) : SubSeq(n, 1, Len(n))[j] = n[j]
  BY <1>1, Beginning
<1> DEFINE a == SubSeq(n, 1, Len(n))
<1>3. a \in Seq(Part) /\ n \in Seq(Part)
  BY <1>2, NameShape
<1> HIDE DEF a
<1>4. a = n
  BY <1>2, <1>3, SeqEqual DEF a
<1> QED BY <1>4 DEF a

LEMMA WithSlash ==
    ASSUME NEW n \in Name
    PROVE  LET m == Append(n, Empty)
           IN  /\ m \in Name /\ Len(m) = Len(n) + 1 /\ EndsInSlash(m)
               /\ \A k \in 1 .. Len(n) : m[k] = n[k]
               /\ m[Len(n) + 1] = Empty
<1> DEFINE m == Append(n, Empty)
<1>1. n \in Seq(Part) /\ Len(n) \in Nat /\ Len(n) >= 1
  BY NameShape
<1>2. m \in Seq(Part) /\ Len(m) = Len(n) + 1
      /\ (\A k \in 1 .. Len(n) : m[k] = n[k]) /\ m[Len(n) + 1] = Empty
  BY <1>1 DEF Part
<1>3. m # <<>>
  BY <1>1, <1>2
<1> QED BY <1>1, <1>2, <1>3 DEF Name, EndsInSlash

(* rstrip: nothing is left of slashes, and otherwise the name up to its    *)
(* last part that is not empty.                                             *)
LEMMA StrippedRoot ==
    ASSUME NEW n \in Name, \A k \in 1 .. Len(n) : n[k] = Empty
    PROVE  Stripped(n) = Root
BY NameShape DEF Stripped

LEMMA StrippedTo ==
    ASSUME NEW n \in Name, NEW k \in 1 .. Len(n), n[k] # Empty,
           \A j \in 1 .. Len(n) : j > k => n[j] = Empty
    PROVE  Stripped(n) = SubSeq(n, 1, k)
<1> DEFINE full == {j \in DOMAIN n : n[j] # Empty}
           c == CHOOSE x \in full : \A j \in full : j <= x
<1>1. DOMAIN n = 1 .. Len(n) /\ Len(n) \in Nat
  BY NameShape
<1>2. k \in full /\ \A j \in full : j <= k
  BY <1>1
<1>3. c \in full /\ \A j \in full : j <= c
  <2> HIDE DEF full
  <2> QED BY <1>2
<1>4. c = k
  <2>1. c <= k /\ k <= c /\ c \in 1 .. Len(n)
    BY <1>1, <1>2, <1>3
  <2> HIDE DEF c
  <2> QED BY <1>1, <2>1
<1>5. Stripped(n) = SubSeq(n, 1, c)
  BY <1>2 DEF Stripped
<1> QED BY <1>4, <1>5

LEMMA LastPart ==
    ASSUME NEW n \in Name, NEW i \in 1 .. Len(n), n[i] # Empty
    PROVE  \E k \in i .. Len(n) : /\ n[k] # Empty
                                  /\ \A j \in 1 .. Len(n) : j > k => n[j] = Empty
<1> DEFINE full == {j \in 1 .. Len(n) : n[j] # Empty}
<1>1. Len(n) \in Nat
  BY NameShape
<1>2. full \subseteq 1 .. Len(n) /\ full # {}
  OBVIOUS
<1>3. PICK k \in full : \A j \in full : j <= k
  <2> HIDE DEF full
  <2> QED BY <1>1, <1>2, GreatestIn
<1>4. k \in i .. Len(n)
  BY <1>1, <1>3
<1>5. \A j \in 1 .. Len(n) : j > k => n[j] = Empty
  BY <1>1, <1>3
<1> QED BY <1>3, <1>4, <1>5

LEMMA StrippedName ==
    ASSUME NEW n \in Name
    PROVE  /\ Stripped(n) \in Name
           /\ \/ Stripped(n) = Root /\ \A k \in 1 .. Len(n) : n[k] = Empty
              \/ Solid(Stripped(n)) /\ \E k \in 1 .. Len(n) :
                    /\ n[k] # Empty /\ Stripped(n) = SubSeq(n, 1, k)
                    /\ \A j \in 1 .. Len(n) : j > k => n[j] = Empty
<1>1. CASE \A k \in 1 .. Len(n) : n[k] = Empty
  BY <1>1, StrippedRoot, RootIsName
<1>2. CASE \E i \in 1 .. Len(n) : n[i] # Empty
  <2>1. PICK i \in 1 .. Len(n) : n[i] # Empty
    BY <1>2
  <2>2. PICK k \in i .. Len(n) : /\ n[k] # Empty
                                 /\ \A j \in 1 .. Len(n) : j > k => n[j] = Empty
    BY <2>1, LastPart
  <2>3. k \in 1 .. Len(n)
    BY NameShape
  <2>4. Stripped(n) = SubSeq(n, 1, k)
    BY <2>2, <2>3, StrippedTo
  <2>5. SubSeq(n, 1, k) \in Name /\ SubSeq(n, 1, k)[k] = n[k] /\ Len(SubSeq(n, 1, k)) = k
    BY <2>3, Beginning
  <2> QED BY <2>2, <2>3, <2>4, <2>5 DEF Solid
<1> QED BY <1>1, <1>2

LEMMA SolidIsStripped ==
    ASSUME NEW n, Solid(n)
    PROVE  /\ Stripped(n) = n /\ Stripped(Append(n, Empty)) = n
           /\ n # Root /\ n \in Name
<1>1. n \in Name /\ n[Len(n)] # Empty /\ Len(n) \in 1 .. Len(n)
  BY NameShape DEF Solid
<1>2. Stripped(n) = SubSeq(n, 1, Len(n))
  <2>1. \A j \in 1 .. Len(n) : j > Len(n) => n[j] = Empty
    BY <1>1, NameShape
  <2> QED BY <1>1, <2>1, StrippedTo
<1> DEFINE m == Append(n, Empty)
<1>3. /\ m \in Name /\ Len(m) = Len(n) + 1 /\ m[Len(n) + 1] = Empty
      /\ \A k \in 1 .. Len(n) : m[k] = n[k]
  BY <1>1, WithSlash
<1>4. Stripped(m) = SubSeq(m, 1, Len(n))
  <2> HIDE DEF m
  <2>1. Len(n) \in 1 .. Len(m) /\ m[Len(n)] # Empty
    BY <1>1, <1>3, NameShape
  <2>2. \A j \in 1 .. Len(m) : j > Len(n) => m[j] = Empty
    <3>1. Len(n) \in Nat
      BY <1>1, NameShape
    <3> QED BY <1>3, <3>1
  <2> QED BY <1>3, <2>1, <2>2, StrippedTo
<1>5. SubSeq(m, 1, Len(n)) = n
  <2> DEFINE b == SubSeq(m, 1, Len(n))
  <2>1. Len(n) \in 1 .. Len(m) /\ Len(n) \in Nat
    BY <1>1, <1>3, NameShape
  <2>2. b \in Name /\ Len(b) = Len(n) /\ \A j \in 1 .. Len(n) : b[j] = m[j]
    <3> HIDE DEF m
    <3> QED BY <1>3, <2>1, Beginning
  <2>3. \A j \in 1 .. Len(n) : b[j] = n[j]
    BY <1>3, <2>2
  <2>4. b \in Seq(Part) /\ n \in Seq(Part)
    BY <1>1, <2>2, NameShape
  <2> HIDE DEF b
  <2>5. b = n
    BY <2>2, <2>3, <2>4, SeqEqual
  <2> QED BY <2>5 DEF b
<1>6. n # Root
  BY <1>1, RootIsName
<1> QED BY <1>1, <1>2, <1>4, <1>5, <1>6, WholeName

-----------------------------------------------------------------------------
(* Parents                                                                  *)

LEMMA ParentsAre ==
    ASSUME NEW n \in Name, NEW p \in Parents(n)
    PROVE  /\ Solid(p) /\ Solid(Stripped(n))
           /\ \E k \in 1 .. Len(Stripped(n)) - 1 : p = SubSeq(Stripped(n), 1, k)
<1> DEFINE s == Stripped(n)
<1>1. PICK k \in {j \in 1 .. Len(s) - 1 : s[j] # Empty} : p = SubSeq(s, 1, k)
  BY DEF Parents
<1>2. s \in Name
  BY StrippedName
<1>3. k \in 1 .. Len(s) /\ k \in 1 .. Len(s) - 1 /\ s[k] # Empty
  <2> HIDE DEF s
  <2> QED BY <1>2, NameShape
<1>4. p \in Name /\ Len(p) = k /\ p[k] = s[k]
  <2> HIDE DEF s
  <2>1. /\ SubSeq(s, 1, k) \in Name /\ Len(SubSeq(s, 1, k)) = k
        /\ \A j \in 1 .. k : SubSeq(s, 1, k)[j] = s[j]
    BY <1>2, <1>3, Beginning
  <2> QED BY <1>1, <1>3, <2>1
<1>5. s # Root
  <2> HIDE DEF s
  <2> QED BY <1>2, <1>3, RootIsName, NameShape
<1>6. Solid(s)
  BY <1>5, StrippedName
<1> QED BY <1>1, <1>3, <1>4, <1>6 DEF Solid

(* The parent of a parent is one, and so are the directories above what is *)
(* implied.                                                                 *)
LEMMA ParentsOfParents ==
    ASSUME NEW n \in Name, NEW p \in Parents(n), NEW q \in Parents(Append(p, Empty))
    PROVE  q \in Parents(n)
<1> DEFINE s == Stripped(n)
<1>1. Solid(p) /\ s \in Name
  BY ParentsAre, StrippedName
<1>2. PICK k \in 1 .. Len(s) - 1 : p = SubSeq(s, 1, k)
  BY ParentsAre
<1>3. Stripped(Append(p, Empty)) = p
  BY <1>1, SolidIsStripped
<1>4. PICK j \in 1 .. Len(p) - 1 : p[j] # Empty /\ q = SubSeq(p, 1, j)
  BY <1>3 DEF Parents
<1>5. k \in 1 .. Len(s) /\ Len(p) = k /\ Len(s) \in Nat
      /\ \A i \in 1 .. k : p[i] = s[i]
  <2> HIDE DEF s
  <2>1. k \in 1 .. Len(s) /\ Len(s) \in Nat
    BY <1>1, NameShape
  <2> QED BY <1>1, <1>2, <2>1, Beginning
<1>6. j \in 1 .. k /\ j \in 1 .. Len(s) - 1 /\ s[j] # Empty
  <2> HIDE DEF s
  <2> QED BY <1>4, <1>5
<1>7. q = SubSeq(s, 1, j)
  <2> HIDE DEF s
  <2> QED BY <1>1, <1>2, <1>4, <1>5, <1>6, BeginningOfBeginning
<1> QED BY <1>6, <1>7 DEF Parents

(* dirname of a name that begins with a part: the root, or the nearest of  *)
(* its parents.                                                             *)
LEMMA DirnameOf ==
    ASSUME NEW s, Solid(s), Relative(s)
    PROVE  \/ Len(s) = 1 /\ Dirname(s) = Root
           \/ /\ Len(s) > 1 /\ Solid(Dirname(s)) /\ Relative(Dirname(s))
              /\ Dirname(s) = Stripped(SubSeq(s, 1, Len(s) - 1))
              /\ \E k \in 1 .. Len(s) - 1 :
                    /\ s[k] # Empty /\ Dirname(s) = SubSeq(s, 1, k)
                    /\ \A j \in 1 .. Len(s) - 1 : j > k => s[j] = Empty
<1>1. s \in Name /\ Len(s) \in Nat /\ Len(s) >= 1
  BY NameShape DEF Solid
<1>2. CASE Len(s) = 1
  BY <1>2 DEF Dirname
<1>3. CASE Len(s) > 1
  <2> DEFINE head == SubSeq(s, 1, Len(s) - 1)
  <2>1. Len(s) - 1 \in 1 .. Len(s)
    BY <1>1, <1>3
  <2>2. /\ head \in Name /\ Len(head) = Len(s) - 1
        /\ \A j \in 1 .. Len(s) - 1 : head[j] = s[j]
    BY <1>1, <2>1, Beginning
  <2>3. head[1] # Empty
    BY <1>1, <1>3, <2>2 DEF Relative
  <2>4. PICK k \in 1 .. Len(head) :
            /\ head[k] # Empty /\ Stripped(head) = SubSeq(head, 1, k)
            /\ Solid(Stripped(head))
            /\ \A j \in 1 .. Len(head) : j > k => head[j] = Empty
    <3> HIDE DEF head
    <3>1. 1 \in 1 .. Len(head)
      BY <1>1, <1>3, <2>2
    <3> QED BY <2>2, <2>3, <3>1, StrippedName
  <2>5. Stripped(head) # Root
    BY <2>4, SolidIsStripped
  <2>6. Dirname(s) = Stripped(head)
    BY SMTT(20), ZenonT(30), <1>3, <2>5 DEF Dirname
  <2>7. k \in 1 .. Len(s) - 1 /\ s[k] # Empty
        /\ \A j \in 1 .. Len(s) - 1 : j > k => s[j] = Empty
    <3> HIDE DEF head
    <3> QED BY <2>2, <2>4
  <2>8. Stripped(head) = SubSeq(s, 1, k)
    <3>1. SubSeq(head, 1, k) = SubSeq(s, 1, k)
      BY <1>1, <2>1, <2>7, BeginningOfBeginning
    <3> QED BY <2>4, <3>1
  <2>9. Relative(Stripped(head))
    <3>1. k \in 1 .. Len(s)
      BY <1>1, <2>7
    <3>2. SubSeq(s, 1, k)[1] = s[1]
      <4>1. 1 \in 1 .. k
        BY <2>7
      <4> QED BY <1>1, <3>1, <4>1, Beginning
    <3> QED BY <2>8, <3>2 DEF Relative
  <2> QED BY <1>3, <2>4, <2>6, <2>7, <2>8, <2>9
<1>4. Len(s) = 1 \/ Len(s) > 1
  BY <1>1, NameShape
<1> QED BY <1>2, <1>3, <1>4

(* A name that begins with a part has, without its slashes, parts at both  *)
(* ends.                                                                    *)
LEMMA RelativeStripped ==
    ASSUME NEW n \in Name, Relative(n)
    PROVE  Solid(Stripped(n)) /\ Relative(Stripped(n))
<1>1. 1 \in 1 .. Len(n) /\ n[1] # Empty
  BY NameShape DEF Relative
<1>2. Solid(Stripped(n))
  BY <1>1, StrippedName
<1>3. PICK k \in 1 .. Len(n) : n[k] # Empty /\ Stripped(n) = SubSeq(n, 1, k)
  BY <1>1, StrippedName
<1>4. SubSeq(n, 1, k)[1] = n[1]
  <2>1. 1 \in 1 .. k
    BY <1>3, NameShape
  <2> QED BY <1>3, <2>1, Beginning
<1> QED BY <1>1, <1>2, <1>3, <1>4 DEF Relative

LEMMA ParentOf ==
    ASSUME NEW n \in Name, Relative(n)
    PROVE  \/ Len(Stripped(n)) = 1 /\ Parent(n) = Root
           \/ \E p \in Parents(n) : /\ Parent(n) = Append(p, Empty)
                                   /\ p = Dirname(Stripped(n))
<1> DEFINE s == Stripped(n)
<1>1. Solid(s) /\ Relative(s)
  BY RelativeStripped
<1>2. CASE Len(s) = 1 /\ Dirname(s) = Root
  BY <1>2 DEF Parent
<1>3. CASE /\ Solid(Dirname(s))
           /\ \E k \in 1 .. Len(s) - 1 : s[k] # Empty /\ Dirname(s) = SubSeq(s, 1, k)
  <2>1. Dirname(s) \in Parents(n)
    BY <1>3 DEF Parents
  <2>2. Dirname(s) # Root
    BY <1>3, SolidIsStripped
  <2>3. Parent(n) = Append(Dirname(s), Empty)
    BY <2>2 DEF Parent
  <2> QED BY <2>1, <2>3
<1> HIDE DEF s
<1>4. \/ Len(s) = 1 /\ Dirname(s) = Root
      \/ /\ Solid(Dirname(s))
         /\ \E k \in 1 .. Len(s) - 1 : s[k] # Empty /\ Dirname(s) = SubSeq(s, 1, k)
  BY <1>1, DirnameOf
<1> QED BY <1>2, <1>3, <1>4 DEF s

-----------------------------------------------------------------------------
(* Complete listings                                                        *)

LEMMA ImpliedAre ==
    ASSUME NEW ns, ns \subseteq Name, NEW d \in ImpliedDirs(ns)
    PROVE  /\ d \in Name /\ EndsInSlash(d) /\ d \notin ns
           /\ \E m \in ns : \E p \in Parents(m) :
                 d = Append(p, Empty) /\ Stripped(d) = p /\ Solid(p)
<1>1. PICK m \in ns : \E p \in Parents(m) : d = Append(p, Empty)
  BY DEF ImpliedDirs
<1>2. PICK p \in Parents(m) : d = Append(p, Empty)
  BY <1>1
<1>3. m \in Name
  OBVIOUS
<1>4. Solid(p)
  BY <1>3, ParentsAre
<1>5. p \in Name /\ Stripped(d) = p
  BY <1>2, <1>4, SolidIsStripped
<1>6. d \in Name /\ EndsInSlash(d)
  BY <1>2, <1>5, WithSlash
<1>7. d \notin ns
  BY DEF ImpliedDirs
<1> QED BY <1>2, <1>4, <1>5, <1>6, <1>7

LEMMA CompleteNames ==
    ASSUME NEW ns, ns \subseteq Name
    PROVE  Complete(ns) \subseteq Name /\ ns \subseteq Complete(ns)
BY ImpliedAre DEF Complete

(* A parent of what is implied is implied.                                  *)
LEMMA ImpliedIsClosed ==
    ASSUME NEW ns, ns \subseteq Name, NEW n \in Complete(ns), NEW p \in Parents(n)
    PROVE  Append(p, Empty) \in Complete(ns)
<1>1. \E m \in ns : p \in Parents(m)
  <2>1. CASE n \in ns
    BY <2>1
  <2>2. CASE n \in ImpliedDirs(ns)
    <3>0. PICK m \in ns : \E q \in Parents(m) : n = Append(q, Empty)
      BY <2>2, ImpliedAre
    <3>1. PICK q \in Parents(m) : n = Append(q, Empty)
      BY <3>0
    <3>2. m \in Name
      OBVIOUS
    <3> QED BY <3>1, <3>2, ParentsOfParents
  <2> QED BY <2>1, <2>2 DEF Complete
<1> QED BY <1>1 DEF Complete, ImpliedDirs

LEMMA InjectionCompletes ==
    ASSUME NEW ns, ns \subseteq Name
    PROVE  Complete(Complete(ns)) = Complete(ns)
<1>1. ASSUME NEW d \in ImpliedDirs(Complete(ns)) PROVE FALSE
  <2>1. d \notin Complete(ns)
    BY DEF ImpliedDirs
  <2>2. \E n \in Complete(ns) : \E p \in Parents(n) : d = Append(p, Empty)
    BY DEF ImpliedDirs
  <2> QED BY <2>1, <2>2, ImpliedIsClosed
<1> DEFINE c == Complete(ns)
<1>2. ImpliedDirs(c) = {}
  BY <1>1
<1>3. Complete(c) = c \cup ImpliedDirs(c)
  BY DEF Complete
<1> QED BY <1>2, <1>3

-----------------------------------------------------------------------------
(* Paths stay names                                                         *)

LEMMA DirnameIsName ==
    ASSUME NEW n \in Name
    PROVE  Dirname(n) \in Name
<1>1. Len(n) \in Nat /\ Len(n) >= 1
  BY NameShape
<1>2. CASE Len(n) = 1
  BY <1>2, RootIsName DEF Dirname
<1>3. CASE Len(n) > 1 /\ Len(n) # 1
  <2> DEFINE head == SubSeq(n, 1, Len(n) - 1)
  <2>1. Len(n) - 1 \in 1 .. Len(n)
    BY <1>1, <1>3
  <2>2. head \in Name
    BY <2>1, Beginning
  <2>3. Stripped(head) \in Name
    <3> HIDE DEF head
    <3> QED BY <2>2, StrippedName
  <2>4. Append(head, Empty) \in Name
    <3> HIDE DEF head
    <3> QED BY <2>2, WithSlash
  <2>5. Dirname(n) \in {Append(head, Empty), Stripped(head)}
    BY <1>3 DEF Dirname
  <2> QED BY <2>3, <2>4, <2>5
<1>4. Len(n) = 1 \/ (Len(n) > 1 /\ Len(n) # 1)
  BY NameShape
<1> QED BY <1>2, <1>3, <1>4

LEMMA ParentIsName ==
    ASSUME NEW n \in Name
    PROVE  Parent(n) \in Name
<1>1. Dirname(Stripped(n)) \in Name
  BY StrippedName, DirnameIsName
<1> QED BY <1>1, RootIsName, WithSlash DEF Parent

LEMMA JoinIs ==
    ASSUME NEW n \in Name, NEW x \in Part
    PROVE  LET m == Join(n, x)
               k == IF n[Len(n)] = Empty THEN Len(n) ELSE Len(n) + 1
           IN  /\ m \in Name /\ Len(m) = k /\ m[k] = x
               /\ \A j \in 1 .. k - 1 : m[j] = n[j]
<1>1. /\ n \in Seq(Part) /\ Len(n) \in Nat /\ Len(n) >= 1
      /\ \A k \in 1 .. Len(n) : n[k] \in Part
  BY NameShape
<1> DEFINE m == Join(n, x)
           k == IF n[Len(n)] = Empty THEN Len(n) ELSE Len(n) + 1
<1>2. /\ m \in Seq(Part) /\ Len(m) = k /\ m[k] = x
      /\ \A j \in 1 .. k - 1 : m[j] = n[j]
  <2>1. CASE n[Len(n)] = Empty
    <3>1. Join(n, x) = [n EXCEPT ![Len(n)] = x]
      BY <2>1 DEF Join
    <3>2. [n EXCEPT ![Len(n)] = x] \in Seq(Part) /\ Len([n EXCEPT ![Len(n)] = x]) = Len(n)
      BY <1>1
    <3>3. [n EXCEPT ![Len(n)] = x][Len(n)] = x
      BY <1>1
    <3>4. \A j \in 1 .. Len(n) - 1 : [n EXCEPT ![Len(n)] = x][j] = n[j]
      BY <1>1
    <3> QED BY <2>1, <3>1, <3>2, <3>3, <3>4
  <2>2. CASE n[Len(n)] # Empty
    <3>1. Join(n, x) = Append(n, x)
      BY <2>2 DEF Join
    <3> QED BY <1>1, <2>2, <3>1
  <2> QED BY <2>1, <2>2
<1>3. k \in Nat /\ k >= 1
  BY <1>1
<1>4. m # <<>>
  <2> HIDE DEF m, k
  <2> QED BY <1>2, <1>3
<1> QED BY <1>2, <1>4 DEF Name

-----------------------------------------------------------------------------
(* The inductive invariant: names are names, only an archive that is read  *)
(* has caches, and these hold what would be found anew.                     *)

Types ==
    /\ mode \in {"closed", "r", "w", "a"}
    /\ class \in {"ZipFile", "CompleteDirs", "FastLookup"}
    /\ listed \subseteq Name
    /\ here = Nowhere \/ here \in Name

CachesAreFresh ==
    /\ class = "FastLookup" /\ mode # "closed" => mode = "r"
    /\ mode # "r" => names = NoCache /\ lookup = NoCache
    /\ names \in {NoCache, Complete(listed)}
    /\ lookup \in {NoCache, Complete(listed)}
    /\ mode = "closed" => here = Nowhere

Inv == Types /\ CachesAreFresh /\ InjectedIsComplete

(* Whichever way the names are asked for, they are the complete ones.       *)
LEMMA ViewsAgree ==
    ASSUME Inv, Wrapped
    PROVE  NameList = Complete(listed) /\ NameSet = Complete(listed)
BY DEF Inv, Types, CachesAreFresh, Wrapped, NameList, NameSet

LEMMA ListIsNames ==
    ASSUME Inv
    PROVE  NameList \subseteq Name
<1>1. CASE class = "ZipFile"
  BY <1>1 DEF NameList, Inv, Types
<1>2. CASE class # "ZipFile"
  <2>1. NameList = Complete(listed)
    BY <1>2 DEF Inv, Types, CachesAreFresh, NameList
  <2> QED BY <2>1, CompleteNames DEF Inv, Types
<1> QED BY <1>1, <1>2

LEMMA InitInv == Init => Inv
BY CompleteNames DEF Init, Inv, Types, CachesAreFresh, InjectedIsComplete

(* A question fills caches with the complete names, and writes nothing.     *)
LEMMA FillsKeep ==
    ASSUME Inv, mode # "closed", (FillNames /\ UNCHANGED lookup) \/ FillLookup,
           UNCHANGED <<mode, class, listed, injected>>,
           here' \in Name
    PROVE  Inv'
<1>1. class = "FastLookup" => NameList = Complete(listed) /\ mode = "r"
  BY DEF Inv, CachesAreFresh, NameList
<1>2. /\ names' \in {NoCache, Complete(listed)}
      /\ lookup' \in {NoCache, Complete(listed)}
      /\ mode # "r" => names' = NoCache /\ lookup' = NoCache
  BY <1>1 DEF FillNames, FillLookup, cache, Inv, Types, CachesAreFresh
<1>3. Complete(listed)' = Complete(listed)
  BY DEF Complete, ImpliedDirs, Parents, Stripped
<1> QED BY <1>2, <1>3 DEF Inv, Types, CachesAreFresh, InjectedIsComplete

LEMMA WriteKeeps ==
    ASSUME Inv, NEW n \in Name, WriteStr(n)
    PROVE  Inv'
<1>1. listed' \subseteq Name
  BY DEF WriteStr, Inv, Types
<1> QED BY <1>1 DEF WriteStr, Inv, Types, CachesAreFresh, InjectedIsComplete, cache

LEMMA NextKeeps ==
    ASSUME Inv, [Next]_vars
    PROVE  Inv'
<1>1. CASE Open
  <2>1. mode = "closed" /\ names' = NoCache /\ lookup' = NoCache /\ here' = Nowhere
    BY <1>1 DEF Open, Inv, CachesAreFresh, cache
  <2>2. mode' \in {"r", "w", "a"} /\ class' = "ZipFile" /\ listed' \subseteq Name
    BY <1>1 DEF Open, Inv, Types
  <2>3. InjectedIsComplete'
    BY <1>1 DEF Open, Inv, InjectedIsComplete
  <2> QED BY <2>1, <2>2, <2>3 DEF Inv, Types, CachesAreFresh
<1>2. CASE Close
  BY <1>2 DEF Close, Inv, Types, CachesAreFresh, InjectedIsComplete
<1>3. ASSUME NEW c \in {"CompleteDirs", "FastLookup"}, Make(c) PROVE Inv'
  BY <1>3, RootIsName
  DEF Make, TargetClass, Inv, Types, CachesAreFresh, InjectedIsComplete, cache
<1>4. ASSUME NEW n \in Names, WriteStr(n) PROVE Inv'
  <2>1. n \in Name
    BY PathAssumption DEF Name, Part
  <2> QED BY <1>4, <2>1, WriteKeeps
<1>5. CASE Inject
  <2>1. listed \subseteq Name
    BY DEF Inv, Types
  <2>2. NameList \subseteq Name
    BY ListIsNames
  <2>3. ImpliedDirs(NameList) \subseteq Name
    BY <2>2, ImpliedAre
  <2>4. listed' \subseteq Name
    BY <1>5, <2>1, <2>3 DEF Inject
  <2>5. InjectedIsComplete'
    <3>1. CASE class = "ZipFile"
      <4>1. NameList = listed
        BY <3>1 DEF NameList
      <4>2. listed' = Complete(listed)
        BY <1>5, <4>1 DEF Inject, Complete
      <4>3. Complete(listed') = listed'
        BY <2>1, <4>2, InjectionCompletes
      <4> QED BY <4>3 DEF InjectedIsComplete
    <3>2. CASE class # "ZipFile"
      BY <1>5, <3>2 DEF Inject, InjectedIsComplete
    <3> QED BY <3>1, <3>2
  <2> QED BY <1>5, <2>4, <2>5 DEF Inject, Inv, Types, CachesAreFresh, cache
<1>6. CASE OpenForWriting
  BY <1>6, WriteKeeps DEF OpenForWriting, Inv, Types
<1>7. CASE IterDir
  <2>1. here' \in NameList /\ mode # "closed"
    BY <1>7 DEF IterDir, Children, Inv, CachesAreFresh
  <2> QED BY <1>7, <2>1, ListIsNames, FillsKeep DEF IterDir
<1>8. CASE Ask
  BY <1>8, FillsKeep DEF Ask, Inv, Types, CachesAreFresh
<1>9. CASE GoUp
  <2>1. here' \in Name /\ mode # "closed"
    BY <1>9, ParentIsName DEF GoUp, Inv, Types, CachesAreFresh
  <2> QED BY <1>9, <2>1
      DEF GoUp, Inv, Types, CachesAreFresh, InjectedIsComplete, cache
<1>10. ASSUME NEW part \in Parts, GoTo(part) PROVE Inv'
  <2>1. here \in Name /\ mode # "closed"
    BY <1>10 DEF GoTo, Inv, Types, CachesAreFresh
  <2>2. Join(here, part) \in Name
    BY <2>1, JoinIs DEF Part
  <2>3. here' \in Name
    BY <1>10, <2>2, WithSlash DEF GoTo, JoinPath, ResolveDir
  <2> QED BY <1>10, <2>1, <2>3, FillsKeep DEF GoTo
<1>11. CASE UNCHANGED vars
  BY <1>11 DEF vars, cache, Inv, Types, CachesAreFresh, InjectedIsComplete
<1> QED BY <1>1, <1>2, <1>3, <1>4, <1>5, <1>6, <1>7, <1>8, <1>9, <1>10, <1>11
    DEF Next

THEOREM InvAlways == Spec => []Inv
BY InitInv, NextKeeps, PTL DEF Spec

(* After inject(), until something else is written, the archive itself     *)
(* lists every directory (CompleteDirs.inject).                             *)
THEOREM InjectionCompletesArchives == Spec => []InjectedIsComplete
<1>1. Inv => InjectedIsComplete
  BY DEF Inv
<1> QED BY <1>1, InvAlways, PTL

-----------------------------------------------------------------------------
(* The tree                                                                 *)

LEMMA ImpliedHoldSomething ==
    ASSUME NEW ns, ns \subseteq Name, NEW d \in ImpliedDirs(ns)
    PROVE  \E m \in ns : \E k \in 1 .. Len(m) - 1 : SubSeq(m, 1, k) = Stripped(d)
<1>0. PICK m \in ns : \E p \in Parents(m) : Stripped(d) = p
  BY ImpliedAre
<1>1. PICK p \in Parents(m) : Stripped(d) = p
  BY <1>0
<1>2. m \in Name /\ Solid(Stripped(m))
  BY ParentsAre
<1>3. PICK i \in 1 .. Len(Stripped(m)) - 1 : p = SubSeq(Stripped(m), 1, i)
  BY <1>2, ParentsAre
<1>4. PICK k \in 1 .. Len(m) : Stripped(m) = SubSeq(m, 1, k)
  BY <1>2, StrippedName, SolidIsStripped
<1>5. Len(Stripped(m)) = k /\ Len(m) \in Nat
  BY <1>2, <1>4, Beginning, NameShape
<1>6. i \in 1 .. k /\ i \in 1 .. Len(m) - 1
  BY <1>3, <1>5
<1>7. p = SubSeq(m, 1, i)
  BY <1>2, <1>3, <1>4, <1>6, BeginningOfBeginning
<1> QED BY <1>1, <1>6, <1>7

LEMMA TreeIsShown == Inv => ViewIsTheTree
<1> SUFFICES ASSUME Inv, Wrapped PROVE ViewIsTheTree
  BY DEF ViewIsTheTree
<1> DEFINE V == Complete(listed)
<1>1. NameList = V /\ NameSet = V /\ listed \subseteq Name
  BY ViewsAgree DEF Inv, Types
<1>2. listed \subseteq V /\ V \subseteq Name
  BY <1>1, CompleteNames
<1>3. ASSUME NEW n \in V, Relative(n) PROVE Parent(n) \in V \cup {Root}
  BY <1>1, <1>2, <1>3, ParentOf, ImpliedIsClosed
<1>4. ASSUME NEW n \in V \ listed
      PROVE  /\ EndsInSlash(n)
             /\ \E m \in listed : \E k \in 1 .. Len(m) - 1 :
                   SubSeq(m, 1, k) = Stripped(n)
  <2>1. n \in ImpliedDirs(listed)
    BY DEF Complete
  <2> QED BY <1>1, <2>1, ImpliedAre, ImpliedHoldSomething
<1> HIDE DEF V
<1> QED BY <1>1, <1>2, <1>3, <1>4 DEF ViewIsTheTree

(* Whatever was asked before and written since, a wrapped archive shows its *)
(* entries and the directories above them, and nothing else                 *)
(* (CompleteDirs, FastLookup and their caches).                             *)
THEOREM PathsShowTheTree == Spec => []ViewIsTheTree
BY InvAlways, TreeIsShown, PTL

-----------------------------------------------------------------------------
(* Finding an entry from its directory                                      *)

(* A plain name is what it is without its slash, or that and the slash.     *)
LEMMA PlainName ==
    ASSUME NEW n \in Name, Plain(n), Relative(n)
    PROVE  /\ n = Stripped(n) \/ n = Append(Stripped(n), Empty)
           /\ \A j \in 1 .. Len(Stripped(n)) : Stripped(n)[j] # Empty
<1> DEFINE s == Stripped(n)
<1>1. Solid(s)
  BY RelativeStripped
<1>2. PICK k \in 1 .. Len(n) : /\ n[k] # Empty /\ s = SubSeq(n, 1, k)
                               /\ \A j \in 1 .. Len(n) : j > k => n[j] = Empty
  BY <1>1, StrippedName, SolidIsStripped
<1> HIDE DEF s
<1>3. /\ n \in Seq(Part) /\ Len(n) \in Nat /\ DOMAIN n = 1 .. Len(n)
      /\ s \in Name /\ Len(s) = k /\ \A j \in 1 .. k : s[j] = n[j]
  BY <1>2, NameShape, Beginning
<1>4. \A j \in 1 .. Len(n) : n[j] = Empty => j = Len(n)
  BY <1>3 DEF Plain
<1>5. \A j \in 1 .. Len(s) : s[j] # Empty
  <2> TAKE j \in 1 .. Len(s)
  <2>0. k \in 1 .. Len(n) /\ n \in Seq(Part) /\ Len(s) = k
    BY <1>3
  <2>1. j \in 1 .. Len(n) /\ j \in 1 .. k /\ (j = Len(n) => k = Len(n))
    BY <2>0
  <2>2. s[j] = n[j]
    BY <1>3, <2>1
  <2> QED BY <1>2, <1>4, <2>1, <2>2
<1>6. k = Len(n) \/ k + 1 = Len(n)
  <2>0. k \in 1 .. Len(n) /\ n \in Seq(Part)
    BY <1>3
  <2>1. CASE k < Len(n)
    <3>1. k + 1 \in 1 .. Len(n) /\ k + 1 > k
      BY <2>0, <2>1
    <3> QED BY <1>2, <1>4, <3>1
  <2>2. k < Len(n) \/ k = Len(n)
    BY <2>0
  <2> QED BY <2>1, <2>2
<1>7. CASE k = Len(n)
  BY <1>2, <1>5, <1>7, WholeName DEF s
<1>8. CASE k + 1 = Len(n)
  <2> DEFINE m == Append(s, Empty)
  <2>1. /\ m \in Name /\ Len(m) = k + 1 /\ m[k + 1] = Empty
        /\ \A j \in 1 .. k : m[j] = s[j]
    BY <1>3, WithSlash
  <2>2. n[k + 1] = Empty
    BY <1>2, <1>3, <1>8
  <2>3. \A j \in 1 .. Len(n) : m[j] = n[j]
    <3> HIDE DEF m
    <3> TAKE j \in 1 .. Len(n)
    <3>1. j \in 1 .. k \/ j = k + 1
      BY <1>3, <1>8
    <3> QED BY <1>3, <2>1, <2>2, <3>1
  <2>4. m \in Seq(Part)
    BY <2>1, NameShape
  <2> HIDE DEF m
  <2>5. m = n
    BY <1>3, <1>8, <2>1, <2>3, <2>4, SeqEqual
  <2> QED BY <1>5, <2>5 DEF m, s
<1> QED BY <1>5, <1>6, <1>7, <1>8 DEF s

(* The location of a name's directory and the name's last part make it up. *)
LEMMA JoinedAgain ==
    ASSUME NEW n \in Name, Plain(n), Relative(n)
    PROVE  LET s == Stripped(n) IN Join(Parent(n), s[Len(s)]) = s
<1> DEFINE s == Stripped(n)
           x == s[Len(s)]
           m == Join(Parent(n), x)
<1>1. Solid(s) /\ Relative(s)
  BY RelativeStripped
<1>2. \A j \in 1 .. Len(s) : s[j] # Empty
  BY PlainName
<1>3. s \in Name /\ s \in Seq(Part) /\ Len(s) \in Nat /\ Len(s) >= 1 /\ x \in Part
  <2> HIDE DEF s
  <2> QED BY <1>1, NameShape DEF Solid
<1>4. /\ Parent(n) \in Name /\ Parent(n)[Len(Parent(n))] = Empty
      /\ Len(Parent(n)) = Len(s) /\ \A j \in 1 .. Len(s) - 1 : Parent(n)[j] = s[j]
  <2>1. CASE Len(s) = 1 /\ Parent(n) = Root
    BY <2>1, RootIsName
  <2>2. CASE \E p \in Parents(n) : Parent(n) = Append(p, Empty) /\ p = Dirname(s)
    <3>1. PICK p \in Parents(n) : Parent(n) = Append(p, Empty) /\ p = Dirname(s)
      BY <2>2
    <3>2. Solid(p)
      BY ParentsAre
    <3> HIDE DEF s
    <3>3. p # Root
      BY <3>2, SolidIsStripped
    <3>4. PICK k \in 1 .. Len(s) - 1 :
              /\ s[k] # Empty /\ p = SubSeq(s, 1, k)
              /\ \A j \in 1 .. Len(s) - 1 : j > k => s[j] = Empty
      BY <1>1, <3>1, <3>3, DirnameOf
    <3>5. k = Len(s) - 1
      <4>1. CASE k < Len(s) - 1
        <5>1. k + 1 \in 1 .. Len(s) - 1 /\ k + 1 > k /\ k + 1 \in 1 .. Len(s)
          BY <1>3, <4>1
        <5> QED BY <1>2, <3>4, <5>1
      <4> QED BY <1>3, <4>1
    <3>6. Len(p) = k /\ p \in Name /\ \A j \in 1 .. k : p[j] = s[j]
      <4>1. k \in 1 .. Len(s)
        BY <1>3
      <4> QED BY <1>3, <3>4, <4>1, Beginning
    <3>7. /\ Append(p, Empty) \in Name /\ Len(Append(p, Empty)) = k + 1
          /\ \A j \in 1 .. k : Append(p, Empty)[j] = p[j]
          /\ Append(p, Empty)[k + 1] = Empty
      BY <3>6, WithSlash
    <3>8. k + 1 = Len(s)
      BY <1>3, <3>5
    <3> QED BY <3>1, <3>5, <3>6, <3>7, <3>8
  <2> QED BY <2>1, <2>2, ParentOf
<1> HIDE DEF s, x
<1>5. /\ m \in Name /\ Len(m) = Len(s) /\ m[Len(s)] = x
      /\ \A j \in 1 .. Len(s) - 1 : m[j] = Parent(n)[j]
  <2> DEFINE q == Parent(n)
  <2>1. q \in Name /\ q[Len(q)] = Empty /\ Len(q) = Len(s)
    BY <1>4
  <2> HIDE DEF q
  <2> DEFINE k == IF q[Len(q)] = Empty THEN Len(q) ELSE Len(q) + 1
  <2>2. /\ Join(q, x) \in Name /\ Len(Join(q, x)) = k /\ Join(q, x)[k] = x
        /\ \A j \in 1 .. k - 1 : Join(q, x)[j] = q[j]
    BY <1>3, <2>1, JoinIs
  <2>3. k = Len(s)
    BY <2>1
  <2> HIDE DEF k
  <2> QED BY <2>2, <2>3 DEF q
<1>6. \A j \in 1 .. Len(s) : m[j] = s[j]
  <2> HIDE DEF m
  <2> TAKE j \in 1 .. Len(s)
  <2>1. j \in 1 .. Len(s) - 1 \/ j = Len(s)
    BY <1>3
  <2> QED BY <1>4, <1>5, <2>1 DEF x
<1>7. m \in Seq(Part)
  BY <1>5, NameShape
<1> HIDE DEF m
<1>8. m = s
  BY <1>3, <1>5, <1>6, <1>7, SeqEqual
<1> QED BY <1>8 DEF m, s, x

LEMMA EntriesAreReached == Inv => EveryEntryIsReached
<1> SUFFICES ASSUME Inv, Wrapped PROVE EveryEntryIsReached
  BY DEF EveryEntryIsReached
<1> DEFINE V == Complete(listed)
<1>1. NameList = V /\ NameSet = V /\ listed \subseteq Name
  BY ViewsAgree DEF Inv, Types
<1>2. listed \subseteq V /\ V \subseteq Name
  BY <1>1, CompleteNames
<1>3. ASSUME NEW n \in V PROVE HasInfo(n)
  <2>1. n \in listed \/ n \in ImpliedDirs(listed)
    BY DEF Complete
  <2> QED BY <1>1, <2>1, ImpliedAre DEF HasInfo
<1>4. ASSUME NEW n \in V, Relative(n) PROVE n \in Children(Parent(n))
  <2>1. n \in Name
    BY <1>2
  <2>2. Dirname(Stripped(n)) = Stripped(Parent(n))
    <3>1. CASE Len(Stripped(n)) = 1 /\ Parent(n) = Root
      BY <3>1, RootIsName, StrippedRoot DEF Dirname
    <3>2. CASE \E p \in Parents(n) : Parent(n) = Append(p, Empty)
                                     /\ p = Dirname(Stripped(n))
      BY <2>1, <3>2, ParentsAre, SolidIsStripped
    <3> QED BY <1>4, <2>1, <3>1, <3>2, ParentOf
  <2> QED BY <1>1, <2>2 DEF Children, IsChild
<1>5. ASSUME NEW n \in V, Plain(n)
      PROVE  LET s == Stripped(n)
             IN  JoinPath(Parent(n), s[Len(s)]) = IF s \in NameSet THEN s ELSE n
  <2>1. n \in Name
    BY <1>2
  <2>2. CASE Relative(n)
    <3> DEFINE s == Stripped(n)
    <3>1. Join(Parent(n), s[Len(s)]) = s
      BY <1>5, <2>1, <2>2, JoinedAgain
    <3>2. n = s \/ n = Append(s, Empty)
      BY <1>5, <2>1, <2>2, PlainName
    <3>3. n \in NameSet
      BY <1>1
    <3> HIDE DEF s
    <3>4. JoinPath(Parent(n), s[Len(s)]) = IF s \in NameSet THEN s ELSE n
      BY <3>1, <3>2, <3>3 DEF JoinPath, ResolveDir
    <3> QED BY <3>4 DEF s
  <2>3. CASE ~Relative(n)
    <3>0. n \in Seq(Part) /\ Len(n) >= 1 /\ n[1] = Empty
          /\ \A k \in 1 .. Len(n) : n[k] = Empty => k = Len(n)
      BY <1>5, <2>1, <2>3, NameShape DEF Relative, Plain
    <3>1. Len(n) = 1
      BY <3>0
    <3>2. n = Root
      BY <3>0, <3>1, RootIsName, NameShape, SeqEqual
    <3>3. Stripped(Root) = Root /\ Root[Len(Root)] = Empty
      BY RootIsName, StrippedRoot
    <3>4. Parent(Root) = Root
      BY <3>3, RootIsName DEF Parent, Dirname
    <3>5. Join(Root, Empty) = Root
      BY RootIsName DEF Join, Root
    <3>6. JoinPath(Root, Empty) = Root
      BY <1>1, <3>2, <3>5 DEF JoinPath, ResolveDir
    <3> QED BY <1>1, <3>2, <3>3, <3>4, <3>6
  <2> QED BY <2>2, <2>3
<1> HIDE DEF V
<1> QED BY <1>1, <1>3, <1>4, <1>5 DEF EveryEntryIsReached

(* Every entry, and every implied directory, can be asked about; it is among*)
(* the children of the directory above it unless its name begins with a    *)
(* slash, and found from there by its own name unless it has an empty part  *)
(* (Path.iterdir, Path.joinpath, CompleteDirs.resolve_dir and getinfo).     *)
THEOREM EntriesCanBeReached == Spec => []EveryEntryIsReached
BY InvAlways, EntriesAreReached, PTL
=============================================================================
