----------------------------- MODULE FoldTheorems -----------------------------
(***************************************************************************)
(* What the proofs need of two operators of the community modules that are *)
(* defined by recursive functions: SumFunctionOnSet, the sum of the        *)
(* numbers a function gives for the elements of a set, and FlattenSeq,     *)
(* which joins the sequences of a sequence.  That such functions exist,    *)
(* and what they yield, is shown from a smallest counterexample.           *)
(***************************************************************************)
EXTENDS Integers, Sequences, FiniteSets, Functions, SequencesExt,
        FiniteSetTheorems, SequenceTheorems, WellFoundedInduction, TLAPS

(* A set of subsets of a finite set has a smallest one.                     *)
LEMMA SmallestSet ==
    ASSUME NEW U, IsFiniteSet(U), NEW C, C \subseteq SUBSET U, C # {}
    PROVE  \E s \in C : /\ \A x \in s : s \ {x} \notin C
                       /\ \A t \in C : t \subseteq s => t = s
<1> DEFINE R == StrictSubsetOrdering(U)
<1>1. IsWellFoundedOn(R, SUBSET U)
  <2>1. FiniteSubsetsOf(U) = SUBSET U
    BY FS_FiniteSubsetsOfFinite
  <2> QED BY <2>1, FS_StrictSubsetOrderingWellFounded
<1>2. PICK s \in C : \A t \in C : <<t, s>> \notin R
  <2> HIDE DEF R
  <2> QED BY <1>1, WFMin
<1>3. ASSUME NEW t \in C, t \subseteq s, t # s PROVE FALSE
  <2>1. <<t, s>> \in R
    BY <1>3 DEF StrictSubsetOrdering
  <2> QED BY <1>2, <2>1
<1>4. ASSUME NEW x \in s PROVE s \ {x} \subseteq s /\ s \ {x} # s
  OBVIOUS
<1> HIDE DEF R
<1> QED BY <1>2, <1>3, <1>4

(* So has a set of numbers up to n.                                         *)
LEMMA LeastUpTo ==
    ASSUME NEW n \in Nat, NEW S, S \subseteq 1 .. n, S # {}
    PROVE  \E x \in S : \A y \in S : x <= y
<1> DEFINE U == 1 .. n
           C == {1 .. x : x \in S}
<1>1. C \subseteq SUBSET U /\ C # {}
  <2>1. ASSUME NEW x \in S PROVE 1 .. x \subseteq U
    OBVIOUS
  <2> QED BY <2>1
<1>2. PICK m \in C : \A t \in C : t \subseteq m => t = m
  <2>1. IsFiniteSet(U)
    BY FS_Interval
  <2> HIDE DEF C, U
  <2>2. \E s \in C : /\ \A x \in s : s \ {x} \notin C
                    /\ \A t \in C : t \subseteq s => t = s
    BY <1>1, <2>1, SmallestSet
  <2> QED BY <2>2
<1>3. PICK x \in S : m = 1 .. x
  OBVIOUS
<1>4. ASSUME NEW y \in S, ~(x <= y) PROVE FALSE
  <2>1. x \in Nat /\ y \in Nat /\ x \in 1 .. n /\ y < x
    BY <1>4
  <2>2. 1 .. y \in C
    OBVIOUS
  <2>3. 1 .. y \subseteq 1 .. x /\ x \in 1 .. x /\ x \notin 1 .. y
    BY <2>1
  <2> HIDE DEF C
  <2> QED BY <1>2, <1>3, <2>2, <2>3
<1> QED BY <1>4

-----------------------------------------------------------------------------
(* The fold                                                                 *)

Some(s) == CHOOSE x \in s : TRUE

(* f sums w over the subsets of S.                                          *)
Sums(f, w, S) ==
    f = [s \in SUBSET S |->
            IF s = {} THEN 0 ELSE w[Some(s)] + f[s \ {Some(s)}]]

Fold(w, S) == CHOOSE f : Sums(f, w, S)

LEMMA SumIsFold ==
    ASSUME NEW w, NEW S
    PROVE  SumFunctionOnSet(w, S) = Fold(w, S)[S]
BY DEF SumFunctionOnSet, FoldFunctionOnSet, MapThenFoldSet, Fold, Sums, Some

LEMMA SomeIn == ASSUME NEW s, s # {} PROVE Some(s) \in s
BY DEF Some

LEMMA SumsExist ==
    ASSUME NEW S, IsFiniteSet(S), NEW w
    PROVE  \E f : Sums(f, w, S)
<1> DEFINE Upto(f, n) ==
              /\ f = [s \in SUBSET S |-> f[s]]
              /\ \A s \in SUBSET S : Cardinality(s) <= n =>
                    f[s] = IF s = {} THEN 0 ELSE w[Some(s)] + f[s \ {Some(s)}]
           N == Cardinality(S)
           C == {1 .. n : n \in {k \in 0 .. N : ~ \E f : Upto(f, k)}}
<1>1. N \in Nat
  BY FS_CardinalityType
<1>2. \A s \in SUBSET S :
          /\ IsFiniteSet(s) /\ Cardinality(s) \in Nat /\ Cardinality(s) <= N
          /\ s # {} => Cardinality(s \ {Some(s)}) = Cardinality(s) - 1
          /\ Cardinality(s) <= 0 => s = {}
  <2> TAKE s \in SUBSET S
  <2>1. IsFiniteSet(s) /\ Cardinality(s) \in Nat /\ Cardinality(s) <= N
    BY FS_Subset, FS_CardinalityType
  <2>2. s # {} => Cardinality(s \ {Some(s)}) = Cardinality(s) - 1
    BY <2>1, FS_RemoveElement, SomeIn
  <2>3. Cardinality(s) <= 0 => s = {}
    BY <2>1, FS_EmptySet
  <2> HIDE DEF N
  <2> QED BY <2>1, <2>2, <2>3, <1>1
<1>3. ASSUME C # {} PROVE FALSE
  <2>1. C \subseteq SUBSET (1 .. N) /\ IsFiniteSet(1 .. N)
    BY <1>1, FS_Interval
  <2>2. PICK m \in C : \A x \in m : m \ {x} \notin C
    <3> HIDE DEF C
    <3> QED BY <1>3, <2>1, SmallestSet
  <2>3. PICK n \in 0 .. N : m = 1 .. n /\ ~ \E f : Upto(f, n)
    OBVIOUS
  <2>4. n # 0
    <3> SUFFICES ASSUME n = 0 PROVE FALSE
      OBVIOUS
    <3> DEFINE h == [s \in SUBSET S |-> 0]
    <3>1. \A s \in SUBSET S : Cardinality(s) <= 0 => s = {}
      BY <1>2
    <3>2. Upto(h, 0)
      <4>1. h = [s \in SUBSET S |-> h[s]]
        OBVIOUS
      <4>2. \A s \in SUBSET S : h[s] = 0
        OBVIOUS
      <4> HIDE DEF h
      <4> QED BY <3>1, <4>1, <4>2
    <3> HIDE DEF h
    <3> QED BY <3>2, <2>3
  <2>5. \E f : Upto(f, n - 1)
    <3>1. n \in m /\ m \ {n} = 1 .. (n - 1) /\ n - 1 \in 0 .. N
      BY <2>3, <2>4, <1>1
    <3>2. 1 .. (n - 1) \notin C
      BY <3>1, <2>2
    <3> QED BY <3>1, <3>2
  <2>6. PICK f : Upto(f, n - 1)
    BY <2>5
  <2> DEFINE g == [s \in SUBSET S |->
                     IF s = {} THEN 0 ELSE w[Some(s)] + f[s \ {Some(s)}]]
  <2>7. ASSUME NEW s \in SUBSET S, Cardinality(s) <= n, s # {}
        PROVE  g[s] = w[Some(s)] + g[s \ {Some(s)}]
    <3>1. s \ {Some(s)} \in SUBSET S /\ Cardinality(s \ {Some(s)}) <= n - 1
      BY <1>2, <2>7
    <3>2. f[s \ {Some(s)}] = g[s \ {Some(s)}]
      BY <3>1, <2>6
    <3> QED BY <3>2, <2>7
  <2>8. Upto(g, n)
    BY <2>7
  <2> QED BY <2>8, <2>3
<1>4. PICK f : Upto(f, N)
  <2>1. N \in 0 .. N
    BY <1>1
  <2> QED BY <1>3, <2>1
<1>5. Sums(f, w, S)
  <2>1. \A s \in SUBSET S :
            f[s] = IF s = {} THEN 0 ELSE w[Some(s)] + f[s \ {Some(s)}]
    <3> TAKE s \in SUBSET S
    <3>1. Cardinality(s) <= N
      BY <1>2
    <3> HIDE DEF N
    <3> QED BY <3>1, <1>4
  <2> QED BY <2>1, <1>4 DEF Sums
<1> QED BY <1>5

LEMMA FoldSums ==
    ASSUME NEW S, IsFiniteSet(S), NEW w
    PROVE  Sums(Fold(w, S), w, S)
BY SumsExist DEF Fold

(* Folds over different sets agree where both are defined, if the functions *)
(* do.                                                                      *)
LEMMA SumsAgree ==
    ASSUME NEW S, NEW T, NEW f, NEW g, NEW w, NEW v,
           Sums(f, w, S), Sums(g, v, T),
           NEW s, IsFiniteSet(s), s \subseteq S, s \subseteq T,
           \A x \in s : w[x] = v[x]
    PROVE  f[s] = g[s]
<1> DEFINE C == {t \in SUBSET s : f[t] # g[t]}
<1>1. ASSUME C # {} PROVE FALSE
  <2>1. PICK t \in C : \A x \in t : t \ {x} \notin C
    <3>1. C \subseteq SUBSET s
      OBVIOUS
    <3> HIDE DEF C
    <3> QED BY <1>1, <3>1, SmallestSet
  <2>2. t \in SUBSET S /\ t \in SUBSET T
    OBVIOUS
  <2>3. t # {}
    BY <2>1, <2>2 DEF Sums
  <2>4. Some(t) \in t
    BY <2>3, SomeIn
  <2>5. f[t \ {Some(t)}] = g[t \ {Some(t)}]
    BY <2>1, <2>4
  <2>6. f[t] = w[Some(t)] + f[t \ {Some(t)}]
    BY <2>2, <2>3 DEF Sums
  <2>7. g[t] = v[Some(t)] + g[t \ {Some(t)}]
    BY <2>2, <2>3 DEF Sums
  <2> QED BY <2>1, <2>4, <2>5, <2>6, <2>7
<1> QED BY <1>1
-----------------------------------------------------------------------------
(* The sum                                                                  *)

LEMMA SumEmpty == ASSUME NEW w PROVE SumFunctionOnSet(w, {}) = 0
<1>1. Sums(Fold(w, {}), w, {})
  BY FoldSums, FS_EmptySet
<1> QED BY <1>1, SumIsFold DEF Sums

LEMMA SumUnfold ==
    ASSUME NEW w, NEW S, IsFiniteSet(S), S # {}
    PROVE  SumFunctionOnSet(w, S)
              = w[Some(S)] + SumFunctionOnSet(w, S \ {Some(S)})
<1> DEFINE T == S \ {Some(S)}
<1>1. IsFiniteSet(T)
  BY FS_RemoveElement
<1>2. Sums(Fold(w, S), w, S) /\ Sums(Fold(w, T), w, T)
  BY <1>1, FoldSums
<1>3. Fold(w, S)[T] = Fold(w, T)[T]
  <2>1. T \subseteq S
    OBVIOUS
  <2> HIDE DEF T
  <2> QED BY <1>1, <1>2, <2>1, SumsAgree
<1>4. Fold(w, S)[S] = w[Some(S)] + Fold(w, S)[T]
  BY <1>2 DEF Sums
<1> QED BY <1>3, <1>4, SumIsFold

LEMMA SumSame ==
    ASSUME NEW w, NEW v, NEW S, IsFiniteSet(S), \A x \in S : w[x] = v[x]
    PROVE  SumFunctionOnSet(w, S) = SumFunctionOnSet(v, S)
<1>1. Sums(Fold(w, S), w, S) /\ Sums(Fold(v, S), v, S)
  BY FoldSums
<1>2. Fold(w, S)[S] = Fold(v, S)[S]
  BY <1>1, SumsAgree
<1> QED BY <1>2, SumIsFold

LEMMA SumNat ==
    ASSUME NEW w, NEW S, IsFiniteSet(S), \A x \in S : w[x] \in Nat
    PROVE  SumFunctionOnSet(w, S) \in Nat
<1> DEFINE C == {s \in SUBSET S : SumFunctionOnSet(w, s) \notin Nat}
<1>1. ASSUME C # {} PROVE FALSE
  <2>1. PICK s \in C : \A x \in s : s \ {x} \notin C
    <3>1. C \subseteq SUBSET S
      OBVIOUS
    <3> HIDE DEF C
    <3> QED BY <1>1, <3>1, SmallestSet
  <2>2. IsFiniteSet(s)
    BY FS_Subset
  <2> HIDE DEF C
  <2>5. s # {}
    <3>1. SumFunctionOnSet(w, s) \notin Nat
      BY DEF C
    <3> QED BY <3>1, SumEmpty
  <2>3. Some(s) \in s
    BY <2>5, SomeIn
  <2>4. SumFunctionOnSet(w, s \ {Some(s)}) \in Nat
    BY <2>1, <2>3 DEF C
  <2>6. s \in SUBSET S /\ SumFunctionOnSet(w, s) \notin Nat
    BY DEF C
  <2>7. SumFunctionOnSet(w, s) = w[Some(s)] + SumFunctionOnSet(w, s \ {Some(s)})
    BY <2>2, <2>5, SumUnfold
  <2>8. w[Some(s)] \in Nat
    BY <2>3, <2>6
  <2> QED BY <2>4, <2>6, <2>7, <2>8
<1> QED BY <1>1

(* An element counts once, whichever it is.                                 *)
LEMMA SumRemove ==
    ASSUME NEW w, NEW S, IsFiniteSet(S), \A x \in S : w[x] \in Nat,
           NEW p \in S
    PROVE  SumFunctionOnSet(w, S) = w[p] + SumFunctionOnSet(w, S \ {p})
<1> DEFINE Sum(s) == SumFunctionOnSet(w, s)
           C == {s \in SUBSET S : \E q \in s : Sum(s) # w[q] + Sum(s \ {q})}
<1>1. ASSUME C # {} PROVE FALSE
  <2>1. PICK s \in C : \A x \in s : s \ {x} \notin C
    <3>1. C \subseteq SUBSET S
      OBVIOUS
    <3> HIDE DEF C
    <3> QED BY <1>1, <3>1, SmallestSet
  <2>2. PICK q \in s : Sum(s) # w[q] + Sum(s \ {q})
    BY <2>1
  <2> DEFINE a == Some(s)
  <2>3. s \in SUBSET S /\ IsFiniteSet(s) /\ s # {} /\ a \in s
    BY <2>1, <2>2, FS_Subset, SomeIn
  <2>4. Sum(s) = w[a] + Sum(s \ {a})
    BY <2>3, SumUnfold
  <2>5. a # q
    BY <2>2, <2>4
  <2>6. a \in s \ {q} /\ q \in s \ {a} /\ s \ {a} \in SUBSET S /\ s \ {q} \in SUBSET S
    BY <2>2, <2>3, <2>5
  <2>7. Sum(s \ {a}) = w[q] + Sum((s \ {a}) \ {q})
    BY <2>1, <2>3, <2>6
  <2>8. Sum(s \ {q}) = w[a] + Sum((s \ {q}) \ {a})
    BY <2>1, <2>2, <2>6
  <2>9. (s \ {a}) \ {q} = (s \ {q}) \ {a}
    OBVIOUS
  <2>10. Sum((s \ {q}) \ {a}) \in Nat
    <3>1. IsFiniteSet((s \ {q}) \ {a})
      BY <2>3, FS_RemoveElement
    <3> QED BY <3>1, <2>3, SumNat
  <2>11. w[a] \in Nat /\ w[q] \in Nat
    BY <2>2, <2>3
  <2> HIDE DEF Sum, C, a
  <2> QED BY <2>2, <2>4, <2>7, <2>8, <2>9, <2>10, <2>11
<1> QED BY <1>1

(* A part adds up to no more than the whole.                                *)
LEMMA SumOfPart ==
    ASSUME NEW w, NEW S, IsFiniteSet(S), \A x \in S : w[x] \in Nat,
           NEW T, T \subseteq S
    PROVE  SumFunctionOnSet(w, T) <= SumFunctionOnSet(w, S)
<1> DEFINE Sum(s) == SumFunctionOnSet(w, s)
           C == {s \in SUBSET S : \E t \in SUBSET s : ~(Sum(t) <= Sum(s))}
<1>1. \A s \in SUBSET S : IsFiniteSet(s) /\ Sum(s) \in Nat
  BY FS_Subset, SumNat
<1>2. ASSUME C # {} PROVE FALSE
  <2>1. PICK s \in C : \A x \in s : s \ {x} \notin C
    <3>1. C \subseteq SUBSET S
      OBVIOUS
    <3> HIDE DEF C
    <3> QED BY <1>2, <3>1, SmallestSet
  <2>2. PICK t \in SUBSET s : ~(Sum(t) <= Sum(s))
    BY <2>1
  <2>3. s \in SUBSET S /\ IsFiniteSet(s) /\ Sum(s) \in Nat /\ Sum(t) \in Nat
    BY <1>1
  <2>4. t # s
    <3> HIDE DEF Sum
    <3> QED BY <2>2, <2>3
  <2>5. PICK x \in s : x \notin t
    BY <2>4
  <2>6. t \in SUBSET (s \ {x}) /\ s \ {x} \in SUBSET S
    BY <2>3, <2>5
  <2>7. Sum(t) <= Sum(s \ {x})
    BY <2>1, <2>5, <2>6
  <2>8. Sum(s) = w[x] + Sum(s \ {x})
    BY <2>3, <2>5, SumRemove
  <2>9. Sum(s \ {x}) \in Nat /\ w[x] \in Nat
    BY <1>1, <2>6, <2>3
  <2> HIDE DEF Sum, C
  <2> QED BY <2>2, <2>3, <2>7, <2>8, <2>9
<1> QED BY <1>1, <1>2

(* The first k + 1 of a sequence of numbers.                                *)
LEMMA SumOfPrefix ==
    ASSUME NEW s \in Seq(Nat), NEW k \in 0 .. Len(s) - 1
    PROVE  /\ SumFunctionOnSet(s, 1 .. k + 1)
                 = SumFunctionOnSet(s, 1 .. k) + s[k + 1]
           /\ SumFunctionOnSet(s, 1 .. k) \in Nat
           /\ SumFunctionOnSet(s, 1 .. k + 1) <= SumFunction(s)
           /\ SumFunction(s) \in Nat
<1>1. IsFiniteSet(1 .. k) /\ IsFiniteSet(1 .. k + 1) /\ IsFiniteSet(1 .. Len(s))
  BY FS_Interval
<1>2. \A x \in 1 .. Len(s) : s[x] \in Nat
  OBVIOUS
<1>3. k + 1 \in 1 .. k + 1 /\ (1 .. k + 1) \ {k + 1} = 1 .. k
      /\ 1 .. k + 1 \subseteq 1 .. Len(s) /\ 1 .. k \subseteq 1 .. Len(s)
  OBVIOUS
<1>4. SumFunctionOnSet(s, 1 .. k + 1)
          = s[k + 1] + SumFunctionOnSet(s, 1 .. k)
  <2>1. \A x \in 1 .. k + 1 : s[x] \in Nat
    BY <1>2, <1>3
  <2> QED BY <1>1, <1>3, <2>1, SumRemove
<1>5. SumFunctionOnSet(s, 1 .. k) \in Nat
  <2>1. \A x \in 1 .. k : s[x] \in Nat
    BY <1>2, <1>3
  <2> QED BY <1>1, <2>1, SumNat
<1>6. SumFunction(s) = SumFunctionOnSet(s, 1 .. Len(s))
  <2>1. DOMAIN s = 1 .. Len(s)
    OBVIOUS
  <2> QED BY <2>1 DEF SumFunction
<1>7. SumFunctionOnSet(s, 1 .. k + 1) <= SumFunctionOnSet(s, 1 .. Len(s))
  BY <1>1, <1>2, <1>3, SumOfPart
<1>8. SumFunctionOnSet(s, 1 .. Len(s)) \in Nat
  BY <1>1, <1>2, SumNat
<1>9. s[k + 1] \in Nat
  BY <1>2, <1>3
<1> QED BY <1>4, <1>5, <1>6, <1>7, <1>8, <1>9

-----------------------------------------------------------------------------
(* Slices: the elements after the i-th, up to the j-th                      *)

LEMMA Slice ==
    ASSUME NEW S, NEW s \in Seq(S), NEW i \in Nat, NEW j \in Nat,
           i <= j, j <= Len(s)
    PROVE  /\ SubSeq(s, i + 1, j) \in Seq(S)
           /\ Len(SubSeq(s, i + 1, j)) = j - i
           /\ \A k \in 1 .. j - i : SubSeq(s, i + 1, j)[k] = s[i + k]
<1>1. \A k \in i + 1 .. j : s[k] \in S
  BY LenProperties
<1>2. /\ SubSeq(s, i + 1, j) \in Seq(S)
      /\ Len(SubSeq(s, i + 1, j)) = IF i + 1 <= j THEN j - (i + 1) + 1 ELSE 0
      /\ \A k \in 1 .. j - (i + 1) + 1 : SubSeq(s, i + 1, j)[k] = s[(i + 1) + k - 1]
  BY <1>1, SubSeqProperties
<1>3. \A k \in 1 .. j - i : k \in 1 .. j - (i + 1) + 1 /\ (i + 1) + k - 1 = i + k
  OBVIOUS
<1> QED BY <1>2, <1>3

LEMMA SliceOfSlice ==
    ASSUME NEW S, NEW s \in Seq(S), NEW i \in Nat, NEW j \in Nat,
           i <= j, j <= Len(s), NEW a \in Nat, NEW b \in Nat, a <= b, b <= j - i
    PROVE  SubSeq(SubSeq(s, i + 1, j), a + 1, b) = SubSeq(s, i + a + 1, i + b)
<1> DEFINE t == SubSeq(s, i + 1, j)
           u == SubSeq(t, a + 1, b)
           v == SubSeq(s, (i + a) + 1, i + b)
<1>1. /\ t \in Seq(S) /\ Len(t) = j - i
      /\ \A k \in 1 .. j - i : t[k] = s[i + k]
  BY Slice
<1>2. /\ v \in Seq(S) /\ Len(v) = b - a
      /\ \A k \in 1 .. b - a : v[k] = s[(i + a) + k]
  <2>1. i + a \in Nat /\ i + b \in Nat /\ i + a <= i + b /\ i + b <= Len(s)
    BY LenProperties
  <2>2. (i + b) - (i + a) = b - a
    OBVIOUS
  <2> HIDE DEF v
  <2> QED BY <2>1, <2>2, Slice DEF v
<1>3. /\ u \in Seq(S) /\ Len(u) = b - a
      /\ \A k \in 1 .. b - a : u[k] = t[a + k]
  <2> HIDE DEF t
  <2> QED BY <1>1, Slice
<1>4. \A k \in 1 .. b - a : u[k] = v[k]
  <2> HIDE DEF t, u, v
  <2> TAKE k \in 1 .. b - a
  <2>1. a + k \in 1 .. j - i /\ i + (a + k) = (i + a) + k
    OBVIOUS
  <2> QED BY <2>1, <1>1, <1>2, <1>3
<1> HIDE DEF u, v
<1>5. u = v
  BY <1>2, <1>3, <1>4, SeqEqual
<1> QED BY <1>5 DEF u, v, t

LEMMA SlicesJoin ==
    ASSUME NEW S, NEW s \in Seq(S), NEW i \in Nat, NEW j \in Nat, NEW k \in Nat,
           i <= j, j <= k, k <= Len(s)
    PROVE  SubSeq(s, i + 1, j) \o SubSeq(s, j + 1, k) = SubSeq(s, i + 1, k)
<1>1. /\ i + 1 \in 1 .. Len(s) + 1 /\ j \in (i + 1) - 1 .. Len(s)
      /\ k \in j .. Len(s)
  BY LenProperties
<1> QED BY <1>1, ConcatAdjacentSubSeq

(* The middle of three sequences joined.                                    *)
LEMMA MiddleSlice ==
    ASSUME NEW S, NEW x \in Seq(S), NEW y \in Seq(S), NEW z \in Seq(S)
    PROVE  SubSeq((x \o y) \o z, Len(x) + 1, Len(x) + Len(y)) = y
<1> DEFINE w == (x \o y) \o z
<1>1. /\ x \o y \in Seq(S) /\ Len(x \o y) = Len(x) + Len(y)
      /\ \A i \in 1 .. Len(x) + Len(y) : (x \o y)[i] =
                     IF i <= Len(x) THEN x[i] ELSE y[i - Len(x)]
  BY ConcatProperties
<1>2. /\ w \in Seq(S) /\ Len(w) = Len(x) + Len(y) + Len(z)
      /\ \A i \in 1 .. Len(x) + Len(y) : w[i] = (x \o y)[i]
  <2>1. /\ w \in Seq(S) /\ Len(w) = Len(x \o y) + Len(z)
        /\ \A i \in 1 .. Len(x \o y) + Len(z) : w[i] =
               IF i <= Len(x \o y) THEN (x \o y)[i] ELSE z[i - Len(x \o y)]
    BY <1>1, ConcatProperties
  <2>2. Len(x) \in Nat /\ Len(y) \in Nat /\ Len(z) \in Nat
    BY LenProperties
  <2> HIDE DEF w
  <2> QED BY <1>1, <2>1, <2>2
<1>3. Len(x) \in Nat /\ Len(y) \in Nat /\ Len(z) \in Nat
  BY LenProperties
<1> HIDE DEF w
<1> DEFINE m == SubSeq(w, Len(x) + 1, Len(x) + Len(y))
<1>4. /\ m \in Seq(S) /\ Len(m) = Len(y)
      /\ \A k \in 1 .. Len(y) : m[k] = w[Len(x) + k]
  <2>1. /\ Len(x) <= Len(x) + Len(y) /\ Len(x) + Len(y) <= Len(w)
        /\ (Len(x) + Len(y)) - Len(x) = Len(y) /\ Len(x) + Len(y) \in Nat
    BY <1>2, <1>3
  <2> HIDE DEF m
  <2> QED BY <1>2, <1>3, <2>1, Slice DEF m
<1> HIDE DEF m
<1>5. \A k \in 1 .. Len(y) : m[k] = y[k]
  <2> TAKE k \in 1 .. Len(y)
  <2>1. /\ Len(x) + k \in 1 .. Len(x) + Len(y)
        /\ ~(Len(x) + k <= Len(x)) /\ (Len(x) + k) - Len(x) = k
    BY <1>3
  <2> QED BY <1>1, <1>2, <1>4, <2>1
<1>6. m = y
  BY <1>4, <1>5, SeqEqual
<1> QED BY <1>6 DEF m, w

-----------------------------------------------------------------------------
(* FlattenSeq joins sequences, by a recursive function over the prefixes.   *)

Joins(f, seqs, n) ==
    f = [i \in 1 .. n |-> IF i = 1 THEN seqs[i] ELSE f[i - 1] \o seqs[i]]

LEMMA FlattenIsChosen ==
    ASSUME NEW seqs, Len(seqs) # 0
    PROVE  FlattenSeq(seqs) = (CHOOSE f : Joins(f, seqs, Len(seqs)))[Len(seqs)]
BY DEF FlattenSeq, Joins

LEMMA JoinsExist ==
    ASSUME NEW seqs, NEW N \in Nat
    PROVE  \E f : Joins(f, seqs, N)
<1> DEFINE Bad == {n \in 1 .. N : ~ \E f : Joins(f, seqs, n)}
<1>1. ASSUME Bad # {} PROVE FALSE
  <2>1. PICK n \in Bad : \A m \in Bad : n <= m
    <3>1. Bad \subseteq 1 .. N
      OBVIOUS
    <3> HIDE DEF Bad
    <3> QED BY <1>1, <3>1, LeastUpTo
  <2>2. n \in 1 .. N /\ ~ \E f : Joins(f, seqs, n)
    OBVIOUS
  <2>3. CASE n = 1
    <3> DEFINE g == [i \in 1 .. 1 |-> seqs[1]]
    <3>1. Joins(g, seqs, 1)
      BY DEF Joins
    <3> QED BY <2>2, <2>3, <3>1
  <2>4. CASE n # 1
    <3>1. n - 1 \in 1 .. N /\ n - 1 \notin Bad
      <4>1. n - 1 \in 1 .. N
        BY <2>2, <2>4
      <4> HIDE DEF Bad
      <4> QED BY <4>1, <2>1, <2>2
    <3>2. PICK f : Joins(f, seqs, n - 1)
      BY <3>1
    <3> DEFINE g == [i \in 1 .. n |->
                       IF i = n THEN f[n - 1] \o seqs[n] ELSE f[i]]
    <3>3. \A i \in 1 .. n :
              g[i] = IF i = 1 THEN seqs[i] ELSE g[i - 1] \o seqs[i]
      <4> TAKE i \in 1 .. n
      <4>1. CASE i = n
        <5>1. n - 1 \in 1 .. n /\ n - 1 # n /\ n \in 1 .. n
          BY <2>2, <2>4
        <5>2. g[n - 1] = f[n - 1] /\ g[n] = f[n - 1] \o seqs[n]
          BY <5>1
        <5> HIDE DEF g
        <5> QED BY <4>1, <5>2, <2>4
      <4>2. CASE i # n
        <5>1. i \in 1 .. n - 1 /\ (i # 1 => i - 1 \in 1 .. n - 1)
          BY <4>2, <2>2
        <5>2. f[i] = IF i = 1 THEN seqs[i] ELSE f[i - 1] \o seqs[i]
          BY <5>1, <3>2 DEF Joins
        <5>3. g[i] = f[i] /\ (i # 1 => g[i - 1] = f[i - 1])
          BY <5>1, <4>2, <2>2
        <5> QED BY <5>2, <5>3
      <4> QED BY <4>1, <4>2
    <3>4. Joins(g, seqs, n)
      <4>1. g = [i \in 1 .. n |-> g[i]]
        OBVIOUS
      <4> HIDE DEF g
      <4> QED BY <3>3, <4>1 DEF Joins
    <3> QED BY <2>2, <3>4
  <2> QED BY <2>3, <2>4
<1>2. CASE N = 0
  <2> DEFINE g == [i \in 1 .. 0 |-> 0]
  <2>1. Joins(g, seqs, 0)
    BY DEF Joins
  <2> QED BY <1>2, <2>1
<1>3. CASE N # 0
  <2>1. N \in 1 .. N
    BY <1>3
  <2> QED BY <1>1, <2>1
<1> QED BY <1>2, <1>3

LEMMA FlattenJoins ==
    ASSUME NEW seqs, Len(seqs) \in Nat, Len(seqs) # 0
    PROVE  \E f : /\ Joins(f, seqs, Len(seqs))
                 /\ FlattenSeq(seqs) = f[Len(seqs)]
<1> DEFINE f == CHOOSE g : Joins(g, seqs, Len(seqs))
<1>1. \E g : Joins(g, seqs, Len(seqs))
  BY JoinsExist
<1>2. Joins(f, seqs, Len(seqs))
  BY <1>1
<1>3. FlattenSeq(seqs) = f[Len(seqs)]
  BY FlattenIsChosen
<1> HIDE DEF f
<1> QED BY <1>2, <1>3

(* What has been joined of a sequence depends on that much of it.           *)
LEMMA JoinsAgree ==
    ASSUME NEW s, NEW t, NEW f, NEW g, NEW m \in Nat, NEW n \in 1 .. m,
           Joins(f, s, m), Joins(g, t, n), \A i \in 1 .. n : s[i] = t[i]
    PROVE  f[n] = g[n]
<1> DEFINE Bad == {i \in 1 .. n : f[i] # g[i]}
<1>1. ASSUME Bad # {} PROVE FALSE
  <2>1. PICK i \in Bad : \A j \in Bad : i <= j
    <3>1. Bad \subseteq 1 .. n /\ n \in Nat
      OBVIOUS
    <3> HIDE DEF Bad
    <3> QED BY <1>1, <3>1, LeastUpTo
  <2>2. i \in 1 .. n /\ i \in 1 .. m /\ f[i] # g[i]
    OBVIOUS
  <2>3. /\ f[i] = IF i = 1 THEN s[i] ELSE f[i - 1] \o s[i]
        /\ g[i] = IF i = 1 THEN t[i] ELSE g[i - 1] \o t[i]
    BY <2>2 DEF Joins
  <2>4. i # 1
    BY <2>2, <2>3
  <2>5. i - 1 \in 1 .. n /\ ~(i <= i - 1)
    BY <2>2, <2>4
  <2>6. f[i - 1] = g[i - 1]
    BY <2>1, <2>5
  <2> QED BY <2>2, <2>3, <2>4, <2>6
<1>2. n \in 1 .. n
  OBVIOUS
<1> QED BY <1>1, <1>2

LEMMA FlattenEmpty == FlattenSeq(<<>>) = <<>>
BY DEF FlattenSeq

(* The last sequence is joined to what the others give.                     *)
LEMMA FlattenLast ==
    ASSUME NEW S, NEW seqs \in Seq(Seq(S)), Len(seqs) # 0
    PROVE  FlattenSeq(seqs) =
              FlattenSeq(SubSeq(seqs, 1, Len(seqs) - 1)) \o seqs[Len(seqs)]
<1> DEFINE n == Len(seqs)
           front == SubSeq(seqs, 1, n - 1)
<1>1. n \in Nat /\ n > 0 /\ seqs[n] \in Seq(S)
  OBVIOUS
<1>2. /\ front \in Seq(Seq(S)) /\ Len(front) = n - 1
      /\ \A i \in 1 .. n - 1 : seqs[i] = front[i]
  <2>1. /\ 0 \in Nat /\ n - 1 \in Nat /\ 0 <= n - 1 /\ n - 1 <= Len(seqs)
        /\ (n - 1) - 0 = n - 1 /\ 0 + 1 = 1
    BY <1>1
  <2>2. /\ SubSeq(seqs, 0 + 1, n - 1) \in Seq(Seq(S))
        /\ Len(SubSeq(seqs, 0 + 1, n - 1)) = (n - 1) - 0
        /\ \A k \in 1 .. (n - 1) - 0 : SubSeq(seqs, 0 + 1, n - 1)[k] = seqs[0 + k]
    <3> HIDE DEF n
    <3> QED BY <2>1, Slice
  <2>3. \A k \in 1 .. n - 1 : 0 + k = k
    OBVIOUS
  <2> HIDE DEF n
  <2> QED BY <2>1, <2>2, <2>3
<1>3. PICK f : Joins(f, seqs, n) /\ FlattenSeq(seqs) = f[n]
  BY <1>1, FlattenJoins
<1> HIDE DEF n
<1>4. CASE n = 1
  <2>1. front = <<>>
    BY <1>2, <1>4
  <2>2. f[n] = seqs[n]
    BY <1>3, <1>4 DEF Joins
  <2>3. FlattenSeq(front) = <<>>
    BY <2>1, FlattenEmpty
  <2> HIDE DEF front
  <2>4. <<>> \o seqs[n] = seqs[n]
    BY <1>1, ConcatEmptySeq
  <2> QED BY <2>2, <2>3, <2>4, <1>3 DEF n, front
<1>5. CASE n # 1
  <2> HIDE DEF front
  <2>1. PICK g : Joins(g, front, n - 1) /\ FlattenSeq(front) = g[n - 1]
    BY <1>1, <1>2, <1>5, FlattenJoins
  <2>2. f[n - 1] = g[n - 1]
    <3>1. n - 1 \in 1 .. n
      BY <1>1, <1>5
    <3> QED BY <3>1, <1>1, <1>2, <1>3, <2>1, JoinsAgree
  <2>3. f[n] = f[n - 1] \o seqs[n]
    <3>1. n \in 1 .. n
      BY <1>1
    <3> QED BY <3>1, <1>3, <1>5 DEF Joins
  <2> QED BY <2>1, <2>2, <2>3, <1>3 DEF n, front
<1> QED BY <1>4, <1>5

-----------------------------------------------------------------------------
(* What a slice of the sequences gives is a slice of what they all give.    *)

LEMMA FlattenType ==
    ASSUME NEW S, NEW seqs \in Seq(Seq(S))
    PROVE  FlattenSeq(seqs) \in Seq(S)
<1> DEFINE n == Len(seqs)
           Part(k) == SubSeq(seqs, 1, k)
           Bad == {k \in 1 .. n : FlattenSeq(Part(k)) \notin Seq(S)}
<1>1. n \in Nat
  BY LenProperties
<1>2. CASE n = 0
  BY <1>2, FlattenEmpty, EmptySeq
<1>3. ASSUME Bad # {} PROVE FALSE
  <2>1. PICK k \in Bad : \A m \in Bad : k <= m
    <3>1. Bad \subseteq 1 .. n
      OBVIOUS
    <3> HIDE DEF Bad, n
    <3> QED BY <1>1, <1>3, <3>1, LeastUpTo
  <2>2. k \in 1 .. n /\ FlattenSeq(Part(k)) \notin Seq(S)
    OBVIOUS
  <2>3. k - 1 \in Nat /\ FlattenSeq(Part(k - 1)) \in Seq(S)
    <3>1. CASE k = 1
      <4>1. k - 1 = 0 /\ <<>> \in Seq(S)
        BY <3>1, EmptySeq
      <4>2. Part(k - 1) = <<>>
        <5> HIDE DEF Bad
        <5> QED BY <4>1, SubSeqEmpty
      <4>3. FlattenSeq(Part(k - 1)) = <<>>
        <5> HIDE DEF Part, Bad
        <5> QED BY <4>2, FlattenEmpty
      <4>4. FlattenSeq(Part(k - 1)) \in Seq(S)
        <5> HIDE DEF Part, Bad
        <5> QED BY <4>1, <4>3, Zenon
      <4>5. k - 1 \in Nat
        <5> HIDE DEF Part, Bad
        <5> QED BY <4>1
      <4> HIDE DEF Part, Bad
      <4> QED BY <4>4, <4>5
    <3>2. CASE k # 1
      <4>1. k - 1 \in 1 .. n /\ ~(k <= k - 1)
        BY <2>2, <3>2, <1>1
      <4>2. k - 1 \notin Bad
        <5> HIDE DEF Bad
        <5> QED BY <4>1, <2>1
      <4> HIDE DEF Part
      <4> QED BY <4>1, <4>2
    <3> QED BY <3>1, <3>2
  <2>4. /\ Part(k) \in Seq(Seq(S)) /\ Len(Part(k)) = k
        /\ Part(k)[k] = seqs[k] /\ seqs[k] \in Seq(S)
        /\ SubSeq(Part(k), 1, k - 1) = Part(k - 1)
    <3>1. 0 \in Nat /\ k \in Nat /\ 0 <= k /\ k <= Len(seqs) /\ k - 0 = k
          /\ 0 + 1 = 1 /\ k \in 1 .. k /\ 0 + k = k
      BY <2>2, <1>1
    <3>2. /\ Part(k) \in Seq(Seq(S)) /\ Len(Part(k)) = k
          /\ \A i \in 1 .. k : Part(k)[i] = seqs[0 + i]
      BY <3>1, Slice
    <3>3. seqs[k] \in Seq(S)
      BY <2>2, LenProperties
    <3>4. SubSeq(SubSeq(seqs, 0 + 1, k), 0 + 1, k - 1) = SubSeq(seqs, 0 + 0 + 1, 0 + (k - 1))
      <4>1. 0 <= k - 1 /\ k - 1 <= k - 0 /\ k - 1 \in Nat
        BY <2>2, <1>1
      <4> QED BY <3>1, <4>1, SliceOfSlice
    <3>5. 0 + 0 + 1 = 1 /\ 0 + (k - 1) = k - 1
      BY <2>2
    <3> QED BY <3>1, <3>2, <3>3, <3>4, <3>5
  <2>5. FlattenSeq(Part(k)) = FlattenSeq(Part(k - 1)) \o seqs[k]
    <3>1. k # 0
      BY <2>2
    <3> HIDE DEF Part
    <3> QED BY <2>4, <3>1, FlattenLast
  <2> HIDE DEF Part, Bad, n
  <2> QED BY <2>2, <2>3, <2>4, <2>5, ConcatProperties
<1>4. CASE n # 0
  <2>1. n \in 1 .. n /\ Part(n) = seqs
    BY <1>1, <1>4, SubSeqFull
  <2>2. n \notin Bad
    BY <1>3
  <2> HIDE DEF Part, n
  <2> QED BY <2>1, <2>2
<1> QED BY <1>2, <1>4

(* The part of a sequence up to the k-th element, and what that element     *)
(* adds to it.                                                              *)
LEMMA FlattenPart ==
    ASSUME NEW S, NEW seqs \in Seq(Seq(S)), NEW i \in Nat, NEW k \in Nat,
           i < k, k <= Len(seqs)
    PROVE  /\ seqs[k] \in Seq(S)
           /\ FlattenSeq(SubSeq(seqs, i + 1, k)) =
                 FlattenSeq(SubSeq(seqs, i + 1, k - 1)) \o seqs[k]
<1> DEFINE p == SubSeq(seqs, i + 1, k)
<1>1. /\ p \in Seq(Seq(S)) /\ Len(p) = k - i
      /\ \A x \in 1 .. k - i : p[x] = seqs[i + x]
  <2>1. i <= k
    OBVIOUS
  <2> QED BY <2>1, Slice
<1>2. p[k - i] = seqs[k] /\ k - i # 0
  <2>1. k - i \in 1 .. k - i /\ i + (k - i) = k
    OBVIOUS
  <2> HIDE DEF p
  <2> QED BY <1>1, <2>1
<1>3. SubSeq(p, 1, k - i - 1) = SubSeq(seqs, i + 1, k - 1)
  <2>1. /\ i <= k /\ 0 \in Nat /\ k - i - 1 \in Nat /\ 0 <= k - i - 1
        /\ k - i - 1 <= k - i
        /\ 0 + 1 = 1 /\ i + 0 + 1 = i + 1 /\ i + (k - i - 1) = k - 1
    OBVIOUS
  <2>2. SubSeq(SubSeq(seqs, i + 1, k), 0 + 1, k - i - 1) =
           SubSeq(seqs, i + 0 + 1, i + (k - i - 1))
    BY <2>1, SliceOfSlice
  <2> QED BY <2>1, <2>2
<1>4. FlattenSeq(p) = FlattenSeq(SubSeq(p, 1, k - i - 1)) \o p[k - i]
  <2> HIDE DEF p
  <2> QED BY <1>1, <1>2, FlattenLast
<1>5. seqs[k] \in Seq(S)
  <2>1. k \in 1 .. Len(seqs)
    BY LenProperties
  <2> QED BY <2>1, LenProperties
<1> QED BY <1>2, <1>3, <1>4, <1>5

LEMMA FlattenNothing ==
    ASSUME NEW seqs, NEW i \in Nat
    PROVE  FlattenSeq(SubSeq(seqs, i + 1, i)) = <<>>
<1>1. SubSeq(seqs, i + 1, i) = <<>>
  BY SubSeqEmpty
<1> QED BY <1>1, FlattenEmpty

LEMMA FlattenSplit ==
    ASSUME NEW S, NEW seqs \in Seq(Seq(S)), NEW i \in Nat, NEW j \in Nat,
           i <= j, j <= Len(seqs)
    PROVE  FlattenSeq(SubSeq(seqs, 1, j)) =
              FlattenSeq(SubSeq(seqs, 1, i)) \o FlattenSeq(SubSeq(seqs, i + 1, j))
<1> DEFINE To(k) == FlattenSeq(SubSeq(seqs, 1, k))
           From(k) == FlattenSeq(SubSeq(seqs, i + 1, k))
           Bad == {k \in 1 .. j : i < k /\ To(k) # To(i) \o From(k)}
<1>1. \A k \in Nat : k <= Len(seqs) => To(k) \in Seq(S) /\ (i <= k => From(k) \in Seq(S))
  <2> TAKE k \in Nat
  <2> SUFFICES ASSUME k <= Len(seqs)
               PROVE  To(k) \in Seq(S) /\ (i <= k => From(k) \in Seq(S))
    OBVIOUS
  <2>1. SubSeq(seqs, 0 + 1, k) \in Seq(Seq(S))
    <3>1. 0 \in Nat /\ 0 <= k
      OBVIOUS
    <3> QED BY <3>1, Slice
  <2>2. i <= k => SubSeq(seqs, i + 1, k) \in Seq(Seq(S))
    BY Slice
  <2>3. 0 + 1 = 1
    OBVIOUS
  <2> QED BY <2>1, <2>2, <2>3, FlattenType
<1>2. To(i) = To(i) \o From(i)
  <2>1. From(i) = <<>>
    BY FlattenNothing
  <2>2. To(i) \in Seq(S)
    <3>1. Len(seqs) \in Nat
      BY LenProperties
    <3> HIDE DEF To, From
    <3> QED BY <1>1, <3>1
  <2> HIDE DEF To, From
  <2> QED BY <2>1, <2>2, ConcatEmptySeq
<1>3. ASSUME Bad # {} PROVE FALSE
  <2>1. PICK k \in Bad : \A m \in Bad : k <= m
    <3>1. Bad \subseteq 1 .. j
      OBVIOUS
    <3> HIDE DEF Bad
    <3> QED BY <1>3, <3>1, LeastUpTo
  <2>2. k \in 1 .. j /\ i < k /\ To(k) # To(i) \o From(k)
    OBVIOUS
  <2>3. /\ k \in Nat /\ k <= Len(seqs) /\ k - 1 \in Nat /\ i <= k - 1
        /\ k - 1 <= Len(seqs) /\ 0 < k /\ i <= k /\ i <= Len(seqs)
    <3>1. Len(seqs) \in Nat
      BY LenProperties
    <3> HIDE DEF Bad
    <3> QED BY <2>2, <3>1
  <2>4. To(k - 1) = To(i) \o From(k - 1)
    <3>1. CASE k - 1 = i
      <4> HIDE DEF To, From
      <4> QED BY <3>1, <1>2
    <3>2. CASE k - 1 # i
      <4>1. k - 1 \in 1 .. j /\ i < k - 1 /\ ~(k <= k - 1)
        <5> HIDE DEF Bad
        <5> QED BY <2>2, <2>3, <3>2
      <4>2. k - 1 \notin Bad
        <5> HIDE DEF Bad
        <5> QED BY <4>1, <2>1
      <4> HIDE DEF To, From
      <4> QED BY <4>1, <4>2
    <3> QED BY <3>1, <3>2
  <2>5. seqs[k] \in Seq(S) /\ From(k) = From(k - 1) \o seqs[k]
    <3> HIDE DEF Bad
    <3> QED BY <2>2, <2>3, FlattenPart
  <2>6. To(k) = To(k - 1) \o seqs[k]
    <3>1. 0 \in Nat /\ 0 + 1 = 1
      OBVIOUS
    <3>2. FlattenSeq(SubSeq(seqs, 0 + 1, k)) =
             FlattenSeq(SubSeq(seqs, 0 + 1, k - 1)) \o seqs[k]
      <4> HIDE DEF Bad
      <4> QED BY <2>3, <3>1, FlattenPart
    <3> QED BY <3>1, <3>2
  <2>7. To(i) \in Seq(S) /\ From(k - 1) \in Seq(S)
    <3> HIDE DEF To, From, Bad
    <3> QED BY <1>1, <2>3
  <2>8. (To(i) \o From(k - 1)) \o seqs[k] = To(i) \o (From(k - 1) \o seqs[k])
    <3> HIDE DEF To, From, Bad
    <3>1. \A x, y, z \in Seq(S) : (x \o y) \o z = x \o (y \o z)
      BY SMTT(20), ZenonT(30), ConcatAssociative
    <3> QED BY <2>5, <2>7, <3>1, Zenon
  <2> HIDE DEF To, From, Bad
  <2> QED BY <2>2, <2>4, <2>5, <2>6, <2>8
<1>4. CASE i = j
  <2> HIDE DEF To, From
  <2>1. To(j) = To(i) \o From(j)
    BY <1>2, <1>4
  <2> QED BY <2>1 DEF To, From
<1>5. CASE i # j
  <2>1. j \in 1 .. j /\ i < j /\ j \notin Bad
    <3>1. j \in 1 .. j /\ i < j
      BY <1>5
    <3> HIDE DEF Bad
    <3> QED BY <3>1, <1>3
  <2>2. To(j) = To(i) \o From(j)
    <3> HIDE DEF To, From
    <3> QED BY <2>1
  <2> QED BY <2>2
<1> QED BY <1>4, <1>5

LEMMA FlattenSlice ==
    ASSUME NEW S, NEW seqs \in Seq(Seq(S)), NEW i \in Nat, NEW j \in Nat,
           i <= j, j <= Len(seqs)
    PROVE  LET at(k) == Len(FlattenSeq(SubSeq(seqs, 1, k)))
           IN  /\ at(i) \in Nat /\ at(j) \in Nat
               /\ at(i) <= at(j) /\ at(j) <= Len(FlattenSeq(seqs))
               /\ FlattenSeq(SubSeq(seqs, i + 1, j)) =
                     SubSeq(FlattenSeq(seqs), at(i) + 1, at(j))
<1> DEFINE n == Len(seqs)
           x == FlattenSeq(SubSeq(seqs, 1, i))
           y == FlattenSeq(SubSeq(seqs, i + 1, j))
           z == FlattenSeq(SubSeq(seqs, j + 1, n))
           w == FlattenSeq(SubSeq(seqs, 1, j))
           v == FlattenSeq(seqs)
<1>1. n \in Nat
  BY LenProperties
<1>2. /\ x \in Seq(S) /\ y \in Seq(S) /\ z \in Seq(S)
  <2>1. 0 \in Nat /\ 0 + 1 = 1 /\ 0 <= i /\ i <= n /\ j <= n /\ n <= n
    BY <1>1
  <2>2. /\ SubSeq(seqs, 0 + 1, i) \in Seq(Seq(S))
        /\ SubSeq(seqs, i + 1, j) \in Seq(Seq(S))
        /\ SubSeq(seqs, j + 1, n) \in Seq(Seq(S))
    <3> HIDE DEF n
    <3> QED BY <1>1, <2>1, Slice DEF n
  <2> HIDE DEF n
  <2> QED BY <2>1, <2>2, FlattenType
<1>3. w = x \o y
  BY FlattenSplit
<1>4. v = w \o z
  <2>1. SubSeq(seqs, 1, n) = seqs
    BY SubSeqFull
  <2>2. FlattenSeq(SubSeq(seqs, 1, n)) = w \o z
    <3> HIDE DEF n
    <3> QED BY <1>1, FlattenSplit DEF n
  <2> QED BY <2>1, <2>2
<1> HIDE DEF x, y, z, w, v
<1>5. SubSeq(v, Len(x) + 1, Len(x) + Len(y)) = y
  BY <1>2, <1>3, <1>4, MiddleSlice
<1>6. /\ w \in Seq(S) /\ Len(w) = Len(x) + Len(y)
      /\ Len(v) = Len(w) + Len(z)
  BY <1>2, <1>3, <1>4, ConcatProperties
<1>7. Len(x) \in Nat /\ Len(y) \in Nat /\ Len(z) \in Nat
  BY <1>2, LenProperties
<1>8. /\ Len(x) \in Nat /\ Len(w) \in Nat /\ Len(x) <= Len(w) /\ Len(w) <= Len(v)
      /\ y = SubSeq(v, Len(x) + 1, Len(w))
  BY <1>5, <1>6, <1>7
<1> QED BY <1>8 DEF x, y, w, v
===============================================================================
