-------------------------- MODULE ExtractionProofs --------------------------
(***************************************************************************)
(* Proofs about PolicyExtraction, for any destination, archives, policies, *)
(* faults and other programs: what a call writes stays within the quota,   *)
(* nothing that was there is lost under a policy that says so, an          *)
(* inspection foretells what an extraction finds, and members are          *)
(* delivered whole or not at all.                                          *)
(***************************************************************************)
EXTENDS PolicyExtraction, FoldTheorems

(* A member is being made.                                                  *)
Making == {"prepare", "parents", "file", "dir", "symlink", "fifo", "device",
           "link", "copy"}

Result == [status : {"extracted", "skipped", "failed", "previewed"},
           target : Paths \cup {Root}, bytes : Nat]

(* What the other invariants need to know of the state: the kind of the     *)
(* member decides which steps it takes, and the temporary file holds the    *)
(* chunks read so far.                                                      *)
Steps ==
    /\ pc \in Making => i \in DOMAIN members /\ target \in Paths
    /\ pc \in {"file", "dir", "symlink", "fifo", "device"} => M.kind = pc
    /\ pc = "link" => M.kind \in {"symlink", "fifo"}
    /\ pc = "copy" =>
          /\ M.kind = "file"
          /\ temp.read \in 0 .. Len(M.chunks)
          /\ temp.size = SumFunctionOnSet(M.chunks, 1 .. temp.read)
    /\ pc \notin {"copy", "crashed"} => temp = NoTemp

Shape ==
    /\ TypeOK /\ Steps
    /\ temp \in [open : BOOLEAN, size : Nat, read : Nat]
    /\ results \in Seq(Result)
    /\ before \in Initial

-----------------------------------------------------------------------------
(* What the constants give.                                                 *)

LEMMA GreatestUpTo ==
    ASSUME NEW n \in Nat, NEW S \in SUBSET (1 .. n), S # {}
    PROVE  \E k \in S : \A j \in S : j <= k
<1> DEFINE T == {n + 1 - k : k \in S}
<1>1. T \subseteq 1 .. n /\ T # {}
  <2>1. \A k \in S : n + 1 - k \in 1 .. n
    OBVIOUS
  <2>2. T # {}
    OBVIOUS
  <2> QED BY <2>1, <2>2
<1>2. PICK l \in T : \A j \in T : l <= j
  <2> HIDE DEF T
  <2> QED BY <1>1, LeastUpTo
<1>3. PICK k \in S : l = n + 1 - k
  BY <1>2
<1>4. ASSUME NEW j \in S PROVE j <= k
  <2>1. l <= n + 1 - j
    BY <1>2
  <2> QED BY <1>3, <2>1
<1> QED BY <1>4

(* What is extracted for an entry is one of its name, which goes to the     *)
(* same place.                                                              *)
LEMMA GetInfoIs ==
    ASSUME NEW a \in Seq(Member), NEW k \in DOMAIN a
    PROVE  \E j \in DOMAIN a : /\ GetInfo(a, a[k].name) = a[j]
                              /\ a[j].name = a[k].name
<1> DEFINE Latest(j) == /\ a[j].name = a[k].name
                      /\ \A l \in j + 1 .. Len(a) : a[l].name # a[k].name
           S == {j \in DOMAIN a : a[j].name = a[k].name}
           c == CHOOSE j \in DOMAIN a : Latest(j)
<1>1. DOMAIN a = 1 .. Len(a) /\ Len(a) \in Nat
  OBVIOUS
<1>2. PICK j \in S : \A l \in S : l <= j
  <2>1. S \subseteq 1 .. Len(a) /\ S # {}
    BY <1>1
  <2> HIDE DEF S
  <2> QED BY <1>1, <2>1, GreatestUpTo
<1>3. Latest(j)
  <2>1. ASSUME NEW l \in j + 1 .. Len(a), a[l].name = a[k].name PROVE FALSE
    <3>1. l \in S /\ ~(l <= j)
      BY <1>1, <1>2, <2>1
    <3> QED BY <1>2, <3>1
  <2> QED BY <1>2, <2>1
<1>4. c \in DOMAIN a /\ Latest(c)
  BY <1>2, <1>3
<1>5. GetInfo(a, a[k].name) = a[c]
  BY DEF GetInfo
<1> HIDE DEF c
<1> QED BY <1>4, <1>5

LEMMA MembersAre ==
    ASSUME archive \in Archives, members \in {ByName(archive), archive}
    PROVE  /\ archive \in Seq(Member) /\ members \in Seq(Member)
           /\ Len(members) = Len(archive)
           /\ Range(members) \subseteq Range(archive)
           /\ \A k \in DOMAIN members : members[k].target = archive[k].target
<1>1. archive \in Seq(Member)
  BY ExtractionAssumption
<1>2. DOMAIN members = 1 .. Len(archive) /\ Len(archive) \in Nat
      /\ members = [k \in 1 .. Len(archive) |-> members[k]]
  BY <1>1 DEF ByName
<1>3. ASSUME NEW k \in 1 .. Len(archive)
      PROVE  \E j \in DOMAIN archive : /\ members[k] = archive[j]
                                      /\ archive[j].name = archive[k].name
  <2>1. k \in DOMAIN archive
    BY <1>1
  <2>2. CASE members = archive
    BY <2>1, <2>2
  <2>3. CASE members = ByName(archive)
    <3>1. members[k] = GetInfo(archive, archive[k].name)
      BY <2>1, <2>3 DEF ByName
    <3> QED BY <1>1, <2>1, <3>1, GetInfoIs
  <2> QED BY <2>2, <2>3
<1>4. ASSUME NEW k \in 1 .. Len(archive)
      PROVE  /\ members[k] \in Member /\ members[k] \in Range(archive)
             /\ members[k].target = archive[k].target
  <2>1. PICK j \in DOMAIN archive : /\ members[k] = archive[j]
                                    /\ archive[j].name = archive[k].name
    BY <1>3
  <2>2. archive[j] \in Range(archive) /\ archive[k] \in Range(archive)
    BY <1>1 DEF Range
  <2>3. archive[j].target = archive[k].target
    BY <2>1, <2>2, ExtractionAssumption
  <2> QED BY <1>1, <2>1, <2>2, <2>3
<1>5. members \in Seq(Member) /\ Len(members) = Len(archive)
  <2>1. members \in [1 .. Len(archive) -> Member]
    BY <1>2, <1>4
  <2> QED BY <1>2, <2>1
<1>6. Range(members) \subseteq Range(archive)
  BY <1>2, <1>4 DEF Range
<1> QED BY <1>1, <1>2, <1>4, <1>5, <1>6

LEMMA MemberFacts ==
    ASSUME archive \in Archives, members \in {ByName(archive), archive},
           NEW k \in DOMAIN members
    PROVE  /\ members \in Seq(Member)
           /\ members[k] \in Member /\ members[k].chunks \in Seq(Nat)
           /\ Total(members[k].chunks) \in Nat
           /\ Total(members[k].chunks) <= members[k].size
<1>1. members \in Seq(Member)
  BY MembersAre
<1>2. members[k] \in Member /\ members[k] \in Range(archive)
  <2>1. members[k] \in Range(members)
    BY DEF Range
  <2>2. members[k] \in Member
    BY <1>1
  <2> QED BY <2>1, <2>2, MembersAre
<1>3. Total(members[k].chunks) <= members[k].size
  BY <1>2, ExtractionAssumption
<1>4. members[k].chunks \in Seq(Nat)
  <2>1. members[k].chunks \in Seq(Nat \ {0})
    BY <1>2 DEF Member
  <2> QED BY <2>1
<1>5. Total(members[k].chunks) \in Nat
  <2> DEFINE s == members[k].chunks
  <2>1. DOMAIN s = 1 .. Len(s) /\ Len(s) \in Nat /\ \A x \in 1 .. Len(s) : s[x] \in Nat
    BY <1>4
  <2>2. IsFiniteSet(1 .. Len(s))
    BY <2>1, FS_Interval
  <2>3. SumFunctionOnSet(s, 1 .. Len(s)) \in Nat
    <3> HIDE DEF s
    <3> QED BY <2>1, <2>2, SumNat
  <2> QED BY <2>1, <2>3 DEF Total, SumFunction
<1> QED BY <1>1, <1>2, <1>3, <1>4, <1>5

LEMMA PolicyFacts ==
    ASSUME policy \in Policies
    PROVE  /\ policy \in Policy /\ policy.legacy \in BOOLEAN
           /\ policy.on \in {"error", "skip", "warn"}
           /\ policy.overwrite \in {"error", "skip", "replace", "rename"}
           /\ policy.maxEntries \in Nat /\ policy.maxMember \in Nat
           /\ policy.maxTotal \in Nat
<1>1. policy \in Policy
  BY ExtractionAssumption
<1> QED BY <1>1 DEF Policy, Actions

LEMMA NodeFacts ==
    /\ NoTemp \in [open : BOOLEAN, size : Nat, read : Nat]
    /\ Absent \in Node /\ Absent.kind = "none" /\ Absent.of = 0
    /\ Directory \in Node /\ Directory.kind = "dir" /\ Directory.of = 0
    /\ SomeFile \in Node /\ SomeFile.kind = "file" /\ SomeFile.of = 0
BY DEF NoTemp, Absent, Directory, SomeFile, Node

(* _effective_violations never lets a hard violation pass; no other passes  *)
(* unless violations are only warned of; and what is there is only passed   *)
(* over by a policy that says so.                                           *)
LEMMA Refused ==
    ASSUME policy \in Policies, NEW codes, NEW code \in codes,
           \/ code \in Hard
           \/ policy.on # "warn"
           \/ code = "overwrite" /\ policy.overwrite = "skip"
    PROVE  Verdict(codes) # "none"
<1> DEFINE action == Effective(code, Effective(code, Raw(code)))
<1>1. action \in {"error", "skip"}
  BY PolicyFacts DEF Effective, Raw, Hard
<1>2. action \in {Effective(c, Effective(c, Raw(c))) : c \in codes}
  OBVIOUS
<1> HIDE DEF action
<1> QED BY <1>1, <1>2 DEF Verdict

LEMMA ResolveType ==
    ASSUME NEW F \in [Paths -> Node], NEW p \in Paths
    PROVE  Resolve(F, p) \in Paths \cup {Root}
BY DEF Resolve, Node

(* The new name is nobody's.                                                *)
LEMMA FreeNameIsFree ==
    ASSUME NEW p \in Paths, NamesLeft(p)
    PROVE  FreeName(p) \in Paths /\ ~Exists(fs, FreeName(p))
<1>1. CASE ~Exists(fs, p)
  BY <1>1 DEF FreeName
<1>2. CASE Exists(fs, p)
  <2> DEFINE names == Renames[p]
             S == {k \in DOMAIN names : ~Exists(fs, names[k])}
             Free1(k) == /\ ~Exists(fs, Renames[p][k])
                         /\ \A j \in 1 .. k - 1 : Exists(fs, Renames[p][j])
  <2>1. names \in Seq(Paths)
    BY ExtractionAssumption
  <2>2. DOMAIN names = 1 .. Len(names) /\ Len(names) \in Nat
    BY <2>1
  <2>3. S # {}
    BY <1>2 DEF NamesLeft, Range
  <2>4. S \subseteq 1 .. Len(names)
    BY <2>2
  <2>5. PICK k \in S : \A j \in S : k <= j
    <3> HIDE DEF S
    <3> QED BY <2>2, <2>3, <2>4, LeastUpTo
  <2>6. k \in DOMAIN names /\ Free1(k)
    <3>1. k \in 1 .. Len(names) /\ ~Exists(fs, names[k])
      BY <2>2, <2>5
    <3>2. ASSUME NEW j \in 1 .. k - 1, ~Exists(fs, names[j]) PROVE FALSE
      <4>1. j \in S /\ ~(k <= j)
        BY <3>1, <3>2, <2>2
      <4> QED BY <4>1, <2>5
    <3> QED BY <3>1, <3>2, <2>2
  <2> DEFINE c == CHOOSE j \in DOMAIN Renames[p] : Free1(j)
  <2>7. c \in DOMAIN names /\ ~Exists(fs, names[c])
    BY <2>6
  <2>8. FreeName(p) = names[c]
    BY <1>2 DEF FreeName
  <2> HIDE DEF c
  <2> QED BY <2>1, <2>7, <2>8
<1> QED BY <1>1, <1>2
-----------------------------------------------------------------------------
(* Shape is inductive.                                                      *)

LEMMA ShapeInit == Init => Shape
<1> SUFFICES ASSUME Init PROVE Shape
  OBVIOUS
<1>1. members \in Seq(Member)
  BY MembersAre DEF Init
<1>2. fs \in [Paths -> Node]
  BY ExtractionAssumption DEF Init
<1>3. failing \in BOOLEAN
  BY DEF Init
<1> QED BY <1>1, <1>2, <1>3, NodeFacts DEF Init, Shape, TypeOK, Steps, Making, NoTemp

(* A report on the member that is being made, or assessed.                  *)
LEMMA Reported ==
    ASSUME Shape, pc = "assess" \/ pc \in Making, i \in DOMAIN members,
           NEW status \in {"extracted", "skipped", "failed", "previewed"},
           NEW p \in Paths \cup {Root}, NEW n \in Nat,
           Report(status, p, n), members' = members
    PROVE  /\ pc' = "assess" /\ target' = Root
           /\ i' = i + 1 /\ i' \in 1 .. Len(members) + 1
           /\ results' \in Seq(Result) /\ Len(results') = i' - 1
<1>1. members \in Seq(Member)
  BY MemberFacts DEF Shape, TypeOK
<1>2. [status |-> status, target |-> p, bytes |-> n] \in Result
  BY DEF Result
<1> QED BY SMTT(20), ZenonT(30), <1>1, <1>2 DEF Report, Shape, TypeOK

LEMMA Failed ==
    ASSUME Shape, pc \in Making, Fail, UNCHANGED <<policy, archive, members>>
    PROVE  /\ pc' \in {"raised", "assess"} /\ target' \in Paths \cup {Root}
           /\ i' \in 1 .. Len(members) + 1 /\ temp' = NoTemp
           /\ results' \in Seq(Result) /\ Len(results') = i' - 1
           /\ failing' \in BOOLEAN
<1>1. i \in DOMAIN members /\ target \in Paths
  BY DEF Shape, Steps
<1>2. CASE policy.legacy
  BY <1>2, <1>1 DEF Fail, Shape, TypeOK
<1>3. CASE ~policy.legacy
  BY <1>3, <1>1, Reported DEF Fail, Shape, TypeOK
<1> QED BY <1>2, <1>3

(* What the constants give of the member that is made or assessed.          *)
LEMMA ThisMember ==
    ASSUME Shape, i \in DOMAIN members
    PROVE  /\ members \in Seq(Member) /\ M \in Member
           /\ M.target \in Paths /\ M.size \in Nat /\ M.typed \in BOOLEAN
           /\ M.kind \in {"file", "dir", "symlink", "fifo", "device"}
           /\ M.to \in Paths \cup {Root} /\ M.end \in {"ok", "bad", "raw"}
           /\ M.chunks \in Seq(Nat) /\ Len(M.chunks) \in Nat
           /\ Total(M.chunks) \in Nat /\ Total(M.chunks) <= M.size
<1>1. archive \in Archives /\ members \in {ByName(archive), archive}
  BY DEF Shape, TypeOK
<1>2. /\ members \in Seq(Member) /\ M \in Member /\ M.chunks \in Seq(Nat)
      /\ Total(M.chunks) \in Nat /\ Total(M.chunks) <= M.size
  BY <1>1, MemberFacts DEF M
<1> QED BY <1>2 DEF Member

LEMMA Assessed ==
    ASSUME Shape, Assess
    PROVE  /\ ~policy.legacy /\ pc = "assess" /\ i \in DOMAIN members
           /\ UNCHANGED <<policy, archive, members, fs, temp, written, before>>
           /\ targets' = Targets(M, targets, fs)
           /\ declared' = declared + M.size
           /\ found' = Append(found, Findings(M, i, targets, declared + M.size, fs))
           /\ \/ /\ \E status \in {"failed", "skipped", "previewed"} :
                       Report(status, M.target, 0)
                 /\ pc' = "assess"
              \/ /\ Verdict(Findings(M, i, targets, declared + M.size, fs)) = "none"
                 /\ pc' = "prepare" /\ target' = Resolve(fs, M.target)
                 /\ UNCHANGED <<results, i>>
           /\ failing' \in BOOLEAN
<1>1. i \in DOMAIN members
  <2>1. members \in Seq(Member)
    BY MembersAre DEF Shape, TypeOK
  <2> QED BY <2>1 DEF Assess, Shape, TypeOK
<1>2. failing' \in BOOLEAN
  BY DEF Assess, Shape, TypeOK
<1>3. \/ /\ \E status \in {"failed", "skipped", "previewed"} :
                       Report(status, M.target, 0)
         /\ pc' = "assess"
      \/ /\ Verdict(Findings(M, i, targets, declared + M.size, fs)) = "none"
         /\ pc' = "prepare" /\ target' = Resolve(fs, M.target)
         /\ UNCHANGED <<results, i>>
  BY DEF Assess, DeclaredSoFar, Report
<1> QED BY <1>1, <1>2, <1>3 DEF Assess, DeclaredSoFar

(* What is outside the destination is refused, whatever the policy.         *)
LEMMA InsideRoot ==
    ASSUME Shape, Assess, pc' = "prepare"
    PROVE  target' \in Paths
<1> DEFINE codes == Findings(M, i, targets, declared + M.size, fs)
<1>1. Verdict(codes) = "none" /\ target' = Resolve(fs, M.target)
  BY Assessed
<1>2. M.target \in Paths
  BY Assessed, ThisMember
<1>3. target' \in Paths \cup {Root}
  BY <1>1, <1>2, ResolveType DEF Shape, TypeOK
<1>4. ASSUME target' = Root PROVE FALSE
  <2>1. "outside_root" \in codes
    BY <1>1, <1>4 DEF Findings, M
  <2>2. "outside_root" \in Hard
    BY DEF Hard
  <2> HIDE DEF codes
  <2> QED BY <1>1, <2>1, <2>2, Refused DEF Shape, TypeOK
<1> QED BY <1>3, <1>4

LEMMA ShapeAssess == ASSUME Shape, Assess PROVE Shape'
<1>1. i \in DOMAIN members /\ M.target \in Paths /\ M.size \in Nat
      /\ members \in Seq(Member) /\ M \in Member
  BY Assessed, ThisMember
<1>2. Targets(M, targets, fs) \subseteq Paths \cup {Root}
  BY <1>1, ResolveType DEF Targets, Shape, TypeOK, M
<1>5. /\ UNCHANGED <<policy, archive, members, fs, temp, written, before>>
      /\ targets' \subseteq Paths \cup {Root} /\ declared' \in Nat
      /\ failing' \in BOOLEAN /\ temp = NoTemp
  BY SMTT(20), ZenonT(30), <1>1, <1>2, Assessed DEF Shape, TypeOK, Steps
<1>3. CASE pc' = "assess" /\ \E status \in {"failed", "skipped", "previewed"} :
                       Report(status, M.target, 0)
  <2>1. PICK status \in {"failed", "skipped", "previewed"} :
                       Report(status, M.target, 0)
    BY <1>3
  <2>2. /\ target' = Root /\ i' \in 1 .. Len(members) + 1
        /\ results' \in Seq(Result) /\ Len(results') = i' - 1
    BY <2>1, <1>1, Reported, Assessed
  <2> QED BY <1>5, <1>3, <2>2 DEF Shape, TypeOK, Steps, M, Making
<1>4. CASE pc' = "prepare" /\ UNCHANGED <<results, i>>
  BY <1>1, <1>5, <1>4, InsideRoot DEF Shape, TypeOK, Steps, M, Making
<1> QED BY <1>3, <1>4, Assessed

LEMMA ShapePrepare == ASSUME Shape, Prepare PROVE Shape'
<1>1. target \in Paths /\ i \in DOMAIN members
  BY DEF Shape, Steps, M, Prepare, Making
<1>2. target' \in Paths
  BY <1>1, FreeNameIsFree DEF Prepare
<1> QED BY <1>1, <1>2 DEF Prepare, Shape, TypeOK, Steps, M, Making

LEMMA ShapeStartLegacy == ASSUME Shape, StartLegacy PROVE Shape'
<1>1. members \in Seq(Member)
  BY MembersAre DEF Shape, TypeOK
<1>2. i \in DOMAIN members
  BY <1>1 DEF StartLegacy, Shape, TypeOK
<1>3. target' \in Paths
  BY <1>2, ThisMember DEF StartLegacy
<1> QED BY <1>2, <1>3 DEF StartLegacy, Shape, TypeOK, Steps, M, Making

LEMMA ShapeMakeParents == ASSUME Shape, MakeParents PROVE Shape'
<1>1. target \in Paths /\ i \in DOMAIN members /\ M \in Member
  BY ThisMember DEF Shape, Steps, MakeParents, Making
<1>2. M.kind \in {"file", "dir", "symlink", "fifo", "device"}
  BY <1>1 DEF Member
<1>3. fs' \in [Paths -> Node]
  BY NodeFacts DEF MakeParents, Shape, TypeOK
<1> QED BY <1>1, <1>2, <1>3 DEF MakeParents, Shape, TypeOK, Steps, M, Making

(* Whatever fails.                                                          *)
LEMMA ShapeFails ==
    ASSUME Shape, ParentsFail \/ DirectoryFails \/ RemoveOldFails \/ LinkFails
                  \/ CopyFails \/ CommitFails
    PROVE  Shape'
<1>1. Fail /\ pc \in Making
      /\ UNCHANGED <<policy, archive, members, fs, targets, declared, written, before, found>>
  BY DEF ParentsFail, DirectoryFails, RemoveOldFails, LinkFails, CopyFails,
         CommitFails, Making
<1>2. /\ pc' \in {"raised", "assess"} /\ target' \in Paths \cup {Root}
      /\ i' \in 1 .. Len(members) + 1 /\ temp' = NoTemp
      /\ results' \in Seq(Result) /\ Len(results') = i' - 1
      /\ failing' \in BOOLEAN
  BY <1>1, Failed
<1> QED BY <1>1, <1>2, NodeFacts DEF Shape, TypeOK, Steps, M, Making, NoTemp

LEMMA ShapeMakeDirectory == ASSUME Shape, MakeDirectory PROVE Shape'
<1>1. target \in Paths /\ i \in DOMAIN members /\ pc \in Making /\ 0 \in Nat
  BY DEF Shape, Steps, M, MakeDirectory, Making
<1>2. /\ pc' = "assess" /\ target' = Root
      /\ i' \in 1 .. Len(members) + 1
      /\ results' \in Seq(Result) /\ Len(results') = i' - 1
  BY <1>1, Reported DEF MakeDirectory
<1>3. fs' \in [Paths -> Node]
  BY NodeFacts DEF MakeDirectory, Shape, TypeOK
<1> QED BY <1>1, <1>2, <1>3 DEF MakeDirectory, Shape, TypeOK, Steps, M, Making

LEMMA ShapeRemoveOld == ASSUME Shape, RemoveOld PROVE Shape'
<1>1. target \in Paths /\ i \in DOMAIN members /\ M.kind \in {"symlink", "fifo"}
  BY DEF Shape, Steps, M, RemoveOld, Making
<1>2. fs' \in [Paths -> Node]
  BY NodeFacts DEF RemoveOld, Shape, TypeOK
<1> QED BY <1>1, <1>2 DEF RemoveOld, Shape, TypeOK, Steps, M, Making

LEMMA ShapeMakeLink == ASSUME Shape, MakeLink PROVE Shape'
<1>1. target \in Paths /\ i \in DOMAIN members /\ pc \in Making /\ 0 \in Nat
      /\ M \in Member /\ i \in Nat
  BY ThisMember DEF Shape, TypeOK, Steps, MakeLink, Making
<1>2. /\ pc' = "assess" /\ target' = Root
      /\ i' \in 1 .. Len(members) + 1
      /\ results' \in Seq(Result) /\ Len(results') = i' - 1
  BY <1>1, Reported DEF MakeLink
<1>3. fs' \in [Paths -> Node]
  <2>1. [kind |-> IF M.kind = "fifo" THEN "fifo" ELSE "link",
         of |-> i, size |-> 0, to |-> M.to] \in Node
    BY <1>1 DEF Node, Member
  <2> QED BY <2>1 DEF MakeLink, Shape, TypeOK
<1> QED BY <1>1, <1>2, <1>3 DEF MakeLink, Shape, TypeOK, Steps, M, Making

LEMMA ShapeOpenTemp == ASSUME Shape, OpenTemp PROVE Shape'
<1>1. target \in Paths /\ i \in DOMAIN members /\ M.kind = "file"
  BY DEF Shape, Steps, M, OpenTemp, Making
<1>2. Len(M.chunks) \in Nat
  BY <1>1, ThisMember
<1>3. temp' = [open |-> TRUE, size |-> 0, read |-> 0]
  BY DEF OpenTemp, NoTemp
<1>4. SumFunctionOnSet(M.chunks, 1 .. 0) = 0
  <2>1. 1 .. 0 = {}
    OBVIOUS
  <2> QED BY <2>1, SumEmpty
<1>5. M' = M
  BY DEF OpenTemp, M
<1>6. temp' \in [open : BOOLEAN, size : Nat, read : Nat]
  BY <1>3
<1> QED BY <1>1, <1>2, <1>3, <1>4, <1>5, <1>6 DEF OpenTemp, Shape, TypeOK, Steps, M, Making

(* A chunk more, and still no more than all of them.                        *)
LEMMA Copied1 ==
    ASSUME Shape, Copy
    PROVE  /\ i \in DOMAIN members /\ M.kind = "file" /\ target \in Paths
           /\ temp'.read \in 0 .. Len(M.chunks)
           /\ temp'.size = SumFunctionOnSet(M.chunks, 1 .. temp'.read)
           /\ temp' \in [open : BOOLEAN, size : Nat, read : Nat]
           /\ temp'.size <= Total(M.chunks)
           /\ temp'.size = temp.size + NextChunk
<1> DEFINE s == M.chunks
           k == temp.read
<1>1. i \in DOMAIN members /\ M.kind = "file" /\ target \in Paths
  BY DEF Shape, Steps, M, Copy, Making
<1>2. s \in Seq(Nat) /\ Len(s) \in Nat /\ k \in 0 .. Len(s) /\ k # Len(s)
  BY <1>1, ThisMember DEF Shape, Steps, Copy, AtEnd
<1>3. k \in 0 .. Len(s) - 1 /\ k + 1 \in 0 .. Len(s) /\ k + 1 \in Nat
      /\ s[k + 1] \in Nat
  BY <1>2
<1>4. /\ SumFunctionOnSet(s, 1 .. k + 1) = SumFunctionOnSet(s, 1 .. k) + s[k + 1]
      /\ SumFunctionOnSet(s, 1 .. k) \in Nat
      /\ SumFunctionOnSet(s, 1 .. k + 1) <= SumFunction(s)
      /\ SumFunction(s) \in Nat
  <2> HIDE DEF s, k
  <2> QED BY <1>2, <1>3, SumOfPrefix
<1>5. temp.size = SumFunctionOnSet(s, 1 .. k)
  BY DEF Shape, Steps, M, Copy
<1>6. temp' = [temp EXCEPT !.size = temp.size + s[k + 1], !.read = k + 1]
  BY DEF Copy, NextChunk
<1>7. temp'.size = temp.size + s[k + 1] /\ temp'.read = k + 1
      /\ temp'.open = temp.open
  BY <1>6 DEF Shape
<1>8. temp' \in [open : BOOLEAN, size : Nat, read : Nat]
  <2>1. temp.open \in BOOLEAN /\ temp'.size \in Nat /\ temp'.read \in Nat
    BY <1>3, <1>4, <1>5, <1>7 DEF Shape
  <2>2. temp' = [open |-> temp.open, size |-> temp'.size, read |-> temp'.read]
    BY <1>6, <1>7 DEF Shape
  <2> QED BY <2>1, <2>2
<1> QED BY <1>1, <1>3, <1>4, <1>5, <1>7, <1>8 DEF NextChunk, Total

LEMMA ShapeCopy == ASSUME Shape, Copy PROVE Shape'
<1>1. M' = M
  BY DEF Copy, M
<1> QED BY <1>1, Copied1 DEF Copy, Shape, TypeOK, Steps, M, Making

LEMMA ShapeReadRaises == ASSUME Shape, ReadRaises PROVE Shape'
BY NodeFacts DEF ReadRaises, Shape, TypeOK, Steps, M, Making, NoTemp

LEMMA ShapeCommit == ASSUME Shape, Commit PROVE Shape'
<1>1. target \in Paths /\ i \in DOMAIN members /\ pc \in Making /\ i \in Nat
      /\ temp.size \in Nat /\ Charged \in Nat
  BY DEF Shape, TypeOK, Steps, M, Commit, Making, Charged
<1>2. /\ pc' = "assess" /\ target' = Root
      /\ i' \in 1 .. Len(members) + 1
      /\ results' \in Seq(Result) /\ Len(results') = i' - 1
  BY <1>1, Reported DEF Commit
<1>3. fs' \in [Paths -> Node]
  <2>1. [kind |-> "file", of |-> i, size |-> temp.size, to |-> Root] \in Node
    BY <1>1 DEF Node
  <2> QED BY <2>1 DEF Commit, Shape, TypeOK
<1>4. written' \in Nat
  BY <1>1 DEF Commit, Shape, TypeOK
<1> QED BY <1>1, <1>2, <1>3, <1>4, NodeFacts DEF Commit, Shape, TypeOK, Steps, M, Making, NoTemp

LEMMA ShapeReturn == ASSUME Shape, Return PROVE Shape'
BY DEF Return, Shape, TypeOK, Steps, M, Making

LEMMA ShapeCrash == ASSUME Shape, Crash PROVE Shape'
BY DEF Crash, Shape, TypeOK, Steps, M, Making, Ended

LEMMA ShapeOtherProgram == ASSUME Shape, OtherProgram PROVE Shape'
<1>1. fs' \in [Paths -> Node]
  BY NodeFacts, ExtractionAssumption DEF OtherProgram, Free, Shape, TypeOK
<1> QED BY <1>1 DEF OtherProgram, Shape, TypeOK, Steps, M, Making

LEMMA ShapeStep == Shape /\ [Next]_vars => Shape'
<1> SUFFICES ASSUME Shape, [Next]_vars PROVE Shape'
  OBVIOUS
<1>1. CASE UNCHANGED vars
  BY <1>1 DEF vars, Shape, TypeOK, Steps, M
<1> QED BY <1>1, ShapeAssess, ShapePrepare, ShapeStartLegacy, ShapeMakeParents,
           ShapeFails, ShapeMakeDirectory, ShapeRemoveOld, ShapeMakeLink,
           ShapeOpenTemp, ShapeCopy, ShapeReadRaises, ShapeCommit, ShapeReturn,
           ShapeCrash, ShapeOtherProgram DEF Next

-----------------------------------------------------------------------------
(* The quota                                                                *)

MadeIn(F) == {p \in Paths : F[p].kind = "file" /\ F[p].of # 0}
BytesIn(F) == SumFunctionOnSet([p \in Paths |-> F[p].size], MadeIn(F))

(* What is in the files made comes to no more than what was counted, if all *)
(* is counted; and no more than what was declared, if what is over the      *)
(* limit by its header is refused.                                          *)
Counted ==
    /\ pc = "copy" => temp.size = 0 \/ written + temp.size <= policy.maxTotal
    /\ (\A m \in Range(members) : ~m.typed) =>
          Bytes <= written /\ written <= policy.maxTotal

Declared ==
    policy.on # "warn" =>
        /\ Bytes <= declared /\ Bytes <= policy.maxTotal
        /\ pc \in Making => Bytes + M.size <= declared
                            /\ declared <= policy.maxTotal

Quota ==
    ~policy.legacy =>
        /\ IsFiniteSet(Made) /\ Bytes \in Nat
        /\ Counted /\ Declared /\ DiskWithinLimit

LEMMA BytesType ==
    ASSUME NEW F \in [Paths -> Node], IsFiniteSet(MadeIn(F))
    PROVE  BytesIn(F) \in Nat
<1> DEFINE w == [p \in Paths |-> F[p].size]
<1>1. \A x \in MadeIn(F) : w[x] \in Nat
  BY DEF MadeIn, Node
<1> HIDE DEF w
<1>2. SumFunctionOnSet(w, MadeIn(F)) \in Nat
  BY <1>1, SumNat
<1> QED BY <1>2 DEF BytesIn, w

(* One thing is put somewhere.                                              *)
LEMMA BytesChange ==
    ASSUME NEW F \in [Paths -> Node], IsFiniteSet(MadeIn(F)),
           NEW q \in Paths, NEW n \in Node
    PROVE  LET G == [F EXCEPT ![q] = n]
           IN  /\ IsFiniteSet(MadeIn(G)) /\ BytesIn(G) \in Nat
               /\ BytesIn(G) <= BytesIn(F) + n.size
               /\ n.kind # "file" \/ n.of = 0 => BytesIn(G) <= BytesIn(F)
<1> DEFINE G == [F EXCEPT ![q] = n]
           w == [p \in Paths |-> F[p].size]
           v == [p \in Paths |-> G[p].size]
           A == MadeIn(F) \ {q}
<1>1. G \in [Paths -> Node] /\ G[q] = n /\ \A p \in Paths \ {q} : G[p] = F[p]
  OBVIOUS
<1>2. IsFiniteSet(A) /\ A \subseteq MadeIn(F) /\ A \subseteq Paths /\ q \notin A
  BY FS_RemoveElement DEF MadeIn
<1>3. \A x \in MadeIn(F) : w[x] \in Nat
  BY DEF MadeIn, Node
<1>4. \A x \in A : v[x] = w[x] /\ v[x] \in Nat
  <2> TAKE x \in A
  <2>1. x \in Paths /\ x # q /\ x \in MadeIn(F)
    BY <1>2
  <2> QED BY <2>1, <1>1, <1>3
<1>5. SumFunctionOnSet(v, A) = SumFunctionOnSet(w, A)
  <2> HIDE DEF v, w, A
  <2> QED BY <1>2, <1>4, SumSame
<1>6. SumFunctionOnSet(w, A) <= SumFunctionOnSet(w, MadeIn(F))
  <2> HIDE DEF v, w, A
  <2> QED BY <1>2, <1>3, SumOfPart
<1>7. SumFunctionOnSet(w, A) \in Nat /\ SumFunctionOnSet(w, MadeIn(F)) \in Nat
  <2> HIDE DEF v, w, A
  <2> QED BY <1>2, <1>3, SumNat
<1>8. n.size \in Nat /\ v[q] = n.size
  BY <1>1 DEF Node
<1>9. CASE n.kind = "file" /\ n.of # 0
  <2>1. MadeIn(G) = A \cup {q}
    BY <1>1, <1>9 DEF MadeIn
  <2>2. IsFiniteSet(A \cup {q})
    BY <1>2, FS_AddElement
  <2>3. (A \cup {q}) \ {q} = A
    BY <1>2
  <2>4. SumFunctionOnSet(v, A \cup {q}) = v[q] + SumFunctionOnSet(v, A)
    <3>1. \A x \in A \cup {q} : v[x] \in Nat
      BY <1>4, <1>8
    <3>2. q \in A \cup {q}
      OBVIOUS
    <3> HIDE DEF v, w, A
    <3> QED BY <2>2, <2>3, <3>1, <3>2, SumRemove
  <2>5. BytesIn(G) = v[q] + SumFunctionOnSet(v, A) /\ BytesIn(F) = SumFunctionOnSet(w, MadeIn(F))
    BY <2>1, <2>4 DEF BytesIn
  <2> HIDE DEF G, v, w, A
  <2>6. /\ IsFiniteSet(MadeIn(G)) /\ BytesIn(G) \in Nat
        /\ BytesIn(G) <= BytesIn(F) + n.size
    BY <1>5, <1>6, <1>7, <1>8, <2>1, <2>2, <2>5
  <2> QED BY <2>6, <1>9 DEF G
<1>10. CASE n.kind # "file" \/ n.of = 0
  <2>1. MadeIn(G) = A
    BY <1>1, <1>10 DEF MadeIn
  <2>2. BytesIn(G) = SumFunctionOnSet(v, A) /\ BytesIn(F) = SumFunctionOnSet(w, MadeIn(F))
    BY <2>1 DEF BytesIn
  <2> HIDE DEF G, v, w, A
  <2>3. /\ IsFiniteSet(MadeIn(G)) /\ BytesIn(G) \in Nat
        /\ BytesIn(G) <= BytesIn(F) /\ BytesIn(G) <= BytesIn(F) + n.size
    BY <1>2, <1>5, <1>6, <1>7, <1>8, <2>1, <2>2
  <2> QED BY <2>3 DEF G
<1> QED BY <1>9, <1>10

LEMMA BytesAre ==
    /\ Made = MadeIn(fs) /\ Bytes = BytesIn(fs)
    /\ Made' = MadeIn(fs') /\ Bytes' = BytesIn(fs')
BY DEF Made, Bytes, MadeIn, BytesIn

(* Nothing but the end of a copy adds to the files made.                    *)
LEMMA BytesStep ==
    ASSUME Shape, [Next]_vars, ~Commit, IsFiniteSet(Made), Bytes \in Nat
    PROVE  IsFiniteSet(Made') /\ Bytes' \in Nat /\ Bytes' <= Bytes
<1>1. fs \in [Paths -> Node] /\ IsFiniteSet(MadeIn(fs))
  BY BytesAre DEF Shape, TypeOK
<1>2. \/ fs' = fs
      \/ \E q \in Paths, n \in Node :
            fs' = [fs EXCEPT ![q] = n] /\ (n.kind # "file" \/ n.of = 0)
  <2>1. CASE MakeParents
    <3>1. target \in Paths
      BY <2>1 DEF MakeParents, Shape, Steps, Making
    <3>2. CASE Parent[target] = Root
      BY <3>2, <2>1 DEF MakeParents
    <3>3. CASE Parent[target] # Root
      <4>1. Parent[target] \in Paths
        BY <3>1, <3>3, ExtractionAssumption
      <4>2. fs' = [fs EXCEPT ![Parent[target]] = Directory]
        BY <2>1, <3>3 DEF MakeParents
      <4> QED BY <4>1, <4>2, NodeFacts
    <3> QED BY <3>2, <3>3
  <2>2. CASE MakeDirectory
    <3>1. target \in Paths /\ fs' = [fs EXCEPT ![target] = Directory]
      BY <2>2 DEF MakeDirectory, Shape, Steps, Making
    <3> QED BY <3>1, NodeFacts
  <2>3. CASE RemoveOld
    <3>1. target \in Paths /\ fs' = [fs EXCEPT ![target] = Absent]
      BY <2>3 DEF RemoveOld, Shape, Steps, Making
    <3> QED BY <3>1, NodeFacts
  <2>4. CASE MakeLink
    <3> DEFINE n == [kind |-> IF M.kind = "fifo" THEN "fifo" ELSE "link",
                     of |-> i, size |-> 0, to |-> M.to]
    <3>1. target \in Paths /\ i \in DOMAIN members /\ fs' = [fs EXCEPT ![target] = n]
      BY <2>4 DEF MakeLink, Shape, Steps, Making
    <3>2. n \in Node /\ n.kind # "file"
      BY <3>1, ThisMember DEF Shape, TypeOK, Node
    <3> HIDE DEF n
    <3> QED BY <3>1, <3>2
  <2>5. CASE OtherProgram
    <3>1. PICK p \in Free : fs' = [fs EXCEPT ![p] = SomeFile]
      BY <2>5 DEF OtherProgram
    <3>2. p \in Paths
      BY ExtractionAssumption DEF Free
    <3> QED BY <3>1, <3>2, NodeFacts
  <2>6. CASE fs' = fs
    BY <2>6
  <2>7. fs' = fs \/ MakeParents \/ MakeDirectory \/ RemoveOld \/ MakeLink \/ OtherProgram
    BY DEF Next, vars, Assess, Prepare, StartLegacy, ParentsFail, DirectoryFails,
           RemoveOldFails, LinkFails, OpenTemp, Copy, CopyFails, ReadRaises,
           CommitFails, Return, Crash
  <2> QED BY <2>1, <2>2, <2>3, <2>4, <2>5, <2>6, <2>7
<1>3. CASE fs' = fs
  <2>1. MadeIn(fs') = MadeIn(fs) /\ BytesIn(fs') = BytesIn(fs)
    BY <1>3
  <2> QED BY <2>1, BytesAre
<1>4. CASE \E q \in Paths, n \in Node :
            fs' = [fs EXCEPT ![q] = n] /\ (n.kind # "file" \/ n.of = 0)
  <2>1. PICK q \in Paths, n \in Node :
            fs' = [fs EXCEPT ![q] = n] /\ (n.kind # "file" \/ n.of = 0)
    BY <1>4
  <2>2. IsFiniteSet(MadeIn(fs')) /\ BytesIn(fs') \in Nat /\ BytesIn(fs') <= BytesIn(fs)
    BY <1>1, <2>1, BytesChange
  <2> QED BY <2>2, BytesAre
<1> QED BY <1>2, <1>3, <1>4

(* The temporary file has no more than the header says.                     *)
LEMMA TempWithinMember ==
    ASSUME Shape, pc = "copy"
    PROVE  i \in DOMAIN members /\ M.size \in Nat /\ temp.size \in Nat
           /\ temp.size <= M.size
<1> DEFINE s == M.chunks
<1>1. i \in DOMAIN members /\ temp.read \in 0 .. Len(s) /\ temp.size \in Nat
      /\ temp.size = SumFunctionOnSet(s, 1 .. temp.read)
  BY DEF Shape, TypeOK, Steps, Making
<1>2. s \in Seq(Nat) /\ Len(s) \in Nat /\ Total(s) \in Nat /\ Total(s) <= M.size
      /\ M.size \in Nat
  BY <1>1, ThisMember
<1>3. DOMAIN s = 1 .. Len(s) /\ \A x \in 1 .. Len(s) : s[x] \in Nat
  <2> HIDE DEF s
  <2> QED BY <1>2
<1>4. IsFiniteSet(1 .. Len(s)) /\ 1 .. temp.read \subseteq 1 .. Len(s)
  <2> HIDE DEF s
  <2>1. IsFiniteSet(1 .. Len(s))
    BY <1>2, FS_Interval
  <2> QED BY <1>1, <1>2, <2>1
<1>5. SumFunctionOnSet(s, 1 .. temp.read) <= SumFunctionOnSet(s, 1 .. Len(s))
  <2> HIDE DEF s
  <2> QED BY <1>3, <1>4, SumOfPart
<1>6. Total(s) = SumFunctionOnSet(s, 1 .. Len(s))
  BY <1>3 DEF Total, SumFunction
<1> QED BY <1>1, <1>2, <1>5, <1>6

(* While the process runs, the limit follows from what was counted.         *)
LEMMA WithinLimit ==
    Shape /\ ~policy.legacy /\ Bytes \in Nat /\ Counted /\ Declared
    /\ pc # "crashed" => DiskWithinLimit
<1> SUFFICES ASSUME Shape, ~policy.legacy, Bytes \in Nat, Counted, Declared,
                    pc # "crashed"
             PROVE  DiskWithinLimit
  OBVIOUS
<1>1. temp.size \in Nat /\ policy.maxTotal \in Nat /\ written \in Nat
      /\ declared \in Nat
  BY PolicyFacts DEF Shape, TypeOK
<1>2. CASE pc = "copy"
  <2>1. temp.size <= M.size /\ M.size \in Nat /\ pc \in Making
    BY <1>2, TempWithinMember DEF Making
  <2> QED BY <1>1, <1>2, <2>1 DEF DiskWithinLimit, Counted, Declared
<1>3. CASE pc # "copy"
  <2>1. temp.size = 0
    BY <1>3 DEF Shape, Steps, NoTemp
  <2> QED BY <1>1, <2>1 DEF DiskWithinLimit, Counted, Declared
<1> QED BY <1>2, <1>3

LEMMA QuotaInit == Init => Quota
<1> SUFFICES ASSUME Init, ~policy.legacy PROVE Quota
  BY DEF Quota
<1>1. fs \in Initial /\ policy \in Policies
  BY DEF Init
<1>2. Made = {}
  BY <1>1, ExtractionAssumption DEF Made
<1>3. IsFiniteSet(Made) /\ Bytes = 0
  BY <1>2, FS_EmptySet, SumEmpty DEF Bytes
<1>4. Counted /\ Declared
  BY <1>1, <1>3, PolicyFacts DEF Counted, Declared, Init, Making
<1>5. DiskWithinLimit
  BY <1>1, <1>3, <1>4, WithinLimit, ShapeInit DEF Init
<1> QED BY <1>3, <1>4, <1>5 DEF Quota

LEMMA QuotaAssess ==
    ASSUME Shape, Quota, Assess, Bytes' \in Nat, Bytes' <= Bytes
    PROVE  Counted' /\ Declared'
<1>1. /\ ~policy.legacy /\ i \in DOMAIN members /\ pc = "assess"
      /\ policy' = policy /\ members' = members /\ written' = written
      /\ declared' = declared + M.size
      /\ pc' \in {"assess", "prepare"}
  BY Assessed
<1>2. /\ M.size \in Nat /\ declared \in Nat /\ written \in Nat /\ Bytes \in Nat
      /\ policy.maxTotal \in Nat
  BY <1>1, ThisMember, PolicyFacts DEF Shape, TypeOK, Quota
<1>3. Counted'
  BY <1>1, <1>2 DEF Counted, Quota
<1>4. CASE pc' = "assess"
  BY <1>1, <1>2, <1>3, <1>4 DEF Declared, Quota, Making
<1>5. ASSUME pc' = "prepare", policy.on # "warn" PROVE declared' <= policy.maxTotal /\ M' = M
  <2> DEFINE codes == Findings(M, i, targets, declared + M.size, fs)
  <2>1. Verdict(codes) = "none" /\ i' = i
    BY <1>5, Assessed
  <2>2. ASSUME ~(declared' <= policy.maxTotal) PROVE FALSE
    <3>1. declared + M.size > policy.maxTotal
      BY <1>1, <1>2, <2>2
    <3>2. "max_total_uncompressed_size" \in codes
      BY <3>1 DEF Findings
    <3> HIDE DEF codes
    <3> QED BY <1>5, <2>1, <3>2, Refused DEF Shape, TypeOK
  <2> QED BY <1>1, <2>1, <2>2 DEF M
<1>6. CASE pc' = "prepare"
  <2>1. ASSUME policy.on # "warn"
        PROVE  Bytes' <= declared' /\ Bytes' <= policy.maxTotal
               /\ Bytes' + M.size <= declared'
    BY <1>1, <1>2, <2>1 DEF Declared, Quota
  <2> QED BY <1>1, <1>3, <1>5, <1>6, <2>1 DEF Declared
<1> QED BY <1>1, <1>3, <1>4, <1>6

(* A step within the making of a member, or the end of it without a file.   *)
LEMMA QuotaMaking ==
    ASSUME Shape, Quota, ~policy.legacy, Bytes' \in Nat, Bytes' <= Bytes,
           UNCHANGED <<policy, archive, members, written, declared>>,
           pc' \in Making => pc \in Making /\ i' = i,
           pc' = "copy" =>
               \/ temp'.size = 0
               \/ written + temp'.size <= policy.maxTotal
    PROVE  Counted' /\ Declared'
<1>1. /\ declared \in Nat /\ written \in Nat /\ Bytes \in Nat
      /\ policy.maxTotal \in Nat
  BY PolicyFacts DEF Shape, TypeOK, Quota
<1>2. Counted'
  BY <1>1 DEF Counted, Quota
<1>3. ASSUME pc' \in Making PROVE pc \in Making /\ M' = M /\ M.size \in Nat
  BY <1>3, ThisMember DEF M, Shape, Steps
<1>4. Declared'
  <2>1. ASSUME policy.on # "warn" PROVE Bytes' <= declared /\ Bytes' <= policy.maxTotal
    BY <1>1, <2>1 DEF Declared, Quota
  <2>2. ASSUME policy.on # "warn", pc' \in Making
        PROVE  Bytes' + M.size <= declared /\ declared <= policy.maxTotal
    BY <1>1, <1>3, <2>2 DEF Declared, Quota
  <2> QED BY <1>3, <2>1, <2>2 DEF Declared
<1> QED BY <1>2, <1>4

LEMMA QuotaCopy ==
    ASSUME Shape, Quota, Copy, ~policy.legacy
    PROVE  written + temp'.size <= policy.maxTotal
<1>1. temp'.size = temp.size + NextChunk
  BY Copied1
<1> QED BY <1>1 DEF Copy, QuotaAllows

LEMMA QuotaCommit ==
    ASSUME Shape, Quota, Commit, ~policy.legacy
    PROVE  IsFiniteSet(Made') /\ Bytes' \in Nat /\ Counted' /\ Declared'
<1> DEFINE n == [kind |-> "file", of |-> i, size |-> temp.size, to |-> Root]
<1>1. /\ i \in DOMAIN members /\ target \in Paths /\ pc = "copy" /\ pc \in Making
      /\ fs' = [fs EXCEPT ![target] = n] /\ fs \in [Paths -> Node]
      /\ written' = written + Charged /\ temp' = NoTemp /\ pc' = "assess"
      /\ UNCHANGED <<policy, archive, members, declared>>
  BY DEF Commit, Shape, TypeOK, Steps, Making, Report
<1>2. /\ M.size \in Nat /\ declared \in Nat /\ written \in Nat /\ Bytes \in Nat
      /\ policy.maxTotal \in Nat /\ temp.size \in Nat /\ temp.size <= M.size
      /\ members \in Seq(Member)
  BY <1>1, TempWithinMember, ThisMember, PolicyFacts DEF Shape, TypeOK, Quota
<1>3. n \in Node /\ n.size = temp.size
  BY <1>1, <1>2 DEF Node, Shape, TypeOK
<1>4. IsFiniteSet(MadeIn(fs)) /\ Bytes = BytesIn(fs)
  BY BytesAre DEF Quota
<1>5. /\ IsFiniteSet(MadeIn(fs')) /\ BytesIn(fs') \in Nat
      /\ BytesIn(fs') <= BytesIn(fs) + temp.size
  <2> HIDE DEF n
  <2> QED BY <1>1, <1>3, <1>4, BytesChange
<1>6. IsFiniteSet(Made') /\ Bytes' \in Nat /\ Bytes' <= Bytes + temp.size
  BY <1>4, <1>5, BytesAre
<1>7. Counted'
  <2>1. ASSUME \A m \in Range(members) : ~m.typed
        PROVE  Charged = temp.size
    <3>1. M \in Range(members)
      BY <1>1, <1>2 DEF M, Range
    <3> QED BY <2>1, <3>1 DEF Charged
  <2>2. ASSUME \A m \in Range(members) : ~m.typed
        PROVE  Bytes' <= written' /\ written' <= policy.maxTotal
    BY <1>1, <1>2, <1>6, <2>1, <2>2 DEF Counted, Quota
  <2> QED BY <1>1, <2>2 DEF Counted
<1>8. Declared'
  <2>1. ASSUME policy.on # "warn"
        PROVE  Bytes' <= declared /\ Bytes' <= policy.maxTotal
    BY <1>1, <1>2, <1>6, <2>1 DEF Declared, Quota
  <2> QED BY <1>1, <2>1 DEF Declared, Making
<1> QED BY <1>6, <1>7, <1>8

LEMMA QuotaStep == Shape /\ Quota /\ [Next]_vars => Quota'
<1> SUFFICES ASSUME Shape, Quota, [Next]_vars, ~policy'.legacy PROVE Quota'
  BY DEF Quota
<1>1. policy' = policy /\ members' = members /\ ~policy.legacy
  BY DEF Next, vars, Assess, Prepare, StartLegacy, ParentsFail, DirectoryFails,
         RemoveOldFails, LinkFails, OpenTemp, Copy, CopyFails, ReadRaises,
         CommitFails, Return, Crash, MakeParents, MakeDirectory, RemoveOld,
         MakeLink, Commit, OtherProgram
<1>2. Shape'
  BY ShapeStep
<1>3. IsFiniteSet(Made') /\ Bytes' \in Nat /\ Counted' /\ Declared'
  <2>1. CASE Commit
    BY <2>1, <1>1, QuotaCommit
  <2>2. CASE ~Commit
    <3>1. IsFiniteSet(Made') /\ Bytes' \in Nat /\ Bytes' <= Bytes
      BY <1>1, <2>2, BytesStep DEF Quota
    <3>2. CASE Assess
      BY <3>1, <3>2, QuotaAssess
    <3>3. CASE ~Assess
      <4>1. UNCHANGED <<policy, archive, members, written, declared>>
        BY <2>2, <3>3, <1>1
           DEF Next, vars, Prepare, StartLegacy, ParentsFail, DirectoryFails,
               RemoveOldFails, LinkFails, OpenTemp, Copy, CopyFails, ReadRaises,
               CommitFails, Return, Crash, MakeParents, MakeDirectory, RemoveOld,
               MakeLink, OtherProgram
      <4>2. pc' \in Making => pc \in Making /\ i' = i
        BY <2>2, <3>3, <1>1
           DEF Next, vars, Prepare, StartLegacy, ParentsFail, DirectoryFails,
               RemoveOldFails, LinkFails, OpenTemp, Copy, CopyFails, ReadRaises,
               CommitFails, Return, Crash, MakeParents, MakeDirectory, RemoveOld,
               MakeLink, OtherProgram, Fail, Report, Making
      <4>3. ASSUME pc' = "copy"
            PROVE  \/ temp'.size = 0
                   \/ written + temp'.size <= policy.maxTotal
        <5>1. CASE Copy
          BY <5>1, <1>1, QuotaCopy
        <5>2. CASE OpenTemp
          BY <5>2 DEF OpenTemp, NoTemp
        <5>3. CASE ~Copy /\ ~OpenTemp
          <6>2. ~MakeParents
            BY <4>3, ThisMember DEF MakeParents, Shape, Steps, Making
          <6>1. pc = "copy" /\ temp' = temp
            BY <6>2, <2>2, <3>3, <4>3, <5>3, <1>1
               DEF Next, vars, Prepare, StartLegacy, ParentsFail, DirectoryFails,
                   RemoveOldFails, LinkFails, CopyFails, ReadRaises,
                   CommitFails, Return, Crash, MakeDirectory,
                   RemoveOld, MakeLink, OtherProgram, Fail, Report
          <6> QED BY <6>1, <1>1 DEF Quota, Counted
        <5> QED BY <5>1, <5>2, <5>3
      <4> QED BY <3>1, <4>1, <4>2, <4>3, <1>1, QuotaMaking
    <3> QED BY <3>1, <3>2, <3>3
  <2> QED BY <2>1, <2>2
<1>4. DiskWithinLimit'
  <2>1. CASE pc' = "crashed"
    <3>1. fs' = fs /\ temp' = temp
      <4>1. ~MakeParents
        BY <2>1, ThisMember DEF MakeParents, Shape, Steps, Making
      <4>2. ~Assess
        BY <2>1, Assessed
      <4>3. ~ParentsFail /\ ~DirectoryFails /\ ~RemoveOldFails /\ ~LinkFails
            /\ ~CopyFails /\ ~CommitFails
        BY <2>1 DEF ParentsFail, DirectoryFails, RemoveOldFails, LinkFails,
                    CopyFails, CommitFails, Fail, Report
      <4>4. ~MakeDirectory /\ ~MakeLink /\ ~Commit /\ ~RemoveOld /\ ~OpenTemp
            /\ ~ReadRaises /\ ~Return /\ ~Prepare /\ ~StartLegacy
        BY <2>1 DEF MakeDirectory, MakeLink, Commit, RemoveOld, OpenTemp,
                    ReadRaises, Return, Prepare, StartLegacy, Report
      <4>5. ~Copy /\ ~OtherProgram
        BY <2>1 DEF Copy, OtherProgram, Ended
      <4>6. Crash \/ UNCHANGED vars
        BY <4>1, <4>2, <4>3, <4>4, <4>5 DEF Next
      <4> QED BY <4>6 DEF Crash, vars
    <3>2. Bytes' = Bytes
      BY <3>1, BytesAre
    <3> QED BY <1>1, <3>1, <3>2 DEF DiskWithinLimit, Quota
  <2>2. CASE pc' # "crashed"
    <3>1. (Shape /\ ~policy.legacy /\ Bytes \in Nat /\ Counted /\ Declared
           /\ pc # "crashed" => DiskWithinLimit)'
      BY WithinLimit, PTL
    <3> QED BY <1>1, <1>2, <1>3, <2>2, <3>1
  <2> QED BY <2>1, <2>2
<1> QED BY <1>3, <1>4 DEF Quota

-----------------------------------------------------------------------------
(* What a step does to the destination and to the report                    *)

(* Something is made where nothing or a directory was.                      *)
Grows(q, n) ==
    /\ fs' = [fs EXCEPT ![q] = n]
    /\ fs[q].kind \in {"none", "dir"} /\ n.kind # "none"
    /\ fs[q].kind = "dir" => n.kind = "dir"
    /\ n.kind = "file" => n.of = 0
    /\ n.kind = "link" => M.kind = "symlink" /\ i \in DOMAIN members

LEMMA FsStep ==
    ASSUME Shape, [Next]_vars
    PROVE  \/ fs' = fs
           \/ \E q \in Paths, n \in Node : Grows(q, n)
           \/ RemoveOld /\ target \in Paths
           \/ Commit /\ target \in Paths
<1>1. CASE MakeParents
  <2>1. target \in Paths
    BY <1>1 DEF MakeParents, Shape, Steps, Making
  <2>2. CASE Parent[target] = Root
    BY <2>2, <1>1 DEF MakeParents
  <2>3. CASE Parent[target] # Root
    <3>1. Parent[target] \in Paths
      BY <2>1, <2>3, ExtractionAssumption
    <3>2. Grows(Parent[target], Directory)
      BY <1>1, <2>3, NodeFacts DEF MakeParents, Blocked, Grows
    <3> QED BY <3>1, <3>2, NodeFacts
  <2> QED BY <2>2, <2>3
<1>2. CASE MakeDirectory
  <2>1. target \in Paths /\ Grows(target, Directory)
    BY <1>2, NodeFacts DEF MakeDirectory, Shape, Steps, Making, Grows
  <2> QED BY <2>1, NodeFacts
<1>3. CASE MakeLink
  <2> DEFINE n == [kind |-> IF M.kind = "fifo" THEN "fifo" ELSE "link",
                   of |-> i, size |-> 0, to |-> M.to]
  <2>1. /\ target \in Paths /\ i \in DOMAIN members /\ fs' = [fs EXCEPT ![target] = n]
        /\ M.kind \in {"symlink", "fifo"} /\ fs[target].kind = "none"
    BY <1>3 DEF MakeLink, Shape, Steps, Making
  <2>2. n \in Node /\ Grows(target, n)
    BY SMTT(20), ZenonT(30), <2>1, ThisMember DEF Shape, TypeOK, Node, Grows
  <2> HIDE DEF n
  <2> QED BY <2>1, <2>2
<1>4. CASE OtherProgram
  <2>1. PICK p \in Free : fs' = [fs EXCEPT ![p] = SomeFile]
    BY <1>4 DEF OtherProgram
  <2>2. p \in Paths /\ Grows(p, SomeFile)
    BY <2>1, NodeFacts, ExtractionAssumption DEF Free, Grows
  <2> QED BY <2>2, NodeFacts
<1>5. CASE RemoveOld \/ Commit
  BY <1>5 DEF RemoveOld, Commit, Shape, Steps, Making
<1>6. fs' = fs \/ MakeParents \/ MakeDirectory \/ RemoveOld \/ MakeLink
      \/ OtherProgram \/ Commit
  BY DEF Next, vars, Assess, Prepare, StartLegacy, ParentsFail, DirectoryFails,
         RemoveOldFails, LinkFails, OpenTemp, Copy, CopyFails, ReadRaises,
         CommitFails, Return, Crash
<1> QED BY <1>1, <1>2, <1>3, <1>4, <1>5, <1>6

LEMMA ResultsStep ==
    ASSUME Shape, [Next]_vars
    PROVE  \/ results' = results
           \/ /\ i \in DOMAIN members /\ i = Len(results) + 1
              /\ \E r \in Result :
                    /\ results' = Append(results, r)
                    /\ r.status = "extracted" /\ M.kind = "file" =>
                          Commit /\ r.target = target
<1> DEFINE Claim ==
             /\ i \in DOMAIN members /\ i = Len(results) + 1
             /\ \E r \in Result :
                   /\ results' = Append(results, r)
                   /\ r.status = "extracted" /\ M.kind = "file" =>
                         Commit /\ r.target = target
<1>1. i - 1 = Len(results) /\ i \in Nat
  BY DEF Shape, TypeOK
<1>2. ASSUME NEW status \in {"extracted", "skipped", "failed", "previewed"},
             NEW p \in Paths \cup {Root}, NEW n \in Nat, Report(status, p, n),
             i \in DOMAIN members,
             status = "extracted" /\ M.kind = "file" => Commit /\ p = target
      PROVE  Claim
  <2> DEFINE r == [status |-> status, target |-> p, bytes |-> n]
  <2>1. r \in Result /\ results' = Append(results, r)
    BY <1>2 DEF Report, Result
  <2>2. r.status = "extracted" /\ M.kind = "file" => Commit /\ r.target = target
    BY <1>2
  <2> HIDE DEF r
  <2> QED BY <1>1, <1>2, <2>1, <2>2
<1>3. CASE Assess
  <2>1. i \in DOMAIN members /\ M.target \in Paths /\ 0 \in Nat
    BY <1>3, Assessed, ThisMember
  <2>2. CASE results' = results
    BY <2>2
  <2>3. CASE \E status \in {"failed", "skipped", "previewed"} : Report(status, M.target, 0)
    <3> HIDE DEF Claim
    <3> QED BY <2>1, <2>3, <1>2 DEF Claim
  <2> QED BY <2>2, <2>3, <1>3, Assessed
<1>4. CASE ParentsFail \/ DirectoryFails \/ RemoveOldFails \/ LinkFails
           \/ CopyFails \/ CommitFails
  <2>1. Fail /\ pc \in Making
    BY <1>4 DEF ParentsFail, DirectoryFails, RemoveOldFails, LinkFails, CopyFails,
                CommitFails, Making
  <2>2. i \in DOMAIN members /\ target \in Paths /\ 0 \in Nat
    BY <2>1 DEF Shape, Steps
  <2>3. results' = results \/ Report("failed", target, 0)
    BY <2>1 DEF Fail
  <2> HIDE DEF Claim
  <2> QED BY <2>2, <2>3, <1>2 DEF Claim
<1>5. CASE MakeDirectory \/ MakeLink
  <2>1. i \in DOMAIN members /\ target \in Paths /\ 0 \in Nat /\ M.kind # "file"
        /\ Report("extracted", target, 0)
    BY <1>5 DEF MakeDirectory, MakeLink, Shape, Steps, Making
  <2> HIDE DEF Claim
  <2> QED BY <2>1, <1>2 DEF Claim
<1>6. CASE Commit
  <2>1. i \in DOMAIN members /\ target \in Paths /\ Charged \in Nat
        /\ Report("extracted", target, Charged)
    BY <1>6 DEF Commit, Shape, TypeOK, Steps, Making, Charged
  <2> HIDE DEF Claim
  <2> QED BY <2>1, <1>2, <1>6 DEF Claim
<1>7. results' = results \/ Assess \/ ParentsFail \/ DirectoryFails \/ RemoveOldFails
      \/ LinkFails \/ CopyFails \/ CommitFails \/ MakeDirectory \/ MakeLink \/ Commit
  BY DEF Next, vars, Prepare, StartLegacy, OpenTemp, Copy, ReadRaises, Return,
         Crash, MakeParents, RemoveOld, OtherProgram
<1> QED BY <1>3, <1>4, <1>5, <1>6, <1>7

-----------------------------------------------------------------------------
(* What is kept                                                             *)

Vacant(p) == fs[p].kind = "file" => fs[p].of = 0 /\ before[p].kind # "file"

(* Where the policy protects what is there, the target of the member that   *)
(* is made is neither a file that was there nor one that was made; that it  *)
(* was free when it was chosen is not enough, another program may have made *)
(* a file there since.                                                      *)
Safe ==
    Protects =>
        /\ NothingIsOverwritten
        /\ \A k \in DOMAIN results :
              results[k].status = "extracted" /\ members[k].kind = "file"
              => results[k].target \in Paths
        /\ pc \in Making /\ (pc = "prepare" => policy.overwrite # "rename")
              => Vacant(target)

LEMMA NotThere ==
    ASSUME NEW p \in Paths, ~Exists(fs, p), Root \notin Paths
    PROVE  fs[p].kind # "file"
BY DEF Exists, Resolve

LEMMA VacantChosen ==
    ASSUME Shape, Safe, Assess, Protects, policy.overwrite # "rename", pc' = "prepare"
    PROVE  Vacant(target')
<1> DEFINE codes == Findings(M, i, targets, declared + M.size, fs)
<1>1. Verdict(codes) = "none" /\ target' = Resolve(fs, M.target)
  BY Assessed
<1>2. target' \in Paths
  BY InsideRoot
<1>3. ASSUME Exists(fs, target') PROVE FALSE
  <2>1. "overwrite" \in codes
    BY <1>1, <1>3 DEF Findings, M, Protects
  <2>2. policy.on # "warn" \/ policy.overwrite = "skip"
    BY DEF Protects
  <2> HIDE DEF codes
  <2> QED BY <1>1, <2>1, <2>2, Refused DEF Shape, TypeOK
<1> QED BY <1>2, <1>3, NotThere, ExtractionAssumption DEF Vacant

LEMMA SafeStep == Shape /\ Safe /\ [Next]_vars => Safe'
<1> SUFFICES ASSUME Shape, Safe, [Next]_vars, Protects'
             PROVE  /\ NothingIsOverwritten'
                    /\ \A k \in DOMAIN results' :
                          results'[k].status = "extracted" /\ members'[k].kind = "file"
                          => results'[k].target \in Paths
                    /\ pc' \in Making /\ (pc' = "prepare" => policy'.overwrite # "rename")
                          => Vacant(target)'
  BY DEF Safe
<1>1. UNCHANGED <<policy, archive, members, before>> /\ Protects
  BY DEF Protects, Next, vars, Assess, Prepare, StartLegacy, ParentsFail, DirectoryFails,
         RemoveOldFails, LinkFails, OpenTemp, Copy, CopyFails, ReadRaises,
         CommitFails, Return, Crash, MakeParents, MakeDirectory, RemoveOld,
         MakeLink, Commit, OtherProgram
<1>2. fs \in [Paths -> Node] /\ results \in Seq(Result) /\ before \in [Paths -> Node]
  BY ExtractionAssumption DEF Shape, TypeOK
<1>3. ASSUME NEW p \in Paths, fs[p].kind = "file", fs'[p] # fs[p]
      PROVE  Vacant(p) /\ (Commit \/ RemoveOld)
  <2>1. CASE RemoveOld \/ Commit
    <3>1. p = target
      BY <1>2, <1>3, <2>1 DEF RemoveOld, Commit
    <3>2. pc \in Making /\ pc # "prepare"
      BY <2>1, <1>3 DEF RemoveOld, Commit, Making
    <3> QED BY <1>1, <2>1, <3>1, <3>2 DEF Safe
  <2>2. ASSUME NEW q \in Paths, NEW n \in Node, Grows(q, n) PROVE FALSE
    BY <1>2, <1>3, <2>2 DEF Grows
  <2> QED BY <1>3, <2>1, <2>2, FsStep
<1>4. ASSUME NEW p \in Paths, before[p].kind = "file" PROVE fs'[p] = before[p]
  BY <1>1, <1>3, <1>4 DEF Safe, NothingIsOverwritten, Vacant
<1>5. ASSUME NEW k \in DOMAIN results', results'[k].status = "extracted",
             members[k].kind = "file"
      PROVE  /\ results'[k].target \in Paths
             /\ fs'[results'[k].target].kind = "file"
             /\ fs'[results'[k].target].of = k
  <2>1. CASE k \in DOMAIN results /\ results'[k] = results[k]
    <3> DEFINE p == results[k].target
    <3>1. p \in Paths /\ fs[p].kind = "file" /\ fs[p].of = k
      BY <1>1, <1>5, <2>1 DEF Safe, NothingIsOverwritten
    <3>2. k # 0
      BY <1>2, <2>1
    <3>3. fs'[p] = fs[p]
      BY <3>1, <3>2, <1>3 DEF Vacant
    <3> QED BY <2>1, <3>1, <3>3
  <2>2. CASE ~(k \in DOMAIN results /\ results'[k] = results[k])
    <3>1. PICK r \in Result : /\ results' = Append(results, r)
                              /\ r.status = "extracted" /\ M.kind = "file" =>
                                    Commit /\ r.target = target
      BY <1>5, <2>2, ResultsStep
    <3>2. i = Len(results) + 1
      BY <1>5, <2>2, ResultsStep
    <3>3. k = i /\ results'[k] = r
      BY <1>2, <1>5, <2>2, <3>1, <3>2
    <3>4. Commit /\ r.target = target
      BY <1>5, <3>1, <3>3 DEF M
    <3>5. target \in Paths
      BY <3>4 DEF Commit, Shape, Steps, Making
    <3> QED BY <1>2, <3>3, <3>4, <3>5 DEF Commit
  <2> QED BY <2>1, <2>2
<1>6. ASSUME pc' \in Making, pc' = "prepare" => policy.overwrite # "rename"
      PROVE  Vacant(target)'
  <2>1. CASE Assess
    <3>1. pc' = "prepare" /\ fs' = fs /\ before' = before
      BY <1>6, <2>1, Assessed DEF Making
    <3>2. Vacant(target')
      BY <1>1, <1>6, <2>1, <3>1, VacantChosen
    <3> QED BY <3>1, <3>2 DEF Vacant
  <2>2. CASE Prepare /\ policy.overwrite = "rename"
    <3>1. target \in Paths /\ target' = FreeName(target) /\ fs' = fs /\ NamesLeft(target)
      BY <2>2 DEF Prepare, Shape, Steps, Making
    <3>2. target' \in Paths /\ ~Exists(fs, target')
      BY <3>1, FreeNameIsFree
    <3> QED BY <3>1, <3>2, NotThere, ExtractionAssumption DEF Vacant
  <2>3. CASE ~Assess /\ ~(Prepare /\ policy.overwrite = "rename")
    <3>1. /\ pc \in Making /\ target' = target /\ ~Commit
          /\ pc = "prepare" => policy.overwrite # "rename"
      BY <1>1, <1>6, <2>3
         DEF Protects, Next, vars, Prepare, StartLegacy, ParentsFail, DirectoryFails,
             RemoveOldFails, LinkFails, OpenTemp, Copy, CopyFails, ReadRaises,
             CommitFails, Return, Crash, MakeParents, MakeDirectory, RemoveOld,
             MakeLink, Commit, OtherProgram, Fail, Report, Making
    <3>2. target \in Paths /\ Vacant(target)
      BY <1>1, <3>1 DEF Safe, Shape, Steps
    <3>3. CASE fs' = fs
      BY <1>1, <3>1, <3>2, <3>3 DEF Vacant
    <3>4. ASSUME NEW q \in Paths, NEW n \in Node, Grows(q, n) PROVE Vacant(target)'
      <4>1. CASE q = target
        <5>1. before[target].kind # "file"
          BY <1>1, <3>2, <3>4, <4>1 DEF Safe, NothingIsOverwritten, Grows
        <5>2. fs'[target'] = n
          BY <1>2, <3>1, <3>2, <3>4, <4>1 DEF Grows
        <5> QED BY <1>1, <3>1, <3>4, <5>1, <5>2 DEF Vacant, Grows
      <4>2. CASE q # target
        <5>1. fs'[target'] = fs[target]
          BY <1>2, <3>1, <3>2, <3>4, <4>2 DEF Grows
        <5> QED BY <1>1, <3>1, <3>2, <5>1 DEF Vacant
      <4> QED BY <4>1, <4>2
    <3>5. CASE RemoveOld
      <4>1. fs'[target'] = Absent
        BY <1>2, <3>1, <3>2, <3>5 DEF RemoveOld
      <4> QED BY <4>1, NodeFacts DEF Vacant
    <3> QED BY <3>1, <3>3, <3>4, <3>5, FsStep
  <2> QED BY <2>1, <2>2, <2>3
<1> QED BY <1>1, <1>4, <1>5, <1>6 DEF NothingIsOverwritten

LEMMA SafeInit == Init => Safe
BY DEF Init, Safe, NothingIsOverwritten, Making

-----------------------------------------------------------------------------
(* Delivery                                                                 *)

(* A file a member was made into has all of its data.                       *)
Whole ==
    \A p \in Paths : fs[p].kind = "file" /\ fs[p].of # 0 =>
        /\ fs[p].of \in DOMAIN members
        /\ members[fs[p].of].end = "ok"
        /\ fs[p].size = Total(members[fs[p].of].chunks)

(* At the end of the data the temporary file has all of it.                 *)
LEMMA CopiedWhole ==
    ASSUME Shape, Commit
    PROVE  i \in DOMAIN members /\ target \in Paths /\ M.end = "ok" /\ i # 0
           /\ temp.size = Total(M.chunks)
<1> DEFINE s == M.chunks
<1>1. i \in DOMAIN members /\ target \in Paths /\ M.end = "ok"
      /\ temp.read = Len(s) /\ temp.size = SumFunctionOnSet(s, 1 .. temp.read)
  BY DEF Shape, Steps, Commit, Making, Copied, AtEnd
<1>2. s \in Seq(Nat) /\ members \in Seq(Member)
  BY <1>1, ThisMember
<1>3. DOMAIN s = 1 .. Len(s)
  <2> HIDE DEF s
  <2> QED BY <1>2
<1> QED BY <1>1, <1>2, <1>3 DEF Total, SumFunction

LEMMA MembersStay == [Next]_vars => UNCHANGED <<policy, archive, members, before>>
BY DEF Next, vars, Assess, Prepare, StartLegacy, ParentsFail, DirectoryFails,
       RemoveOldFails, LinkFails, OpenTemp, Copy, CopyFails, ReadRaises,
       CommitFails, Return, Crash, MakeParents, MakeDirectory, RemoveOld,
       MakeLink, Commit, OtherProgram

LEMMA WholeInit == Init => Whole
BY ExtractionAssumption DEF Init, Whole

LEMMA WholeStep == Shape /\ Whole /\ [Next]_vars => Whole'
<1> SUFFICES ASSUME Shape, Whole, [Next]_vars,
                    NEW p \in Paths, fs'[p].kind = "file", fs'[p].of # 0
             PROVE  /\ fs'[p].of \in DOMAIN members
                    /\ members[fs'[p].of].end = "ok"
                    /\ fs'[p].size = Total(members[fs'[p].of].chunks)
  BY MembersStay DEF Whole
<1>1. fs \in [Paths -> Node]
  BY DEF Shape, TypeOK
<1>2. CASE fs'[p] = fs[p]
  BY <1>2 DEF Whole
<1>3. ASSUME NEW q \in Paths, NEW n \in Node, Grows(q, n) PROVE fs'[p] = fs[p]
  BY <1>1, <1>3 DEF Grows
<1>4. CASE RemoveOld
  BY <1>1, <1>2, <1>4, NodeFacts DEF RemoveOld
<1>5. CASE Commit /\ fs'[p] # fs[p]
  <2>1. fs'[p] = [kind |-> "file", of |-> i, size |-> temp.size, to |-> Root]
    BY <1>1, <1>5 DEF Commit
  <2> QED BY <1>5, <2>1, CopiedWhole DEF M
<1> QED BY <1>2, <1>3, <1>4, <1>5, FsStep

Statuses(r) == [k \in DOMAIN r |-> r[k].status]

LEMMA StatusOfReport ==
    ASSUME Shape, NEW status \in {"extracted", "skipped", "failed", "previewed"},
           NEW p \in Paths \cup {Root}, NEW n \in Nat, Report(status, p, n)
    PROVE  /\ Statuses(results') = Append(Statuses(results), status)
           /\ Len(Statuses(results)) + 1 = i
<1> DEFINE r == [status |-> status, target |-> p, bytes |-> n]
<1>1. results' = Append(results, r) /\ r.status = status
  BY DEF Report
<1>2. results \in Seq(Result) /\ Len(results) = i - 1 /\ i \in Nat
  BY DEF Shape, TypeOK
<1>3. Len(Statuses(results)) = Len(results)
  <2> DEFINE S == {"extracted", "skipped", "failed", "previewed"}
  <2>1. DOMAIN results = 1 .. Len(results) /\ Len(results) \in Nat
    BY <1>2
  <2>2. ASSUME NEW k \in DOMAIN results PROVE results[k].status \in S
    <3>1. results[k] \in Result
      BY <1>2
    <3> QED BY <3>1 DEF Result
  <2>3. Statuses(results) \in [1 .. Len(results) -> S]
    <3> HIDE DEF S
    <3> QED BY <2>1, <2>2 DEF Statuses
  <2> HIDE DEF S
  <2> QED BY <2>1, <2>3
<1> HIDE DEF r
<1>4. Statuses(results') = Append(Statuses(results), status)
  BY <1>1, <1>2, <1>3 DEF Statuses
<1> QED BY <1>2, <1>3, <1>4

Files(F) == [p \in Paths |->
    IF F[p].kind # "file" THEN -1
    ELSE IF F[p].of = 0 \/ F[p].size = Total(members[F[p].of].chunks)
         THEN F[p].of ELSE -2]

WholeMembers == {k \in DOMAIN members : members[k].end = "ok"}

(* The abstract variables, before and after a step.                         *)
LEMMA PromiseVars ==
    ASSUME members' = members
    PROVE  /\ [p \in Paths |-> Content(p)] = Files(fs)
           /\ [p \in Paths |-> Content(p)]' = Files(fs')
           /\ [k \in DOMAIN results |-> results[k].status] = Statuses(results)
           /\ [k \in DOMAIN results |-> results[k].status]' = Statuses(results')
           /\ {k \in DOMAIN members : members[k].end = "ok"}'
                 = {k \in DOMAIN members : members[k].end = "ok"}
BY DEF Content, Files, Statuses

DataOf(n) ==
    IF n.kind # "file" THEN -1
    ELSE IF n.of = 0 \/ n.size = Total(members[n.of].chunks) THEN n.of ELSE -2

LEMMA FilesChange ==
    ASSUME NEW F \in [Paths -> Node], NEW q \in Paths, NEW n \in Node
    PROVE  /\ Files([F EXCEPT ![q] = n]) = [Files(F) EXCEPT ![q] = DataOf(n)]
           /\ Files(F)[q] = DataOf(F[q])
           /\ DataOf(n) = DataOf(F[q]) => Files([F EXCEPT ![q] = n]) = Files(F)
<1> DEFINE G == [F EXCEPT ![q] = n]
<1>1. G[q] = n /\ \A p \in Paths \ {q} : G[p] = F[p]
  OBVIOUS
<1>2. Files(G)[q] = DataOf(n) /\ Files(F)[q] = DataOf(F[q])
  BY <1>1 DEF Files, DataOf
<1>3. \A p \in Paths \ {q} : Files(G)[p] = Files(F)[p]
  BY <1>1 DEF Files
<1>4. DOMAIN Files(G) = Paths /\ DOMAIN Files(F) = Paths
      /\ Files(G) = [p \in Paths |-> Files(G)[p]]
      /\ Files(F) = [p \in Paths |-> Files(F)[p]]
  BY DEF Files
<1> HIDE DEF G
<1>5. Files(G) = [Files(F) EXCEPT ![q] = DataOf(n)]
  BY <1>2, <1>3, <1>4
<1>6. DataOf(n) = DataOf(F[q]) => Files(G) = Files(F)
  BY <1>2, <1>3, <1>4
<1> QED BY <1>2, <1>5, <1>6 DEF G

LEMMA FilesPut ==
    ASSUME Shape, NEW q \in Paths, NEW n \in Node, fs' = [fs EXCEPT ![q] = n]
    PROVE  /\ Files(fs') = [Files(fs) EXCEPT ![q] = DataOf(n)]
           /\ Files(fs)[q] = DataOf(fs[q])
           /\ DataOf(n) = DataOf(fs[q]) => Files(fs') = Files(fs)
<1>1. fs \in [Paths -> Node]
  BY DEF Shape, TypeOK
<1>2. /\ Files([fs EXCEPT ![q] = n]) = [Files(fs) EXCEPT ![q] = DataOf(n)]
      /\ Files(fs)[q] = DataOf(fs[q])
      /\ DataOf(n) = DataOf(fs[q]) => Files([fs EXCEPT ![q] = n]) = Files(fs)
  BY <1>1, FilesChange, Zenon
<1> QED BY <1>2

LEMMA PromiseStep ==
    Shape /\ Whole /\ [Next]_vars => [Promise!Next]_(Promise!vars)
<1> SUFFICES ASSUME Shape, Whole, [Next]_vars
             PROVE  [Promise!Next]_(Promise!vars)
  OBVIOUS
<1> DEFINE files == [p \in Paths |-> Content(p)]
           report == [k \in DOMAIN results |-> results[k].status]
           whole == {k \in DOMAIN members : members[k].end = "ok"}
           Words == {"extracted", "skipped", "failed", "previewed"}
<1>1. members' = members /\ fs \in [Paths -> Node]
  BY MembersStay DEF Shape, TypeOK
<1>2. /\ files = Files(fs) /\ files' = Files(fs') /\ whole' = whole
      /\ report = Statuses(results) /\ report' = Statuses(results')
  BY <1>1, PromiseVars
<1>3. ASSUME files' = files, report' = report PROVE [Promise!Next]_(Promise!vars)
  BY <1>2, <1>3 DEF Promise!vars
<1>4. ASSUME files' = files, NEW status \in Words, NEW p \in Paths \cup {Root},
             NEW n \in Nat, Report(status, p, n)
      PROVE  [Promise!Next]_(Promise!vars)
  <2>1. report' = Append(report, status)
    BY <1>2, <1>4, StatusOfReport
  <2>2. Promise!Other
    BY <1>2, <1>4, <2>1 DEF Promise!Other
  <2> QED BY <2>2 DEF Promise!Next
<1>5. CASE Assess
  <2>1. fs' = fs /\ M.target \in Paths /\ 0 \in Nat
    BY <1>5, Assessed, ThisMember
  <2>2. files' = files
    <3> HIDE DEF files
    <3> QED BY <1>2, <2>1
  <2>3. CASE results' = results
    <3>1. report' = report
      <4> HIDE DEF report
      <4> QED BY <1>2, <2>3
    <3> QED BY <1>3, <2>2, <3>1
  <2>4. CASE \E status \in {"failed", "skipped", "previewed"} : Report(status, M.target, 0)
    <3> HIDE DEF files
    <3> QED BY <1>4, <2>1, <2>2, <2>4
  <2> QED BY <1>5, <2>3, <2>4, Assessed
<1>6. CASE ParentsFail \/ DirectoryFails \/ RemoveOldFails \/ LinkFails
           \/ CopyFails \/ CommitFails
  <2>1. Fail /\ pc \in Making /\ fs' = fs
    BY <1>6 DEF ParentsFail, DirectoryFails, RemoveOldFails, LinkFails, CopyFails,
                CommitFails, Making
  <2>2. target \in Paths /\ 0 \in Nat
    BY <2>1 DEF Shape, Steps
  <2>3. files' = files
    <3> HIDE DEF files
    <3> QED BY <1>2, <2>1
  <2>4. CASE results' = results
    <3>1. report' = report
      <4> HIDE DEF report
      <4> QED BY <1>2, <2>4
    <3> QED BY <1>3, <2>3, <3>1
  <2>5. CASE Report("failed", target, 0)
    <3> HIDE DEF files
    <3> QED BY <1>4, <2>2, <2>3, <2>5
  <2> QED BY <2>1, <2>4, <2>5 DEF Fail
<1>7. CASE MakeParents \/ MakeDirectory \/ MakeLink
  <2>1. Files(fs') = Files(fs)
    <3>1. ASSUME NEW q \in Paths, NEW n \in Node, Grows(q, n), n.kind # "file"
          PROVE  Files(fs') = Files(fs)
      <4>1. DataOf(n) = DataOf(fs[q])
        BY <3>1 DEF DataOf, Grows
      <4> QED BY <1>1, <3>1, <4>1, FilesChange DEF Grows
    <3>2. CASE fs' = fs
      BY <3>2
    <3>3. fs' = fs \/ \E q \in Paths, n \in Node : Grows(q, n) /\ n.kind # "file"
      <4>1. ~Commit /\ ~RemoveOld
        BY <1>7, ThisMember DEF MakeParents, MakeDirectory, MakeLink, Commit, RemoveOld
      <4>2. ASSUME NEW q \in Paths, NEW n \in Node, Grows(q, n), n.kind = "file"
            PROVE  FALSE
        <5>1. fs'[q] = n /\ fs[q].kind # "file"
          BY <1>1, <4>2 DEF Grows
        <5>2. \/ fs' = fs
              \/ \E p \in Paths, m \in Node : fs' = [fs EXCEPT ![p] = m] /\ m.kind # "file"
          <6>1. CASE MakeParents
            <7>1. target \in Paths
              BY <6>1 DEF MakeParents, Shape, Steps, Making
            <7>2. CASE Parent[target] # Root
              <8>1. Parent[target] \in Paths
                BY <7>1, <7>2, ExtractionAssumption
              <8> QED BY <6>1, <7>2, <8>1, NodeFacts DEF MakeParents
            <7> QED BY <6>1, <7>2 DEF MakeParents
          <6>2. CASE MakeDirectory
            BY <6>2, NodeFacts DEF MakeDirectory, Shape, Steps, Making
          <6>3. CASE MakeLink
            <7> DEFINE l == [kind |-> IF M.kind = "fifo" THEN "fifo" ELSE "link",
                             of |-> i, size |-> 0, to |-> M.to]
            <7>1. target \in Paths /\ i \in DOMAIN members /\ fs' = [fs EXCEPT ![target] = l]
              BY <6>3 DEF MakeLink, Shape, Steps, Making
            <7>2. l \in Node /\ l.kind # "file"
              BY <7>1, ThisMember DEF Shape, TypeOK, Node
            <7> HIDE DEF l
            <7> QED BY <7>1, <7>2
          <6> QED BY <1>7, <6>1, <6>2, <6>3
        <5> QED BY <1>1, <4>2, <5>1, <5>2
      <4> QED BY <4>1, <4>2, FsStep
    <3> QED BY <3>1, <3>2, <3>3
  <2>2. files' = files
    <3> HIDE DEF files
    <3> QED BY <1>2, <2>1
  <2>3. CASE MakeParents
    <3>1. report' = report
      BY <2>3 DEF MakeParents
    <3> QED BY <1>3, <2>2, <3>1
  <2>4. CASE MakeDirectory \/ MakeLink
    <3>1. target \in Paths /\ 0 \in Nat /\ Report("extracted", target, 0)
      BY <2>4 DEF MakeDirectory, MakeLink, Shape, Steps, Making
    <3> HIDE DEF files
    <3> QED BY <1>4, <2>2, <3>1
  <2> QED BY <1>7, <2>3, <2>4
<1>8. CASE RemoveOld
  <2>1. target \in Paths /\ fs' = [fs EXCEPT ![target] = Absent] /\ results' = results
    BY <1>8 DEF RemoveOld, Shape, Steps, Making
  <2>2. DataOf(Absent) = -1
    BY NodeFacts DEF DataOf
  <2>3. Files(fs') = [Files(fs) EXCEPT ![target] = -1]
    <3>1. Files([fs EXCEPT ![target] = Absent])
             = [Files(fs) EXCEPT ![target] = DataOf(Absent)]
      BY <1>1, <2>1, NodeFacts, FilesChange
    <3> QED BY <2>1, <2>2, <3>1
  <2>4. files' = [files EXCEPT ![target] = -1] /\ report' = report
    <3> HIDE DEF files, report
    <3> QED BY <1>2, <2>1, <2>3
  <2>5. Promise!Supplant
    BY <1>2, <2>1, <2>4 DEF Promise!Supplant
  <2> QED BY <2>5 DEF Promise!Next
<1>9. CASE Commit
  <2> DEFINE node == [kind |-> "file", of |-> i, size |-> temp.size, to |-> Root]
  <2>1. target \in Paths /\ fs' = [fs EXCEPT ![target] = node] /\ Charged \in Nat
        /\ Report("extracted", target, Charged)
    BY <1>9, CopiedWhole DEF Commit, Shape, TypeOK, Charged
  <2>2. DataOf(node) = i /\ i \in whole
    BY <1>9, CopiedWhole DEF DataOf, M
  <2>3. Files(fs') = [Files(fs) EXCEPT ![target] = i]
    <3>1. node \in Node
      BY <2>1, <1>9, CopiedWhole DEF Node, Shape, TypeOK
    <3> HIDE DEF node
    <3>2. Files(fs') = [Files(fs) EXCEPT ![target] = DataOf(node)]
      BY <2>1, <3>1, FilesPut
    <3> QED BY <2>2, <3>2
  <2>4. files' = [files EXCEPT ![target] = i]
    <3> HIDE DEF files
    <3> QED BY <1>2, <2>3
  <2>5. report' = Append(report, "extracted") /\ i = Len(report) + 1
    <3>1. Statuses(results') = Append(Statuses(results), "extracted")
          /\ Len(Statuses(results)) + 1 = i
      BY <2>1, StatusOfReport
    <3> HIDE DEF report
    <3> QED BY <1>2, <3>1
  <2>6. Promise!Deliver
    BY <1>2, <2>1, <2>2, <2>4, <2>5 DEF Promise!Deliver, Promise!Member
  <2> QED BY <2>6 DEF Promise!Next
<1>10. CASE OtherProgram
  <2>1. PICK p \in Free : fs' = [fs EXCEPT ![p] = SomeFile]
    BY <1>10 DEF OtherProgram
  <2>2. p \in Paths /\ fs[p].kind = "none" /\ results' = results
    BY <1>10, ExtractionAssumption DEF OtherProgram, Free
  <2>3. DataOf(SomeFile) = 0 /\ DataOf(fs[p]) = -1
    BY <2>2, NodeFacts DEF DataOf
  <2>4. Files(fs') = [Files(fs) EXCEPT ![p] = 0] /\ Files(fs)[p] = -1
    <3>1. /\ Files([fs EXCEPT ![p] = SomeFile]) = [Files(fs) EXCEPT ![p] = DataOf(SomeFile)]
          /\ Files(fs)[p] = DataOf(fs[p])
      BY <1>1, <2>2, NodeFacts, FilesChange
    <3> QED BY <2>1, <2>3, <3>1
  <2>5. files' = [files EXCEPT ![p] = 0] /\ files[p] = -1 /\ report' = report
    <3> HIDE DEF files, report
    <3> QED BY <1>2, <2>2, <2>4
  <2>6. Promise!Foreign
    BY <1>2, <2>2, <2>5 DEF Promise!Foreign
  <2> QED BY <2>6 DEF Promise!Next
<1>11. CASE fs' = fs /\ results' = results
  <2>1. files' = files /\ report' = report
    <3> HIDE DEF files, report
    <3> QED BY <1>2, <1>11
  <2> QED BY <1>3, <2>1
<1>12. (fs' = fs /\ results' = results) \/ Assess \/ ParentsFail \/ DirectoryFails
       \/ RemoveOldFails \/ LinkFails \/ CopyFails \/ CommitFails \/ MakeParents
       \/ MakeDirectory \/ MakeLink \/ RemoveOld \/ Commit \/ OtherProgram
  BY DEF Next, vars, Prepare, StartLegacy, OpenTemp, Copy, ReadRaises, Return, Crash
<1> HIDE DEF files, report, whole
<1> QED BY <1>5, <1>6, <1>7, <1>8, <1>9, <1>10, <1>11, <1>12

-----------------------------------------------------------------------------
(* The inspection                                                           *)

(* inspect()'s loop over zs: what is known after k entries.                 *)
InspectOne(zs, k, s) ==
    [targets |-> Targets(zs[k], s.targets, before),
     total   |-> s.total + zs[k].size,
     found   |-> Findings(zs[k], k, s.targets, s.total + zs[k].size, before)]

Walk(zs, u) ==
    u = [k \in 0 .. Len(zs) |->
            IF k = 0 THEN [targets |-> {}, total |-> 0, found |-> {}]
            ELSE InspectOne(zs, k, u[k - 1])]

WalkOf(zs) == CHOOSE u : Walk(zs, u)

(* What it would find in the members that are extracted.                    *)
UpTo == WalkOf(members)
Rehearsal == [k \in DOMAIN members |-> UpTo[k].found]

LEMMA InspectionIs == Inspection = [k \in DOMAIN archive |-> WalkOf(archive)[k].found]
BY DEF Inspection, WalkOf, Walk, InspectOne

LEMMA UpToStays ==
    UNCHANGED <<policy, archive, members, before>>
    => UpTo' = UpTo /\ Rehearsal' = Rehearsal
<1> SUFFICES ASSUME UNCHANGED <<policy, archive, members, before>>
             PROVE  UpTo' = UpTo /\ Rehearsal' = Rehearsal
  OBVIOUS
<1>1. UpTo' = UpTo
  BY DEF UpTo, WalkOf, Walk, InspectOne, Targets, Findings, Resolve, Exists
<1> QED BY <1>1 DEF Rehearsal

LEMMA WalkExists ==
    ASSUME NEW zs \in Seq(Member)
    PROVE  Walk(zs, WalkOf(zs))
<1> DEFINE N == Len(zs)
           Start == [targets |-> {}, total |-> 0, found |-> {}]
           Some1(u, n) ==
              u = [k \in 0 .. n |-> IF k = 0 THEN Start ELSE InspectOne(zs, k, u[k - 1])]
           C == {1 .. n : n \in {k \in 0 .. N : ~ \E u : Some1(u, k)}}
<1>1. N \in Nat
  OBVIOUS
<1>2. ASSUME C # {} PROVE FALSE
  <2> DEFINE U == 1 .. N
  <2>1. C \subseteq SUBSET U
    <3>1. ASSUME NEW n \in 0 .. N PROVE 1 .. n \subseteq U
      BY <1>1
    <3> HIDE DEF U, Some1, N
    <3> QED BY <3>1
  <2>2. IsFiniteSet(U)
    <3> HIDE DEF N
    <3> QED BY <1>1, FS_Interval
  <2>3. PICK m \in C : \A t \in C : t \subseteq m => t = m
    <3> HIDE DEF C, U
    <3>1. \E s \in C : /\ \A x \in s : s \ {x} \notin C
                       /\ \A t \in C : t \subseteq s => t = s
      BY <1>2, <2>1, <2>2, SmallestSet
    <3> QED BY <3>1
  <2>4. PICK n \in 0 .. N : m = 1 .. n /\ ~ \E u : Some1(u, n)
    <3> HIDE DEF Some1, N
    <3> QED OBVIOUS
  <2>5. n # 0
    <3> SUFFICES ASSUME n = 0 PROVE FALSE
      OBVIOUS
    <3> DEFINE u == [k \in 0 .. 0 |-> Start]
    <3>1. Some1(u, 0)
      OBVIOUS
    <3> HIDE DEF u, Some1
    <3> QED BY <2>4, <3>1
  <2>6. \E u : Some1(u, n - 1)
    <3> HIDE DEF Some1
    <3>1. n - 1 \in 0 .. N /\ 1 .. (n - 1) \subseteq m /\ n \in m /\ n \notin 1 .. (n - 1)
      <4> HIDE DEF N
      <4> QED BY <1>1, <2>4, <2>5
    <3>2. 1 .. (n - 1) \notin C
      BY <2>3, <3>1
    <3> QED BY <3>1, <3>2
  <2>7. PICK u : Some1(u, n - 1)
    BY <2>6
  <2> DEFINE v == [k \in 0 .. n |-> IF k = 0 THEN Start ELSE InspectOne(zs, k, u[k - 1])]
  <2>8. n \in Nat
    BY <1>1
  <2>9. \A k \in 0 .. n - 1 : v[k] = u[k]
    <3> HIDE DEF Start, N
    <3> QED BY <2>7, <2>8
  <2>10. \A k \in 0 .. n : k # 0 => k - 1 \in 0 .. n - 1
    BY <2>8
  <2>11. Some1(v, n)
    <3>1. \A k \in 0 .. n : k # 0 => InspectOne(zs, k, u[k - 1]) = InspectOne(zs, k, v[k - 1])
      <4> HIDE DEF v, Some1, N
      <4> QED BY <2>9, <2>10
    <3> HIDE DEF Start, N
    <3> QED BY <3>1
  <2> HIDE DEF Some1, v
  <2> QED BY <2>4, <2>11
<1>3. \E u : Some1(u, N)
  <2>1. N \in 0 .. N
    BY <1>1
  <2> HIDE DEF Some1, N
  <2> QED BY <1>2, <2>1
<1>4. \E u : Walk(zs, u)
  BY <1>3 DEF Walk
<1> QED BY <1>4 DEF WalkOf

LEMMA WalkStep ==
    ASSUME NEW zs \in Seq(Member), NEW k \in DOMAIN zs
    PROVE  /\ WalkOf(zs)[k].targets = Targets(zs[k], WalkOf(zs)[k - 1].targets, before)
           /\ WalkOf(zs)[k].total = WalkOf(zs)[k - 1].total + zs[k].size
           /\ WalkOf(zs)[k].found
                = Findings(zs[k], k, WalkOf(zs)[k - 1].targets,
                           WalkOf(zs)[k - 1].total + zs[k].size, before)
<1> DEFINE u == WalkOf(zs)
<1>1. u = [j \in 0 .. Len(zs) |->
            IF j = 0 THEN [targets |-> {}, total |-> 0, found |-> {}]
            ELSE InspectOne(zs, j, u[j - 1])]
  <2>1. Walk(zs, u)
    BY WalkExists
  <2> HIDE DEF u
  <2> QED BY <2>1 DEF Walk
<1>2. k \in 0 .. Len(zs) /\ k # 0
  OBVIOUS
<1> HIDE DEF u
<1>3. u[k] = InspectOne(zs, k, u[k - 1])
  <2>1. \A j \in 0 .. Len(zs) :
           u[j] = IF j = 0 THEN [targets |-> {}, total |-> 0, found |-> {}]
                  ELSE InspectOne(zs, j, u[j - 1])
    BY <1>1
  <2> QED BY <1>2, <2>1
<1> QED BY <1>3 DEF InspectOne, u

LEMMA WalkZero ==
    ASSUME NEW zs \in Seq(Member)
    PROVE  WalkOf(zs)[0] = [targets |-> {}, total |-> 0, found |-> {}]
<1> DEFINE u == WalkOf(zs)
<1>1. u = [j \in 0 .. Len(zs) |->
            IF j = 0 THEN [targets |-> {}, total |-> 0, found |-> {}]
            ELSE InspectOne(zs, j, u[j - 1])]
  <2>1. Walk(zs, u)
    BY WalkExists
  <2> HIDE DEF u
  <2> QED BY <2>1 DEF Walk
<1>2. 0 \in 0 .. Len(zs)
  OBVIOUS
<1> HIDE DEF u
<1>3. u[0] = [targets |-> {}, total |-> 0, found |-> {}]
  BY <1>1, <1>2
<1> QED BY <1>3 DEF u

(* The loop over filelist and one over what is extracted take the same      *)
(* targets, and add up to the same until an entry is another.               *)
LEMMA WalksAgree ==
    ASSUME archive \in Archives, members \in {ByName(archive), archive},
           NEW n \in 0 .. Len(archive)
    PROVE  /\ WalkOf(archive)[n].targets = UpTo[n].targets
           /\ (\A j \in 1 .. n : ~Shadowed(j)) => WalkOf(archive)[n].total = UpTo[n].total
<1> DEFINE Agree(k) ==
               /\ WalkOf(archive)[k].targets = UpTo[k].targets
               /\ (\A j \in 1 .. k : ~Shadowed(j))
                     => WalkOf(archive)[k].total = UpTo[k].total
           N == Len(archive)
           S == {k \in 1 .. N : ~Agree(k)}
<1>1. /\ archive \in Seq(Member) /\ members \in Seq(Member) /\ Len(members) = N
      /\ N \in Nat /\ DOMAIN archive = 1 .. N /\ DOMAIN members = 1 .. N
      /\ \A k \in 1 .. N : members[k].target = archive[k].target
  BY MembersAre
<1>2. ASSUME NEW k \in 1 .. N, Agree(k - 1) PROVE Agree(k)
  <2>1. /\ WalkOf(archive)[k].targets
             = Targets(archive[k], WalkOf(archive)[k - 1].targets, before)
        /\ WalkOf(archive)[k].total = WalkOf(archive)[k - 1].total + archive[k].size
    BY <1>1, WalkStep
  <2>2. /\ UpTo[k].targets = Targets(members[k], UpTo[k - 1].targets, before)
        /\ UpTo[k].total = UpTo[k - 1].total + members[k].size
    BY <1>1, WalkStep DEF UpTo
  <2>3. WalkOf(archive)[k].targets = UpTo[k].targets
    BY <1>1, <1>2, <2>1, <2>2 DEF Targets
  <2>4. ASSUME \A j \in 1 .. k : ~Shadowed(j)
        PROVE  WalkOf(archive)[k].total = UpTo[k].total
    <3>1. members[k] = archive[k] /\ \A j \in 1 .. k - 1 : ~Shadowed(j)
      BY <2>4 DEF Shadowed
    <3> QED BY <1>2, <2>1, <2>2, <3>1
  <2> QED BY <2>3, <2>4
<1>3. Agree(0)
  BY <1>1, WalkZero DEF UpTo
<1>4. S = {}
  <2> SUFFICES ASSUME S # {} PROVE FALSE
    OBVIOUS
  <2>1. PICK k \in S : \A j \in S : k <= j
    <3> HIDE DEF Agree, N
    <3>1. S \subseteq 1 .. N
      OBVIOUS
    <3> HIDE DEF S
    <3> QED BY <1>1, <3>1, LeastUpTo
  <2>2. k \in 1 .. N /\ ~Agree(k)
    OBVIOUS
  <2>3. Agree(k - 1)
    <3>1. k = 1 \/ k - 1 \in 1 .. N
      BY <1>1, <2>2
    <3>2. k - 1 \notin S
      <4> HIDE DEF S, Agree
      <4> QED BY <1>1, <2>1, <2>2
    <3> HIDE DEF Agree
    <3> QED BY <1>3, <3>1, <3>2
  <2> HIDE DEF Agree
  <2> QED BY <1>2, <2>2, <2>3
<1>5. Agree(n)
  <2>1. n = 0 \/ n \in 1 .. N
    BY <1>1
  <2> HIDE DEF Agree, N
  <2> QED BY <1>3, <1>4, <2>1
<1> QED BY <1>5

(* So the inspection differs from the rehearsal in the sums alone.          *)
LEMMA InspectionAndRehearsal ==
    ASSUME archive \in Archives, members \in {ByName(archive), archive},
           NEW k \in DOMAIN members, ~Shadowed(k),
           NEW sums, sums = IF \E j \in 1 .. k : Shadowed(j)
                            THEN {"max_total_uncompressed_size"} ELSE {}
    PROVE  /\ Inspection[k] \subseteq Rehearsal[k] \cup sums
           /\ Rehearsal[k] \subseteq Inspection[k] \cup sums
<1> DEFINE T == UpTo[k - 1].targets  m == members[k]
           d == UpTo[k - 1].total + m.size
           e == WalkOf(archive)[k - 1].total + m.size
<1>1. /\ archive \in Seq(Member) /\ members \in Seq(Member)
      /\ k \in DOMAIN archive /\ k - 1 \in 0 .. Len(archive) /\ k \in Nat
  BY MembersAre
<1>2. archive[k] = m
  BY DEF Shadowed
<1>3. Rehearsal[k] = Findings(m, k, T, d, before)
  BY <1>1, WalkStep DEF Rehearsal, UpTo
<1>4. Inspection[k] = Findings(m, k, T, e, before)
  <2>1. Inspection[k] = WalkOf(archive)[k].found
    BY <1>1, InspectionIs
  <2>2. WalkOf(archive)[k - 1].targets = T
    BY <1>1, WalksAgree
  <2> QED BY <1>1, <1>2, <2>1, <2>2, WalkStep
<1>5. CASE \E j \in 1 .. k : Shadowed(j)
  <2> HIDE DEF T, m, d, e
  <2>1. sums = {"max_total_uncompressed_size"}
    BY <1>5
  <2>2. \A x, y : Findings(m, k, T, x, before)
                   \subseteq Findings(m, k, T, y, before)
                             \cup {"max_total_uncompressed_size"}
    BY DEF Findings
  <2> QED BY <1>3, <1>4, <2>1, <2>2
<1>6. CASE \A j \in 1 .. k : ~Shadowed(j)
  <2>1. \A j \in 1 .. k - 1 : ~Shadowed(j)
    BY <1>1, <1>6
  <2>2. e = d
    BY <1>1, <2>1, WalksAgree
  <2> QED BY <1>3, <1>4, <2>2
<1> QED BY <1>5, <1>6

(* Where the inspection can be relied on: nothing that was there is taken   *)
(* away on the way to a link or FIFO that then cannot be made, under a      *)
(* policy that only warns of what is there; and no link of the destination  *)
(* dangles if members are renamed, for its name is free then, and a file    *)
(* put there changes where later members go.                                *)
Steady ==
    /\ \/ "link" \notin Faults
       \/ \A P \in Policies : ~(P.on = "warn" /\ P.overwrite = "error")
    /\ \/ \A P \in Policies : P.overwrite # "rename"
       \/ \A F \in Initial : \A p \in Paths :
             F[p].kind = "link" /\ F[p].to # Root => F[F[p].to].kind # "none"

Codes == Hard \cup Static \cup
    {"duplicate_target", "overwrite", "max_member_size", "max_entries",
     "max_total_uncompressed_size"}

NoLinks == \A m \in Range(members) : m.kind # "symlink"

LinksStay ==
    \A p \in Paths : fs[p].kind = "link" \/ before[p].kind = "link"
                     => fs[p] = before[p]

(* What was there is still there, but for what a link or FIFO replaces.     *)
NothingVanishes ==
    \A p \in Paths : before[p].kind # "none" =>
        fs[p].kind # "none" \/ (pc \in {"link", "raised", "crashed"} /\ p = target)

Foreseen ==
    /\ Len(found) <= Len(members)
    /\ \A k \in 1 .. Len(found) : /\ Rehearsal[k] \subseteq found[k]
                                  /\ found[k] \ Rehearsal[k] \subseteq {"overwrite"}

(* The targets and sizes so far are those of the inspection, and the links  *)
(* lead where they led.                                                     *)
Foresight ==
    ~policy.legacy /\ NoLinks =>
        /\ found \in Seq(SUBSET Codes) /\ Foreseen
        /\ LinksStay
        /\ "link" \notin Faults \/ Protects => NothingVanishes
        /\ pc = "assess" => Len(found) = i - 1
        /\ pc \in Making => Len(found) = i
        /\ pc \in Making \cup {"assess"} =>
              /\ targets = UpTo[Len(found)].targets
              /\ declared = UpTo[Len(found)].total
        /\ pc \in Making => fs[target].kind # "link"
        /\ Protects /\ pc \in Making /\ (pc = "prepare" => policy.overwrite # "rename")
              => before[target].kind = "none"

(* Members go where they would have gone, and what existed exists.          *)
LEMMA SameTargets ==
    ASSUME Shape, LinksStay, NEW p \in Paths
    PROVE  Resolve(fs, p) = Resolve(before, p)
BY DEF LinksStay, Resolve

LEMMA SameExists ==
    ASSUME Shape, LinksStay, NothingVanishes, pc \notin {"link", "raised", "crashed"},
           NEW p \in Paths \cup {Root}, Exists(before, p)
    PROVE  Exists(fs, p)
<1>1. CASE p = Root
  BY <1>1 DEF Exists
<1>2. CASE p # Root
  <2>1. p \in Paths /\ Resolve(fs, p) = Resolve(before, p)
    BY <1>2, SameTargets
  <2>2. Resolve(before, p) \in Paths \cup {Root}
    BY <2>1, ResolveType, ExtractionAssumption DEF Shape
  <2>3. Resolve(before, p) # Root => before[Resolve(before, p)].kind # "none"
    BY <1>2 DEF Exists
  <2>4. Resolve(fs, p) # Root => fs[Resolve(fs, p)].kind # "none"
    BY <2>1, <2>2, <2>3 DEF NothingVanishes
  <2> QED BY <1>2, <2>4 DEF Exists
<1> QED BY <1>1, <1>2

(* So the checks find what the inspection found.                            *)
LEMMA SameFindings ==
    ASSUME Shape, LinksStay, pc = "assess", Steady, ~policy.legacy,
           "link" \notin Faults \/ Protects => NothingVanishes,
           NEW k \in DOMAIN members, NEW T, NEW d
    PROVE  /\ Findings(members[k], k, T, d, before) \subseteq Findings(members[k], k, T, d, fs)
           /\ Findings(members[k], k, T, d, fs) \ Findings(members[k], k, T, d, before) \subseteq {"overwrite"}
           /\ Targets(members[k], T, fs) = Targets(members[k], T, before)
<1> DEFINE t == Resolve(fs, members[k].target)
<1>1. members[k].target \in Paths
  BY MemberFacts DEF Shape, TypeOK, Member
<1>2. Resolve(before, members[k].target) = t /\ t \in Paths \cup {Root}
  BY <1>1, SameTargets, ResolveType DEF Shape, TypeOK
<1>3. Targets(members[k], T, fs) = Targets(members[k], T, before)
  BY <1>2 DEF Targets
<1>4. ASSUME Exists(before, t), ~policy.allowOverwrite,
             policy.overwrite \notin {"replace", "rename"}
      PROVE  Exists(fs, t)
  <2>1. "link" \notin Faults \/ Protects
    <3>1. policy \in Policies /\ policy.overwrite \in {"error", "skip"}
      BY <1>4, PolicyFacts DEF Shape, TypeOK
    <3> QED BY <1>4, <3>1 DEF Steady, Protects
  <2> HIDE DEF t
  <2> QED BY <1>2, <1>4, <2>1, SameExists
<1> DEFINE over(F) == /\ Exists(F, t) /\ ~policy.allowOverwrite
                      /\ policy.overwrite \notin {"replace", "rename"}
           Others1 == members[k].findings
              \cup (IF t = Root THEN {"outside_root"} ELSE {})
              \cup (IF t \in T /\ policy.rejectDuplicates THEN {"duplicate_target"} ELSE {})
              \cup (IF members[k].size > policy.maxMember THEN {"max_member_size"} ELSE {})
              \cup (IF members[k].kind = "symlink" /\ ~policy.allowLinks THEN {"symlink"} ELSE {})
              \cup (IF members[k].kind \in {"fifo", "device"} /\ ~policy.allowSpecial
                    THEN {"special_file"} ELSE {})
              \cup (IF k > policy.maxEntries THEN {"max_entries"} ELSE {})
              \cup (IF d > policy.maxTotal THEN {"max_total_uncompressed_size"} ELSE {})
<1>5. Findings(members[k], k, T, d, fs) = Others1 \cup (IF over(fs) THEN {"overwrite"} ELSE {})
  BY DEF Findings
<1>6. Findings(members[k], k, T, d, before) = Others1 \cup (IF over(before) THEN {"overwrite"} ELSE {})
  BY <1>2 DEF Findings
<1> HIDE DEF Others1, t
<1> QED BY <1>3, <1>4, <1>5, <1>6

(* A name chosen by renaming is not that of a link.                         *)
LEMMA RenamedFree ==
    ASSUME Shape, Steady, Foresight, ~policy.legacy, NoLinks, Prepare,
           policy.overwrite = "rename"
    PROVE  target' \in Paths /\ fs[target'].kind = "none"
           /\ before[target'].kind = "none"
<1>1. target \in Paths /\ target' = FreeName(target) /\ NamesLeft(target)
      /\ pc = "prepare"
  BY DEF Prepare, Shape, Steps, Making
<1>2. target' \in Paths /\ ~Exists(fs, target')
  BY <1>1, FreeNameIsFree
<1>3. LinksStay /\ NothingVanishes
  BY DEF Foresight, Protects
<1>4. fs[target'].kind # "link"
  <2> SUFFICES ASSUME fs[target'].kind = "link" PROVE FALSE
    OBVIOUS
  <2> DEFINE q == before[target'].to
  <2>1. before[target'] = fs[target'] /\ before \in Initial /\ policy \in Policies
    BY <1>2, <1>3 DEF LinksStay, Shape, TypeOK
  <2>2. before[target'].kind = "link" /\ Resolve(fs, target') = q
    BY <2>1 DEF Resolve
  <2>3. q # Root /\ fs[q].kind = "none"
    BY <1>2, <2>2, ExtractionAssumption DEF Exists
  <2>4. before[q].kind # "none"
    BY <1>2, <2>1, <2>2, <2>3 DEF Steady
  <2>5. q \in Paths
    BY <1>2, <2>1, <2>3, ExtractionAssumption DEF Node
  <2> HIDE DEF q
  <2> QED BY <1>1, <1>3, <2>3, <2>4, <2>5 DEF NothingVanishes
<1>5. fs[target'].kind = "none"
  BY <1>2, <1>4, ExtractionAssumption DEF Exists, Resolve
<1> QED BY <1>1, <1>2, <1>3, <1>5 DEF NothingVanishes

(* A target that is not a name of the archive's is what its link leads to.  *)
LEMMA AssessedTarget ==
    ASSUME Shape, Steady, Foresight, ~policy.legacy, NoLinks, Assess, pc' = "prepare"
    PROVE  /\ target' \in Paths /\ fs[target'].kind # "link"
           /\ Protects /\ policy.overwrite # "rename" => before[target'].kind = "none"
<1> DEFINE codes == Findings(M, i, targets, declared + M.size, fs)
<1>1. Verdict(codes) = "none" /\ target' = Resolve(fs, M.target) /\ M.target \in Paths
      /\ pc = "assess"
  BY Assessed, ThisMember
<1>2. target' \in Paths /\ target' # Root
  BY InsideRoot, ExtractionAssumption
<1>3. LinksStay /\ before \in Initial
  BY DEF Foresight, Shape
<1>4. fs[target'].kind # "link"
  <2> SUFFICES ASSUME fs[target'].kind = "link" PROVE FALSE
    OBVIOUS
  <2>1. fs[M.target].kind = "link" /\ target' = fs[M.target].to
    BY <1>1 DEF Resolve
  <2>2. before[M.target] = fs[M.target] /\ before[target'] = fs[target']
    BY <1>1, <1>2, <1>3, <2>1 DEF LinksStay
  <2> QED BY <1>1, <1>2, <1>3, <2>1, <2>2, ExtractionAssumption
<1>5. ASSUME Protects, policy.overwrite # "rename" PROVE before[target'].kind = "none"
  <2>1. ASSUME Exists(fs, target') PROVE FALSE
    <3>1. "overwrite" \in codes
      BY <1>1, <1>5, <2>1 DEF Findings, M, Protects
    <3>2. policy.on # "warn" \/ policy.overwrite = "skip"
      BY <1>5 DEF Protects
    <3> HIDE DEF codes
    <3> QED BY <1>1, <3>1, <3>2, Refused DEF Shape, TypeOK
  <2>2. fs[target'].kind = "none"
    BY <1>2, <1>4, <2>1 DEF Exists, Resolve
  <2>3. NothingVanishes
    BY <1>5 DEF Foresight
  <2> QED BY <1>1, <1>2, <2>2, <2>3 DEF NothingVanishes
<1> QED BY <1>2, <1>4, <1>5

LEMMA PcStep ==
    ASSUME Shape, [Next]_vars, ~policy.legacy, ~Assess
    PROVE  /\ UNCHANGED <<targets, declared, found>>
           /\ pc' \in Making => pc \in Making /\ i' = i /\ (target' = target \/ Prepare)
           /\ pc' = "prepare" => pc = "prepare" /\ ~Prepare
           /\ pc = "prepare" /\ pc' \in Making => Prepare \/ pc' = "prepare"
           /\ pc' = "assess" => \/ pc = "assess" /\ i' = i
                                \/ pc \in Making /\ i' = i + 1
<1> DEFINE Claim == /\ UNCHANGED <<targets, declared, found>>
                    /\ pc' \in Making => pc \in Making /\ i' = i
                                         /\ (target' = target \/ Prepare)
                    /\ pc' = "prepare" => pc = "prepare" /\ ~Prepare
                    /\ pc = "prepare" /\ pc' \in Making => Prepare \/ pc' = "prepare"
                    /\ pc' = "assess" => \/ pc = "assess" /\ i' = i
                                         \/ pc \in Making /\ i' = i + 1
<1>1. CASE MakeParents
  <2>1. M.kind \in {"file", "dir", "symlink", "fifo", "device"}
    BY <1>1, ThisMember DEF MakeParents, Shape, Steps, Making
  <2> QED BY <1>1, <2>1 DEF MakeParents, Making
<1>2. CASE ParentsFail \/ DirectoryFails \/ RemoveOldFails \/ LinkFails
           \/ CopyFails \/ CommitFails
  BY <1>2 DEF ParentsFail, DirectoryFails, RemoveOldFails, LinkFails, CopyFails,
              CommitFails, Fail, Report, Making
<1>3. CASE MakeDirectory \/ MakeLink \/ Commit
  BY <1>3 DEF MakeDirectory, MakeLink, Commit, Report, Making
<1>4. CASE Prepare \/ RemoveOld \/ OpenTemp \/ Copy \/ ReadRaises \/ Return
           \/ Crash \/ OtherProgram \/ UNCHANGED vars
  BY <1>4 DEF Prepare, RemoveOld, OpenTemp, Copy, ReadRaises, Return, Crash,
              OtherProgram, vars, Making
<1>5. ~StartLegacy
  BY DEF StartLegacy
<1> HIDE DEF Claim
<1> QED BY <1>1, <1>2, <1>3, <1>4, <1>5 DEF Next, Claim

LEMMA LinkStep ==
    ASSUME Shape, [Next]_vars, ~policy.legacy,
           pc \in {"link", "raised", "crashed"}, fs'[target].kind = "none"
    PROVE  \/ pc = "link" /\ "link" \in Faults
           \/ pc' \in {"link", "raised", "crashed"} /\ target' = target
<1>1. CASE pc = "link"
  <2>1. CASE MakeLink
    <3>1. fs \in [Paths -> Node] /\ target \in Paths
      BY <2>1 DEF MakeLink, Shape, TypeOK, Steps, Making
    <3>2. fs'[target].kind # "none"
      BY <2>1, <3>1 DEF MakeLink
    <3> QED BY <3>2
  <2>2. CASE LinkFails
    <3>1. "link" \in Faults \/ fs[target].kind # "none"
      BY <2>2 DEF LinkFails
    <3>2. fs' = fs
      BY <2>2 DEF LinkFails
    <3> QED BY <1>1, <3>1, <3>2
  <2>3. CASE Crash \/ OtherProgram \/ UNCHANGED vars
    BY <1>1, <2>3 DEF Crash, OtherProgram, vars
  <2>4. Crash \/ OtherProgram \/ UNCHANGED vars \/ MakeLink \/ LinkFails
    BY <1>1 DEF Next, Assess, Prepare, StartLegacy, ParentsFail, DirectoryFails,
       RemoveOldFails, OpenTemp, Copy, CopyFails, ReadRaises, CommitFails, Return,
       MakeParents, MakeDirectory, RemoveOld, Commit
  <2> QED BY <2>1, <2>2, <2>3, <2>4
<1>2. CASE pc \in {"raised", "crashed"}
  <2>1. UNCHANGED vars
    BY <1>2 DEF Next, Assess, Prepare, StartLegacy, ParentsFail, DirectoryFails,
       RemoveOldFails, LinkFails, OpenTemp, Copy, CopyFails, ReadRaises,
       CommitFails, Return, Crash, MakeParents, MakeDirectory, RemoveOld,
       MakeLink, Commit, OtherProgram, Ended
  <2> QED BY <1>2, <2>1 DEF vars
<1> QED BY <1>1, <1>2

LEMMA FindingsType ==
    ASSUME Shape, NEW k \in DOMAIN members, NEW T, NEW d, NEW F
    PROVE  Findings(members[k], k, T, d, F) \in SUBSET Codes
<1>1. members[k].findings \subseteq Static
  BY MemberFacts DEF Shape, TypeOK, Member
<1> QED BY <1>1 DEF Findings, Codes, Hard, Static

LEMMA ForesightInit == Init => Foresight
<1> SUFFICES ASSUME Init, ~policy.legacy PROVE Foresight
  BY DEF Foresight
<1>1. members \in Seq(Member) /\ found = <<>> /\ Len(found) = 0
  BY MembersAre DEF Init
<1>2. UpTo[0] = [targets |-> {}, total |-> 0, found |-> {}]
  BY <1>1, WalkZero DEF UpTo
<1>3. found \in Seq(SUBSET Codes) /\ Foreseen
  BY <1>1 DEF Foreseen
<1>4. LinksStay /\ NothingVanishes
  BY DEF Init, LinksStay, NothingVanishes
<1>5. targets = UpTo[Len(found)].targets /\ declared = UpTo[Len(found)].total
  BY <1>1, <1>2 DEF Init
<1>6. pc = "assess" /\ Len(found) = i - 1
  BY <1>1 DEF Init
<1> QED BY <1>3, <1>4, <1>5, <1>6 DEF Foresight, Making

LEMMA ForesightStep ==
    ASSUME Steady PROVE Shape /\ Foresight /\ [Next]_vars => Foresight'
<1> SUFFICES ASSUME Shape, Foresight, [Next]_vars, ~policy'.legacy, NoLinks'
             PROVE  Foresight'
  BY DEF Foresight
<1>1. UNCHANGED <<policy, archive, members, before>> /\ ~policy.legacy /\ NoLinks
  BY MembersStay DEF NoLinks
<1>2. UpTo' = UpTo /\ Rehearsal' = Rehearsal /\ (Protects' <=> Protects)
  BY <1>1, UpToStays DEF Protects
<1>3. /\ fs \in [Paths -> Node] /\ before \in [Paths -> Node] /\ i \in Nat
      /\ members \in Seq(Member)
      /\ LinksStay /\ found \in Seq(SUBSET Codes) /\ Foreseen
  BY <1>1, ExtractionAssumption, MembersAre DEF Shape, TypeOK, Foresight
<1>4. ASSUME i \in DOMAIN members PROVE M.kind # "symlink"
  BY <1>1, <1>3, <1>4 DEF NoLinks, M, Range
<1>5. ASSUME RemoveOld \/ Commit
      PROVE  /\ target \in Paths /\ pc \in Making /\ pc # "prepare"
             /\ fs[target].kind # "link" /\ before[target].kind # "link"
             /\ fs'[target].kind # "link"
             /\ \A p \in Paths \ {target} : fs'[p] = fs[p]
             /\ RemoveOld => pc' = "link" /\ target' = target
             /\ Commit => fs'[target].kind = "file"
  <2>1. target \in Paths /\ pc \in Making /\ pc # "prepare"
    BY <1>5 DEF RemoveOld, Commit, Shape, Steps, Making
  <2>2. fs[target].kind # "link"
    BY <1>1, <2>1 DEF Foresight
  <2>3. before[target].kind # "link"
    BY <1>3, <2>1, <2>2 DEF LinksStay
  <2>4. \A p \in Paths \ {target} : fs'[p] = fs[p]
    BY <1>3, <1>5, <2>1 DEF RemoveOld, Commit
  <2>5. RemoveOld => fs'[target].kind = "none" /\ pc' = "link" /\ target' = target
    BY <1>3, <2>1, NodeFacts DEF RemoveOld
  <2>6. Commit => fs'[target].kind = "file"
    BY <1>3, <2>1 DEF Commit
  <2> QED BY <1>5, <2>1, <2>2, <2>3, <2>4, <2>5, <2>6
<1>6. ASSUME NEW q \in Paths, NEW n \in Node, Grows(q, n)
      PROVE  /\ fs'[q] = n /\ fs[q].kind \in {"none", "dir"}
             /\ n.kind \notin {"none", "link"}
             /\ \A p \in Paths \ {q} : fs'[p] = fs[p]
  BY <1>3, <1>4, <1>6 DEF Grows
<1>7. LinksStay'
  <2> SUFFICES ASSUME NEW p \in Paths, fs'[p].kind = "link" \/ before[p].kind = "link"
               PROVE  fs'[p] = before[p]
    BY <1>1 DEF LinksStay
  <2>1. CASE fs'[p] = fs[p]
    BY <1>3, <2>1 DEF LinksStay
  <2>2. ASSUME NEW q \in Paths, NEW n \in Node, Grows(q, n) PROVE fs'[p] = before[p]
    <3>1. CASE p # q
      BY <1>6, <2>1, <2>2, <3>1
    <3>2. CASE p = q
      BY <1>3, <1>6, <2>2, <3>2 DEF LinksStay
    <3> QED BY <3>1, <3>2
  <2>3. CASE RemoveOld \/ Commit
    BY <1>5, <2>1, <2>3
  <2> QED BY <2>1, <2>2, <2>3, FsStep
<1>8. ASSUME "link" \notin Faults \/ Protects PROVE NothingVanishes'
  <2> SUFFICES ASSUME NEW p \in Paths, before[p].kind # "none", fs'[p].kind = "none"
               PROVE  pc' \in {"link", "raised", "crashed"} /\ p = target'
    BY <1>1 DEF NothingVanishes
  <2>1. NothingVanishes
    BY <1>1, <1>8 DEF Foresight
  <2>2. CASE fs[p].kind = "none"
    <3>1. pc \in {"link", "raised", "crashed"} /\ p = target
      BY <2>1, <2>2 DEF NothingVanishes
    <3>2. ASSUME pc = "link", "link" \in Faults PROVE FALSE
      BY <1>1, <1>8, <3>1, <3>2 DEF Foresight, Making
    <3> QED BY <1>1, <3>1, <3>2, LinkStep
  <2>3. CASE fs[p].kind # "none"
    <3>1. ASSUME NEW q \in Paths, NEW n \in Node, Grows(q, n) PROVE FALSE
      <4>1. CASE p = q
        BY <1>6, <3>1, <4>1
      <4>2. CASE p # q
        BY <1>6, <2>3, <3>1, <4>2
      <4> QED BY <4>1, <4>2
    <3>2. CASE RemoveOld \/ Commit
      BY <1>5, <2>3, <3>2
    <3> QED BY <2>3, <3>1, <3>2, FsStep
  <2> QED BY <2>2, <2>3
<1>9. CASE Assess
  <2> DEFINE n == Len(found)
             codes == Findings(M, i, targets, declared + M.size, fs)
  <2>1. /\ pc = "assess" /\ i \in DOMAIN members /\ found' = Append(found, codes)
        /\ targets' = Targets(M, targets, fs) /\ declared' = declared + M.size
        /\ fs' = fs
    BY <1>9, Assessed
  <2>2. n = i - 1 /\ targets = UpTo[n].targets /\ declared = UpTo[n].total
    BY <1>1, <2>1 DEF Foresight
  <2>3. /\ UpTo[i].targets = Targets(M, UpTo[i - 1].targets, before)
        /\ UpTo[i].total = UpTo[i - 1].total + M.size
        /\ Rehearsal[i] = Findings(M, i, UpTo[i - 1].targets,
                                   UpTo[i - 1].total + M.size, before)
    BY <1>3, <2>1, WalkStep DEF UpTo, Rehearsal, M
  <2>4. Rehearsal[i] = Findings(M, i, targets, declared + M.size, before)
    BY <2>2, <2>3
  <2>5. /\ Rehearsal[i] \subseteq codes /\ codes \ Rehearsal[i] \subseteq {"overwrite"}
        /\ targets' = UpTo[i].targets /\ declared' = UpTo[i].total
    <3>1. "link" \notin Faults \/ Protects => NothingVanishes
      BY <1>1 DEF Foresight
    <3>2. /\ Findings(M, i, targets, declared + M.size, before) \subseteq codes
          /\ codes \ Findings(M, i, targets, declared + M.size, before) \subseteq {"overwrite"}
          /\ Targets(M, targets, fs) = Targets(M, targets, before)
      BY <1>1, <1>3, <2>1, <3>1, SameFindings DEF M
    <3> HIDE DEF codes
    <3> QED BY <2>1, <2>2, <2>3, <2>4, <3>2 DEF M
  <2>6. codes \in SUBSET Codes
    BY <2>1, FindingsType DEF M
  <2>7. /\ found' \in Seq(SUBSET Codes) /\ Len(found') = i
        /\ found'[i] = codes /\ \A k \in 1 .. i - 1 : found'[k] = found[k]
    <3> HIDE DEF codes
    <3> QED BY <1>3, <2>1, <2>2, <2>6
  <2>8. Foreseen'
    <3>1. i <= Len(members)
      BY <1>3, <2>1
    <3>2. ASSUME NEW k \in 1 .. i
          PROVE  /\ Rehearsal[k] \subseteq found'[k]
                 /\ found'[k] \ Rehearsal[k] \subseteq {"overwrite"}
      <4>1. CASE k = i
        BY <4>1, <2>5, <2>7
      <4>2. CASE k # i
        <5>1. k \in 1 .. n /\ found'[k] = found[k]
          BY <1>3, <2>2, <2>7, <4>2
        <5> QED BY <1>3, <5>1 DEF Foreseen
      <4> QED BY <4>1, <4>2
    <3> QED BY <1>1, <1>2, <2>7, <3>1, <3>2 DEF Foreseen
  <2>9. CASE pc' = "assess"
    <3>1. i' = i + 1
      BY <1>9, <2>9, Assessed DEF Report
    <3> HIDE DEF n, codes
    <3> QED BY <1>1, <1>2, <1>3, <1>7, <1>8, <2>5, <2>7, <2>8, <2>9, <3>1
            DEF Foresight, Making
  <2>10. CASE pc' = "prepare"
    <3>1. i' = i
      BY <1>9, <2>10, Assessed
    <3>2. /\ fs'[target'].kind # "link"
          /\ Protects /\ policy.overwrite # "rename" => before[target'].kind = "none"
      BY <1>1, <1>9, <2>1, <2>10, AssessedTarget
    <3> HIDE DEF n, codes
    <3> QED BY <1>1, <1>2, <1>3, <1>7, <1>8, <2>5, <2>7, <2>8, <2>10, <3>1, <3>2
            DEF Foresight, Making
  <2> QED BY <1>9, <2>9, <2>10, Assessed
<1>10. CASE ~Assess
  <2>1. /\ UNCHANGED <<targets, declared, found>>
        /\ pc' \in Making => pc \in Making /\ i' = i /\ (target' = target \/ Prepare)
        /\ pc' = "prepare" => pc = "prepare" /\ ~Prepare
        /\ pc' = "assess" => \/ pc = "assess" /\ i' = i
                             \/ pc \in Making /\ i' = i + 1
    BY <1>1, <1>10, PcStep
  <2>2. found' \in Seq(SUBSET Codes) /\ Foreseen'
    BY <1>1, <1>2, <1>3, <2>1 DEF Foreseen
  <2>3. /\ pc' = "assess" => Len(found') = i' - 1
        /\ pc' \in Making => Len(found') = i'
    BY <1>1, <1>3, <2>1 DEF Foresight
  <2>4. pc' \in Making \cup {"assess"} =>
           /\ targets' = UpTo[Len(found')].targets
           /\ declared' = UpTo[Len(found')].total
    BY <1>1, <2>1 DEF Foresight
  <2>5. ASSUME pc' \in Making
        PROVE  /\ fs'[target'].kind # "link"
               /\ Protects /\ (pc' = "prepare" => policy.overwrite # "rename")
                     => before[target'].kind = "none"
    <3>1. CASE Prepare /\ policy.overwrite = "rename"
      <4>1. fs' = fs
        BY <3>1 DEF Prepare
      <4> QED BY <1>1, <3>1, <4>1, RenamedFree
    <3>2. CASE ~(Prepare /\ policy.overwrite = "rename")
      <4>1. target' = target /\ pc \in Making /\ target \in Paths
        BY <2>1, <2>5, <3>2 DEF Prepare, Shape, Steps
      <4>2. fs[target].kind # "link"
        BY <1>1, <4>1 DEF Foresight
      <4>3. fs'[target].kind # "link"
        BY <1>1, <1>3, <1>7, <4>1, <4>2 DEF LinksStay
      <4>4. ASSUME Protects, pc' = "prepare" => policy.overwrite # "rename"
            PROVE  before[target].kind = "none"
        <5>1. pc = "prepare" => policy.overwrite # "rename"
          BY <1>1, <1>10, <2>5, <3>2, <4>4, PcStep
        <5> QED BY <1>1, <4>1, <4>4, <5>1 DEF Foresight
      <4> QED BY <4>1, <4>3, <4>4
    <3> QED BY <3>1, <3>2
  <2> QED BY <1>1, <1>2, <1>7, <1>8, <2>2, <2>3, <2>4, <2>5 DEF Foresight
<1> QED BY <1>9, <1>10

-----------------------------------------------------------------------------
(* The theorems                                                             *)

Extraction == Shape /\ Quota /\ Safe /\ Whole

LEMMA ExtractionAlways == Spec => []Extraction
<1>1. Init => Extraction
  BY ShapeInit, QuotaInit, SafeInit, WholeInit DEF Extraction
<1>2. Extraction /\ [Next]_vars => Extraction'
  BY ShapeStep, QuotaStep, SafeStep, WholeStep DEF Extraction
<1> QED BY <1>1, <1>2, PTL DEF Spec

(* Every variable keeps its type, and there is one report for each member   *)
(* that was dealt with, whichever failed (_extract_with_policy).            *)
THEOREM TypeOKAlways == Spec => []TypeOK
<1>1. Extraction => TypeOK
  BY DEF Extraction, Shape
<1> QED BY <1>1, ExtractionAlways, PTL

(* The files made and the one being made never hold more than the policy's  *)
(* total, for any archive, limits and failures, if the members' modes are   *)
(* such that they are counted or violations are more than warned of         *)
(* (_ExtractionQuotaWriter, _assess_member).                                *)
THEOREM DiskWithinLimitAlways == Spec => []DiskWithinLimit
<1>1. Extraction => DiskWithinLimit
  BY DEF Extraction, Quota, DiskWithinLimit
<1> QED BY <1>1, ExtractionAlways, PTL

(* Under a policy that lets nothing be overwritten nothing is, for any      *)
(* targets and renamings, whatever another program makes in between         *)
(* (_assess_member, _prepare_policy_target, os.replace).                    *)
THEOREM NothingIsOverwrittenAlways == Spec => []NothingIsOverwritten
<1>1. Extraction => NothingIsOverwritten
  BY DEF Extraction, Safe, NothingIsOverwritten
<1> QED BY <1>1, ExtractionAlways, PTL

(* Members are delivered whole or not at all, with any policy and without   *)
(* one: extract() and extractall() implement MemberDelivery.                *)
THEOREM ImplementsDeliveryAlways == Spec => ImplementsDelivery
<1>1. Init => Promise!Init
  BY DEF Init, Promise!Init
<1>2. Extraction /\ [Next]_vars => [Promise!Next]_(Promise!vars)
  BY PromiseStep DEF Extraction
<1> QED BY <1>1, <1>2, ExtractionAlways, PTL
        DEF Spec, ImplementsDelivery, Promise!Spec

(* Without a policy nothing is assessed.                                    *)
Unassessed == policy.legacy => found = <<>>

LEMMA UnassessedStep == Unassessed /\ [Next]_vars => Unassessed'
BY DEF Unassessed, Next, vars, Assess, Prepare, StartLegacy, ParentsFail,
       DirectoryFails, RemoveOldFails, LinkFails, OpenTemp, Copy, CopyFails,
       ReadRaises, CommitFails, Return, Crash, MakeParents, MakeDirectory,
       RemoveOld, MakeLink, Commit, OtherProgram

LEMMA Foretells ==
    Shape /\ Foresight /\ Unassessed => InspectionForetells
<1> SUFFICES ASSUME Shape, Foresight, Unassessed, NoLinks,
                    NEW k \in DOMAIN found, ~Shadowed(k),
                    NEW sums, sums = IF \E j \in 1 .. k : Shadowed(j)
                                     THEN {"max_total_uncompressed_size"} ELSE {}
             PROVE  /\ Inspection[k] \subseteq found[k] \cup sums
                    /\ found[k] \ Inspection[k] \subseteq {"overwrite"} \cup sums
  BY DEF InspectionForetells, NoLinks
<1>1. CASE policy.legacy
  BY <1>1 DEF Unassessed
<1>2. CASE ~policy.legacy
  <2>1. found \in Seq(SUBSET Codes) /\ Foreseen
    BY <1>2 DEF Foresight
  <2>2. k \in 1 .. Len(found)
    BY <2>1
  <2>3. /\ Rehearsal[k] \subseteq found[k]
        /\ found[k] \ Rehearsal[k] \subseteq {"overwrite"}
    BY <2>1, <2>2 DEF Foreseen
  <2>4. archive \in Archives /\ members \in {ByName(archive), archive}
    BY DEF Shape, TypeOK
  <2>5. k \in DOMAIN members
    BY <2>1, <2>2, <2>4, MembersAre DEF Foreseen
  <2>6. /\ Inspection[k] \subseteq Rehearsal[k] \cup sums
        /\ Rehearsal[k] \subseteq Inspection[k] \cup sums
    BY <2>4, <2>5, InspectionAndRehearsal
  <2> QED BY <2>3, <2>6
<1> QED BY <1>1, <1>2

(* What inspect() finds in an entry is found again when it is extracted,    *)
(* and nothing else but that its target has come to exist, where Steady     *)
(* holds: for any archive, entries of the same name included, of which      *)
(* extractall() takes the last, and which sum up to something else.         *)
THEOREM InspectionForetellsIfSteady ==
    ASSUME Steady PROVE Spec => []InspectionForetells
<1>1. Init => Shape /\ Foresight /\ Unassessed
  BY ShapeInit, ForesightInit DEF Init, Unassessed
<1>2. Shape /\ Foresight /\ Unassessed /\ [Next]_vars
      => (Shape /\ Foresight /\ Unassessed)'
  BY ShapeStep, ForesightStep, UnassessedStep
<1>3. Shape /\ Foresight /\ Unassessed => InspectionForetells
  BY Foretells
<1> QED BY <1>1, <1>2, <1>3, PTL DEF Spec
=============================================================================
