--------------------------- MODULE PolicyExtraction ---------------------------
(***************************************************************************)
(* zipfile/file.py: extract() and extractall(), under an ExtractPolicy or  *)
(* without one.  Members are assessed from their metadata and, if that is  *)
(* in order, made in the destination, one after the other; a regular file  *)
(* is copied to a temporary file that takes the target's place at the end. *)
(* Another program may make files in the destination, and the process may  *)
(* die between any two steps.                                              *)
(*                                                                         *)
(* What the metadata checks that look at nothing but the member find       *)
(* (names, extensions, ratio, the custom validator) is the member's        *)
(* `findings`; the others are spelt out.                                   *)
(***************************************************************************)
EXTENDS Integers, Sequences, Functions

CONSTANTS
    Names,      \* the names of entries
    Paths,      \* where something may be in the destination
    Root,       \* the destination itself
    Parent,     \* the directory a path is in
    Renames,    \* the names path.1, path.2, ... of a path
    Archives,   \* bound: the entries of an archive, in order
    Policies,   \* bound
    Initial,    \* bound: what the destination holds at first
    Unlimited,  \* a limit that is None; more than any size
    Faults,     \* what may go wrong
    Others      \* where another program may make files

Actions == {"error", "skip", "warn"}
Hard == {"parent_traversal", "outside_root", "symlink", "special_file"}
Static == {"parent_traversal", "compression_ratio"}

Member == [name : Names,
           target : Paths,
           kind : {"file", "dir", "symlink", "fifo", "device"},
           typed : BOOLEAN,        \* a file whose mode has the bits S_IFREG
           size : Nat,             \* file_size
           chunks : Seq(Nat \ {0}),\* the data read() gives, and how it ends:
           end : {"ok",            \* with all of it
                  "bad",           \* with BadZipFile, RuntimeError, ValueError
                  "raw"},          \* with EOFError, or an error of a codec
           to : Paths \cup {Root}, \* what a link points to; Root is outside
           findings : SUBSET Static]

Policy == [legacy : BOOLEAN,       \* no policy
           preview : BOOLEAN, on : Actions,
           overwrite : {"error", "skip", "replace", "rename"},
           allowOverwrite : BOOLEAN, rejectDuplicates : BOOLEAN,
           allowLinks : BOOLEAN, allowSpecial : BOOLEAN,
           maxEntries : Nat, maxMember : Nat, maxTotal : Nat]

Node == [kind : {"none", "dir", "file", "link", "fifo"},
         of : Nat,                 \* the member it is of; 0: somebody else's
         size : Nat, to : Paths \cup {Root}]

Absent == [kind |-> "none", of |-> 0, size |-> 0, to |-> Root]
Directory == [Absent EXCEPT !.kind = "dir"]
SomeFile == [Absent EXCEPT !.kind = "file"]

Total(s) == SumFunction(s)

(* That a member never gives more than file_size is what ExtFile says of    *)
(* ZipExtFile (TypeOK).                                                     *)
ASSUME ExtractionAssumption ==
    /\ Root \notin Paths
    /\ Parent \in [Paths -> Paths \cup {Root}]
    /\ Renames \in [Paths -> Seq(Paths)]
    /\ \A a \in Archives : a \in Seq(Member)
    /\ \A a \in Archives : \A m \in Range(a) : Total(m.chunks) <= m.size
    /\ \A a \in Archives : \A m, n \in Range(a) :
          m.name = n.name => m.target = n.target
    /\ Policies \subseteq Policy
    /\ Initial \subseteq [Paths -> Node]
    /\ \A F \in Initial : \A p \in Paths :
          /\ F[p].of = 0
          /\ F[p].kind = "link" /\ F[p].to # Root => F[F[p].to].kind # "link"
    /\ Unlimited \in Nat
    /\ Faults \subseteq {"disk", "link", "crash"}
    /\ Others \subseteq Paths

VARIABLES
    policy,
    archive,   \* filelist
    members,   \* what is extracted for each of its entries
    fs,        \* what is where
    pc,        \* what is done next, or how the call ended
    i,         \* the member it is done with
    target,    \* where that goes
    temp,      \* its temporary file
    targets,   \* the targets taken so far
    declared,  \* total_declared
    written,   \* total_written
    results,   \* without a policy only history
    failing,   \* a violation whose action is ERROR
    before,    \* history: what was there when the call began
    found      \* history: what was found in each member

vars == <<policy, archive, members, fs, pc, i, target, temp, targets, declared, written,
          results, failing, before, found>>

NoTemp == [open |-> FALSE, size |-> 0, read |-> 0]

(* getinfo: of several entries of a name NameToInfo has the last.           *)
GetInfo(a, n) ==
    a[CHOOSE k \in DOMAIN a : /\ a[k].name = n
                              /\ \A j \in k + 1 .. Len(a) : a[j].name # n]
ByName(a) == [k \in DOMAIN a |-> GetInfo(a, a[k].name)]

(* Bound: everything is extracted; by the names, as extractall() does by    *)
(* itself, or by the ZipInfos of infolist().                                *)
Init ==
    /\ policy \in Policies /\ archive \in Archives
    /\ members \in {ByName(archive), archive}
    /\ fs \in Initial /\ before = fs
    /\ pc = "assess" /\ i = 1 /\ target = Root /\ temp = NoTemp
    /\ targets = {} /\ declared = 0 /\ written = 0 /\ results = <<>>
    /\ failing = (~policy.legacy /\ Len(members) > policy.maxEntries
                                 /\ policy.on = "error")
    /\ found = <<>>

M == members[i]

-----------------------------------------------------------------------------
(* Assessment                                                               *)

(* Path.resolve.  Bound: no link points to a link or stands for a parent.   *)
Resolve(F, p) == IF F[p].kind = "link" THEN F[p].to ELSE p
(* Path.exists, which follows a link; what is outside exists.               *)
Exists(F, p) == LET q == IF p = Root THEN Root ELSE Resolve(F, p)
                IN  q # Root => F[q].kind # "none"

(* What is found in m, the k-th, when T are the targets taken, the sizes up *)
(* to its own add up to d, and the destination is F.                        *)
Findings(m, k, T, d, F) ==
    LET t == Resolve(F, m.target)
        when(code, condition) == IF condition THEN {code} ELSE {}
    IN  m.findings
        \cup when("outside_root", t = Root)
        \cup when("duplicate_target", t \in T /\ policy.rejectDuplicates)
        \cup when("overwrite", /\ Exists(F, t) /\ ~policy.allowOverwrite
                               /\ policy.overwrite \notin {"replace", "rename"})
        \cup when("max_member_size", m.size > policy.maxMember)
        \cup when("symlink", m.kind = "symlink" /\ ~policy.allowLinks)
        \cup when("special_file", m.kind \in {"fifo", "device"} /\ ~policy.allowSpecial)
        \cup when("max_entries", k > policy.maxEntries)
        \cup when("max_total_uncompressed_size", d > policy.maxTotal)

Targets(m, T, F) == T \cup {Resolve(F, m.target)}

Raw(code) ==
    IF code = "overwrite" /\ policy.overwrite = "skip" THEN "skip" ELSE "error"

(* _effective_violations                                                    *)
Effective(code, action) ==
    IF code \in Hard /\ policy.on = "warn" THEN "error"
    ELSE IF action = "error" THEN policy.on ELSE action

(* It is applied twice, by _assess_member and by its caller.                *)
Verdict(codes) ==
    LET actions == {Effective(c, Effective(c, Raw(c))) : c \in codes}
    IN  IF "error" \in actions THEN "error"
        ELSE IF "skip" \in actions THEN "skip" ELSE "none"

(* Mutant: what was refused is not counted.                                 *)
DeclaredOfExtracted == written + M.size
DeclaredSoFar == declared + M.size

(* Mutant: a member that failed is not reported.                            *)
ReportIfNotFailed(status, p, n) ==
    /\ results' = IF status = "failed" THEN results
                  ELSE Append(results, [status |-> status, target |-> p, bytes |-> n])
    /\ i' = i + 1 /\ pc' = "assess" /\ target' = Root

Report(status, p, n) ==
    /\ results' = Append(results, [status |-> status, target |-> p, bytes |-> n])
    /\ i' = i + 1 /\ pc' = "assess" /\ target' = Root

Assess ==
    /\ pc = "assess" /\ ~policy.legacy /\ i <= Len(members)
    /\ \E codes \in {Findings(M, i, targets, DeclaredSoFar, fs)} :
          /\ found' = Append(found, codes)
          /\ failing' = (failing \/ Verdict(codes) = "error")
          /\ \/ Verdict(codes) = "error" /\ Report("failed", M.target, 0)
             \/ Verdict(codes) = "skip" /\ Report("skipped", M.target, 0)
             \/ /\ Verdict(codes) = "none" /\ policy.preview
                /\ Report("previewed", M.target, 0)
             \/ /\ Verdict(codes) = "none" /\ ~policy.preview
                /\ pc' = "prepare" /\ target' = Resolve(fs, M.target)
                /\ UNCHANGED <<results, i>>
    /\ targets' = Targets(M, targets, fs)
    /\ declared' = DeclaredSoFar
    /\ UNCHANGED <<policy, archive, members, fs, temp, written, before>>

(* Mutant: the first other name is not looked at.                           *)
FirstRename(p) == IF Exists(fs, p) THEN Renames[p][1] ELSE p

FreeName(p) ==
    IF Exists(fs, p)
    THEN Renames[p][CHOOSE k \in DOMAIN Renames[p] :
             /\ ~Exists(fs, Renames[p][k])
             /\ \A j \in 1 .. k - 1 : Exists(fs, Renames[p][j])]
    ELSE p

(* Bound: the names do not run out.                                         *)
NamesLeft(p) == \E q \in {p} \cup Range(Renames[p]) : ~Exists(fs, q)

(* _prepare_policy_target                                                   *)
Prepare ==
    /\ pc = "prepare" /\ NamesLeft(target)
    /\ target' = IF policy.overwrite = "rename" THEN FreeName(target) ELSE target
    /\ pc' = "parents"
    /\ UNCHANGED <<policy, archive, members, fs, i, temp, targets, declared, written,
                   results, failing, before, found>>

(* Without a policy nothing is looked at first.                             *)
StartLegacy ==
    /\ pc = "assess" /\ policy.legacy /\ i <= Len(members)
    /\ target' = M.target
    /\ pc' = "parents"
    /\ UNCHANGED <<policy, archive, members, fs, i, temp, targets, declared, written,
                   results, failing, before, found>>
-----------------------------------------------------------------------------
(* Materialisation                                                          *)

(* An exception that _extract_with_policy catches.  The temporary file is   *)
(* removed on the way.                                                      *)
Fail ==
    /\ temp' = NoTemp
    /\ IF policy.legacy
       THEN pc' = "raised" /\ UNCHANGED <<results, i, target, failing>>
       ELSE Report("failed", target, 0) /\ failing' = TRUE

Blocked == Parent[target] # Root /\ fs[Parent[target]].kind \notin {"none", "dir"}

(* _secure_mkdirs                                                           *)
MakeParents ==
    /\ pc = "parents" /\ ~Blocked
    /\ fs' = IF Parent[target] = Root THEN fs
             ELSE [fs EXCEPT ![Parent[target]] = Directory]
    /\ pc' = M.kind
    /\ UNCHANGED <<policy, archive, members, i, target, temp, targets, declared, written,
                   results, failing, before, found>>

ParentsFail ==
    /\ pc = "parents"
    /\ Blocked \/ "disk" \in Faults
    /\ Fail
    /\ UNCHANGED <<policy, archive, members, fs, targets, declared, written, before, found>>

MakeDirectory ==
    /\ pc = "dir" /\ fs[target].kind \in {"none", "dir"}
    /\ fs' = [fs EXCEPT ![target] = Directory]
    /\ Report("extracted", target, 0)
    /\ UNCHANGED <<policy, archive, members, temp, targets, declared, written, failing,
                   before, found>>

DirectoryFails ==
    /\ pc = "dir" /\ fs[target].kind \notin {"none", "dir"}
    /\ Fail
    /\ UNCHANGED <<policy, archive, members, fs, targets, declared, written, before, found>>

(* A link or FIFO: what is there is removed first.                          *)
LinkRefused == \/ M.kind = "symlink" /\ (M.end # "ok" \/ M.to = Root)
               \/ fs[target].kind = "dir"

RemoveOld ==
    /\ pc \in {"symlink", "fifo"} /\ ~LinkRefused
    /\ fs' = [fs EXCEPT ![target] = Absent]
    /\ pc' = "link"
    /\ UNCHANGED <<policy, archive, members, i, target, temp, targets, declared, written,
                   results, failing, before, found>>

RemoveOldFails ==
    /\ \/ pc \in {"symlink", "fifo"} /\ LinkRefused /\ M.end # "raw"
       \/ pc = "device"
    /\ Fail
    /\ UNCHANGED <<policy, archive, members, fs, targets, declared, written, before, found>>

MakeLink ==
    /\ pc = "link" /\ fs[target].kind = "none"
    /\ fs' = [fs EXCEPT ![target] =
                 [kind |-> IF M.kind = "fifo" THEN "fifo" ELSE "link",
                  of |-> i, size |-> 0, to |-> M.to]]
    /\ Report("extracted", target, 0)
    /\ UNCHANGED <<policy, archive, members, temp, targets, declared, written, failing,
                   before, found>>

LinkFails ==
    /\ pc = "link"
    /\ "link" \in Faults \/ fs[target].kind # "none"
    /\ Fail
    /\ UNCHANGED <<policy, archive, members, fs, targets, declared, written, before, found>>

(* The temporary file, and the member opened for reading.                   *)
OpenTemp ==
    /\ pc = "file"
    /\ temp' = [NoTemp EXCEPT !.open = TRUE]
    /\ pc' = "copy"
    /\ UNCHANGED <<policy, archive, members, fs, i, target, targets, declared, written,
                   results, failing, before, found>>

AtEnd == temp.read = Len(M.chunks)
NextChunk == M.chunks[temp.read + 1]

(* Mutant: each member has the whole quota.                                 *)
MemberQuotaAllows(n) == n <= policy.maxMember /\ n <= policy.maxTotal

(* _ExtractionQuotaWriter.write, n bytes of the member included.            *)
QuotaAllows(n) ==
    policy.legacy \/ (n <= policy.maxMember /\ written + n <= policy.maxTotal)

Copy ==
    /\ pc = "copy" /\ ~AtEnd /\ QuotaAllows(temp.size + NextChunk)
    /\ temp' = [temp EXCEPT !.size = @ + NextChunk, !.read = @ + 1]
    /\ UNCHANGED <<policy, archive, members, fs, pc, i, target, targets, declared, written,
                   results, failing, before, found>>

CopyFails ==
    /\ pc = "copy"
    /\ \/ AtEnd /\ M.end = "bad"
       \/ ~AtEnd /\ ~QuotaAllows(temp.size + NextChunk)
       \/ "disk" \in Faults
    /\ Fail
    /\ UNCHANGED <<policy, archive, members, fs, targets, declared, written, before, found>>

(* An exception that nobody catches.                                        *)
ReadRaises ==
    /\ pc = "symlink" \/ (pc = "copy" /\ AtEnd)
    /\ M.end = "raw"
    /\ temp' = NoTemp
    /\ pc' = "raised"
    /\ UNCHANGED <<policy, archive, members, fs, i, target, targets, declared, written,
                   results, failing, before, found>>

(* Mutant: a member that ends early is kept.                                *)
CopiedSomehow == AtEnd
Copied == AtEnd /\ M.end = "ok"

(* os.replace, and the size for the report; a mode with S_IFREG hides it.   *)
Charged == IF M.typed THEN 0 ELSE temp.size

Commit ==
    /\ pc = "copy" /\ Copied /\ fs[target].kind # "dir"
    /\ fs' = [fs EXCEPT ![target] = [kind |-> "file", of |-> i,
                                     size |-> temp.size, to |-> Root]]
    /\ temp' = NoTemp
    /\ written' = IF policy.legacy THEN written ELSE written + Charged
    /\ Report("extracted", target, Charged)
    /\ UNCHANGED <<policy, archive, members, targets, declared, failing, before, found>>

CommitFails ==
    /\ pc = "copy" /\ Copied /\ fs[target].kind = "dir"
    /\ Fail
    /\ UNCHANGED <<policy, archive, members, fs, targets, declared, written, before, found>>

-----------------------------------------------------------------------------
(* The end of the call: an ExtractionError if anything was an error.        *)
Return ==
    /\ pc = "assess" /\ i > Len(members)
    /\ pc' = IF failing THEN "refused" ELSE "returned"
    /\ UNCHANGED <<policy, archive, members, fs, i, target, temp, targets, declared, written,
                   results, failing, before, found>>

Ended == pc \in {"returned", "refused", "raised", "crashed"}

Crash ==
    /\ "crash" \in Faults /\ ~Ended
    /\ pc' = "crashed"
    /\ UNCHANGED <<policy, archive, members, fs, i, target, temp, targets, declared, written,
                   results, failing, before, found>>

(* Another program makes a file.                                            *)
Free == {p \in Others : /\ fs[p].kind = "none"
                        /\ Parent[p] # Root => fs[Parent[p]].kind = "dir"}

OtherProgram ==
    /\ ~Ended
    /\ \E p \in Free : fs' = [fs EXCEPT ![p] = SomeFile]
    /\ UNCHANGED <<policy, archive, members, pc, i, target, temp, targets, declared, written,
                   results, failing, before, found>>

Next ==
    \/ Assess \/ Prepare \/ StartLegacy
    \/ MakeParents \/ ParentsFail
    \/ MakeDirectory \/ DirectoryFails
    \/ RemoveOld \/ RemoveOldFails \/ MakeLink \/ LinkFails
    \/ OpenTemp \/ Copy \/ CopyFails \/ ReadRaises \/ Commit \/ CommitFails
    \/ Return \/ Crash \/ OtherProgram

Spec == Init /\ [][Next]_vars
-----------------------------------------------------------------------------
(* What inspect() says of the destination as it was: its own loop, which    *)
(* goes over filelist.                                                      *)
Inspection ==
    LET upTo[k \in 0 .. Len(archive)] ==
            IF k = 0 THEN [targets |-> {}, total |-> 0, found |-> {}]
            ELSE LET s == upTo[k - 1]
                     m == archive[k]
                     total == s.total + m.size
                 IN  [targets |-> Targets(m, s.targets, before),
                      total   |-> total,
                      found   |-> Findings(m, k, s.targets, total, before)]
    IN  [k \in DOMAIN archive |-> upTo[k].found]

TypeOK ==
    /\ policy \in Policies /\ archive \in Archives
    /\ members \in {ByName(archive), archive}
    /\ fs \in [Paths -> Node]
    /\ pc \in {"assess", "prepare", "parents", "file", "dir", "symlink", "fifo",
              "device", "link", "copy", "returned", "refused", "raised", "crashed"}
    /\ i \in 1 .. Len(members) + 1
    /\ target \in Paths \cup {Root} /\ targets \subseteq Paths \cup {Root}
    /\ temp.open \in BOOLEAN /\ temp.size \in Nat
    /\ {declared, written} \subseteq Nat /\ failing \in BOOLEAN
    /\ Len(results) = i - 1

(* What is in the files the call has made and the one it is making.         *)
Made == {p \in Paths : fs[p].kind = "file" /\ fs[p].of # 0}
Bytes == SumFunctionOnSet([p \in Paths |-> fs[p].size], Made)

(* The policy lets nothing be overwritten.                                  *)
Protects ==
    /\ ~policy.legacy
    /\ \/ policy.overwrite = "rename"
       \/ /\ ~policy.allowOverwrite
          /\ \/ policy.overwrite = "skip"
             \/ policy.overwrite = "error" /\ policy.on # "warn"

(* At no moment, whatever the headers say and whichever members fail, do    *)
(* the files made and the one being made hold more than the policy's total, *)
(* if the members' modes are such that they are counted, or what is over    *)
(* the limit by its header is refused.                                      *)
DiskWithinLimit ==
    ~policy.legacy /\ (policy.on = "warn" => \A m \in Range(members) : ~m.typed)
    => Bytes + temp.size <= policy.maxTotal

(* "Size limits are enforced both from archive metadata before extraction   *)
(* and against actual bytes written during extraction" (README.md:248).     *)
ActualBytesWithinLimit ==
    ~policy.legacy => Bytes + temp.size <= policy.maxTotal

(* Under a policy that lets nothing be overwritten, every file reported as  *)
(* extracted is where the report says, and every file that was there before *)
(* still is, also when members have the same target, or are renamed to one  *)
(* another's, or another program makes files.                               *)
NothingIsOverwritten ==
    Protects =>
        /\ \A k \in DOMAIN results :
              results[k].status = "extracted" /\ members[k].kind = "file"
              => fs[results[k].target].kind = "file" /\ fs[results[k].target].of = k
        /\ \A p \in Paths : before[p].kind = "file" => fs[p] = before[p]

(* The entry is not extracted: another of its name is, in its place.        *)
Shadowed(k) == members[k] # archive[k]

(* Inspection is a preview: what it finds in an entry is found again when   *)
(* that entry is extracted, and what is found besides is only that the      *)
(* target has come to exist.  An entry is not extracted that has the name   *)
(* of a later one; the sizes add up to something else behind it.  (A link   *)
(* that was extracted leads elsewhere.)                                     *)
InspectionForetells ==
    (\A m \in Range(members) : m.kind # "symlink") =>
        \A k \in DOMAIN found : ~Shadowed(k) =>
            LET sums == IF \E j \in 1 .. k : Shadowed(j)
                        THEN {"max_total_uncompressed_size"} ELSE {}
            IN  /\ Inspection[k] \subseteq found[k] \cup sums
                /\ found[k] \ Inspection[k] \subseteq {"overwrite"} \cup sums

(* A file of a member that was not copied to its end is nobody's.           *)
Content(p) ==
    IF fs[p].kind # "file" THEN -1
    ELSE IF fs[p].of = 0 \/ fs[p].size = Total(members[fs[p].of].chunks)
         THEN fs[p].of ELSE -2

Promise == INSTANCE MemberDelivery WITH
    None <- -1,
    whole <- {k \in DOMAIN members : members[k].end = "ok"},
    files <- [p \in Paths |-> Content(p)],
    report <- [k \in DOMAIN results |-> results[k].status]

(* Members are delivered whole or not at all: see MemberDelivery.           *)
ImplementsDelivery == Promise!Spec
=============================================================================
