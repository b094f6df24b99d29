------------------------------ MODULE PathDirs ------------------------------
(***************************************************************************)
(* The directory tree that Path shows of an archive, most of whose         *)
(* directories may have no entry of their own: which names it invents, how *)
(* it finds its way between them, and whether the answers FastLookup keeps *)
(* are those it would give anew.                                           *)
(*                                                                         *)
(* Source: zipfile/path/__init__.py.  A name is the sequence of the parts  *)
(* between its slashes: "" is <<"">>, "a" is <<"a">>, "a/" is <<"a", "">>, *)
(* "/a" is <<"", "a">>.  The order of a listing, and names that occur      *)
(* twice in it, make no difference here.                                   *)
(***************************************************************************)
EXTENDS Naturals, Sequences, FiniteSets

CONSTANTS
    Parts,       \* what stands between slashes; an argument of joinpath
    Empty,       \* "": nothing stands there
    Names,       \* names that are written to the archive
    NoCache,     \* a cache's attribute is not set
    Nowhere,     \* the client holds no Path
    MaxSessions, \* bound: ZipFile objects
    MaxEntries,  \* bound: entries in the archive before one is written
    MaxParts     \* bound: parts of a location joinpath makes

ASSUME PathAssumption ==
    /\ Empty \notin Parts
    /\ Names \subseteq Seq(Parts \cup {Empty}) \ {<<>>}
    /\ MaxSessions \in Nat /\ MaxEntries \in Nat /\ MaxParts \in Nat

VARIABLES
    mode,      \* the archive's mode, "closed" without a ZipFile
    class,     \* its __class__: "ZipFile", "CompleteDirs" or "FastLookup"
    listed,    \* the names in filelist
    names,     \* FastLookup.__names
    lookup,    \* FastLookup.__lookup
    here,      \* the location ("at") of the Path the client holds
    injected,  \* history: inject() was the last call to write
    sessions

cache == <<names, lookup>>
vars == <<mode, class, listed, cache, here, injected, sessions>>

-----------------------------------------------------------------------------
(* Names                                                                    *)

Root == <<Empty>>
EndsInSlash(n) == Len(n) > 1 /\ n[Len(n)] = Empty

(* rstrip("/")                                                              *)
Stripped(n) ==
    LET full == {k \in DOMAIN n : n[k] # Empty}
    IN  IF full = {} THEN Root
        ELSE SubSeq(n, 1, CHOOSE k \in full : \A j \in full : j <= k)

(* posixpath.dirname, which keeps the slashes of a name that has no others. *)
Dirname(n) ==
    LET head == SubSeq(n, 1, Len(n) - 1)
    IN  IF Len(n) = 1 THEN Root
        ELSE IF Stripped(head) = Root THEN Append(head, Empty)
        ELSE Stripped(head)

(* posixpath.join with one part                                             *)
Join(n, part) ==
    IF n[Len(n)] = Empty THEN [n EXCEPT ![Len(n)] = part] ELSE Append(n, part)

(* Mutant: a name without a slash at its end has no parent but its own.     *)
NearestParent(n) ==
    LET s == Stripped(n)
    IN  {p \in {Dirname(s)} : p # Root /\ p[Len(p)] # Empty}

(* _parents: the beginnings of a name that end in a part.                   *)
Parents(n) ==
    LET s == Stripped(n)
    IN  {SubSeq(s, 1, k) : k \in {j \in 1 .. Len(s) - 1 : s[j] # Empty}}

-----------------------------------------------------------------------------
(* CompleteDirs and FastLookup                                              *)

ImpliedDirs(ns) == {Append(p, Empty) : p \in UNION {Parents(n) : n \in ns}} \ ns

(* CompleteDirs.namelist                                                    *)
Complete(ns) == ns \cup ImpliedDirs(ns)

(* ZipFile.namelist, and what overrides it.                                 *)
NameList ==
    CASE class = "ZipFile" -> listed
      [] class = "CompleteDirs" -> Complete(listed)
      [] class = "FastLookup" ->
            IF names = NoCache THEN Complete(listed) ELSE names

(* _name_set; FastLookup's fills both caches.                               *)
NameSet == IF class = "FastLookup" /\ lookup # NoCache THEN lookup ELSE NameList

FillNames == names' = IF class = "FastLookup" THEN NameList ELSE names
FillLookup ==
    IF class = "FastLookup" /\ lookup = NoCache
    THEN FillNames /\ lookup' = NameList
    ELSE UNCHANGED cache

(* Mutant: a directory of that name wins over the file.                     *)
ResolveToDir(n) ==
    LET dirname == Append(n, Empty) IN IF dirname \in NameSet THEN dirname ELSE n

ResolveDir(n) ==
    LET dirname == Append(n, Empty)
    IN  IF n \notin NameSet /\ dirname \in NameSet THEN dirname ELSE n

(* getinfo returns; the ZipInfo of an implied directory is made up.         *)
HasInfo(n) == n \in listed \/ (EndsInSlash(n) /\ n \in NameSet)

(* Mutant: every archive gets the caches.                                   *)
AlwaysFast(c) == c

(* The class make() gives a ZipFile; one that can change gets no caches.    *)
TargetClass(c) == IF mode = "r" THEN c ELSE "CompleteDirs"

-----------------------------------------------------------------------------
(* Path                                                                     *)

IsDir(at) == at = Root \/ EndsInSlash(at)
IsChild(at, n) == Dirname(Stripped(n)) = Stripped(at)
Children(at) == {n \in NameList : IsChild(at, n)}
JoinPath(at, part) == ResolveDir(Join(at, part))

Parent(at) ==
    LET dir == Dirname(Stripped(at))
    IN  IF dir = Root THEN Root ELSE Append(dir, Empty)

-----------------------------------------------------------------------------
Init ==
    /\ mode = "closed" /\ class = "ZipFile"
    /\ listed = {} /\ names = NoCache /\ lookup = NoCache
    /\ here = Nowhere /\ injected = FALSE /\ sessions = 0

(* ZipFile(file, mode)                                                      *)
Open ==
    /\ mode = "closed" /\ sessions < MaxSessions
    /\ mode' \in {"r", "w", "a"}
    /\ class' = "ZipFile"
    /\ listed' = IF mode' = "w" THEN {} ELSE listed
    /\ injected' = (injected /\ mode' # "w")
    /\ sessions' = sessions + 1
    /\ UNCHANGED <<cache, here>>

Close ==
    /\ mode # "closed"
    /\ mode' = "closed"
    /\ names' = NoCache /\ lookup' = NoCache /\ here' = Nowhere
    /\ UNCHANGED <<class, listed, injected, sessions>>

(* Path(zf) and CompleteDirs.make(zf): the object's class is changed.       *)
Make(c) ==
    /\ mode # "closed"
    /\ class' = IF class = "ZipFile" THEN TargetClass(c) ELSE class
    /\ here' = IF c = "FastLookup" THEN Root ELSE here
    /\ UNCHANGED <<mode, listed, cache, injected, sessions>>

(* writestr and the like, by whoever holds the ZipFile.                     *)
WriteStr(n) ==
    /\ mode \in {"w", "a"} /\ Cardinality(listed) < MaxEntries
    /\ listed' = listed \cup {n}
    /\ injected' = FALSE
    /\ UNCHANGED <<mode, class, cache, here, sessions>>

(* Path.open("w"), which refuses directories, up to the handle's close.     *)
OpenForWriting ==
    /\ here # Nowhere /\ ~IsDir(here)
    /\ WriteStr(here)

(* CompleteDirs.inject(zf)                                                  *)
Inject ==
    /\ mode \in {"w", "a"}
    /\ listed' = listed \cup ImpliedDirs(NameList)
    /\ injected' = (class = "ZipFile")
    /\ UNCHANGED <<mode, class, cache, here, sessions>>

(* The client goes on with one of the Paths that iterdir yields.            *)
IterDir ==
    /\ here # Nowhere /\ IsDir(here)
    /\ FillNames
    /\ here' \in Children(here)
    /\ UNCHANGED <<mode, class, listed, lookup, injected, sessions>>

(* exists, and the other questions that look the name up                    *)
Ask ==
    /\ here # Nowhere
    /\ FillLookup
    /\ UNCHANGED <<mode, class, listed, here, injected, sessions>>

(* joinpath asks for the directory of that name.                            *)
GoTo(part) ==
    /\ here # Nowhere /\ Len(Join(here, part)) <= MaxParts
    /\ FillLookup
    /\ here' = JoinPath(here, part)
    /\ UNCHANGED <<mode, class, listed, injected, sessions>>

GoUp ==
    /\ here \notin {Nowhere, Root}
    /\ here' = Parent(here)
    /\ UNCHANGED <<mode, class, listed, cache, injected, sessions>>

Next ==
    \/ Open \/ Close
    \/ \E c \in {"CompleteDirs", "FastLookup"} : Make(c)
    \/ \E n \in Names : WriteStr(n)
    \/ Inject \/ OpenForWriting
    \/ IterDir \/ Ask \/ GoUp
    \/ \E part \in Parts : GoTo(part)

Spec == Init /\ [][Next]_vars

-----------------------------------------------------------------------------
(* Properties                                                               *)

Wrapped == mode # "closed" /\ class # "ZipFile"
Relative(n) == n[1] # Empty
Plain(n) == \A k \in DOMAIN n : n[k] = Empty => k = Len(n)

(* Whatever was asked before and written since, a wrapped archive shows its *)
(* entries and the directories above them: each directory up to the root,  *)
(* and none that holds nothing.                                             *)
ViewIsTheTree ==
    Wrapped => \A view \in {NameList, NameSet} :
        /\ listed \subseteq view
        /\ \A n \in view : Relative(n) => Parent(n) \in view \cup {Root}
        /\ \A n \in view \ listed :
              /\ EndsInSlash(n)
              /\ \E m \in listed : \E k \in 1 .. Len(m) - 1 :
                    SubSeq(m, 1, k) = Stripped(n)

(* Every entry can be reached from the root by iterdir, from its directory *)
(* by its name, and go back; it can be asked about.  Where a file and a    *)
(* directory share a name, joinpath finds the file.                         *)
EveryEntryIsReached ==
    Wrapped => \A n \in NameSet :
        /\ HasInfo(n)
        /\ Relative(n) => n \in Children(Parent(n))
        /\ Plain(n) =>
              LET s == Stripped(n)
              IN  JoinPath(Parent(n), s[Len(s)]) =
                      IF s \in NameSet THEN s ELSE n

(* After inject(), until something else is written, the archive itself     *)
(* lists every directory, for readers that imply none.                      *)
InjectedIsComplete == injected => Complete(listed) = listed
=============================================================================
