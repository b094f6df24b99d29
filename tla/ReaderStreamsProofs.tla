------------------------- MODULE ReaderStreamsProofs -------------------------
(***************************************************************************)
(* Proofs about ReaderStreams, for any number of threads and streams, in a *)
(* build with the interpreter lock, when one thread closes an archive that *)
(* can be written (any thread may close one that cannot).                  *)
(***************************************************************************)
EXTENDS ReaderStreams, FiniteSetTheorems, TLAPS

(* One thread may close the archive where that writes a directory first.     *)
OneCloser == Build = "gil" /\ \A t, u \in Closers : t = u

-----------------------------------------------------------------------------
(* The inductive invariant.                                                 *)

NewPcs == {"o_fp", "o_load", "o_store"}
CountedPcs == {"o_arg", "o_make"}
FreshPcs == {"o_check", "o_undo"}
TakenPcs == {"k_assert", "k_load", "k_store"}
DropPcs == TakenPcs \cup {"k_test", "k_close"}
ArchivePcs == {"z_lock", "z_write", "z_exit", "z_read", "z_drop"}
OwnPcs == NewPcs \cup CountedPcs \cup FreshPcs \cup TakenPcs

Typed ==
    /\ fp \in BOOLEAN /\ filePassed \in BOOLEAN /\ writable \in BOOLEAN
    /\ modified \in BOOLEAN /\ writing \in BOOLEAN
    /\ refCnt \in Nat /\ closes \in Nat
    /\ stage \in [Users -> Stages]
    /\ issued \subseteq Streams
    /\ lock \in Threads \cup {Nobody}
    /\ pc \in [Threads -> Labels]
    /\ cur \in [Threads -> Users]
    /\ reg \in [Threads -> Nat]
    /\ file \in [Threads -> BOOLEAN]
    /\ struck \subseteq Faults

(* Nothing but the constructor runs before it has returned.                 *)
MakerOK ==
    /\ \A t \in Threads : pc[t] = "make" => t = Maker
    /\ pc[Maker] = "make" => \A t \in Threads \ {Maker} : pc[t] = "idle"

(* One thread at a time is between two accesses without a call in between,  *)
(* and what it has loaded is still true.                                    *)
AloneOK ==
    /\ \A t, u \in Threads :
          pc[t] \in Uninterrupted /\ pc[u] \in Uninterrupted => t = u
    /\ \A t \in Threads :
          /\ pc[t] \in {"o_store", "k_store"} => reg[t] = refCnt
          /\ pc[t] \in {"o_load", "o_store", "o_arg"} => fp

(* How far the user of the file that a call is about has come.              *)
StageOK ==
    /\ fp = (stage[Archive] = "open")
    /\ \A s \in Streams : stage[s] \in {"new", "counted"} => s \notin issued
    /\ \A t \in Threads :
          /\ pc[t] \in NewPcs => stage[cur[t]] = "new"
          /\ pc[t] \in CountedPcs => stage[cur[t]] = "counted"
          /\ pc[t] \in FreshPcs => stage[cur[t]] = "open"
          /\ pc[t] \in TakenPcs => stage[cur[t]] = "taken"
          /\ pc[t] = "r_data" => stage[cur[t]] = "open" /\ lock = t
          /\ pc[t] = "z_write" => lock = t

(* Which users of the file calls are about, and that no two calls that are  *)
(* to take or drop a reference are about the same.                          *)
CallOK ==
    /\ \A t \in Threads :
          /\ pc[t] \in NewPcs \cup CountedPcs \cup FreshPcs =>
                cur[t] \in Streams \ issued
          /\ pc[t] \in {"k_take", "r_data"} => cur[t] \in issued
          /\ pc[t] \in DropPcs => file[t]
          /\ pc[t] = "o_make" => file[t]
    /\ \A t, u \in Threads :
          pc[t] \in OwnPcs /\ pc[u] \in OwnPcs /\ cur[t] = cur[u] => t = u

(* Who closes the archive found it open.                                    *)
CloserOK ==
    /\ stage[Archive] \in {"open", "taken", "dropped"}
    /\ \A t \in Threads :
          /\ pc[t] \in ArchivePcs \cup {"make"} => fp /\ cur[t] = Archive
          /\ pc[t] \in ArchivePcs /\ writable => t \in Closers
          /\ pc[t] \in {"z_lock", "z_write", "z_exit"} => writable
          /\ pc[t] = "z_drop" => file[t]

(* References are kept or on their way to be dropped.                       *)
ReferenceOK ==
    /\ refCnt = Cardinality(Holders)
    /\ \A u \in Users : stage[u] = "taken" =>
          \E t \in Threads : pc[t] \in TakenPcs /\ cur[t] = u
    /\ "interrupt" \notin struck =>
          \A s \in Streams : stage[s] = "counted" =>
              \E t \in Threads : pc[t] \in CountedPcs /\ cur[t] = s

(* The file is closed once, by the one who left last.                       *)
LastOK ==
    /\ closes > 0 => closes = 1 /\ Holders = {} /\ ~filePassed
    /\ \A t \in Threads :
          /\ pc[t] \in {"k_test", "k_close"} => closes = 0
          /\ pc[t] = "k_close" => Holders = {} /\ ~filePassed
    /\ \A t, u \in Threads :
          pc[t] \in {"k_test", "k_close"} /\ pc[u] = "k_close" => t = u
    /\ Holders = {} =>
          \/ filePassed \/ closes = 1
          \/ \E t \in Threads : pc[t] \in {"k_test", "k_close"}

IInv ==
    /\ Typed /\ MakerOK /\ AloneOK /\ StageOK /\ CallOK /\ CloserOK
    /\ ReferenceOK /\ LastOK
-----------------------------------------------------------------------------
USE StreamsAssumption DEF Users
USE DEF NewPcs, CountedPcs, FreshPcs, TakenPcs, DropPcs, ArchivePcs, OwnPcs,
        Uninterrupted, archive, count, thread, At, Go, Begin, Return

LEMMA HoldersFinite ==
    /\ IsFiniteSet(Holders) /\ Cardinality(Holders) \in Nat
    /\ Cardinality(Holders) = 0 <=> Holders = {}
    /\ Cardinality(Holders) \in 0 .. Cardinality(Users)
<1>1. IsFiniteSet(Users)
  BY FS_AddElement
<1>2. Holders \subseteq Users
  BY DEF Holders
<1> QED
  BY <1>1, <1>2, FS_Subset, FS_CardinalityType, FS_EmptySet

LEMMA ReturnTyped ==
    ASSUME Typed, NEW t \in Threads, Return(t)
    PROVE  /\ pc' \in [Threads -> Labels] /\ cur' \in [Threads -> Users]
           /\ reg' \in [Threads -> Nat] /\ file' \in [Threads -> BOOLEAN]
<1>1. pc' \in [Threads -> Labels]
  BY DEF Typed, Labels
<1>2. cur' \in [Threads -> Users]
  BY DEF Typed
<1>3. reg' \in [Threads -> Nat] /\ file' \in [Threads -> BOOLEAN]
  BY DEF Typed
<1> QED
  BY <1>1, <1>2, <1>3

(* There is a reference to drop for whoever is about to drop one.           *)
LEMMA TakenCounts ==
    ASSUME IInv, NEW t \in Threads, pc[t] \in TakenPcs
    PROVE  cur[t] \in Holders /\ refCnt > 0 /\ closes = 0
<1>1. cur[t] \in Holders
  BY DEF IInv, Typed, StageOK, Holders
<1> QED
  BY <1>1, HoldersFinite DEF IInv, Typed, ReferenceOK, LastOK

-----------------------------------------------------------------------------
(* Every action preserves every part of the invariant.                      *)

LEMMA ConstructPreserves ==
    ASSUME OneCloser, IInv, NEW t \in Threads, Construct(t)
    PROVE  IInv'
<1>1. Typed'
BY DEF IInv, Stages, Labels, Typed, Construct
<1>2. MakerOK'
BY DEF IInv, Typed, MakerOK, Construct
<1>3. AloneOK'
BY DEF IInv, Typed, AloneOK, Construct
<1>4. StageOK'
BY DEF IInv, Typed, StageOK, Construct
<1>5. CallOK'
BY DEF IInv, Typed, CallOK, Construct
<1>6. CloserOK'
BY DEF IInv, Typed, CloserOK, Construct
<1>7. ReferenceOK'
BY DEF IInv, Typed, Holders, ReferenceOK, Construct
<1>8. LastOK'
BY DEF IInv, Typed, Holders, LastOK, Construct
<1> QED
  BY <1>1, <1>2, <1>3, <1>4, <1>5, <1>6, <1>7, <1>8 DEF IInv

LEMMA ConstructFailsPreserves ==
    ASSUME OneCloser, IInv, NEW t \in Threads, ConstructFails(t)
    PROVE  IInv'
<1>1. Typed'
BY DEF IInv, Stages, Labels, Typed, ConstructFails
<1>2. MakerOK'
BY DEF IInv, Typed, MakerOK, ConstructFails
<1>3. AloneOK'
BY DEF IInv, Typed, MakerOK, AloneOK, ConstructFails
<1>4. StageOK'
  <2>1. \A u \in Threads : pc'[u] = IF u = t THEN "k_assert" ELSE "idle"
    BY DEF IInv, Typed, MakerOK, ConstructFails
  <2>2. cur[t] = Archive
    BY DEF IInv, StageOK, CloserOK, ConstructFails
  <2> QED
    BY <2>1, <2>2 DEF IInv, Typed, StageOK, ConstructFails, Stages
<1>5. CallOK'
BY DEF IInv, Typed, StageOK, CloserOK, MakerOK, AloneOK, CallOK,
   ConstructFails
<1>6. CloserOK'
BY DEF IInv, Typed, StageOK, AloneOK, MakerOK, CloserOK, ConstructFails
<1>7. ReferenceOK'
  <2>1. cur[t] = Archive /\ stage[Archive] = "open"
    BY DEF IInv, StageOK, CloserOK, ConstructFails
  <2>2. Holders' = Holders
    BY <2>1 DEF IInv, Typed, ConstructFails, Holders
  <2>3. \A u \in Users : stage'[u] = "taken" =>
            \E r \in Threads : pc'[r] \in TakenPcs /\ cur'[r] = u
    BY <2>1 DEF IInv, Typed, ReferenceOK, ConstructFails
  <2>4. ("interrupt" \notin struck) =>
            \A s \in Streams : stage'[s] = "counted" =>
                \E r \in Threads : pc'[r] \in CountedPcs /\ cur'[r] = s
    BY <2>1 DEF IInv, Typed, ReferenceOK, ConstructFails
  <2> QED
    BY <2>2, <2>3, <2>4 DEF IInv, ReferenceOK, ConstructFails
<1>8. LastOK'
  <2>1. \A u \in Threads : pc'[u] = IF u = t THEN "k_assert" ELSE "idle"
    BY DEF IInv, Typed, MakerOK, ConstructFails
  <2>2. Archive \in Holders' /\ Archive \in Holders
    BY DEF IInv, Typed, StageOK, CloserOK, ConstructFails, Holders
  <2> QED
    BY <2>1, <2>2 DEF IInv, Typed, LastOK, ConstructFails
<1> QED
  BY <1>1, <1>2, <1>3, <1>4, <1>5, <1>6, <1>7, <1>8 DEF IInv

LEMMA StartOpenPreserves ==
    ASSUME OneCloser, IInv, NEW t \in Threads, NEW s \in Streams, StartOpen(t, s)
    PROVE  IInv'
<1>1. Typed'
BY DEF IInv, Stages, Labels, Typed, StartOpen
<1>2. MakerOK'
BY DEF IInv, Stages, Labels, Typed, MakerOK, Runs, Starts, StartOpen
<1>3. AloneOK'
BY DEF IInv, Typed, AloneOK, StartOpen
<1>4. StageOK'
BY DEF IInv, Typed, StageOK, StartOpen
<1>5. CallOK'
BY DEF IInv, Typed, StageOK, CloserOK, CallOK, StartOpen
<1>6. CloserOK'
BY DEF IInv, Typed, CloserOK, StartOpen
<1>7. ReferenceOK'
BY DEF IInv, Stages, Labels, Typed, Holders, ReferenceOK, Runs, Starts,
   StartOpen
<1>8. LastOK'
BY DEF IInv, Stages, Labels, Typed, Holders, LastOK, Runs, Starts, StartOpen
<1> QED
  BY <1>1, <1>2, <1>3, <1>4, <1>5, <1>6, <1>7, <1>8 DEF IInv

LEMMA OpenAssertsPreserves ==
    ASSUME OneCloser, IInv, NEW t \in Threads, OpenAsserts(t)
    PROVE  IInv'
<1>1. Typed'
  <2>1. CASE fp
    BY <2>1 DEF IInv, Typed, OpenAsserts, Labels
  <2>2. CASE ~fp
    BY <2>2, ReturnTyped DEF IInv, Typed, OpenAsserts, Labels
  <2> QED
    BY <2>1, <2>2
<1>2. MakerOK'
BY DEF IInv, Typed, MakerOK, OpenAsserts
<1>3. AloneOK'
BY DEF OneCloser, IInv, Stages, Labels, Typed, MakerOK, AloneOK, StageOK,
   CallOK, CloserOK, Holders, ReferenceOK, LastOK, Runs, OpenAsserts
<1>4. StageOK'
BY DEF IInv, Typed, StageOK, OpenAsserts
<1>5. CallOK'
BY DEF IInv, Typed, CallOK, OpenAsserts
<1>6. CloserOK'
BY DEF IInv, Typed, CloserOK, OpenAsserts
<1>7. ReferenceOK'
BY DEF IInv, Typed, Holders, ReferenceOK, OpenAsserts
<1>8. LastOK'
BY DEF IInv, Typed, Holders, LastOK, OpenAsserts
<1> QED
  BY <1>1, <1>2, <1>3, <1>4, <1>5, <1>6, <1>7, <1>8 DEF IInv

LEMMA OpenLoadsPreserves ==
    ASSUME OneCloser, IInv, NEW t \in Threads, OpenLoads(t)
    PROVE  IInv'
<1>1. Typed'
BY DEF IInv, Stages, Labels, Typed, OpenLoads
<1>2. MakerOK'
BY DEF IInv, Typed, MakerOK, OpenLoads
<1>3. AloneOK'
BY DEF IInv, Typed, AloneOK, OpenLoads
<1>4. StageOK'
BY DEF IInv, Typed, StageOK, OpenLoads
<1>5. CallOK'
BY DEF IInv, Typed, CallOK, OpenLoads
<1>6. CloserOK'
BY DEF IInv, Typed, CloserOK, OpenLoads
<1>7. ReferenceOK'
BY DEF IInv, Typed, Holders, ReferenceOK, OpenLoads
<1>8. LastOK'
BY DEF IInv, Typed, Holders, LastOK, OpenLoads
<1> QED
  BY <1>1, <1>2, <1>3, <1>4, <1>5, <1>6, <1>7, <1>8 DEF IInv

LEMMA OpenStoresPreserves ==
    ASSUME OneCloser, IInv, NEW t \in Threads, OpenStores(t)
    PROVE  IInv'
<1>1. Typed'
BY DEF IInv, Stages, Labels, Typed, OpenStores
<1>2. MakerOK'
BY DEF IInv, Typed, MakerOK, OpenStores
<1>3. AloneOK'
BY DEF IInv, Typed, AloneOK, OpenStores
<1>4. StageOK'
BY DEF IInv, Typed, CallOK, CloserOK, StageOK, OpenStores
<1>5. CallOK'
BY DEF IInv, Typed, CallOK, OpenStores
<1>6. CloserOK'
BY DEF IInv, Typed, StageOK, AloneOK, CloserOK, OpenStores
<1>7. ReferenceOK'
  <2>1. /\ reg[t] = refCnt /\ stage[cur[t]] = "new"
        /\ pc'[t] = "o_arg" /\ cur[t] \in Streams
    BY DEF IInv, Typed, AloneOK, StageOK, CallOK, OpenStores
  <2>2. Holders' = Holders \cup {cur[t]} /\ cur[t] \notin Holders
    BY <2>1 DEF IInv, Typed, OpenStores, Holders
  <2>6. Cardinality(Holders \cup {cur[t]}) = Cardinality(Holders) + 1
    BY <2>2, HoldersFinite, FS_AddElement
  <2>3. refCnt' = Cardinality(Holders')
    BY <2>1, <2>2, <2>6 DEF IInv, ReferenceOK, OpenStores
  <2>4. \A u \in Users : stage'[u] = "taken" =>
            \E r \in Threads : pc'[r] \in TakenPcs /\ cur'[r] = u
    BY DEF IInv, Typed, ReferenceOK, OpenStores
  <2>5. ("interrupt" \notin struck) =>
            \A s \in Streams : stage'[s] = "counted" =>
                \E r \in Threads : pc'[r] \in CountedPcs /\ cur'[r] = s
    BY <2>1 DEF IInv, Typed, ReferenceOK, OpenStores
  <2> QED
    BY <2>3, <2>4, <2>5 DEF ReferenceOK, OpenStores
<1>8. LastOK'
BY DEF IInv, Typed, StageOK, Holders, ReferenceOK, MakerOK, AloneOK, LastOK,
   OpenStores
<1> QED
  BY <1>1, <1>2, <1>3, <1>4, <1>5, <1>6, <1>7, <1>8 DEF IInv

LEMMA OpenPassesPreserves ==
    ASSUME OneCloser, IInv, NEW t \in Threads, OpenPasses(t)
    PROVE  IInv'
<1>1. Typed'
BY DEF IInv, Stages, Labels, Typed, OpenPasses
<1>2. MakerOK'
BY DEF IInv, Typed, MakerOK, OpenPasses
<1>3. AloneOK'
BY DEF IInv, Typed, AloneOK, OpenPasses
<1>4. StageOK'
BY DEF IInv, Typed, StageOK, OpenPasses
<1>5. CallOK'
BY DEF IInv, Typed, StageOK, CloserOK, MakerOK, AloneOK, CallOK, OpenPasses
<1>6. CloserOK'
BY DEF IInv, Typed, CloserOK, OpenPasses
<1>7. ReferenceOK'
BY DEF IInv, Typed, Holders, ReferenceOK, OpenPasses
<1>8. LastOK'
BY DEF IInv, Typed, Holders, LastOK, OpenPasses
<1> QED
  BY <1>1, <1>2, <1>3, <1>4, <1>5, <1>6, <1>7, <1>8 DEF IInv

LEMMA OpenMakesPreserves ==
    ASSUME OneCloser, IInv, NEW t \in Threads, OpenMakes(t)
    PROVE  IInv'
<1>1. Typed'
BY DEF IInv, Stages, Labels, Typed, OpenMakes
<1>2. MakerOK'
BY DEF IInv, Typed, MakerOK, OpenMakes
<1>3. AloneOK'
BY DEF IInv, Typed, AloneOK, OpenMakes
<1>4. StageOK'
BY DEF IInv, Typed, CallOK, CloserOK, StageOK, OpenMakes
<1>5. CallOK'
BY DEF IInv, Typed, CallOK, OpenMakes
<1>6. CloserOK'
BY DEF IInv, Typed, CloserOK, OpenMakes
<1>7. ReferenceOK'
  <2>1. stage[cur[t]] = "counted"
    BY DEF IInv, StageOK, OpenMakes
  <2>2. Holders' = Holders
    BY <2>1 DEF IInv, Typed, OpenMakes, Holders
  <2>3. \A u \in Users : stage'[u] = "taken" =>
            \E r \in Threads : pc'[r] \in TakenPcs /\ cur'[r] = u
    BY DEF IInv, Typed, ReferenceOK, OpenMakes
  <2>4. ("interrupt" \notin struck) =>
            \A s \in Streams : stage'[s] = "counted" =>
                \E r \in Threads : pc'[r] \in CountedPcs /\ cur'[r] = s
    <3> SUFFICES ASSUME "interrupt" \notin struck,
                        NEW s \in Streams, stage'[s] = "counted"
                 PROVE  \E r \in Threads : pc'[r] \in CountedPcs /\ cur'[r] = s
      OBVIOUS
    <3>1. s # cur[t] /\ stage[s] = "counted"
      BY DEF IInv, Typed, OpenMakes
    <3>2. PICK r \in Threads : pc[r] \in CountedPcs /\ cur[r] = s
      BY <3>1 DEF IInv, ReferenceOK
    <3> QED
      BY <3>1, <3>2 DEF IInv, Typed, OpenMakes
  <2> QED
    BY <2>2, <2>3, <2>4 DEF IInv, ReferenceOK, OpenMakes
<1>8. LastOK'
BY DEF IInv, Typed, StageOK, Holders, ReferenceOK, LastOK, OpenMakes
<1> QED
  BY <1>1, <1>2, <1>3, <1>4, <1>5, <1>6, <1>7, <1>8 DEF IInv

LEMMA OpenMakeFailsPreserves ==
    ASSUME OneCloser, IInv, NEW t \in Threads, OpenMakeFails(t)
    PROVE  IInv'
<1>1. Typed'
BY DEF IInv, Stages, Labels, Typed, OpenMakeFails
<1>2. MakerOK'
BY DEF IInv, Typed, MakerOK, OpenMakeFails
<1>3. AloneOK'
BY DEF IInv, Typed, AloneOK, OpenMakeFails
<1>4. StageOK'
BY DEF IInv, Typed, StageOK, OpenMakeFails
<1>5. CallOK'
BY DEF IInv, Typed, CallOK, OpenMakeFails
<1>6. CloserOK'
BY DEF IInv, Typed, CloserOK, OpenMakeFails
<1>7. ReferenceOK'
BY DEF IInv, Typed, StageOK, CallOK, Holders, ReferenceOK, OpenMakeFails
<1>8. LastOK'
BY DEF IInv, Typed, Holders, LastOK, OpenMakeFails
<1> QED
  BY <1>1, <1>2, <1>3, <1>4, <1>5, <1>6, <1>7, <1>8 DEF IInv

LEMMA OpenReturnsPreserves ==
    ASSUME OneCloser, IInv, NEW t \in Threads, OpenReturns(t)
    PROVE  IInv'
<1>1. Typed'
BY DEF OneCloser, IInv, Stages, Labels, Typed, MakerOK, AloneOK, StageOK,
   CallOK, CloserOK, Holders, ReferenceOK, LastOK, LockFree, OpenReturns
<1>2. MakerOK'
BY DEF IInv, Typed, MakerOK, LockFree, OpenReturns
<1>3. AloneOK'
BY DEF IInv, Typed, AloneOK, LockFree, OpenReturns
<1>4. StageOK'
BY DEF IInv, Typed, StageOK, LockFree, OpenReturns
<1>5. CallOK'
BY DEF IInv, Typed, CallOK, LockFree, OpenReturns
<1>6. CloserOK'
BY DEF IInv, Typed, CloserOK, LockFree, OpenReturns
<1>7. ReferenceOK'
BY DEF IInv, Typed, Holders, ReferenceOK, LockFree, OpenReturns
<1>8. LastOK'
BY DEF IInv, Typed, Holders, LastOK, LockFree, OpenReturns
<1> QED
  BY <1>1, <1>2, <1>3, <1>4, <1>5, <1>6, <1>7, <1>8 DEF IInv

LEMMA OpenFailsPreserves ==
    ASSUME OneCloser, IInv, NEW t \in Threads, OpenFails(t)
    PROVE  IInv'
<1>1. Typed'
BY DEF IInv, Stages, Labels, Typed, LockFree, OpenFails
<1>2. MakerOK'
BY DEF IInv, Typed, MakerOK, LockFree, OpenFails
<1>3. AloneOK'
BY DEF IInv, Typed, AloneOK, LockFree, OpenFails
<1>4. StageOK'
BY DEF IInv, Typed, StageOK, LockFree, OpenFails
<1>5. CallOK'
BY DEF IInv, Typed, CallOK, LockFree, OpenFails
<1>6. CloserOK'
BY DEF IInv, Typed, CloserOK, LockFree, OpenFails
<1>7. ReferenceOK'
BY DEF IInv, Typed, Holders, ReferenceOK, LockFree, OpenFails
<1>8. LastOK'
BY DEF IInv, Typed, Holders, LastOK, LockFree, OpenFails
<1> QED
  BY <1>1, <1>2, <1>3, <1>4, <1>5, <1>6, <1>7, <1>8 DEF IInv

LEMMA ReadPreserves ==
    ASSUME OneCloser, IInv, NEW t \in Threads, NEW s \in Streams, Read(t, s)
    PROVE  IInv'
<1>1. Typed'
BY DEF IInv, Stages, Labels, Typed, LockFree, Read
<1>2. MakerOK'
BY DEF IInv, Stages, Labels, Typed, MakerOK, LockFree, Runs, Starts, Read
<1>3. AloneOK'
BY DEF IInv, Typed, AloneOK, LockFree, Read
<1>4. StageOK'
BY DEF IInv, Typed, StageOK, LockFree, Read
<1>5. CallOK'
BY DEF IInv, Typed, CallOK, LockFree, Read
<1>6. CloserOK'
BY DEF IInv, Typed, CloserOK, LockFree, Read
<1>7. ReferenceOK'
BY DEF IInv, Stages, Labels, Typed, Holders, ReferenceOK, LockFree, Runs,
   Starts, Read
<1>8. LastOK'
BY DEF IInv, Typed, Holders, LastOK, LockFree, Read
<1> QED
  BY <1>1, <1>2, <1>3, <1>4, <1>5, <1>6, <1>7, <1>8 DEF IInv

LEMMA ReadReturnsPreserves ==
    ASSUME OneCloser, IInv, NEW t \in Threads, ReadReturns(t)
    PROVE  IInv'
<1>1. Typed'
BY DEF IInv, Stages, Labels, Typed, ReadReturns
<1>2. MakerOK'
BY DEF IInv, Typed, MakerOK, ReadReturns
<1>3. AloneOK'
BY DEF IInv, Typed, AloneOK, ReadReturns
<1>4. StageOK'
BY DEF IInv, Typed, StageOK, ReadReturns
<1>5. CallOK'
BY DEF IInv, Typed, CallOK, ReadReturns
<1>6. CloserOK'
BY DEF IInv, Typed, CloserOK, ReadReturns
<1>7. ReferenceOK'
BY DEF IInv, Typed, Holders, ReferenceOK, ReadReturns
<1>8. LastOK'
BY DEF IInv, Typed, Holders, LastOK, ReadReturns
<1> QED
  BY <1>1, <1>2, <1>3, <1>4, <1>5, <1>6, <1>7, <1>8 DEF IInv

LEMMA StartClosePreserves ==
    ASSUME OneCloser, IInv, NEW t \in Threads, NEW s \in Streams, StartClose(t, s)
    PROVE  IInv'
<1>1. Typed'
BY DEF IInv, Stages, Labels, Typed, StartClose
<1>2. MakerOK'
BY DEF IInv, Stages, Labels, Typed, MakerOK, Runs, Starts, StartClose
<1>3. AloneOK'
BY DEF IInv, Typed, AloneOK, StartClose
<1>4. StageOK'
BY DEF IInv, Typed, StageOK, StartClose
<1>5. CallOK'
BY DEF IInv, Typed, CallOK, StartClose
<1>6. CloserOK'
BY DEF IInv, Typed, CloserOK, StartClose
<1>7. ReferenceOK'
BY DEF IInv, Stages, Labels, Typed, Holders, ReferenceOK, Runs, Starts,
   StartClose
<1>8. LastOK'
BY DEF IInv, Stages, Labels, Typed, Holders, LastOK, Runs, Starts, StartClose
<1> QED
  BY <1>1, <1>2, <1>3, <1>4, <1>5, <1>6, <1>7, <1>8 DEF IInv

LEMMA CloseTakesPreserves ==
    ASSUME OneCloser, IInv, NEW t \in Threads, CloseTakes(t)
    PROVE  IInv'
<1>1. Typed'
  <2>1. CASE (stage[cur[t]] = "open")
    BY <2>1 DEF IInv, Typed, CloseTakes, Takes, Labels, Stages
  <2>2. CASE ~(stage[cur[t]] = "open")
    BY <2>2, ReturnTyped DEF IInv, Typed, CloseTakes, Takes, Labels, Stages
  <2> QED
    BY <2>1, <2>2
<1>2. MakerOK'
BY DEF IInv, Typed, MakerOK, LockFree, Takes, CloseTakes
<1>3. AloneOK'
BY DEF IInv, Typed, AloneOK, LockFree, Takes, CloseTakes
<1>4. StageOK'
BY DEF IInv, Typed, CallOK, CloserOK, StageOK, LockFree, Takes, CloseTakes
<1>5. CallOK'
BY DEF IInv, Typed, StageOK, CloserOK, CallOK, LockFree, Takes, CloseTakes
<1>6. CloserOK'
BY DEF IInv, Typed, CloserOK, LockFree, Takes, CloseTakes
<1>7. ReferenceOK'
  <2>1. CASE stage[cur[t]] = "open"
    <3>1. Holders' = Holders
      BY <2>1 DEF IInv, Typed, CloseTakes, Takes, Holders
    <3>2. \A u \in Users : stage'[u] = "taken" =>
              \E r \in Threads : pc'[r] \in TakenPcs /\ cur'[r] = u
      BY <2>1 DEF IInv, Typed, ReferenceOK, CloseTakes, Takes
    <3>3. ("interrupt" \notin struck) =>
              \A s \in Streams : stage'[s] = "counted" =>
                  \E r \in Threads : pc'[r] \in CountedPcs /\ cur'[r] = s
      BY <2>1 DEF IInv, Typed, ReferenceOK, CloseTakes, Takes
    <3> QED
      BY <3>1, <3>2, <3>3 DEF IInv, ReferenceOK, CloseTakes, Takes
  <2>2. CASE stage[cur[t]] # "open"
    BY <2>2 DEF IInv, Typed, ReferenceOK, CloseTakes, Takes, Holders
  <2> QED
    BY <2>1, <2>2
<1>8. LastOK'
BY DEF IInv, Typed, Holders, LastOK, LockFree, Takes, CloseTakes
<1> QED
  BY <1>1, <1>2, <1>3, <1>4, <1>5, <1>6, <1>7, <1>8 DEF IInv

LEMMA DropAssertsPreserves ==
    ASSUME OneCloser, IInv, NEW t \in Threads, DropAsserts(t)
    PROVE  IInv'
<1>1. Typed'
  <2>1. CASE (refCnt > 0)
    BY <2>1 DEF IInv, Typed, DropAsserts, Labels
  <2>2. CASE ~(refCnt > 0)
    BY <2>2, ReturnTyped DEF IInv, Typed, DropAsserts, Labels
  <2> QED
    BY <2>1, <2>2
<1>2. MakerOK'
BY DEF IInv, Typed, MakerOK, DropAsserts
<1>3. AloneOK'
BY DEF OneCloser, IInv, Stages, Labels, Typed, MakerOK, AloneOK, StageOK,
   CallOK, CloserOK, Holders, ReferenceOK, LastOK, Runs, DropAsserts
<1>4. StageOK'
BY DEF IInv, Typed, StageOK, DropAsserts
<1>5. CallOK'
BY DEF IInv, Typed, CallOK, DropAsserts
<1>6. CloserOK'
BY DEF IInv, Typed, CloserOK, DropAsserts
<1>7. ReferenceOK'
  <2>1. refCnt > 0
    BY TakenCounts DEF DropAsserts
  <2>2. Holders' = Holders
    BY DEF DropAsserts, Holders
  <2> QED
    BY <2>1, <2>2 DEF IInv, Typed, ReferenceOK, DropAsserts
<1>8. LastOK'
BY DEF IInv, Typed, Holders, LastOK, DropAsserts
<1> QED
  BY <1>1, <1>2, <1>3, <1>4, <1>5, <1>6, <1>7, <1>8 DEF IInv

LEMMA DropLoadsPreserves ==
    ASSUME OneCloser, IInv, NEW t \in Threads, DropLoads(t)
    PROVE  IInv'
<1>1. Typed'
BY DEF IInv, Stages, Labels, Typed, DropLoads
<1>2. MakerOK'
BY DEF IInv, Typed, MakerOK, DropLoads
<1>3. AloneOK'
BY DEF IInv, Typed, AloneOK, DropLoads
<1>4. StageOK'
BY DEF IInv, Typed, StageOK, DropLoads
<1>5. CallOK'
BY DEF IInv, Typed, CallOK, DropLoads
<1>6. CloserOK'
BY DEF IInv, Typed, CloserOK, DropLoads
<1>7. ReferenceOK'
BY DEF IInv, Typed, Holders, ReferenceOK, DropLoads
<1>8. LastOK'
BY DEF IInv, Typed, Holders, LastOK, DropLoads
<1> QED
  BY <1>1, <1>2, <1>3, <1>4, <1>5, <1>6, <1>7, <1>8 DEF IInv

LEMMA DropStoresPreserves ==
    ASSUME OneCloser, IInv, NEW t \in Threads, DropStores(t)
    PROVE  IInv'
<1>1. Typed'
  <2>1. reg[t] = refCnt /\ refCnt > 0
    BY TakenCounts DEF IInv, AloneOK, DropStores
  <2>2. refCnt' \in Nat
    BY <2>1 DEF IInv, Typed, DropStores
  <2> QED
    BY <2>2 DEF IInv, Typed, DropStores, Labels, Stages
<1>2. MakerOK'
BY DEF IInv, Typed, MakerOK, DropStores
<1>3. AloneOK'
BY DEF IInv, Typed, AloneOK, DropStores
<1>4. StageOK'
BY DEF IInv, Typed, CallOK, CloserOK, StageOK, DropStores
<1>5. CallOK'
BY DEF IInv, Typed, CallOK, DropStores
<1>6. CloserOK'
BY DEF IInv, Typed, CloserOK, DropStores
<1>7. ReferenceOK'
  <2>1. /\ reg[t] = refCnt /\ refCnt > 0
        /\ cur[t] \in Holders /\ cur[t] \in Users
    BY TakenCounts DEF IInv, Typed, AloneOK, DropStores
  <2>2. Holders' = Holders \ {cur[t]}
    BY <2>1 DEF IInv, Typed, DropStores, Holders
  <2>6. Cardinality(Holders \ {cur[t]}) = Cardinality(Holders) - 1
    BY <2>1, HoldersFinite, FS_RemoveElement
  <2>3. refCnt' = Cardinality(Holders')
    BY <2>1, <2>2, <2>6 DEF IInv, ReferenceOK, DropStores
  <2>4. \A u \in Users : stage'[u] = "taken" =>
            \E r \in Threads : pc'[r] \in TakenPcs /\ cur'[r] = u
    <3> SUFFICES ASSUME NEW u \in Users, stage'[u] = "taken"
                 PROVE  \E r \in Threads : pc'[r] \in TakenPcs /\ cur'[r] = u
      OBVIOUS
    <3>1. u # cur[t] /\ stage[u] = "taken"
      BY DEF IInv, Typed, DropStores
    <3>2. PICK r \in Threads : pc[r] \in TakenPcs /\ cur[r] = u
      BY <3>1 DEF IInv, ReferenceOK
    <3> QED
      BY <3>1, <3>2 DEF IInv, Typed, DropStores
  <2>5. ("interrupt" \notin struck) =>
            \A s \in Streams : stage'[s] = "counted" =>
                \E r \in Threads : pc'[r] \in CountedPcs /\ cur'[r] = s
    BY DEF IInv, Typed, ReferenceOK, DropStores
  <2> QED
    BY <2>3, <2>4, <2>5 DEF ReferenceOK, DropStores
<1>8. LastOK'
BY DEF IInv, Typed, StageOK, Holders, ReferenceOK, LastOK, DropStores
<1> QED
  BY <1>1, <1>2, <1>3, <1>4, <1>5, <1>6, <1>7, <1>8 DEF IInv

LEMMA DropTestsPreserves ==
    ASSUME OneCloser, IInv, NEW t \in Threads, DropTests(t)
    PROVE  IInv'
<1>1. Typed'
  <2>1. CASE IsLast
    BY <2>1 DEF IInv, Typed, DropTests, Labels
  <2>2. CASE ~IsLast
    BY <2>2, ReturnTyped DEF IInv, Typed, DropTests, Labels
  <2> QED
    BY <2>1, <2>2
<1>2. MakerOK'
BY DEF IInv, Typed, MakerOK, IsLast, DropTests
<1>3. AloneOK'
BY DEF IInv, Typed, AloneOK, IsLast, DropTests
<1>4. StageOK'
BY DEF IInv, Typed, StageOK, IsLast, DropTests
<1>5. CallOK'
BY DEF IInv, Typed, CallOK, IsLast, DropTests
<1>6. CloserOK'
BY DEF IInv, Typed, CloserOK, IsLast, DropTests
<1>7. ReferenceOK'
BY DEF IInv, Typed, Holders, ReferenceOK, IsLast, DropTests
<1>8. LastOK'
  <2>1. IsLast <=> Holders = {} /\ ~filePassed
    BY HoldersFinite DEF IInv, ReferenceOK, IsLast
  <2>2. Holders' = Holders /\ closes' = closes /\ filePassed' = filePassed
    BY DEF DropTests, Holders
  <2>3. closes = 0 /\ \A u \in Threads \ {t} : pc[u] \notin {"k_test", "k_close"}
    <3>1. Runs(t) => \A u \in Threads \ {t} : pc[u] # "k_test"
      BY DEF IInv, AloneOK, DropTests
    <3> QED
      BY <3>1 DEF IInv, LastOK, DropTests
  <2>4. CASE IsLast
    <3>1. \A u \in Threads : pc'[u] = IF u = t THEN "k_close" ELSE pc[u]
      BY <2>4 DEF IInv, Typed, DropTests
    <3> QED
      BY <2>1, <2>2, <2>3, <2>4, <3>1 DEF LastOK
  <2>5. CASE ~IsLast
    <3>1. \A u \in Threads : pc'[u] = IF u = t THEN "idle" ELSE pc[u]
      BY <2>5 DEF IInv, Typed, DropTests
    <3> QED
      BY <2>1, <2>2, <2>3, <2>5, <3>1 DEF IInv, LastOK
  <2> QED
    BY <2>4, <2>5
<1> QED
  BY <1>1, <1>2, <1>3, <1>4, <1>5, <1>6, <1>7, <1>8 DEF IInv

LEMMA DropClosesPreserves ==
    ASSUME OneCloser, IInv, NEW t \in Threads, DropCloses(t)
    PROVE  IInv'
<1>1. Typed'
BY DEF IInv, Stages, Labels, Typed, DropCloses
<1>2. MakerOK'
BY DEF IInv, Typed, MakerOK, DropCloses
<1>3. AloneOK'
BY DEF IInv, Typed, AloneOK, DropCloses
<1>4. StageOK'
BY DEF IInv, Typed, StageOK, DropCloses
<1>5. CallOK'
BY DEF IInv, Typed, CallOK, DropCloses
<1>6. CloserOK'
BY DEF IInv, Typed, CloserOK, DropCloses
<1>7. ReferenceOK'
BY DEF IInv, Typed, Holders, ReferenceOK, DropCloses
<1>8. LastOK'
BY DEF OneCloser, IInv, Typed, MakerOK, AloneOK, StageOK, CallOK, CloserOK,
   Holders, ReferenceOK, LastOK, DropCloses
<1> QED
  BY <1>1, <1>2, <1>3, <1>4, <1>5, <1>6, <1>7, <1>8 DEF IInv

LEMMA CloseArchivePreserves ==
    ASSUME OneCloser, IInv, NEW t \in Threads, CloseArchive(t)
    PROVE  IInv'
<1>1. Typed'
BY DEF IInv, Stages, Labels, Typed, CloseArchive
<1>2. MakerOK'
BY DEF IInv, Stages, Labels, Typed, MakerOK, Runs, Starts, CloseArchive
<1>3. AloneOK'
BY DEF OneCloser, IInv, Stages, Labels, Typed, MakerOK, AloneOK, StageOK,
   CallOK, CloserOK, Holders, ReferenceOK, LastOK, Runs, Starts, CloseArchive
<1>4. StageOK'
BY DEF IInv, Typed, StageOK, CloseArchive
<1>5. CallOK'
BY DEF IInv, Typed, CallOK, CloseArchive
<1>6. CloserOK'
BY DEF IInv, Typed, CloserOK, CloseArchive
<1>7. ReferenceOK'
BY DEF IInv, Stages, Labels, Typed, Holders, ReferenceOK, Runs, Starts,
   CloseArchive
<1>8. LastOK'
BY DEF IInv, Stages, Labels, Typed, Holders, LastOK, Runs, Starts,
   CloseArchive
<1> QED
  BY <1>1, <1>2, <1>3, <1>4, <1>5, <1>6, <1>7, <1>8 DEF IInv

LEMMA ArchiveLocksPreserves ==
    ASSUME OneCloser, IInv, NEW t \in Threads, ArchiveLocks(t)
    PROVE  IInv'
<1>1. Typed'
BY DEF IInv, Stages, Labels, Typed, LockFree, ArchiveLocks
<1>2. MakerOK'
BY DEF IInv, Typed, MakerOK, LockFree, ArchiveLocks
<1>3. AloneOK'
BY DEF IInv, Typed, AloneOK, LockFree, ArchiveLocks
<1>4. StageOK'
BY DEF IInv, Typed, StageOK, LockFree, ArchiveLocks
<1>5. CallOK'
BY DEF IInv, Typed, CallOK, LockFree, ArchiveLocks
<1>6. CloserOK'
BY DEF IInv, Typed, CloserOK, LockFree, ArchiveLocks
<1>7. ReferenceOK'
BY DEF IInv, Typed, Holders, ReferenceOK, LockFree, ArchiveLocks
<1>8. LastOK'
BY DEF IInv, Typed, Holders, LastOK, LockFree, ArchiveLocks
<1> QED
  BY <1>1, <1>2, <1>3, <1>4, <1>5, <1>6, <1>7, <1>8 DEF IInv

LEMMA ArchiveWritesPreserves ==
    ASSUME OneCloser, IInv, NEW t \in Threads, ArchiveWrites(t)
    PROVE  IInv'
<1>1. Typed'
BY DEF IInv, Stages, Labels, Typed, ArchiveWrites
<1>2. MakerOK'
BY DEF IInv, Typed, MakerOK, ArchiveWrites
<1>3. AloneOK'
BY DEF IInv, Typed, AloneOK, ArchiveWrites
<1>4. StageOK'
BY DEF IInv, Typed, StageOK, ArchiveWrites
<1>5. CallOK'
BY DEF IInv, Typed, CallOK, ArchiveWrites
<1>6. CloserOK'
BY DEF IInv, Typed, CloserOK, ArchiveWrites
<1>7. ReferenceOK'
BY DEF IInv, Typed, Holders, ReferenceOK, ArchiveWrites
<1>8. LastOK'
BY DEF IInv, Typed, Holders, LastOK, ArchiveWrites
<1> QED
  BY <1>1, <1>2, <1>3, <1>4, <1>5, <1>6, <1>7, <1>8 DEF IInv

LEMMA ArchiveReadsPreserves ==
    ASSUME OneCloser, IInv, NEW t \in Threads, ArchiveReads(t)
    PROVE  IInv'
<1>1. Typed'
BY DEF IInv, Stages, Labels, Typed, ArchiveReads
<1>2. MakerOK'
BY DEF IInv, Typed, MakerOK, ArchiveReads
<1>3. AloneOK'
BY DEF OneCloser, IInv, Stages, Labels, Typed, MakerOK, AloneOK, StageOK,
   CallOK, CloserOK, Holders, ReferenceOK, LastOK, Runs, ArchiveReads
<1>4. StageOK'
BY DEF IInv, Typed, StageOK, ArchiveReads
<1>5. CallOK'
BY DEF IInv, Typed, CallOK, ArchiveReads
<1>6. CloserOK'
BY DEF IInv, Typed, CloserOK, ArchiveReads
<1>7. ReferenceOK'
BY DEF IInv, Typed, Holders, ReferenceOK, ArchiveReads
<1>8. LastOK'
BY DEF IInv, Typed, Holders, LastOK, ArchiveReads
<1> QED
  BY <1>1, <1>2, <1>3, <1>4, <1>5, <1>6, <1>7, <1>8 DEF IInv

LEMMA ArchiveDropsPreserves ==
    ASSUME OneCloser, IInv, NEW t \in Threads, ArchiveDrops(t)
    PROVE  IInv'
<1>1. Typed'
BY DEF IInv, Stages, Labels, Typed, ArchiveDrops
<1>2. MakerOK'
BY DEF IInv, Typed, MakerOK, ArchiveDrops
<1>3. AloneOK'
BY DEF IInv, Typed, AloneOK, ArchiveDrops
<1>4. StageOK'
  <2>1. cur[t] = Archive /\ stage[Archive] = "open"
    BY DEF IInv, StageOK, CloserOK, ArchiveDrops
  <2>2. \A u \in Threads \ {t} : pc[u] \in NewPcs \cup CountedPcs \cup FreshPcs
                                    \cup TakenPcs \cup {"r_data"} =>
            cur[u] # Archive
    BY <2>1 DEF IInv, Typed, StageOK, CallOK
  <2> QED
    BY SMTT(20), ZenonT(30), <2>1, <2>2 DEF IInv, Typed, StageOK, ArchiveDrops
<1>5. CallOK'
  <2>1. cur[t] = Archive /\ stage[Archive] = "open" /\ file[t]
    BY DEF IInv, StageOK, CloserOK, ArchiveDrops
  <2>2. \A u \in Threads \ {t} : pc[u] \in OwnPcs => cur[u] # Archive
    BY <2>1 DEF IInv, StageOK, CallOK
  <2>3. pc' = [pc EXCEPT ![t] = "k_assert"]
    BY DEF ArchiveDrops
  <2> QED
    BY <2>1, <2>2, <2>3 DEF IInv, Typed, CallOK, ArchiveDrops
<1>6. CloserOK'
BY DEF OneCloser, IInv, Typed, MakerOK, AloneOK, StageOK, CallOK, CloserOK,
   Holders, ReferenceOK, LastOK, ArchiveDrops
<1>7. ReferenceOK'
  <2>1. cur[t] = Archive /\ stage[Archive] = "open"
    BY DEF IInv, StageOK, CloserOK, ArchiveDrops
  <2>2. Holders' = Holders
    BY <2>1 DEF IInv, Typed, ArchiveDrops, Holders
  <2>3. \A u \in Users : stage'[u] = "taken" =>
            \E r \in Threads : pc'[r] \in TakenPcs /\ cur'[r] = u
    BY <2>1 DEF IInv, Typed, ReferenceOK, ArchiveDrops
  <2>4. ("interrupt" \notin struck) =>
            \A s \in Streams : stage'[s] = "counted" =>
                \E r \in Threads : pc'[r] \in CountedPcs /\ cur'[r] = s
    BY <2>1 DEF IInv, Typed, ReferenceOK, ArchiveDrops
  <2> QED
    BY <2>2, <2>3, <2>4 DEF IInv, ReferenceOK, ArchiveDrops
<1>8. LastOK'
BY DEF IInv, Typed, Holders, LastOK, ArchiveDrops
<1> QED
  BY <1>1, <1>2, <1>3, <1>4, <1>5, <1>6, <1>7, <1>8 DEF IInv

LEMMA WriterPreserves ==
    ASSUME IInv, WriterComesOrGoes
    PROVE  IInv'
<1>1. Typed' /\ MakerOK' /\ AloneOK' /\ CallOK' /\ CloserOK'
  BY DEF IInv, Typed, MakerOK, AloneOK, CallOK, CloserOK, WriterComesOrGoes
<1>2. StageOK'
  BY DEF IInv, StageOK, WriterComesOrGoes
<1>3. Holders' = Holders
  BY DEF WriterComesOrGoes, Holders
<1>4. ReferenceOK' /\ LastOK'
  BY <1>3 DEF IInv, ReferenceOK, LastOK, WriterComesOrGoes
<1> QED
  BY <1>1, <1>2, <1>4 DEF IInv

LEMMA StutterPreserves ==
    ASSUME IInv, UNCHANGED vars
    PROVE  IInv'
<1>1. Typed' /\ MakerOK' /\ AloneOK' /\ CallOK' /\ CloserOK'
  BY DEF IInv, Typed, MakerOK, AloneOK, CallOK, CloserOK, vars
<1>2. StageOK'
  BY DEF IInv, StageOK, vars
<1>3. Holders' = Holders
  BY DEF vars, Holders
<1>4. ReferenceOK' /\ LastOK'
  BY <1>3 DEF IInv, ReferenceOK, LastOK, vars
<1> QED
  BY <1>1, <1>2, <1>4 DEF IInv

LEMMA StepPreserves ==
    ASSUME OneCloser, IInv, NEW t \in Threads, Step(t)
    PROVE  IInv'
BY ConstructPreserves, ConstructFailsPreserves, OpenAssertsPreserves,
   OpenLoadsPreserves, OpenStoresPreserves, OpenPassesPreserves,
   OpenMakesPreserves, OpenMakeFailsPreserves, OpenReturnsPreserves,
   OpenFailsPreserves, ReadReturnsPreserves, CloseTakesPreserves,
   DropAssertsPreserves, DropLoadsPreserves, DropStoresPreserves,
   DropTestsPreserves, DropClosesPreserves, ArchiveLocksPreserves,
   ArchiveWritesPreserves, ArchiveReadsPreserves, ArchiveDropsPreserves DEF
   Step

LEMMA NextPreserves ==
    ASSUME OneCloser, IInv, [Next]_vars
    PROVE  IInv'
<1>1. CASE UNCHANGED vars
  BY <1>1, StutterPreserves
<1>2. CASE WriterComesOrGoes
  BY <1>2, WriterPreserves
<1>3. CASE \E t \in Threads : Step(t)
  BY <1>3, StepPreserves
<1>4. CASE \E t \in Threads, s \in Streams :
              StartOpen(t, s) \/ Read(t, s) \/ StartClose(t, s)
  BY <1>4, StartOpenPreserves, ReadPreserves, StartClosePreserves
<1>5. CASE \E t \in Threads : CloseArchive(t)
  BY <1>5, CloseArchivePreserves
<1> QED
  BY <1>1, <1>2, <1>3, <1>4, <1>5 DEF Next

LEMMA InitEstablishes ==
    ASSUME OneCloser, Init
    PROVE  IInv
<1>1. Typed
  BY DEF Init, Typed, Stages, Labels
<1>2. MakerOK /\ AloneOK /\ StageOK /\ CallOK /\ CloserOK
  BY DEF Init, MakerOK, AloneOK, StageOK, CallOK, CloserOK
<1>3. Holders = {Archive}
  BY DEF Init, Holders
<1>4. Cardinality({Archive}) = 1
  BY FS_Singleton
<1>5. ReferenceOK /\ LastOK
  BY <1>3, <1>4 DEF Init, ReferenceOK, LastOK
<1> QED
  BY <1>1, <1>2, <1>5 DEF IInv

-----------------------------------------------------------------------------
(* The invariant holds in every state.                                      *)
THEOREM Invariance == ASSUME OneCloser PROVE Spec => []IInv
<1>1. Init => IInv
  BY InitEstablishes
<1>2. IInv /\ [Next]_vars => IInv'
  BY NextPreserves
<1> QED
  BY <1>1, <1>2, PTL DEF Spec

(* The variables keep their types, and there are never more references than *)
(* the archive and its streams.                                             *)
THEOREM TypeCorrect == ASSUME OneCloser PROVE Spec => []TypeOK
<1>1. IInv => TypeOK
  <2> SUFFICES ASSUME IInv PROVE TypeOK
    OBVIOUS
  <2>1. refCnt \in 0 .. Cardinality(Users)
    BY HoldersFinite DEF IInv, ReferenceOK
  <2> QED
    BY <2>1 DEF IInv, Typed, TypeOK
<1> QED
  BY <1>1, Invariance, PTL

(* ZipFile._fpclose never closes the file under a stream, or under a read    *)
(* that has begun, whoever closes the streams and the archive and when; it   *)
(* never closes a file that the client brought.                              *)
THEOREM StreamsKeepTheirFile ==
    ASSUME OneCloser PROVE Spec => []StreamsHaveTheirFile
<1>1. IInv => StreamsHaveTheirFile
  <2> SUFFICES ASSUME IInv, closes > 0
               PROVE  /\ ~filePassed /\ ~fp
                      /\ \A s \in Streams : stage[s] # "open"
                      /\ \A t \in Threads : pc[t] # "r_data"
    BY DEF StreamsHaveTheirFile
  <2>1. Holders = {} /\ ~filePassed
    BY DEF IInv, LastOK
  <2>2. \A u \in Users : stage[u] # "open"
    BY <2>1 DEF Holders
  <2>3. \A t \in Threads : pc[t] # "r_data"
    BY <2>2 DEF IInv, Typed, StageOK
  <2> QED
    BY <2>1, <2>2, <2>3 DEF IInv, StageOK
<1> QED
  BY <1>1, Invariance, PTL

(* Whatever open() and the constructor raised on the way, the file is closed *)
(* when the archive and all streams are closed, unless a stream was          *)
(* interrupted while it was made.                                            *)
THEOREM ReferencesAreReturned ==
    ASSUME OneCloser PROVE Spec => []NoReferenceLeaks
<1>1. IInv => NoReferenceLeaks
  <2> SUFFICES ASSUME IInv, "interrupt" \notin struck, ~fp,
                      \A s \in Streams : stage[s] # "open",
                      \A t \in Threads : pc[t] = "idle"
               PROVE  filePassed \/ closes = 1
    BY DEF NoReferenceLeaks
  <2>1. stage[Archive] # "open"
    BY DEF IInv, StageOK
  <2>2. \A u \in Users : stage[u] \notin {"taken", "counted"}
    BY DEF IInv, CloserOK, ReferenceOK
  <2>3. Holders = {}
    BY <2>1, <2>2 DEF Holders
  <2> QED
    BY <2>3 DEF IInv, LastOK
<1> QED
  BY <1>1, Invariance, PTL

-----------------------------------------------------------------------------
(* Refinement.  A reference is taken, dropped, and the file closed, in one   *)
(* step each; all others leave the users of the file as they are.            *)

LEMMA OpenStoresJoins ==
    ASSUME OneCloser, IInv, NEW t \in Threads, OpenStores(t)
    PROVE  Sharing!Next
<1>1. /\ cur[t] \in Streams /\ stage[cur[t]] = "new"
      /\ fp /\ stage[Archive] = "open"
  BY DEF IInv, AloneOK, StageOK, CallOK, OpenStores
<1>2. /\ Archive \in Holders /\ cur[t] \notin Holders
      /\ Holders' = Holders \cup {cur[t]}
  BY <1>1 DEF IInv, Typed, OpenStores, Holders
<1>3. closes' = closes
  BY DEF OpenStores
<1> QED
  BY <1>1, <1>2, <1>3 DEF Sharing!Next, Sharing!Join

LEMMA DropStoresLeaves ==
    ASSUME OneCloser, IInv, NEW t \in Threads, DropStores(t)
    PROVE  Sharing!Next
<1>1. cur[t] \in Holders /\ cur[t] \in Users
  BY TakenCounts DEF IInv, Typed, DropStores
<1>2. Holders' = Holders \ {cur[t]} /\ closes' = closes
  BY <1>1 DEF IInv, Typed, DropStores, Holders
<1> QED
  BY <1>1, <1>2 DEF Sharing!Next, Sharing!Leave

LEMMA DropClosesCloses ==
    ASSUME OneCloser, IInv, NEW t \in Threads, DropCloses(t)
    PROVE  Sharing!Next
<1>1. Holders = {} /\ closes = 0 /\ file[t]
  BY DEF IInv, LastOK, CallOK, DropCloses
<1>2. Holders' = Holders /\ closes' = 1
  BY <1>1 DEF DropCloses, Holders
<1> QED
  BY <1>1, <1>2 DEF Sharing!Next, Sharing!CloseFile

(* The steps that make a stream of a counted reference, or give up what     *)
(* will be dropped.                                                         *)
LEMMA HandsOver ==
    ASSUME OneCloser, IInv, NEW t \in Threads,
           OpenMakes(t) \/ CloseTakes(t) \/ ConstructFails(t) \/ ArchiveDrops(t)
    PROVE  UNCHANGED <<Holders, closes>>
<1>1. CASE OpenMakes(t)
  BY <1>1 DEF IInv, Typed, StageOK, OpenMakes, Holders
<1>2. CASE CloseTakes(t)
  BY <1>2 DEF IInv, Typed, CloseTakes, Takes, Holders
<1>3. CASE ConstructFails(t)
  <2>1. stage[Archive] = "open"
    BY <1>3 DEF IInv, StageOK, CloserOK, ConstructFails
  <2> QED
    BY <1>3, <2>1 DEF IInv, Typed, ConstructFails, Holders
<1>4. CASE ArchiveDrops(t)
  BY <1>4 DEF IInv, Typed, ArchiveDrops, Holders
<1> QED
  BY <1>1, <1>2, <1>3, <1>4

LEMMA LeavesCount ==
    ASSUME UNCHANGED count
    PROVE  UNCHANGED <<Holders, closes>>
BY DEF Holders

LEMMA StepIsSharing ==
    ASSUME OneCloser, IInv, NEW t \in Threads, Step(t)
    PROVE  Sharing!Next \/ UNCHANGED <<Holders, closes>>
<1>1. CASE OpenStores(t) \/ DropStores(t) \/ DropCloses(t)
  BY <1>1, OpenStoresJoins, DropStoresLeaves, DropClosesCloses
<1>2. CASE OpenMakes(t) \/ CloseTakes(t) \/ ConstructFails(t) \/ ArchiveDrops(t)
  BY <1>2, HandsOver
<1>3. CASE \/ Construct(t) \/ OpenAsserts(t) \/ OpenLoads(t) \/ OpenPasses(t)
           \/ OpenMakeFails(t) \/ OpenReturns(t) \/ OpenFails(t)
           \/ ReadReturns(t)
  BY <1>3, LeavesCount DEF Construct, OpenAsserts, OpenLoads, OpenPasses,
     OpenMakeFails, OpenReturns, OpenFails, ReadReturns
<1>4. CASE \/ DropAsserts(t) \/ DropLoads(t) \/ DropTests(t)
           \/ ArchiveLocks(t) \/ ArchiveWrites(t) \/ ArchiveReads(t)
  BY <1>4, LeavesCount DEF DropAsserts, DropLoads, DropTests, ArchiveLocks,
     ArchiveWrites, ArchiveReads
<1> QED
  BY <1>1, <1>2, <1>3, <1>4 DEF Step

LEMMA NextIsSharing ==
    ASSUME OneCloser, IInv, [Next]_vars
    PROVE  Sharing!Next \/ UNCHANGED <<Holders, closes>>
<1>1. CASE \E t \in Threads : Step(t)
  BY <1>1, StepIsSharing
<1>2. CASE UNCHANGED vars \/ WriterComesOrGoes
  BY <1>2, LeavesCount DEF vars, WriterComesOrGoes
<1>3. CASE \E t \in Threads :
              \/ CloseArchive(t)
              \/ \E s \in Streams :
                    StartOpen(t, s) \/ Read(t, s) \/ StartClose(t, s)
  BY <1>3, LeavesCount DEF StartOpen, Read, StartClose, CloseArchive
<1> QED
  BY <1>1, <1>2, <1>3 DEF Next

(* ZipFile and its streams implement a file that its last user closes, once. *)
THEOREM SharedFileIsCounted ==
    ASSUME OneCloser PROVE Spec => ImplementsSharing
<1>1. Init => Sharing!Init
  BY DEF Init, Sharing!Init, Holders
<1>2. IInv /\ [Next]_vars => [Sharing!Next]_Sharing!vars
  BY NextIsSharing DEF Sharing!vars
<1> QED
  BY <1>1, <1>2, Invariance, PTL DEF Spec, ImplementsSharing, Sharing!Spec
=============================================================================
