--------------------------- MODULE WriteCoordinator ---------------------------
(***************************************************************************)
(* zipfile/write_coordinator.py: the archive-level reservation for the     *)
(* single writer, and the condition variable the closers wait on.  Every   *)
(* operation is one critical section of the archive's lock, so one step of *)
(* the thread that calls it; the caller supplies the lock.                 *)
(***************************************************************************)
CONSTANTS
    Handles,   \* write handles; a handle also stands for its reservation
    NoHandle   \* no reservation

VARIABLES
    coordState,    \* _state
    reservation,   \* _reservation
    waiting        \* threads inside condition.wait()

coordinator == <<coordState, reservation, waiting>>

CoordinatorStates == {"IDLE", "ACTIVE", "FINALIZING", "FAILED"}

CoordinatorInit ==
    /\ coordState = "IDLE"
    /\ reservation = NoHandle
    /\ waiting = {}

(* Mutant: a writer that is closing no longer counts.                       *)
BusyUnlessFinalizing == coordState \notin {"IDLE", "FINALIZING"}

Busy == coordState # "IDLE"              \* active

Holds(h) == reservation = h              \* what _require demands

(* Mutant: nobody is woken.                                                 *)
NotifyNobody == UNCHANGED waiting

NotifyAll == waiting' = {}

(* reserve() raises when Busy.                                              *)
Reserve(h) ==
    /\ ~Busy
    /\ coordState' = "ACTIVE" /\ reservation' = h
    /\ UNCHANGED waiting

(* Mutant: the reservation is given up before the trailer is written.       *)
BeginFinalizationReleases(h) ==
    /\ Holds(h)
    /\ coordState' = "IDLE" /\ reservation' = NoHandle
    /\ NotifyAll

BeginFinalization(h) ==
    /\ Holds(h)
    /\ coordState' = "FINALIZING"
    /\ UNCHANGED <<reservation, waiting>>

(* Mutants: a reservation that is not compared, the handle's state instead  *)
(* of the coordinator's.                                                    *)
CommitAnything(h) ==
    /\ coordState' = "IDLE" /\ reservation' = NoHandle
    /\ NotifyAll

CommitWriterState(h) ==
    /\ Holds(h)
    /\ coordState' = "COMMITTED" /\ reservation' = NoHandle
    /\ NotifyAll

Commit(h) ==
    /\ Holds(h)
    /\ coordState' = "IDLE" /\ reservation' = NoHandle
    /\ NotifyAll

(* fail() leaves the coordinator FAILED, from which no call brings it back. *)
Fail(h) ==
    /\ Holds(h)
    /\ coordState' = "FAILED" /\ reservation' = NoHandle
    /\ NotifyAll

(* release() by a stale reservation does nothing.                           *)
Release(h) ==
    IF Holds(h)
    THEN /\ coordState' = "IDLE" /\ reservation' = NoHandle
         /\ NotifyAll
    ELSE UNCHANGED coordinator
=============================================================================
