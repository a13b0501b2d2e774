------------------------------ MODULE MCSync ------------------------------
(***************************************************************************)
(* The locks, conditions and semaphores, one instance of each component.   *)
(* The components never meet: a behaviour is a behaviour of the one that   *)
(* part names, and the others stay in their initial state.  ConnHead,      *)
(* RwLock, LinuxSync, AppleSync and Semaphore are extended, so that the    *)
(* run checks the very invariants that SyncProof, LinuxProof and           *)
(* AppleProof prove.                                                       *)
(***************************************************************************)
EXTENDS ConnHead, RwLock, LinuxSync, AppleSync, Semaphore

VARIABLES
  part,
  mtx, lock, sem, blocked, counter, wn_pred, wn_dead, wn_lapse, stolen, wn_p,
  px_mtx, px_sleepers, px_pred, px_dead, px_lapse, stranded, px_p

\* Threads 1 and 2 are of one process, 3 of another.
TwoProcesses == <<"p1", "p1", "p2">>

Windows == INSTANCE WindowsSync WITH
  Threads <- {"a", "b", "c"}, CanWait <- {"a", "b"}, CanWake <- {"c"},
  MaxOps <- 2, MayDie <- {"c"}, pred <- wn_pred, dead <- wn_dead,
  lapse <- wn_lapse, p <- wn_p
Posix == INSTANCE PosixSync WITH
  Threads <- {"a", "b", "c"}, CanWait <- {"a", "b"}, CanWake <- {"b", "c"},
  CanTry <- {"b"}, MaxOps <- 2, MayDie <- {"b", "c"},
  mtx <- px_mtx, sleepers <- px_sleepers, pred <- px_pred, dead <- px_dead,
  lapse <- px_lapse, p <- px_p

Init == /\ part \in {"linux", "apple", "windows", "posix", "sema", "head", "rw"}
        /\ LxInit /\ ApInit /\ Windows!Init /\ Posix!Init /\ SmInit
        /\ HeadInit /\ RwInit
        /\ sm_backend = "apple" \/ part = "sema"

wn == <<mtx, lock, sem, blocked, counter, wn_pred, wn_dead, wn_lapse, stolen, wn_p>>
px == <<px_mtx, px_sleepers, px_pred, px_dead, px_lapse, stranded, px_p>>
vars == <<part, lx_vars, ap_vars, wn, px, sm_vars, head_vars, rw_vars>>

Next == \/ part = "linux" /\ LxNext /\ UNCHANGED <<part, ap_vars, wn, px, sm_vars, head_vars, rw_vars>>
        \/ part = "apple" /\ ApNext /\ UNCHANGED <<part, lx_vars, wn, px, sm_vars, head_vars, rw_vars>>
        \/ part = "windows" /\ Windows!Next /\ UNCHANGED <<part, lx_vars, ap_vars, px, sm_vars, head_vars, rw_vars>>
        \/ part = "posix" /\ Posix!Next /\ UNCHANGED <<part, lx_vars, ap_vars, wn, sm_vars, head_vars, rw_vars>>
        \/ part = "sema" /\ SmNext /\ UNCHANGED <<part, lx_vars, ap_vars, wn, px, head_vars, rw_vars>>
        \/ part = "head" /\ HeadNext /\ UNCHANGED <<part, lx_vars, ap_vars, wn, px, sm_vars, rw_vars>>
        \/ part = "rw" /\ RwNext /\ UNCHANGED <<part, lx_vars, ap_vars, wn, px, sm_vars, head_vars>>

Spec == Init /\ [][Next]_vars

-----------------------------------------------------------------------------
\* IpcMutex and Waiter on Windows and on the other POSIX systems.  A thread
\* past its lock and before its release is the one owner, after a wait that
\* timed out and a lock that was abandoned too; and nobody sleeps on with its
\* predicate changed and no waker on the way, unless a waker was killed or woke
\* one of several, or, on Windows, a later waiter took the sleeper's token.  The
\* tokens and the count on Windows always cover every waiter.
WaitersSound == /\ part = "windows" => /\ Windows!WinOwner /\ Windows!TokensCover
                                       /\ Windows!WinNoLostWakeup
                /\ part = "posix" => Posix!PxOwned /\ Posix!PxNoLostWakeup
=============================================================================
