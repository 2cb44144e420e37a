---------------------------- MODULE ExclusiveLock ----------------------------
(***************************************************************************)
(* What the FileLock of internal/state/lock.go promises its callers: at    *)
(* most one process holds the lock, it passes from one holder to the next  *)
(* through a moment at which nobody holds it, and no holder, crashed or    *)
(* not, keeps it for ever.                                                 *)
(***************************************************************************)
CONSTANTS
    Procs,  \* the users of the lock
    None    \* "nobody"

VARIABLE holder

Init == holder = None

\* A successful Lock().
Acquire(p) == holder = None /\ holder' = p

\* Unlock(), a failed Lock() that cleans up, or the end of the process.
Release(p) == holder = p /\ holder' = None

Next == \E p \in Procs : Acquire(p) \/ Release(p)

Spec == Init /\ [][Next]_holder

Fairness == \A p \in Procs : WF_holder(Release(p))

FairSpec == Spec /\ Fairness

TypeOK == holder \in Procs \cup {None}
=============================================================================
