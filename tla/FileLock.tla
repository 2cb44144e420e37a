------------------------------ MODULE FileLock ------------------------------
(***************************************************************************)
(* The lock file protocol of src/internal/state/lock.go, one action per    *)
(* system call, run by several processes over one directory.               *)
(*                                                                         *)
(* A member of Procs is one process that uses the lock, again and again,   *)
(* one FileLock at a time; a crashed process stays dead, and its restart   *)
(* is another member of Procs.  Time is counted in ticks of five seconds:  *)
(* Lock() gives up after LockTimeout = 1 tick and a lock file is stale     *)
(* when it is older than StaleAge = 2 ticks.                               *)
(***************************************************************************)
EXTENDS Integers

CONSTANTS
    Procs,        \* processes that use the lock
    None,         \* "nobody"
    Pids,         \* process ids
    Pid,          \* os.Getpid() of each process
    StaleAge,     \* staleLockAge, in ticks
    LockTimeout,  \* the timer of Lock(), in ticks
    HoldBound,    \* ticks that a created lock file lives before its creator
                  \* is done with it; above StaleAge it bounds nothing
    IoErrors      \* may a system call fail for a reason of its own?

ASSUME ProcsAssumption == None \notin Procs /\ None \notin Pids
ASSUME PidAssumption == Pid \in [Procs -> Pids]
ASSUME TimeAssumption == /\ StaleAge \in Nat
                         /\ LockTimeout \in Nat
                         /\ HoldBound \in Nat
ASSUME IoAssumption == IoErrors \in BOOLEAN

VARIABLES
    lockFile,   \* the .lock file: who created it (ghost), its content, its age
    guardFile,  \* who created the .cleanup file, None if there is none
    pc,         \* the next system call of each process
    owner,      \* FileLock.owner of each process
    waited,     \* ticks since the timer of Lock() was started
    verdict     \* what removeStaleLock is about to return

vars == <<lockFile, guardFile, pc, owner, waited, verdict>>

-----------------------------------------------------------------------------
\* newLockOwner: "pid:counter".  The counter never repeats; two values are
\* enough to tell a token from the one the process last left on disk.
Tokens == Pids \X {1, 2}
NoToken == <<None, 0>>

LockFiles == [creator : Procs, token : Tokens \cup {NoToken}, age : 0 .. StaleAge + 1]
NoFile == [creator |-> None, token |-> NoToken, age |-> 0]

Exists == lockFile # NoFile
Stale == Exists /\ lockFile.age > StaleAge

\* Mutant: the counter is returned before it is incremented.
NewLockOwnerFromZero(p) == <<Pid[p], 0>>

NewLockOwner(p) ==
    IF lockFile.creator = p /\ lockFile.token = <<Pid[p], 1>>
      THEN <<Pid[p], 2>> ELSE <<Pid[p], 1>>

\* Steps of Lock() before the lock file is created.
LoopPcs == {"open", "stat", "guard", "guardWrite", "restat", "remove",
            "dropGuard", "wait"}
\* Steps at which the process has created the lock file and not removed it.
HoldPcs == {"write", "sync", "undo", "locked", "unlink"}
LockPcs == LoopPcs \cup {"write", "sync", "undo"}
GuardPcs == {"guardWrite", "restat", "remove", "dropGuard"}
AllPcs == LoopPcs \cup HoldPcs \cup {"idle", "closing", "dead"}

\* p created a lock file and has not finished with it.
Holds(p) ==
    \/ pc[p] \in HoldPcs
    \/ pc[p] = "closing" /\ lockFile.creator = p /\ lockFile.token = owner[p]

Holding == \E p \in Procs : lockFile.creator = p /\ Holds(p)

Goto(p, l) == pc' = [pc EXCEPT ![p] = l]

-----------------------------------------------------------------------------
TypeOK ==
    /\ lockFile \in LockFiles \cup {NoFile}
    /\ guardFile \in Procs \cup {None}
    /\ pc \in [Procs -> AllPcs]
    /\ owner \in [Procs -> Tokens]
    /\ waited \in [Procs -> 0 .. LockTimeout]
    /\ verdict \in [Procs -> {"removed", "kept", "error"}]

Init ==
    /\ lockFile = NoFile
    /\ guardFile = None
    /\ pc = [p \in Procs |-> "idle"]
    /\ owner = [p \in Procs |-> <<Pid[p], 1>>]
    /\ waited = [p \in Procs |-> 0]
    /\ verdict = [p \in Procs |-> "kept"]

-----------------------------------------------------------------------------
\* NewFileLock, then Lock(): the timer starts.
Begin(p) ==
    /\ pc[p] = "idle"
    /\ Goto(p, "open")
    /\ owner' = [owner EXCEPT ![p] = NewLockOwner(p)]
    /\ UNCHANGED <<lockFile, guardFile, waited, verdict>>

\* OpenFile(O_CREATE|O_EXCL) on the lock file.
Create(p) ==
    /\ pc[p] = "open"
    /\ ~Exists
    /\ lockFile' = [creator |-> p, token |-> NoToken, age |-> 0]
    /\ waited' = [waited EXCEPT ![p] = 0]
    /\ Goto(p, "write")
    /\ UNCHANGED <<guardFile, owner, verdict>>

CreateFails(p) ==
    /\ pc[p] = "open"
    /\ Exists \/ IoErrors
    /\ Goto(p, "stat")
    /\ UNCHANGED <<lockFile, guardFile, owner, waited, verdict>>

\* writeLockPID on the lock file: WriteString, then Sync and Close; when one of
\* them fails, whatever is at the path is removed.  The write goes through the
\* descriptor: it misses the path when the file there was replaced meanwhile.
WriteOwner(p) ==
    /\ pc[p] = "write"
    /\ lockFile' = IF lockFile.creator = p
                     THEN [lockFile EXCEPT !.token = owner[p], !.age = 0]
                     ELSE lockFile
    /\ Goto(p, "sync")
    /\ UNCHANGED <<guardFile, owner, waited, verdict>>

SyncOwner(p) ==
    /\ pc[p] = "sync"
    /\ Goto(p, "locked")
    /\ UNCHANGED <<lockFile, guardFile, owner, waited, verdict>>

WriteFails(p) ==
    /\ IoErrors
    /\ pc[p] \in {"write", "sync"}
    /\ Goto(p, "undo")
    /\ UNCHANGED <<lockFile, guardFile, owner, waited, verdict>>

UndoWrite(p) ==
    /\ pc[p] = "undo"
    /\ lockFile' \in {NoFile} \cup (IF IoErrors THEN {lockFile} ELSE {})
    /\ Goto(p, "closing")
    /\ UNCHANGED <<guardFile, owner, waited, verdict>>

-----------------------------------------------------------------------------
\* removeStaleLock.  The first Stat: a fresh lock, or none, is left alone.
StatLock(p) ==
    /\ pc[p] = "stat"
    /\ \/ Stale /\ Goto(p, "guard")
       \/ (~Stale \/ IoErrors) /\ Goto(p, "wait")
    /\ UNCHANGED <<lockFile, guardFile, owner, waited, verdict>>

\* Mutant: the .cleanup file is opened without O_EXCL.
CreateGuardShared(p) ==
    /\ pc[p] = "guard"
    /\ guardFile' = p
    /\ Goto(p, "guardWrite")
    /\ UNCHANGED <<lockFile, owner, waited, verdict>>

\* Mutant: a cleanup under way is reported as done, and Lock() tries at once.
CreateGuardSpinning(p) ==
    /\ pc[p] = "guard"
    /\ \/ guardFile = None /\ guardFile' = p /\ Goto(p, "guardWrite")
       \/ guardFile # None /\ UNCHANGED guardFile /\ Goto(p, "open")
    /\ UNCHANGED <<lockFile, owner, waited, verdict>>

\* OpenFile(O_CREATE|O_EXCL) on the .cleanup file.
CreateGuard(p) ==
    /\ pc[p] = "guard"
    /\ \/ guardFile = None /\ guardFile' = p /\ Goto(p, "guardWrite")
       \/ (guardFile # None \/ IoErrors) /\ UNCHANGED guardFile /\ Goto(p, "wait")
    /\ UNCHANGED <<lockFile, owner, waited, verdict>>

\* writeLockPID on the .cleanup file; its failure ends Lock() with an error.
WriteGuard(p) ==
    /\ pc[p] = "guardWrite"
    /\ \/ Goto(p, "restat") /\ UNCHANGED guardFile
       \/ IoErrors /\ Goto(p, "closing") /\ guardFile' \in {None, guardFile}
    /\ waited' = IF pc'[p] = "closing" THEN [waited EXCEPT ![p] = 0] ELSE waited
    /\ UNCHANGED <<lockFile, owner, verdict>>

\* Mutant: no second look at the lock file once the guard is held.
RestatLockTrusting(p) ==
    /\ pc[p] = "restat"
    /\ Goto(p, "remove")
    /\ UNCHANGED <<lockFile, guardFile, owner, waited, verdict>>

\* The second Stat, with the guard in hand.
RestatLock(p) ==
    /\ pc[p] = "restat"
    /\ \/ Stale /\ Goto(p, "remove") /\ UNCHANGED verdict
       \/ /\ ~Stale \/ IoErrors
          /\ Goto(p, "dropGuard")
          /\ \E v \in (IF Exists THEN {} ELSE {"removed"})
                        \cup (IF Exists \/ IoErrors THEN {"kept"} ELSE {}) :
               verdict' = [verdict EXCEPT ![p] = v]
    /\ UNCHANGED <<lockFile, guardFile, owner, waited>>

\* os.Remove of the lock file, whoever owns it by now.
RemoveStale(p) ==
    /\ pc[p] = "remove"
    /\ \/ lockFile' = NoFile /\ verdict' = [verdict EXCEPT ![p] = "removed"]
       \/ IoErrors /\ UNCHANGED lockFile /\ verdict' = [verdict EXCEPT ![p] = "error"]
    /\ Goto(p, "dropGuard")
    /\ UNCHANGED <<guardFile, owner, waited>>

\* Mutant: without the deferred Remove of the .cleanup file.
DropGuardLeaking(p) ==
    /\ pc[p] = "dropGuard"
    /\ Goto(p, IF verdict[p] = "removed" THEN "open" ELSE "wait")
    /\ verdict' = [verdict EXCEPT ![p] = "kept"]
    /\ UNCHANGED <<lockFile, guardFile, owner, waited>>

\* The deferred os.Remove of the .cleanup file, its error ignored; then Lock()
\* returns an error, tries again at once, or waits for the ticker.
DropGuard(p) ==
    /\ pc[p] = "dropGuard"
    /\ guardFile' \in {None} \cup (IF IoErrors THEN {guardFile} ELSE {})
    /\ Goto(p, CASE verdict[p] = "removed" -> "open"
                 [] verdict[p] = "kept"    -> "wait"
                 [] verdict[p] = "error"   -> "closing")
    /\ waited' = IF verdict[p] = "error" THEN [waited EXCEPT ![p] = 0] ELSE waited
    /\ verdict' = [verdict EXCEPT ![p] = "kept"]
    /\ UNCHANGED <<lockFile, owner>>

\* The select of Lock(): the 10 ms ticker or the timer, either when both fired.
Retry(p) ==
    /\ pc[p] = "wait"
    /\ Goto(p, "open")
    /\ UNCHANGED <<lockFile, guardFile, owner, waited, verdict>>

Timeout(p) ==
    /\ pc[p] = "wait"
    /\ waited[p] >= LockTimeout
    /\ Goto(p, "closing")
    /\ waited' = [waited EXCEPT ![p] = 0]
    /\ UNCHANGED <<lockFile, guardFile, owner, verdict>>

-----------------------------------------------------------------------------
\* The caller is done and its deferred Close() runs.  A Lock() that failed
\* reaches "closing" too: the callers defer Close() before they call Lock().
Close(p) ==
    /\ pc[p] = "locked"
    /\ Goto(p, "closing")
    /\ UNCHANGED <<lockFile, guardFile, owner, waited, verdict>>

\* Mutant: Unlock does not compare the owner.
ReadOwnerUnchecked(p) ==
    /\ pc[p] = "closing"
    /\ Goto(p, IF Exists THEN "unlink" ELSE "idle")
    /\ UNCHANGED <<lockFile, guardFile, owner, waited, verdict>>

\* Unlock reads the lock file and goes on only if the token is its own.
ReadOwner(p) ==
    /\ pc[p] = "closing"
    /\ \/ Exists /\ lockFile.token = owner[p] /\ Goto(p, "unlink")
       \/ (~Exists \/ lockFile.token # owner[p] \/ IoErrors) /\ Goto(p, "idle")
    /\ UNCHANGED <<lockFile, guardFile, owner, waited, verdict>>

\* os.Remove of the lock file, whoever owns it by now.
Unlink(p) ==
    /\ pc[p] = "unlink"
    /\ lockFile' \in {NoFile} \cup (IF IoErrors THEN {lockFile} ELSE {})
    /\ Goto(p, "idle")
    /\ UNCHANGED <<guardFile, owner, waited, verdict>>

-----------------------------------------------------------------------------
\* The process ends between two system calls; its files stay.
Crash(p) ==
    /\ pc[p] # "dead"
    /\ Goto(p, "dead")
    /\ waited' = [waited EXCEPT ![p] = 0]
    /\ verdict' = [verdict EXCEPT ![p] = "kept"]
    /\ UNCHANGED <<lockFile, guardFile, owner>>

\* Five seconds pass.  A creator is given at most HoldBound ticks.
Tick ==
    /\ Holding => lockFile.age < HoldBound \/ HoldBound > StaleAge
    /\ lockFile' = IF Exists /\ lockFile.age <= StaleAge
                     THEN [lockFile EXCEPT !.age = @ + 1] ELSE lockFile
    /\ waited' = [p \in Procs |->
                    IF pc[p] \in LoopPcs /\ waited[p] < LockTimeout
                      THEN waited[p] + 1 ELSE waited[p]]
    /\ UNCHANGED <<guardFile, pc, owner, verdict>>

\* What p does next of its own accord once it has called Lock().
Step(p) ==
    \/ Create(p) \/ CreateFails(p)
    \/ WriteOwner(p) \/ SyncOwner(p) \/ WriteFails(p) \/ UndoWrite(p)
    \/ StatLock(p) \/ CreateGuard(p) \/ WriteGuard(p)
    \/ RestatLock(p) \/ RemoveStale(p) \/ DropGuard(p)
    \/ Retry(p) \/ Timeout(p)
    \/ Close(p) \/ ReadOwner(p) \/ Unlink(p)

Next == Tick \/ \E p \in Procs : Begin(p) \/ Step(p) \/ Crash(p)

Spec == Init /\ [][Next]_vars

\* A running process takes its next step, time passes, and a timer that has
\* fired is noticed by select, which picks a ready case at random.
Fairness ==
    /\ WF_vars(Tick)
    /\ \A p \in Procs : WF_vars(Step(p)) /\ SF_vars(Timeout(p))

FairSpec == Spec /\ Fairness

-----------------------------------------------------------------------------
\* "FileLock represents an exclusive file lock": two processes are never both
\* between a successful Lock() and the call of Close().
MutualExclusion ==
    \A p, q \in Procs : pc[p] = "locked" /\ pc[q] = "locked" => p = q

\* While a process is anywhere between creating the lock file and removing it,
\* no other process removes or replaces that file: neither a cleaner of stale
\* locks, nor the unconditional Remove of a failed write, nor the deferred
\* Close() of a process whose Lock() failed.
HeldFileStays ==
    [][\A p \in Procs :
         lockFile.creator = p /\ Holds(p) /\ pc'[p] = pc[p]
           => lockFile'.creator = p]_vars

\* Two processes never clean up at once: a process past the .cleanup file's
\* creation owns that file, and the lock file it found stale is still the one
\* at the path when it removes it.
CleanerSeesStale ==
    \A p \in Procs : pc[p] = "remove" => Stale /\ guardFile = p

\* Lock() returns, with the lock or with an error, or its process ends.
LockReturns ==
    \A p \in Procs : pc[p] \in LockPcs ~> pc[p] \notin LockPcs

\* A lock file older than ten seconds is removed: it does not stay while a
\* process keeps calling Lock().  (lock_test.go says so without a condition.)
StaleLockRemoved ==
    \A p \in Procs : []<>(pc[p] = "stat") => []<>~Stale

\* What the code does guarantee: a stale lock file stays only when a cleaner
\* died and left its .cleanup file behind, which nothing ever removes.
StaleLockRemovedUnlessCleanerDied ==
    \A p \in Procs :
      []<>(pc[p] = "stat")
        => []<>(~Stale \/ \E q \in Procs : guardFile = q /\ pc[q] = "dead")

\* The abstract lock is held by a process from the creation of its lock file
\* until it is done with it, whatever became of the file in between.
Holder == IF \E p \in Procs : Holds(p) THEN CHOOSE p \in Procs : Holds(p)
                                       ELSE None

Abstract == INSTANCE ExclusiveLock WITH holder <- Holder

\* Every behaviour is one of an exclusive lock: the lock passes from holder to
\* holder through a moment at which it is free, and every holder releases it.
ImplementsExclusiveLock == Abstract!FairSpec
=============================================================================
