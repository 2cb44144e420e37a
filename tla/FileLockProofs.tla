--------------------------- MODULE FileLockProofs ---------------------------
(***************************************************************************)
(* Proofs about FileLock, for every set of processes and every age limit.  *)
(* They need what the passing runs of TLC need: every process has lock     *)
(* tokens of its own, and a creator is done with its lock file before the  *)
(* file counts as stale.                                                   *)
(***************************************************************************)
EXTENDS FileLock, TLAPS

Disciplined ==
    /\ \A p, q \in Procs : Pid[p] = Pid[q] => p = q
    /\ HoldBound <= StaleAge

\* A process that has created the lock file finds it at the path, ...
HolderOwnsFile == \A p \in Procs : pc[p] \in HoldPcs => lockFile.creator = p

\* ... with its own token once that is written, ...
TokenWritten ==
    \A p \in Procs : pc[p] \in {"sync", "locked", "unlink"} => lockFile.token = owner[p]

\* ... and is done with it before it is stale.
HeldIsFresh ==
    \A p \in Procs : lockFile.creator = p /\ Holds(p) => lockFile.age <= HoldBound

\* Only the cleaner that made the .cleanup file works under it.
GuardIsExclusive == \A p \in Procs : pc[p] \in GuardPcs => guardFile = p

\* A process that is trying to lock carries a token that is not on disk.
TokenIsNew ==
    \A p \in Procs :
      lockFile.creator = p /\ pc[p] \in LoopPcs => lockFile.token # owner[p]

\* A token tells who wrote it.
TokenNamesCreator ==
    /\ \A p \in Procs : owner[p][1] = Pid[p]
    /\ lockFile.token # NoToken =>
         lockFile.creator \in Procs /\ lockFile.token[1] = Pid[lockFile.creator]

Inv ==
    /\ TypeOK
    /\ HolderOwnsFile
    /\ TokenWritten
    /\ HeldIsFresh
    /\ GuardIsExclusive
    /\ CleanerSeesStale
    /\ TokenIsNew
    /\ TokenNamesCreator

-----------------------------------------------------------------------------
\* What a lock owner and a lock file look like.
LEMMA TokenFacts ==
    /\ \A t \in Tokens : t # NoToken
    /\ \A p \in Procs, n \in {1, 2} : <<Pid[p], n>> \in Tokens
    /\ NoFile \notin LockFiles
BY ProcsAssumption, PidAssumption DEF Tokens, NoToken, NoFile, LockFiles

\* A new token is its process's, and is not the one that it left on disk.
LEMMA NewLockOwnerFacts ==
    ASSUME NEW p \in Procs
    PROVE  /\ NewLockOwner(p) \in Tokens
           /\ NewLockOwner(p)[1] = Pid[p]
           /\ lockFile.creator = p => lockFile.token # NewLockOwner(p)
BY TokenFacts DEF NewLockOwner

\* Every variable keeps its type.
LEMMA TypeStep == TypeOK /\ [Next]_vars => TypeOK'
<1> SUFFICES ASSUME TypeOK, [Next]_vars PROVE TypeOK'
  OBVIOUS
<1> USE DEF TypeOK, AllPcs, LoopPcs, HoldPcs, Goto
<1>1. CASE Tick
  BY <1>1, TimeAssumption, TokenFacts DEF Tick, Exists, LockFiles, NoFile
<1>2. ASSUME NEW p \in Procs, Begin(p) \/ Crash(p) PROVE TypeOK'
  BY <1>2, NewLockOwnerFacts, TimeAssumption DEF Begin, Crash
<1>3. ASSUME NEW p \in Procs, Step(p) PROVE TypeOK'
  <2>1. CASE Create(p)
    BY <2>1, TimeAssumption DEF Create, LockFiles
  <2>2. CASE WriteOwner(p)
    <3>1. lockFile' \in LockFiles \cup {NoFile}
      <4>1. CASE lockFile.creator = p
        <5>1. lockFile \in LockFiles
          BY <4>1, ProcsAssumption DEF NoFile
        <5>2. owner[p] \in Tokens /\ 0 \in 0 .. StaleAge + 1
          BY TimeAssumption
        <5>3. lockFile' = [lockFile EXCEPT !.token = owner[p], !.age = 0]
          BY <2>2, <4>1 DEF WriteOwner
        <5> HIDE DEF TypeOK
        <5> QED BY <5>1, <5>2, <5>3 DEF LockFiles
      <4>2. CASE lockFile.creator # p
        BY <2>2, <4>2 DEF WriteOwner
      <4> QED BY <4>1, <4>2
    <3> QED BY <2>2, <3>1 DEF WriteOwner
  <2>3. CASE CreateFails(p) \/ SyncOwner(p) \/ WriteFails(p) \/ UndoWrite(p)
    BY <2>3 DEF CreateFails, SyncOwner, WriteFails, UndoWrite
  <2>4. CASE StatLock(p) \/ CreateGuard(p)
    BY <2>4 DEF StatLock, CreateGuard
  <2>5. CASE WriteGuard(p)
    BY <2>5, TimeAssumption DEF WriteGuard
  <2>6. CASE RestatLock(p) \/ RemoveStale(p)
    BY <2>6 DEF RestatLock, RemoveStale
  <2>7. CASE DropGuard(p)
    BY <2>7, TimeAssumption DEF DropGuard
  <2>8. CASE Retry(p) \/ Timeout(p)
    BY <2>8, TimeAssumption DEF Retry, Timeout
  <2>9. CASE Close(p) \/ ReadOwner(p) \/ Unlink(p)
    BY <2>9 DEF Close, ReadOwner, Unlink
  <2> QED BY <1>3, <2>1, <2>2, <2>3, <2>4, <2>5, <2>6, <2>7, <2>8, <2>9 DEF Step
<1>4. CASE UNCHANGED vars
  BY <1>4 DEF vars
<1> QED BY <1>1, <1>2, <1>3, <1>4 DEF Next

\* The variables start in their types.
LEMMA TypeInit == Init => TypeOK
<1> SUFFICES ASSUME Init PROVE TypeOK
  OBVIOUS
<1>1. owner \in [Procs -> Tokens]
  <2>1. \A p \in Procs : <<Pid[p], 1>> \in Tokens
    BY TokenFacts
  <2> QED BY <2>1 DEF Init
<1> QED BY <1>1, TimeAssumption DEF Init, TypeOK, AllPcs

\* The variables keep their types, whatever fails and whoever shares a pid.
THEOREM TypeCorrect == Spec => []TypeOK
BY TypeInit, TypeStep, PTL DEF Spec

-----------------------------------------------------------------------------
\* While somebody holds the lock, its file is there and is not stale.
LEMMA HeldNotStale ==
    ASSUME Inv, Disciplined, NEW p \in Procs, lockFile.creator = p, Holds(p)
    PROVE  ~Stale
BY TimeAssumption DEF Inv, Disciplined, HeldIsFresh, TypeOK, LockFiles, NoFile, Stale

\* The holder is unique.
LEMMA OneHolder ==
    ASSUME Inv, NEW p \in Procs, NEW q \in Procs, Holds(p), Holds(q)
    PROVE  p = q
BY DEF Inv, HolderOwnsFile, Holds

\* A process reads its own token only from a file that it created.
LEMMA OwnTokenOwnFile ==
    ASSUME Inv, Disciplined, NEW p \in Procs, Exists, lockFile.token = owner[p]
    PROVE  lockFile.creator = p
<1>1. owner[p] \in Tokens
  BY DEF Inv, TypeOK
<1>2. lockFile.token # NoToken
  BY <1>1, TokenFacts
<1> QED BY <1>2 DEF Inv, TokenNamesCreator, Disciplined

\* The parts of the invariant, for every kind of step.
LEMMA InvStep ==
    ASSUME Inv, [Next]_vars, Disciplined
    PROVE  Inv'
<1>0. TypeOK /\ TypeOK'
  BY TypeStep DEF Inv
<1> USE DEF LoopPcs, HoldPcs, GuardPcs, Goto
<1>1. CASE Tick
  <2>1. lockFile'.creator = lockFile.creator /\ lockFile'.token = lockFile.token
    BY <1>1, <1>0 DEF Tick, TypeOK, LockFiles, NoFile
  <2>2. UNCHANGED <<pc, owner, guardFile>>
    BY <1>1 DEF Tick
  <2>3. Stale => Stale'
    BY <1>1, <1>0, <2>1, TimeAssumption DEF Tick, TypeOK, LockFiles, NoFile, Stale, Exists
  <2>4. HeldIsFresh'
    <3> SUFFICES ASSUME NEW p \in Procs, lockFile.creator = p, Holds(p)
                 PROVE  lockFile'.age <= HoldBound
      BY <2>1, <2>2 DEF HeldIsFresh, Holds
    <3>1. lockFile.age < HoldBound
      BY <1>1, TimeAssumption DEF Tick, Holding, Disciplined
    <3>2. lockFile'.age \in {lockFile.age, lockFile.age + 1} /\ lockFile.age \in Nat
      BY <1>1, <1>0, TimeAssumption DEF Tick, TypeOK, LockFiles, NoFile
    <3> QED BY <3>1, <3>2, TimeAssumption
  <2> QED
    BY <1>0, <2>1, <2>2, <2>3, <2>4 DEF Inv, HolderOwnsFile, TokenWritten,
       GuardIsExclusive, CleanerSeesStale, TokenIsNew, TokenNamesCreator
<1>2. ASSUME NEW p \in Procs, Begin(p) PROVE Inv'
  <2>1. UNCHANGED <<lockFile, guardFile>>
    BY <1>2 DEF Begin
  <2>2. /\ pc[p] = "idle" /\ pc' = [pc EXCEPT ![p] = "open"]
        /\ owner' = [owner EXCEPT ![p] = NewLockOwner(p)]
    BY <1>2 DEF Begin
  <2> QED
    BY <1>0, <2>1, <2>2, NewLockOwnerFacts DEF Inv, TypeOK, HolderOwnsFile, TokenWritten,
       HeldIsFresh, GuardIsExclusive, CleanerSeesStale, TokenIsNew,
       TokenNamesCreator, Holds, Stale, Exists
<1>3. ASSUME NEW p \in Procs, Crash(p) PROVE Inv'
  BY <1>3, <1>0 DEF Crash, Inv, TypeOK, HolderOwnsFile, TokenWritten, HeldIsFresh,
     GuardIsExclusive, CleanerSeesStale, TokenIsNew, TokenNamesCreator, Holds, Stale, Exists
<1>4. ASSUME NEW p \in Procs, Step(p) PROVE Inv'
  <2>1. CASE Create(p)
    <3>1. lockFile = NoFile /\ lockFile' = [creator |-> p, token |-> NoToken, age |-> 0]
      BY <2>1 DEF Create, Exists
    <3>2. \A q \in Procs : pc[q] \notin HoldPcs /\ pc[q] # "remove"
      BY <3>1, ProcsAssumption DEF Inv, HolderOwnsFile, NoFile, CleanerSeesStale, Stale, Exists
    <3>3. NoToken # owner[p]
      BY <1>0, TokenFacts DEF TypeOK
    <3>4. /\ pc[p] = "open" /\ pc' = [pc EXCEPT ![p] = "write"]
          /\ UNCHANGED <<guardFile, owner>>
      BY <2>1 DEF Create
    <3> QED
      BY <1>0, <3>1, <3>2, <3>3, <3>4, TimeAssumption DEF Inv, TypeOK, HolderOwnsFile, TokenWritten,
         HeldIsFresh, GuardIsExclusive, CleanerSeesStale, TokenIsNew,
         TokenNamesCreator, Holds
  <2>2. CASE WriteOwner(p)
    <3>1. lockFile.creator = p /\ Holds(p)
      BY <2>2 DEF WriteOwner, Inv, HolderOwnsFile, Holds
    <3>2. \A q \in Procs : pc[q] # "remove"
      BY <3>1, HeldNotStale DEF Inv, CleanerSeesStale
    <3>3. lockFile' = [lockFile EXCEPT !.token = owner[p], !.age = 0]
      BY <2>2, <3>1 DEF WriteOwner
    <3>4. lockFile'.creator = p /\ lockFile'.token = owner[p] /\ lockFile'.age = 0
      BY <1>0, <3>1, <3>3 DEF TypeOK, LockFiles, NoFile
    <3>5. /\ pc[p] = "write" /\ pc' = [pc EXCEPT ![p] = "sync"]
          /\ UNCHANGED <<guardFile, owner>>
      BY <2>2 DEF WriteOwner
    <3> QED
      BY <1>0, <3>1, <3>2, <3>4, <3>5, TimeAssumption DEF Inv, TypeOK, HolderOwnsFile, TokenWritten,
         HeldIsFresh, GuardIsExclusive, CleanerSeesStale, TokenIsNew,
         TokenNamesCreator, Holds
  <2>3. CASE UndoWrite(p) \/ Unlink(p)
    <3>1. lockFile.creator = p /\ Holds(p)
      BY <2>3 DEF UndoWrite, Unlink, Inv, HolderOwnsFile, Holds
    <3>2. \A q \in Procs : pc[q] # "remove"
      BY <3>1, HeldNotStale DEF Inv, CleanerSeesStale
    <3>3. lockFile' \in {NoFile, lockFile} /\ UNCHANGED <<guardFile, owner>>
      BY <2>3 DEF UndoWrite, Unlink
    <3>4. \/ pc[p] = "undo" /\ pc' = [pc EXCEPT ![p] = "closing"]
          \/ pc[p] = "unlink" /\ pc' = [pc EXCEPT ![p] = "idle"]
      BY <2>3 DEF UndoWrite, Unlink
    <3> QED
      BY <1>0, <3>1, <3>2, <3>3, <3>4, ProcsAssumption DEF Inv, TypeOK, HolderOwnsFile, TokenWritten,
         HeldIsFresh, GuardIsExclusive, CleanerSeesStale, TokenIsNew,
         TokenNamesCreator, Holds, NoFile
  <2>4. CASE RemoveStale(p)
    <3>1. Stale /\ guardFile = p
      BY <2>4 DEF RemoveStale, Inv, CleanerSeesStale
    <3>2. \A q \in Procs : pc[q] \notin HoldPcs
      BY <3>1, HeldNotStale DEF Inv, HolderOwnsFile, Holds
    <3>3. \A q \in Procs : q # p => pc[q] # "remove"
      BY <3>1 DEF Inv, CleanerSeesStale
    <3>4. /\ pc[p] = "remove" /\ pc' = [pc EXCEPT ![p] = "dropGuard"]
          /\ UNCHANGED <<guardFile, owner>> /\ lockFile' \in {NoFile, lockFile}
      BY <2>4 DEF RemoveStale
    <3> QED
      BY <1>0, <3>1, <3>2, <3>3, <3>4, ProcsAssumption DEF Inv, TypeOK, HolderOwnsFile, TokenWritten,
         HeldIsFresh, GuardIsExclusive, CleanerSeesStale, TokenIsNew,
         TokenNamesCreator, Holds, NoFile
  <2>5. CASE CreateGuard(p) \/ WriteGuard(p) \/ DropGuard(p)
    <3>1. UNCHANGED <<lockFile, owner>>
      BY <2>5 DEF CreateGuard, WriteGuard, DropGuard
    <3>2. \/ pc[p] = "guard" /\ guardFile = None /\ guardFile' = p
             /\ pc' = [pc EXCEPT ![p] = "guardWrite"]
          \/ pc[p] = "guard" /\ guardFile' = guardFile /\ pc' = [pc EXCEPT ![p] = "wait"]
          \/ /\ pc[p] = "guardWrite" /\ guardFile' = guardFile
             /\ pc' = [pc EXCEPT ![p] = "restat"]
          \/ /\ pc[p] \in {"guardWrite", "dropGuard"}
             /\ \E l \in {"open", "wait", "closing"} : pc' = [pc EXCEPT ![p] = l]
      BY <2>5, <1>0 DEF CreateGuard, WriteGuard, DropGuard, TypeOK
    <3>3. \A q \in Procs : q # p /\ pc[q] \in GuardPcs => guardFile' = guardFile
      <4> SUFFICES ASSUME NEW q \in Procs, q # p, pc[q] \in GuardPcs
                   PROVE  guardFile' = guardFile
        OBVIOUS
      <4>1. guardFile = q
        BY DEF Inv, GuardIsExclusive
      <4>2. pc[p] \notin GuardPcs
        BY <4>1 DEF Inv, GuardIsExclusive
      <4> QED BY <3>2, <4>1, <4>2, ProcsAssumption
    <3> QED
      BY <1>0, <3>1, <3>2, <3>3 DEF Inv, TypeOK, HolderOwnsFile, TokenWritten,
         HeldIsFresh, GuardIsExclusive, CleanerSeesStale, TokenIsNew,
         TokenNamesCreator, Holds, Stale, Exists
  <2>6. CASE ReadOwner(p)
    <3>1. UNCHANGED <<lockFile, guardFile, owner>>
      BY <2>6 DEF ReadOwner
    <3>2. CASE pc' = [pc EXCEPT ![p] = "unlink"]
      <4>1. pc[p] = "closing" /\ Exists /\ lockFile.token = owner[p]
        BY <2>6, <3>2, <1>0 DEF ReadOwner, TypeOK
      <4>2. lockFile.creator = p
        BY <4>1, OwnTokenOwnFile
      <4> QED
        BY <1>0, <3>1, <3>2, <4>1, <4>2 DEF Inv, TypeOK, HolderOwnsFile, TokenWritten,
           HeldIsFresh, GuardIsExclusive, CleanerSeesStale, TokenIsNew,
           TokenNamesCreator, Holds, Stale, Exists
    <3>3. CASE pc' = [pc EXCEPT ![p] = "idle"]
      BY <1>0, <3>1, <3>3 DEF Inv, TypeOK, HolderOwnsFile, TokenWritten,
         HeldIsFresh, GuardIsExclusive, CleanerSeesStale, TokenIsNew,
         TokenNamesCreator, Holds, Stale, Exists
    <3> QED BY <2>6, <3>2, <3>3 DEF ReadOwner
  <2>7. CASE \/ CreateFails(p) \/ SyncOwner(p) \/ WriteFails(p) \/ Close(p)
             \/ StatLock(p) \/ RestatLock(p) \/ Retry(p) \/ Timeout(p)
    <3>1. UNCHANGED <<lockFile, guardFile, owner>>
      BY <2>7 DEF CreateFails, SyncOwner, WriteFails, Close, StatLock, RestatLock, Retry, Timeout
    <3>2. \E l \in AllPcs :
            /\ pc' = [pc EXCEPT ![p] = l]
            /\ l \in HoldPcs => pc[p] \in HoldPcs
            /\ l \in {"sync", "locked", "unlink"} => pc[p] = "sync"
            /\ l \in GuardPcs => pc[p] \in GuardPcs
            /\ l = "remove" => Stale
            /\ l \in LoopPcs => pc[p] \in LoopPcs
            /\ l = "closing" => pc[p] = "locked" \/ pc[p] \in LoopPcs
      BY <2>7 DEF CreateFails, SyncOwner, WriteFails, Close, StatLock, RestatLock, Retry,
                  Timeout, AllPcs
    <3> QED
      BY <1>0, <3>1, <3>2 DEF Inv, TypeOK, HolderOwnsFile, TokenWritten,
         HeldIsFresh, GuardIsExclusive, CleanerSeesStale, TokenIsNew,
         TokenNamesCreator, Holds, Stale, Exists
  <2> QED BY <1>4, <2>1, <2>2, <2>3, <2>4, <2>5, <2>6, <2>7 DEF Step
<1>5. CASE UNCHANGED vars
  BY <1>5 DEF vars, Inv, TypeOK, HolderOwnsFile, TokenWritten, HeldIsFresh,
     GuardIsExclusive, CleanerSeesStale, TokenIsNew, TokenNamesCreator, Holds, Stale, Exists
<1> QED BY <1>1, <1>2, <1>3, <1>4, <1>5 DEF Next

\* The invariant holds at the start.
LEMMA InvInit == Init => Inv
<1> SUFFICES ASSUME Init PROVE Inv
  OBVIOUS
<1>1. TypeOK
  BY TypeInit
<1>2. \A p \in Procs : owner[p][1] = Pid[p] /\ pc[p] = "idle"
  BY DEF Init
<1> QED
  BY <1>1, <1>2, ProcsAssumption DEF Init, Inv, HolderOwnsFile, TokenWritten, HeldIsFresh,
     GuardIsExclusive, CleanerSeesStale, TokenIsNew, TokenNamesCreator, Holds, NoFile,
     HoldPcs, GuardPcs, LoopPcs

\* The inductive invariant holds in every reachable state.
THEOREM Invariant ==
    ASSUME Disciplined
    PROVE  Spec => []Inv
BY InvInit, InvStep, PTL DEF Spec

\* Two processes are never both inside the critical sections that Lock() and
\* Close() delimit, however many processes crash, time out or fail half way.
THEOREM MutexCorrect ==
    ASSUME Disciplined
    PROVE  Spec => []MutualExclusion
<1>1. Inv => MutualExclusion
  BY DEF Inv, MutualExclusion, HolderOwnsFile, HoldPcs
<1> QED BY <1>1, Invariant, PTL

\* A cleaner removes the very lock file that it found stale under the guard.
THEOREM CleanerCorrect ==
    ASSUME Disciplined
    PROVE  Spec => []CleanerSeesStale
<1>1. Inv => CleanerSeesStale
  BY DEF Inv
<1> QED BY <1>1, Invariant, PTL

\* Nobody but its creator takes a lock file away while the creator needs it.
THEOREM HeldFileCorrect ==
    ASSUME Disciplined
    PROVE  Spec => HeldFileStays
<1> DEFINE Stays == \A p \in Procs :
                      lockFile.creator = p /\ Holds(p) /\ pc'[p] = pc[p]
                        => lockFile'.creator = p
<1>1. ASSUME Inv, [Next]_vars PROVE Stays
  <2> SUFFICES ASSUME NEW p \in Procs, lockFile.creator = p, Holds(p), pc'[p] = pc[p]
               PROVE  lockFile'.creator = p
    OBVIOUS
  <2>0. TypeOK /\ lockFile \in LockFiles
    BY <1>1, ProcsAssumption DEF Inv, TypeOK, NoFile
  <2>1. CASE Tick
    BY <2>0, <2>1 DEF Tick, LockFiles
  <2>2. ASSUME NEW q \in Procs, Create(q) \/ RemoveStale(q) PROVE FALSE
    <3>1. CASE Create(q)
      BY <2>0, <3>1, TokenFacts DEF Create, Exists
    <3>2. CASE RemoveStale(q)
      BY <1>1, <3>2, HeldNotStale DEF RemoveStale, Inv, CleanerSeesStale
    <3> QED BY <2>2, <3>1, <3>2
  <2>3. ASSUME NEW q \in Procs, UndoWrite(q) \/ Unlink(q) PROVE FALSE
    <3>1. Holds(q) /\ pc'[q] # pc[q]
      BY <2>0, <2>3 DEF UndoWrite, Unlink, Holds, HoldPcs, Goto, TypeOK
    <3>2. p = q
      BY <1>1, <3>1, OneHolder
    <3> QED BY <3>1, <3>2
  <2>4. ASSUME NEW q \in Procs, WriteOwner(q) PROVE lockFile'.creator = p
    BY <2>0, <2>4 DEF WriteOwner, LockFiles
  <2>5. CASE UNCHANGED lockFile
    BY <2>5
  <2>6. ASSUME NEW q \in Procs, Step(q), lockFile' # lockFile
        PROVE  \/ Create(q) \/ RemoveStale(q) \/ UndoWrite(q) \/ Unlink(q) \/ WriteOwner(q)
    BY <2>6 DEF Step, CreateFails, SyncOwner, WriteFails, StatLock, CreateGuard, WriteGuard,
       RestatLock, DropGuard, Retry, Timeout, Close, ReadOwner
  <2>7. ASSUME NEW q \in Procs, Begin(q) \/ Crash(q) PROVE UNCHANGED lockFile
    BY <2>7 DEF Begin, Crash
  <2> QED
    BY <1>1, <2>1, <2>2, <2>3, <2>4, <2>5, <2>6, <2>7 DEF Next, vars
<1>2. Spec => [][Stays]_vars
  BY <1>1, Invariant, PTL DEF Spec
<1> QED BY <1>2 DEF HeldFileStays

-----------------------------------------------------------------------------
\* FileLock implements the safety part of ExclusiveLock.
LEMMA HolderFacts ==
    ASSUME Inv
    PROVE  /\ \A p \in Procs : Holds(p) => Holder = p
           /\ (\A p \in Procs : ~Holds(p)) => Holder = None
BY OneHolder DEF Holder

\* A step of p does not change whether another process holds the lock.
LEMMA OthersKeepHolding ==
    ASSUME Inv, Disciplined, NEW p \in Procs, Begin(p) \/ Step(p) \/ Crash(p),
           NEW q \in Procs, q # p
    PROVE  Holds(q)' <=> Holds(q)
<1>1. pc'[q] = pc[q] /\ owner'[q] = owner[q]
  BY DEF Inv, TypeOK, Begin, Crash, Step, Goto, Create, CreateFails, WriteOwner, SyncOwner,
     WriteFails, UndoWrite, StatLock, CreateGuard, WriteGuard, RestatLock, RemoveStale,
     DropGuard, Retry, Timeout, Close, ReadOwner, Unlink
<1>2. CASE UNCHANGED lockFile
  BY <1>1, <1>2 DEF Holds
<1>3. CASE Create(p)
  BY <1>1, <1>3, ProcsAssumption DEF Create, Exists, NoFile, Holds
<1>4. CASE RemoveStale(p)
  <2>1. Stale
    BY <1>4 DEF RemoveStale, Inv, CleanerSeesStale
  <2>2. lockFile.creator = q => ~Holds(q)
    BY <2>1, HeldNotStale
  <2> QED BY <1>1, <1>4, <2>2, ProcsAssumption DEF RemoveStale, NoFile, Holds
<1>5. CASE UndoWrite(p) \/ Unlink(p) \/ WriteOwner(p)
  <2>1. lockFile.creator = p
    BY <1>5 DEF UndoWrite, Unlink, WriteOwner, Inv, HolderOwnsFile, HoldPcs
  <2>2. lockFile \in LockFiles
    BY <2>1, ProcsAssumption DEF Inv, TypeOK, NoFile
  <2>3. lockFile'.creator \in {p, None}
    <3>1. CASE UndoWrite(p) \/ Unlink(p)
      <4>1. lockFile' \in {NoFile, lockFile}
        BY <3>1 DEF UndoWrite, Unlink
      <4> QED BY <2>1, <4>1 DEF NoFile
    <3>2. CASE WriteOwner(p)
      BY <2>1, <2>2, <3>2 DEF WriteOwner, LockFiles
    <3> QED BY <1>5, <3>1, <3>2
  <2> QED BY <1>1, <2>1, <2>3, ProcsAssumption DEF Holds
<1> QED
  BY <1>2, <1>3, <1>4, <1>5 DEF Begin, Crash, Step, CreateFails, SyncOwner,
     WriteFails, StatLock, CreateGuard, WriteGuard, RestatLock,
     DropGuard, Retry, Timeout, Close, ReadOwner

\* Every step of FileLock is a step of the exclusive lock or leaves it alone.
LEMMA StepRefines ==
    ASSUME Inv, Inv', [Next]_vars, Disciplined
    PROVE  [Abstract!Next]_Holder
<1>1. \A p \in Procs : Holds(p)' => Holder' = p
  BY DEF Holder, Inv, HolderOwnsFile, Holds
<1>2. (\A p \in Procs : ~Holds(p)') => Holder' = None
  BY DEF Holder
<1>3. ASSUME \A p \in Procs : Holds(p)' <=> Holds(p) PROVE Holder' = Holder
  BY <1>1, <1>2, <1>3, HolderFacts
<1>4. CASE Tick \/ UNCHANGED vars
  <2>1. UNCHANGED <<pc, owner>> /\ lockFile'.creator = lockFile.creator
           /\ lockFile'.token = lockFile.token
    BY <1>4 DEF Tick, vars, Inv, TypeOK, LockFiles, NoFile
  <2>2. \A p \in Procs : Holds(p)' <=> Holds(p)
    BY <2>1 DEF Holds
  <2> QED BY <1>3, <2>2
<1>5. ASSUME NEW p \in Procs, Begin(p) \/ Step(p) \/ Crash(p)
      PROVE  [Abstract!Next]_Holder
  <2>1. \A q \in Procs : q # p => (Holds(q)' <=> Holds(q))
    BY <1>5, OthersKeepHolding
  <2>2. CASE Holds(p)' <=> Holds(p)
    BY <1>3, <2>1, <2>2
  <2>3. CASE Holds(p)' /\ ~Holds(p)
    <3>1. \A q \in Procs : ~Holds(q)
      BY <1>1, <2>1, <2>3
    <3>2. Abstract!Acquire(p)
      BY <1>1, <2>3, <3>1, HolderFacts DEF Abstract!Acquire
    <3> QED BY <3>2 DEF Abstract!Next
  <2>4. CASE Holds(p) /\ ~Holds(p)'
    <3>1. \A q \in Procs : ~Holds(q)'
      BY <2>1, <2>4, OneHolder
    <3>2. Abstract!Release(p)
      BY <1>2, <2>4, <3>1, HolderFacts DEF Abstract!Release
    <3> QED BY <3>2 DEF Abstract!Next
  <2> QED BY <2>2, <2>3, <2>4
<1> QED BY <1>4, <1>5 DEF Next

\* The lock file protocol is an exclusive lock (without the fairness part,
\* which only TLC checks).
THEOREM Refinement ==
    ASSUME Disciplined
    PROVE  Spec => Abstract!Spec
<1>1. Init => Abstract!Init
  BY DEF Init, Abstract!Init, Holder, Holds, HoldPcs
<1> QED BY <1>1, Invariant, StepRefines, PTL DEF Spec, Abstract!Spec
=============================================================================
