--------------------------- MODULE StateStoreProofs ---------------------------
(***************************************************************************)
(* Proofs about StateStore, for every set of instances and keys and every  *)
(* lifetime, with instances that overlap, and with every failure unless a  *)
(* theorem excludes it.                                                    *)
(***************************************************************************)
EXTENDS StateStore, TLAPS

\* markStateSaved never gets ahead of the counter, and a save that is under way
\* will not set it back.
CountsAreOrdered ==
    \A i \in Instances :
      /\ saved[i] <= dirty[i]
      /\ pc[i] \in SavePcs => saved[i] <= dirtyAtStart[i] /\ dirtyAtStart[i] <= dirty[i]

\* An instance that has not finished loading has not written the file.
LoadersHaveNotWritten ==
    \A i \in Instances : pc[i] \in LoadPcs \cup {"off"} => lastWriter # i

\* A change of k that the save under way may miss is one that it does not count.
Uncounted(i, k) == marking[i][k] > 0 \/ dirty[i] > dirtyAtStart[i]

SnapshotIsFresh ==
    \A i \in Instances : pc[i] = "write" =>
      \A k \in Keys : Left(snap[i][k]) = cache[i][k] \/ Uncounted(i, k)

FileIsFresh ==
    \A i \in Instances : pc[i] \in {"release", "mark"} /\ lastWriter = i =>
      \A k \in Keys : Left(file[k]) = cache[i][k] \/ Uncounted(i, k)

Fresh == SnapshotIsFresh /\ FileIsFresh /\ SavedMeansOnDisk

Inv ==
    /\ TypeOK
    /\ CountsAreOrdered
    /\ LoadersHaveNotWritten
    /\ Fresh

-----------------------------------------------------------------------------
\* Time leaves expired entries of a file expired, and absent ones absent.
LEMMA LessFacts ==
    ASSUME NEW f \in [Keys -> Life \cup {Absent}]
    PROVE  /\ Less(f) \in [Keys -> Life \cup {Absent}]
           /\ f \in [Keys -> Life] => Less(f) \in [Keys -> Life]
           /\ \A k \in Keys : Less(f)[k] = IF f[k] > 0 THEN f[k] - 1 ELSE f[k]
           /\ \A k \in Keys : Left(Less(f)[k]) = IF Left(f[k]) > 0 THEN Left(f[k]) - 1 ELSE 0
BY DEF Less, Left, Life, Absent

\* A cache and a file without entries are a cache and a file.
LEMMA EmptyFacts == Empty \in [Keys -> Life] /\ NoEntry \in [Keys -> Life \cup {Absent}]
BY DEF Empty, NoEntry, Life

\* Every variable keeps its type.
LEMMA TypeStep == TypeOK /\ [Next]_vars => TypeOK'
<1> SUFFICES ASSUME TypeOK, [Next]_vars PROVE TypeOK'
  OBVIOUS
<1> USE DEF TypeOK, Goto, LoadPcs, SavePcs, Gone
<1>1. CASE Tick
  <2>1. file' \in [Keys -> Life \cup {Absent}] /\ granted' \in [Keys -> Life]
    BY <1>1, LessFacts DEF Tick
  <2>2. cache' \in [Instances -> [Keys -> Life]]
    BY <1>1, LessFacts DEF Tick
  <2>3. snap' \in [Instances -> [Keys -> Life \cup {Absent}]]
    BY <1>1, LessFacts DEF Tick
  <2>4. loadTicks' \in 0 .. LoadSlack
    BY <1>1, BoundsAssumption DEF Tick
  <2> QED BY <1>1, <2>1, <2>2, <2>3, <2>4 DEF Tick
<1>2. ASSUME NEW i \in Instances, Load(i) PROVE TypeOK'
  <2>1. CASE LoadRead(i)
    BY <2>1 DEF LoadRead, memory, ghosts
  <2>2. CASE LoadLock(i) \/ LoadFails(i)
    BY <2>2 DEF LoadLock, LoadFails, Lock!Acquire, Lock!Release, memory, ghosts
  <2>3. CASE Start(i) \/ LoadGivesUp(i)
    BY <2>3 DEF Start, LoadGivesUp, memory, ghosts
  <2>4. CASE LoadEntries(i)
    <3>1. [k \in Keys |-> Left(snap[i][k])] \in [Keys -> Life]
      BY DEF Left, Life, Absent
    <3> QED BY <2>4, <3>1, EmptyFacts DEF LoadEntries, Lock!Release, ghosts
  <2> QED BY <1>2, <2>1, <2>2, <2>3, <2>4 DEF Load
<1>3. ASSUME NEW i \in Instances, OpenStateFile(i) \/ TickerFires(i) \/ ContextDone(i) PROVE TypeOK'
  BY <1>3 DEF OpenStateFile, TickerFires, ContextDone, BeginSave, memory, ghosts
<1>4. ASSUME NEW i \in Instances, SaveLock(i) \/ TakeSnapshot(i) \/ Write(i) \/ ReleaseLock(i)
      PROVE  TypeOK'
  <2>1. CASE SaveLock(i) \/ ReleaseLock(i)
    BY <2>1 DEF SaveLock, ReleaseLock, Lock!Acquire, Lock!Release, memory, ghosts
  <2>2. CASE TakeSnapshot(i)
    <3>1. [k \in Keys |-> IF cache[i][k] > 0 THEN cache[i][k] ELSE Absent]
            \in [Keys -> Life \cup {Absent}]
      OBVIOUS
    <3> QED BY <2>2, <3>1 DEF TakeSnapshot, memory, ghosts
  <2>3. CASE Write(i)
    BY <2>3, EmptyFacts DEF Write, memory
  <2> QED BY <1>4, <2>1, <2>2, <2>3
<1>5. ASSUME NEW i \in Instances, MarkSaved(i) \/ SaveGivesUp(i) \/ SaveFails(i) PROVE TypeOK'
  <2>1. CASE MarkSaved(i)
    BY <2>1 DEF MarkSaved, EndSave, ghosts
  <2>2. CASE SaveGivesUp(i)
    BY <2>2 DEF SaveGivesUp, EndSave, memory, ghosts
  <2>3. CASE SaveFails(i)
    BY <2>3, EmptyFacts DEF SaveFails, EndSave, Lock!Release, memory, ghosts
  <2> QED BY <1>5, <2>1, <2>2, <2>3
<1>6. ASSUME NEW i \in Instances, NEW k \in Keys, Grant(i, k) \/ MarkDirty(i, k) PROVE TypeOK'
  <2>1. CASE Grant(i, k)
    BY <1>6, <2>1, LivesAssumption DEF Grant, Life, saver
  <2>2. CASE MarkDirty(i, k)
    BY <1>6, <2>2 DEF MarkDirty, saver, ghosts
  <2> QED BY <1>6, <2>1, <2>2
<1>7. ASSUME NEW i \in Instances, Cancel(i) \/ Crash(i) \/ LockExpires(i) PROVE TypeOK'
  <2>1. CASE Cancel(i)
    BY <2>1 DEF Cancel, memory, saver
  <2>2. CASE Crash(i)
    BY <2>2, EmptyFacts DEF Crash, Life
  <2>3. CASE LockExpires(i)
    BY <2>3 DEF LockExpires, Lock!Release, memory, saver, ghosts
  <2> QED BY <1>7, <2>1, <2>2, <2>3
<1>8. CASE UNCHANGED vars
  BY <1>8 DEF vars, memory, saver, ghosts
<1> QED BY <1>1, <1>2, <1>3, <1>4, <1>5, <1>6, <1>7, <1>8 DEF Next, Save, Handle

\* The variables start in their types.
LEMMA TypeInit == Init => TypeOK
<1> SUFFICES ASSUME Init PROVE TypeOK
  OBVIOUS
<1>1. loadTicks \in 0 .. LoadSlack
  BY BoundsAssumption DEF Init
<1> QED BY <1>1, EmptyFacts DEF Init, TypeOK, Empty, Life, Gone

\* Files, caches, counters and locks of all instances are in their types in
\* every reachable state; in particular no duration gets below zero.
THEOREM TypeCorrect == Spec => []TypeOK
BY TypeInit, TypeStep, PTL DEF Spec
-----------------------------------------------------------------------------
\* The counters keep their order: a save begins with the latest count, and only
\* its end changes stateSavedDirty.
LEMMA CountsStep ==
    ASSUME TypeOK, CountsAreOrdered, [Next]_vars
    PROVE  CountsAreOrdered'
<1> USE DEF TypeOK, CountsAreOrdered, Goto, LoadPcs, SavePcs, Gone
<1>1. ASSUME NEW i \in Instances, Load(i) PROVE CountsAreOrdered'
  BY <1>1 DEF Load, Start, LoadLock, LoadRead, LoadEntries, LoadGivesUp, LoadFails, memory
<1>2. ASSUME NEW i \in Instances, OpenStateFile(i) \/ TickerFires(i) \/ ContextDone(i)
      PROVE  CountsAreOrdered'
  BY <1>2 DEF OpenStateFile, TickerFires, ContextDone, BeginSave, memory
<1>3. ASSUME NEW i \in Instances, SaveLock(i) \/ TakeSnapshot(i) \/ Write(i) \/ ReleaseLock(i)
      PROVE  CountsAreOrdered'
  BY <1>3 DEF SaveLock, TakeSnapshot, Write, ReleaseLock, memory
<1>4. ASSUME NEW i \in Instances, MarkSaved(i) \/ SaveGivesUp(i) \/ SaveFails(i)
      PROVE  CountsAreOrdered'
  <2>1. CASE MarkSaved(i)
    BY <2>1 DEF MarkSaved, EndSave
  <2>2. CASE SaveGivesUp(i)
    BY <2>2 DEF SaveGivesUp, EndSave, memory
  <2>3. CASE SaveFails(i)
    BY <2>3 DEF SaveFails, EndSave, memory
  <2> QED BY <1>4, <2>1, <2>2, <2>3
<1>5. ASSUME NEW i \in Instances, NEW k \in Keys, MarkDirty(i, k) PROVE CountsAreOrdered'
  BY <1>5 DEF MarkDirty, saver
<1>6. ASSUME NEW i \in Instances, Crash(i) PROVE CountsAreOrdered'
  BY <1>6 DEF Crash
<1>7. CASE UNCHANGED <<dirty, saved, pc, dirtyAtStart>>
  BY <1>7
<1>8. ASSUME NEW i \in Instances, Cancel(i) \/ LockExpires(i)
      PROVE  UNCHANGED <<dirty, saved, pc, dirtyAtStart>>
  BY <1>8 DEF Cancel, LockExpires, memory, saver
<1>9. ASSUME NEW i \in Instances, NEW k \in Keys, Grant(i, k)
      PROVE  UNCHANGED <<dirty, saved, pc, dirtyAtStart>>
  BY <1>9 DEF Grant, saver
<1>10. Tick \/ UNCHANGED vars => UNCHANGED <<dirty, saved, pc, dirtyAtStart>>
  BY DEF Tick, vars, memory, saver
<1> QED
  BY <1>1, <1>2, <1>3, <1>4, <1>5, <1>6, <1>7, <1>8, <1>9, <1>10 DEF Next, Save, Handle

\* Loading comes first, and only a save writes the file.
LEMMA LoadersStep ==
    ASSUME TypeOK, LoadersHaveNotWritten, [Next]_vars
    PROVE  LoadersHaveNotWritten'
<1> USE DEF TypeOK, LoadersHaveNotWritten, Goto, LoadPcs, SavePcs, Gone
<1>1. ASSUME NEW i \in Instances, Load(i) PROVE LoadersHaveNotWritten'
  BY <1>1 DEF Load, Start, LoadLock, LoadRead, LoadEntries, LoadGivesUp, LoadFails, ghosts
<1>2. ASSUME NEW i \in Instances, OpenStateFile(i) \/ TickerFires(i) \/ ContextDone(i)
      PROVE  LoadersHaveNotWritten'
  BY <1>2 DEF OpenStateFile, TickerFires, ContextDone, BeginSave, ghosts
<1>3. ASSUME NEW i \in Instances, SaveLock(i) \/ TakeSnapshot(i) \/ Write(i) \/ ReleaseLock(i)
      PROVE  LoadersHaveNotWritten'
  BY <1>3 DEF SaveLock, TakeSnapshot, Write, ReleaseLock, ghosts
<1>4. ASSUME NEW i \in Instances, MarkSaved(i) \/ SaveGivesUp(i) \/ SaveFails(i) \/ Crash(i)
      PROVE  LoadersHaveNotWritten'
  BY <1>4 DEF MarkSaved, SaveGivesUp, SaveFails, EndSave, Crash, ghosts
<1>5. CASE UNCHANGED <<pc, lastWriter>>
  BY <1>5
<1>6. ASSUME NEW i \in Instances, Cancel(i) \/ LockExpires(i) \/ Handle(i)
      PROVE  UNCHANGED <<pc, lastWriter>>
  BY <1>6 DEF Cancel, LockExpires, Handle, Grant, MarkDirty, saver, ghosts
<1>7. Tick \/ UNCHANGED vars => UNCHANGED <<pc, lastWriter>>
  BY DEF Tick, vars, saver, ghosts
<1> QED BY <1>1, <1>2, <1>3, <1>4, <1>5, <1>6, <1>7 DEF Next, Save
-----------------------------------------------------------------------------
\* What Fresh says of one instance.
FreshFor(i) ==
    /\ pc[i] = "write" => \A k \in Keys : Left(snap[i][k]) = cache[i][k] \/ Uncounted(i, k)
    /\ lastWriter = i =>
         /\ pc[i] \in {"release", "mark"} =>
              \A k \in Keys : Left(file[k]) = cache[i][k] \/ Uncounted(i, k)
         /\ dirty[i] = saved[i] /\ pc[i] # "dead" =>
              \A k \in Keys : marking[i][k] = 0 => Left(file[k]) = cache[i][k]

\* Fresh says FreshFor of every instance.
LEMMA FreshForAll == Fresh <=> \A i \in Instances : FreshFor(i)
BY DEF Fresh, FreshFor, SnapshotIsFresh, FileIsFresh, SavedMeansOnDisk

LocalsKept(i) ==
    /\ cache'[i] = cache[i] /\ marking'[i] = marking[i]
    /\ dirty'[i] = dirty[i] /\ saved'[i] = saved[i]

\* It stays true of an instance that nothing happens to, ...
LEMMA FreshBystander ==
    ASSUME NEW i \in Instances, FreshFor(i), LocalsKept(i),
           pc'[i] = pc[i], dirtyAtStart'[i] = dirtyAtStart[i], snap'[i] = snap[i],
           UNCHANGED <<file, lastWriter>> \/ lastWriter' # i
    PROVE  FreshFor(i)'
BY DEF FreshFor, LocalsKept, Uncounted

\* ... and of one that is not near a write.
LEMMA FreshElsewhere ==
    ASSUME NEW i \in Instances, FreshFor(i), LocalsKept(i), UNCHANGED <<file, lastWriter>>,
           pc[i] # "dead", pc'[i] \notin {"write", "release", "mark"}
    PROVE  FreshFor(i)'
BY DEF FreshFor, LocalsKept

\* A step of time, of a load or of a handler.
LEMMA FreshOtherwise ==
    ASSUME Inv, NEW i \in Instances, NEW j \in Instances,
           \/ Tick \/ UNCHANGED vars \/ Load(i) \/ Handle(i)
           \/ Cancel(i) \/ Crash(i) \/ LockExpires(i)
    PROVE  FreshFor(j)'
<1> USE FreshForAll DEF Inv, TypeOK
<1>1. CASE Tick
  <2>1. /\ \A k \in Keys : Left(file'[k]) = IF Left(file[k]) > 0 THEN Left(file[k]) - 1 ELSE 0
        /\ \A k \in Keys : cache'[j][k] = IF cache[j][k] > 0 THEN cache[j][k] - 1 ELSE 0
        /\ \A k \in Keys : pc[j] = "write" =>
             Left(snap'[j][k]) = IF Left(snap[j][k]) > 0 THEN Left(snap[j][k]) - 1 ELSE 0
    <3>1. file' = Less(file) /\ cache'[j] = Less(cache[j])
          /\ (pc[j] = "write" => snap'[j] = Less(snap[j]))
      BY <1>1 DEF Tick
    <3>2. /\ file \in [Keys -> Life \cup {Absent}] /\ snap[j] \in [Keys -> Life \cup {Absent}]
          /\ cache[j] \in [Keys -> Life \cup {Absent}]
      OBVIOUS
    <3>3. \A k \in Keys : Less(cache[j])[k] = IF cache[j][k] > 0 THEN cache[j][k] - 1 ELSE cache[j][k]
      BY <3>2, LessFacts
    <3>4. \A k \in Keys : cache[j][k] \in Nat
      BY DEF Life
    <3>5. /\ \A k \in Keys : Left(file'[k]) = IF Left(file[k]) > 0 THEN Left(file[k]) - 1 ELSE 0
          /\ \A k \in Keys : pc[j] = "write" =>
               Left(snap'[j][k]) = IF Left(snap[j][k]) > 0 THEN Left(snap[j][k]) - 1 ELSE 0
      <4>1. \A k \in Keys : Left(Less(file)[k]) = IF Left(file[k]) > 0 THEN Left(file[k]) - 1 ELSE 0
        BY <3>2, LessFacts
      <4>2. \A k \in Keys :
              Left(Less(snap[j])[k]) = IF Left(snap[j][k]) > 0 THEN Left(snap[j][k]) - 1 ELSE 0
        BY <3>2, LessFacts
      <4> QED BY <3>1, <4>1, <4>2
    <3> QED BY <3>1, <3>3, <3>4, <3>5
  <2>2. UNCHANGED <<marking, dirty, saved, pc, dirtyAtStart, lastWriter>>
    BY <1>1 DEF Tick
  <2>3. \A k \in Keys : Left(file[k]) = cache[j][k] => Left(file'[k]) = cache'[j][k]
    BY <2>1 DEF Life
  <2>4. pc[j] = "write" =>
          \A k \in Keys : Left(snap[j][k]) = cache[j][k] => Left(snap'[j][k]) = cache'[j][k]
    BY <2>1 DEF Life
  <2> QED BY <2>2, <2>3, <2>4 DEF FreshFor, Uncounted
<1>2. CASE Load(i)
  <2>1. CASE LoadEntries(i)
    <3>1. lastWriter' # i /\ pc'[i] = "open"
      BY <2>1 DEF LoadEntries, LoadersHaveNotWritten, LoadPcs, Goto, ghosts
    <3>2. CASE j = i
      BY <3>1, <3>2 DEF FreshFor
    <3>3. CASE j # i
      BY <2>1, <3>3, FreshBystander DEF LoadEntries, Goto, LocalsKept, ghosts
    <3> QED BY <3>2, <3>3
  <2>2. CASE LoadRead(i)
    BY <2>2, FreshBystander, FreshElsewhere DEF LoadRead, Goto, LocalsKept, memory, ghosts
  <2>3. CASE Start(i) \/ LoadLock(i)
    BY <2>3, FreshBystander, FreshElsewhere DEF Start, LoadLock, Goto, LocalsKept, memory, ghosts
  <2>4. CASE LoadGivesUp(i) \/ LoadFails(i)
    BY <2>4, FreshBystander, FreshElsewhere
       DEF LoadGivesUp, LoadFails, Goto, LocalsKept, memory, ghosts
  <2> QED BY <1>2, <2>1, <2>2, <2>3, <2>4 DEF Load
<1>3. ASSUME NEW k \in Keys, Grant(i, k) PROVE FreshFor(j)'
  <2>1. CASE j = i
    BY <1>3, <2>1 DEF Grant, saver, FreshFor, Uncounted
  <2>2. CASE j # i
    BY <1>3, <2>2, FreshBystander DEF Grant, LocalsKept, saver
  <2> QED BY <2>1, <2>2
<1>4. ASSUME NEW k \in Keys, MarkDirty(i, k) PROVE FreshFor(j)'
  <2>1. CASE j = i
    <3>1. dirty'[i] > saved'[i]
      BY <1>4 DEF MarkDirty, CountsAreOrdered
    <3>2. pc[i] \in {"write", "release", "mark"} => dirty'[i] > dirtyAtStart'[i]
      BY <1>4 DEF MarkDirty, CountsAreOrdered, SavePcs, saver
    <3>3. UNCHANGED pc /\ saved'[i] # dirty'[i]
      BY <1>4, <3>1 DEF MarkDirty, saver
    <3> QED BY <2>1, <3>2, <3>3 DEF FreshFor, Uncounted
  <2>2. CASE j # i
    BY <1>4, <2>2, FreshBystander DEF MarkDirty, LocalsKept, saver, ghosts
  <2> QED BY <2>1, <2>2
<1>5. CASE Crash(i)
  <2>1. CASE j = i
    BY <1>5, <2>1 DEF Crash, Goto, FreshFor
  <2>2. CASE j # i
    BY <1>5, <2>2, FreshBystander DEF Crash, Goto, LocalsKept
  <2> QED BY <2>1, <2>2
<1>6. CASE Cancel(i) \/ LockExpires(i) \/ UNCHANGED vars
  BY <1>6, FreshBystander DEF Cancel, LockExpires, vars, LocalsKept, memory, saver, ghosts
<1> QED BY <1>1, <1>2, <1>3, <1>4, <1>5, <1>6 DEF Handle

\* A step of a save.  The counts tell which changes the snapshot may miss.
LEMMA FreshSave ==
    ASSUME Inv, NEW i \in Instances, NEW j \in Instances, Save(i)
    PROVE  FreshFor(j)'
<1> USE FreshForAll DEF Inv, TypeOK
<1>1. CASE OpenStateFile(i) \/ TickerFires(i) \/ ContextDone(i)
  <2>1. /\ pc[i] \in {"open", "tick"} /\ pc'[i] \in {"tick", "exited", "lock"}
        /\ j # i => UNCHANGED <<pc[j], dirtyAtStart[j], snap[j]>>
        /\ LocalsKept(j) /\ UNCHANGED <<file, lastWriter>>
    BY <1>1 DEF OpenStateFile, TickerFires, ContextDone, BeginSave, Goto, LocalsKept, memory, ghosts
  <2> QED BY <2>1, FreshBystander, FreshElsewhere
<1>2. CASE SaveLock(i)
  BY <1>2, FreshBystander, FreshElsewhere DEF SaveLock, Goto, LocalsKept, memory, ghosts
<1>3. CASE TakeSnapshot(i)
  <2>1. CASE j = i
    <3>1. /\ pc[i] = "snapshot" /\ pc'[i] = "write"
          /\ UNCHANGED <<file, lastWriter, cache, marking, dirty, saved>>
          /\ \A k \in Keys : snap'[i][k] = IF cache[i][k] > 0 THEN cache[i][k] ELSE -1
      BY <1>3 DEF TakeSnapshot, Goto, Absent, memory, ghosts
    <3>2. \A k \in Keys : Left(snap'[i][k]) = cache[i][k]
      BY <3>1 DEF Left, Life
    <3> QED BY <2>1, <3>1, <3>2 DEF FreshFor
  <2>2. CASE j # i
    BY <1>3, <2>2, FreshBystander DEF TakeSnapshot, Goto, LocalsKept, memory, ghosts
  <2> QED BY <2>1, <2>2
<1>4. CASE Write(i)
  <2>1. CASE j = i
    \* If the counters agree, no change is uncounted.
    <3>1. dirty[i] = saved[i] => ~(dirty[i] > dirtyAtStart[i])
      BY <1>4 DEF Write, CountsAreOrdered, SavePcs
    <3>2. file' = snap[i] /\ pc'[i] = "release" /\ pc[i] = "write"
      BY <1>4 DEF Write, Goto
    <3>3. UNCHANGED <<cache, marking, dirty, saved, dirtyAtStart>>
      BY <1>4 DEF Write, memory
    <3>4. \A k \in Keys : Left(snap[i][k]) = cache[i][k] \/ Uncounted(i, k)
      BY <3>2 DEF FreshFor
    <3>5. ASSUME dirty[i] = saved[i], NEW k \in Keys, marking[i][k] = 0
          PROVE  Left(snap[i][k]) = cache[i][k]
      <4>1. ~ Uncounted(i, k)
        BY <3>1, <3>5 DEF Uncounted
      <4> QED BY <3>4, <4>1
    <3>6. \A k \in Keys : Left(file'[k]) = cache'[i][k] \/ Uncounted(i, k)'
      BY <3>2, <3>3, <3>4 DEF Uncounted
    <3> QED BY <2>1, <3>2, <3>3, <3>5, <3>6 DEF FreshFor
  <2>2. CASE j # i
    BY <1>4, <2>2, FreshBystander DEF Write, Goto, LocalsKept, memory
  <2> QED BY <2>1, <2>2
<1>5. CASE ReleaseLock(i)
  <2>1. CASE j = i
    \* The write has just filled the file, unless another instance was faster.
    BY <1>5, <2>1 DEF ReleaseLock, Goto, FreshFor, Uncounted, memory, ghosts
  <2>2. CASE j # i
    BY <1>5, <2>2, FreshBystander DEF ReleaseLock, Goto, LocalsKept, memory, ghosts
  <2> QED BY <2>1, <2>2
<1>6. CASE MarkSaved(i)
  <2>1. CASE j = i
    <3>1. pc[i] = "mark" /\ pc'[i] \in {"exited", "tick"} /\ saved'[i] = dirtyAtStart[i]
      BY <1>6 DEF MarkSaved, EndSave, Goto
    <3>2. UNCHANGED <<cache, marking, dirty, file, lastWriter>>
      BY <1>6 DEF MarkSaved, ghosts
    <3>3. FreshFor(i)
      OBVIOUS
    <3>4. ASSUME lastWriter = i, dirty[i] = dirtyAtStart[i], NEW k \in Keys, marking[i][k] = 0
          PROVE  Left(file[k]) = cache[i][k]
      <4>1. ~ Uncounted(i, k)
        BY <3>4 DEF Uncounted
      <4> QED BY <3>1, <3>3, <3>4, <4>1 DEF FreshFor
    <3> QED BY <2>1, <3>1, <3>2, <3>4 DEF FreshFor
  <2>2. CASE j # i
    BY <1>6, <2>2, FreshBystander DEF MarkSaved, EndSave, Goto, LocalsKept, ghosts
  <2> QED BY <2>1, <2>2
<1>7. CASE SaveGivesUp(i) \/ SaveFails(i)
  <2>1. /\ pc[i] \in {"lock", "write"} /\ pc'[i] \in {"tick", "exited"}
        /\ j # i => UNCHANGED <<pc[j], dirtyAtStart[j], snap[j]>>
        /\ LocalsKept(j) /\ UNCHANGED <<file, lastWriter>>
    BY <1>7 DEF SaveGivesUp, SaveFails, EndSave, Goto, LocalsKept, memory, ghosts
  <2> QED BY <2>1, FreshBystander, FreshElsewhere
<1> QED BY <1>1, <1>2, <1>3, <1>4, <1>5, <1>6, <1>7 DEF Save

\* Every step keeps the invariant.
LEMMA InvStep == Inv /\ [Next]_vars => Inv'
<1> SUFFICES ASSUME Inv, [Next]_vars PROVE Inv'
  OBVIOUS
<1>1. TypeOK' /\ CountsAreOrdered' /\ LoadersHaveNotWritten'
  BY TypeStep, CountsStep, LoadersStep DEF Inv
<1>2. ASSUME NEW j \in Instances PROVE FreshFor(j)'
  BY FreshOtherwise, FreshSave DEF Next
<1>3. Fresh'
  BY <1>2 DEF Fresh, FreshFor, SnapshotIsFresh, FileIsFresh, SavedMeansOnDisk
<1> QED BY <1>1, <1>3 DEF Inv

\* The invariant holds at the start.
LEMMA InvInit == Init => Inv
<1> SUFFICES ASSUME Init PROVE Inv
  OBVIOUS
<1>1. TypeOK
  BY TypeInit
<1>2. CountsAreOrdered
  <2>1. \A i \in Instances : saved[i] = 0 /\ dirty[i] = 0 /\ pc[i] = "off"
    BY DEF Init
  <2>2. \A i \in Instances : saved[i] <= dirty[i] /\ pc[i] \notin SavePcs
    <3> SUFFICES ASSUME NEW i \in Instances PROVE saved[i] <= dirty[i] /\ pc[i] \notin SavePcs
      OBVIOUS
    <3>1. saved[i] = 0 /\ dirty[i] = 0 /\ pc[i] = "off"
      BY <2>1
    <3> QED BY <3>1 DEF SavePcs
  <2> QED BY <2>2 DEF CountsAreOrdered
<1>3. LoadersHaveNotWritten
  BY InstancesAssumption DEF Init, LoadersHaveNotWritten
<1>4. Fresh
  BY InstancesAssumption DEF Init, Fresh, SnapshotIsFresh, FileIsFresh, SavedMeansOnDisk
<1> QED BY <1>1, <1>2, <1>3, <1>4 DEF Inv

\* The inductive invariant holds.
THEOREM Invariant == Spec => []Inv
BY InvInit, InvStep, PTL DEF Spec
\* An instance that thinks everything is saved is right as long as nobody else
\* writes the file: no change that handlers make during a save is forgotten.
THEOREM SavedCorrect == Spec => []SavedMeansOnDisk
<1>1. Inv => SavedMeansOnDisk
  BY DEF Inv, Fresh
<1> QED BY <1>1, Invariant, PTL

-----------------------------------------------------------------------------
\* Reading and writing succeed and Lock() waits for its turn.
NoFailures == ~LockTimeouts /\ ~IoErrors

\* Only a cancelled instance makes its final save, and that save counts every
\* change that was marked before.
FinalSaveCounts ==
    \A i \in Instances :
      /\ final[i] => cancelled[i] /\ pc[i] \in SavePcs /\ dirtyAtStart[i] >= dirtyAtCancel[i]
      /\ ~cancelled[i] => dirtyAtCancel[i] = 0
      /\ dirtyAtCancel[i] <= dirty[i]

ShutdownInv == Inv /\ FinalSaveCounts /\ ShutdownSaves

\* A mark that was there at the cancellation is saved or is in the final save.
LEMMA ShutdownStep ==
    ASSUME NoFailures, ShutdownInv, [Next]_vars
    PROVE  FinalSaveCounts' /\ ShutdownSaves'
<1> USE DEF NoFailures, ShutdownInv, Inv, TypeOK, FinalSaveCounts, ShutdownSaves, Goto,
        LoadPcs, SavePcs, Gone
<1>1. ASSUME NEW i \in Instances, Load(i) PROVE FinalSaveCounts' /\ ShutdownSaves'
  BY <1>1 DEF Load, Start, LoadLock, LoadRead, LoadEntries, LoadGivesUp, LoadFails, memory, ghosts
<1>2. ASSUME NEW i \in Instances, OpenStateFile(i) \/ TickerFires(i)
      PROVE  FinalSaveCounts' /\ ShutdownSaves'
  <2>1. CASE OpenStateFile(i)
    BY <2>1 DEF OpenStateFile, memory, ghosts
  <2>2. CASE TickerFires(i)
    \* A save that follows no cancellation is not the final one.
    <3>1. ~final[i]
      BY <2>2 DEF TickerFires
    <3> QED BY <2>2, <3>1 DEF TickerFires, BeginSave, memory, ghosts
  <2> QED BY <1>2, <2>1, <2>2
<1>3. ASSUME NEW i \in Instances, ContextDone(i) PROVE FinalSaveCounts' /\ ShutdownSaves'
  BY <1>3 DEF ContextDone, BeginSave, memory, ghosts
<1>4. ASSUME NEW i \in Instances, SaveLock(i) \/ TakeSnapshot(i) \/ Write(i) \/ ReleaseLock(i)
      PROVE  FinalSaveCounts' /\ ShutdownSaves'
  BY <1>4 DEF SaveLock, TakeSnapshot, Write, ReleaseLock, memory, ghosts
<1>5. ASSUME NEW i \in Instances, MarkSaved(i) PROVE FinalSaveCounts' /\ ShutdownSaves'
  BY <1>5 DEF MarkSaved, EndSave, ghosts
<1>6. ASSUME NEW i \in Instances PROVE ~SaveGivesUp(i) /\ ~SaveFails(i)
  BY DEF SaveGivesUp, SaveFails
<1>7. ASSUME NEW i \in Instances, NEW k \in Keys, MarkDirty(i, k)
      PROVE  FinalSaveCounts' /\ ShutdownSaves'
  BY <1>7 DEF MarkDirty, saver, ghosts
<1>8. ASSUME NEW i \in Instances, Cancel(i) PROVE FinalSaveCounts' /\ ShutdownSaves'
  BY <1>8 DEF Cancel, memory, saver
<1>9. ASSUME NEW i \in Instances, Crash(i) PROVE FinalSaveCounts' /\ ShutdownSaves'
  BY <1>9 DEF Crash
<1> DEFINE kept == <<dirty, saved, pc, dirtyAtStart, final, cancelled, dirtyAtCancel>>
<1>10. CASE UNCHANGED kept
  BY <1>10
<1>11. ASSUME NEW i \in Instances, NEW k \in Keys, Grant(i, k) PROVE UNCHANGED kept
  BY <1>11 DEF Grant, saver
<1>12. ASSUME NEW i \in Instances, LockExpires(i) PROVE UNCHANGED kept
  BY <1>12 DEF LockExpires, memory, saver, ghosts
<1>13. Tick \/ UNCHANGED vars => UNCHANGED kept
  BY DEF Tick, vars, memory, saver, ghosts
<1> QED
  BY <1>1, <1>2, <1>3, <1>4, <1>5, <1>6, <1>7, <1>8, <1>9, <1>10, <1>11, <1>12, <1>13
     DEF Next, Save, Handle

\* When nothing fails, a shutdown saves every change that was marked before it,
\* whenever the cancellation comes: during a save, between saves, before the
\* interval has passed.
THEOREM ShutdownCorrect == NoFailures /\ Spec => []ShutdownSaves
<1> SUFFICES ASSUME NoFailures PROVE Spec => []ShutdownSaves
  OBVIOUS
<1>1. Init => FinalSaveCounts /\ ShutdownSaves
  BY DEF Init, FinalSaveCounts, ShutdownSaves
<1>2. Init => ShutdownInv
  BY <1>1, InvInit DEF ShutdownInv
<1>3. ShutdownInv /\ [Next]_vars => ShutdownInv'
  BY InvStep, ShutdownStep DEF ShutdownInv
<1>4. ShutdownInv => ShutdownSaves
  BY DEF ShutdownInv
<1> QED BY <1>2, <1>3, <1>4, PTL DEF Spec
-----------------------------------------------------------------------------
\* Entries outlive their grant by the time that loads took, wherever they are.
LivesAreBounded ==
    \A k \in Keys :
      LET limit == granted[k] + loadTicks IN
      /\ file[k] <= limit
      /\ \A i \in Instances : cache[i][k] <= limit /\ snap[i][k] <= limit

LivesInv == TypeOK /\ LivesAreBounded

\* No copy of an entry outgrows its limit.
LEMMA LivesStep ==
    ASSUME LivesInv, [Next]_vars
    PROVE  LivesAreBounded'
<1> USE DEF LivesInv, TypeOK, LivesAreBounded, Life
<1>1. loadTicks \in Nat
  BY BoundsAssumption
<1>2. CASE Tick
  <2> SUFFICES ASSUME NEW k \in Keys
               PROVE  /\ file'[k] <= granted'[k] + loadTicks'
                      /\ \A i \in Instances : /\ cache'[i][k] <= granted'[k] + loadTicks'
                                              /\ snap'[i][k] <= granted'[k] + loadTicks'
    OBVIOUS
  <2>1. /\ file'[k] = IF file[k] > 0 THEN file[k] - 1 ELSE file[k]
        /\ granted'[k] = IF granted[k] > 0 THEN granted[k] - 1 ELSE granted[k]
        /\ \A i \in Instances : cache'[i][k] = IF cache[i][k] > 0 THEN cache[i][k] - 1 ELSE cache[i][k]
    <3>1. \A i \in Instances : cache[i] \in [Keys -> Life \cup {Absent}]
      OBVIOUS
    <3>2. granted \in [Keys -> Life \cup {Absent}]
      OBVIOUS
    <3> QED BY <1>2, <3>1, <3>2, LessFacts DEF Tick
  <2>2. loadTicks' = IF Loading THEN loadTicks + 1 ELSE loadTicks
    BY <1>2 DEF Tick
  <2>3. file'[k] <= granted'[k] + loadTicks'
    <3>1. granted[k] \in Nat /\ file[k] \in Int /\ file[k] <= granted[k] + loadTicks
      BY DEF Absent
    <3>2. loadTicks' \in Nat /\ loadTicks' >= loadTicks
      BY <1>1, <2>2
    <3> HIDE DEF LivesInv, TypeOK, LivesAreBounded
    <3> QED BY <1>1, <2>1, <3>1, <3>2
  <2>4. ASSUME NEW i \in Instances PROVE cache'[i][k] <= granted'[k] + loadTicks'
    <3>1. cache[i][k] \in Nat /\ granted[k] \in Nat /\ cache[i][k] <= granted[k] + loadTicks
      OBVIOUS
    <3>2. cache'[i][k] = IF cache[i][k] > 0 THEN cache[i][k] - 1 ELSE cache[i][k]
      BY <2>1
    <3>3. granted'[k] = IF granted[k] > 0 THEN granted[k] - 1 ELSE granted[k]
      BY <2>1
    <3>4. loadTicks' \in Nat /\ loadTicks' >= loadTicks
      BY <1>1, <2>2
    <3> HIDE DEF LivesInv, TypeOK, LivesAreBounded
    <3> QED BY <1>1, <3>1, <3>2, <3>3, <3>4
  <2>5. ASSUME NEW i \in Instances PROVE snap'[i][k] <= granted'[k] + loadTicks'
    <3>1. CASE pc[i] = "loading"
      \* The duration stands still, and so the tick counts as one of loading.
      <4>1. snap'[i] = snap[i] /\ loadTicks' = loadTicks + 1
        BY <1>2, <2>2, <3>1 DEF Tick, Loading
      <4>2. granted[k] \in Nat /\ snap[i][k] \in Int /\ snap[i][k] <= granted[k] + loadTicks
        BY DEF Absent
      <4> QED BY <1>1, <2>1, <4>1, <4>2
    <3>2. CASE pc[i] # "loading"
      <4>1. snap'[i][k] = IF snap[i][k] > 0 THEN snap[i][k] - 1 ELSE snap[i][k]
        <5>1. snap'[i] = Less(snap[i]) /\ snap[i] \in [Keys -> Life \cup {Absent}]
          BY <1>2, <3>2 DEF Tick
        <5> QED BY <5>1, LessFacts
      <4>2. granted[k] \in Nat /\ snap[i][k] \in Int /\ snap[i][k] <= granted[k] + loadTicks
        BY DEF Absent
      <4>3. loadTicks' \in Nat /\ loadTicks' >= loadTicks
        BY <1>1, <2>2
      <4> HIDE DEF LivesInv, TypeOK, LivesAreBounded
      <4> QED BY <1>1, <2>1, <4>1, <4>2, <4>3
    <3> QED BY <3>1, <3>2
  <2> QED BY <2>3, <2>4, <2>5
<1>3. ASSUME NEW i \in Instances, NEW k \in Keys, Grant(i, k) PROVE LivesAreBounded'
  <2>1. PICK n \in Lives : /\ cache' = [cache EXCEPT ![i][k] = n]
                           /\ granted' = [granted EXCEPT ![k] = IF n > @ THEN n ELSE @]
    BY <1>3 DEF Grant
  <2>2. UNCHANGED <<file, snap, loadTicks>> /\ n \in Nat
    BY <1>3, <2>1, LivesAssumption DEF Grant, saver
  <2> SUFFICES ASSUME NEW q \in Keys, NEW j \in Instances
               PROVE  /\ file'[q] <= granted'[q] + loadTicks'
                      /\ cache'[j][q] <= granted'[q] + loadTicks'
                      /\ snap'[j][q] <= granted'[q] + loadTicks'
    BY <1>3
  <2>3. /\ file[q] \in Int /\ granted[q] \in Nat /\ cache[j][q] \in Nat /\ snap[j][q] \in Int
        /\ file[q] <= granted[q] + loadTicks /\ cache[j][q] <= granted[q] + loadTicks
        /\ snap[j][q] <= granted[q] + loadTicks
    BY DEF Absent
  <2>4. /\ granted'[q] \in Nat /\ granted'[q] >= granted[q]
        /\ cache'[j][q] = cache[j][q] \/ cache'[j][q] <= granted'[q]
        /\ cache'[j][q] \in Nat
    BY <2>1, <2>2, <2>3
  <2> HIDE DEF LivesInv, TypeOK, LivesAreBounded
  <2> QED BY <1>1, <2>2, <2>3, <2>4
<1>4. ASSUME NEW i \in Instances, LoadRead(i) \/ LoadEntries(i) PROVE LivesAreBounded'
  <2>1. CASE LoadRead(i)
    BY <1>1, <2>1 DEF LoadRead, memory, ghosts
  <2>2. CASE LoadEntries(i)
    BY <1>1, <2>2 DEF LoadEntries, ghosts, NoEntry, Absent, Left
  <2> QED BY <1>4, <2>1, <2>2
<1>5. ASSUME NEW i \in Instances, TakeSnapshot(i) \/ SaveFails(i) PROVE LivesAreBounded'
  <2>1. CASE TakeSnapshot(i)
    BY <1>1, <2>1 DEF TakeSnapshot, memory, ghosts, Absent
  <2>2. CASE SaveFails(i)
    BY <1>1, <2>2 DEF SaveFails, memory, ghosts, NoEntry, Absent
  <2> QED BY <1>5, <2>1, <2>2
<1>6. ASSUME NEW i \in Instances, Write(i) PROVE LivesAreBounded'
  BY <1>1, <1>6 DEF Write, memory, ghosts, NoEntry, Absent
<1>7. ASSUME NEW i \in Instances, Crash(i) PROVE LivesAreBounded'
  BY <1>1, <1>7 DEF Crash, Empty, NoEntry, Absent
<1> DEFINE kept == <<file, cache, snap, granted, loadTicks>>
<1>8. CASE UNCHANGED kept
  BY <1>8
<1>9. ASSUME NEW i \in Instances,
             Start(i) \/ LoadLock(i) \/ LoadGivesUp(i) \/ LoadFails(i) \/ OpenStateFile(i)
      PROVE  UNCHANGED kept
  BY <1>9 DEF Start, LoadLock, LoadGivesUp, LoadFails, OpenStateFile, memory, ghosts
<1>10. ASSUME NEW i \in Instances,
              TickerFires(i) \/ ContextDone(i) \/ SaveLock(i) \/ ReleaseLock(i)
       PROVE  UNCHANGED kept
  BY <1>10 DEF TickerFires, ContextDone, BeginSave, SaveLock, ReleaseLock, memory, ghosts
<1>11. ASSUME NEW i \in Instances,
              MarkSaved(i) \/ SaveGivesUp(i) \/ Cancel(i) \/ LockExpires(i)
       PROVE  UNCHANGED kept
  BY <1>11 DEF MarkSaved, SaveGivesUp, EndSave, Cancel, LockExpires, memory, saver, ghosts
<1>12. ASSUME NEW i \in Instances, NEW k \in Keys, MarkDirty(i, k) PROVE UNCHANGED kept
  BY <1>12 DEF MarkDirty, saver, ghosts
<1>13. UNCHANGED vars => UNCHANGED kept
  BY DEF vars, memory, saver, ghosts
<1> QED
  BY <1>2, <1>3, <1>4, <1>5, <1>6, <1>7, <1>8, <1>9, <1>10, <1>11, <1>12, <1>13
     DEF Next, Load, Save, Handle

\* However often entries are saved and loaded, and whichever instances load
\* them, they outlive what was granted by no more than the time of the loads.
THEOREM LivesCorrect == Spec => []LoadsHardlyProlong
<1>1. Init => LivesInv
  <2> SUFFICES ASSUME Init PROVE LivesAreBounded
    BY TypeInit DEF LivesInv
  <2>1. loadTicks = 0 /\ \A k \in Keys : granted[k] = 0 /\ file[k] = -1
    BY DEF Init, Empty, NoEntry, Absent
  <2>2. \A i \in Instances, k \in Keys : cache[i][k] = 0 /\ snap[i][k] = -1
    BY DEF Init, Empty, NoEntry, Absent
  <2> QED BY <2>1, <2>2 DEF LivesAreBounded
<1>2. LivesInv /\ [Next]_vars => LivesInv'
  BY TypeStep, LivesStep DEF LivesInv
<1>3. LivesInv => LoadsHardlyProlong
  BY DEF LivesInv, LivesAreBounded, LoadsHardlyProlong
<1> QED BY <1>1, <1>2, <1>3, PTL DEF Spec

-----------------------------------------------------------------------------
\* One instance after the other, no failing load, one lifetime, and files that
\* load within a tick.
Orderly == NoFailures /\ ~Overlap /\ LoadSlack = 0 /\ \A m, n \in Lives : m = n

Saving == SavePcs \cup {"open", "tick"}

OneAtATime == \A i, j \in Instances : i # j => pc[i] \in Gone \/ pc[j] \in Gone

\* No entry of i lasts longer than a new one, and what i has loaded, granted or is
\* about to write is no less than the file has.
OutlivesFile(i) ==
    \A k \in Keys :
      /\ \A n \in Lives : cache[i][k] <= n /\ snap[i][k] <= n
      /\ pc[i] = "loading" => file[k] <= snap[i][k]
      /\ pc[i] \in Saving => file[k] <= cache[i][k]
      /\ pc[i] = "write" => (file[k] > 0 => file[k] <= snap[i][k]) /\ snap[i][k] <= cache[i][k]

SurvivalInv ==
    /\ TypeOK
    /\ OneAtATime
    /\ \A k \in Keys, n \in Lives : file[k] <= n
    /\ \A i \in Instances : OutlivesFile(i)

\* Only Start lets an instance run, and only when no other does.
LEMMA OneStep ==
    ASSUME ~Overlap, TypeOK, OneAtATime, [Next]_vars
    PROVE  OneAtATime'
<1> USE DEF OneAtATime, TypeOK, Goto, Gone, LoadPcs, SavePcs
<1> DEFINE Settled(i) ==
      /\ pc' \in [Instances -> LoadPcs \cup SavePcs \cup Gone \cup {"open", "tick"}]
      /\ \A j \in Instances : j # i => pc'[j] = pc[j]
      /\ pc[i] \in Gone => pc'[i] \in Gone
<1>1. ASSUME NEW i \in Instances, Start(i) PROVE OneAtATime'
  BY <1>1 DEF Start
<1>2. ASSUME NEW i \in Instances, Load(i), ~Start(i) PROVE Settled(i)
  BY <1>2 DEF Load, LoadLock, LoadRead, LoadEntries, LoadGivesUp, LoadFails
<1>3. ASSUME NEW i \in Instances, Save(i) PROVE Settled(i)
  BY <1>3 DEF Save, OpenStateFile, TickerFires, ContextDone, BeginSave, SaveLock,
              TakeSnapshot, Write, ReleaseLock, MarkSaved, SaveGivesUp, SaveFails, EndSave
<1>4. ASSUME NEW i \in Instances, Crash(i) PROVE Settled(i)
  BY <1>4 DEF Crash
<1>5. ASSUME NEW i \in Instances, Settled(i) PROVE OneAtATime'
  BY <1>5
<1>6. Tick \/ UNCHANGED vars => pc' = pc
  BY DEF Tick, vars, saver
<1>7. ASSUME NEW i \in Instances, Handle(i) \/ Cancel(i) \/ LockExpires(i) PROVE pc' = pc
  BY <1>7 DEF Handle, Grant, MarkDirty, Cancel, LockExpires, saver
<1> HIDE DEF Settled
<1> QED BY <1>1, <1>2, <1>3, <1>4, <1>5, <1>6, <1>7 DEF Next

\* Steps that leave file, caches and snapshots alone and do not go to a place at
\* which more is known of them.
LEMMA SurvivalQuiet ==
    ASSUME SurvivalInv, UNCHANGED <<file, cache, snap>>,
           \A j \in Instances : \/ pc'[j] = pc[j]
                                \/ pc'[j] \in Gone \cup {"loadLock", "loadRead"}
                                \/ pc[j] \in Saving /\ pc'[j] \in Saving \ {"write"}
    PROVE  \A j \in Instances : OutlivesFile(j)'
BY DEF SurvivalInv, OutlivesFile, Saving, SavePcs, Gone

\* A change at i does not touch what is known of the instances that are gone.
LEMMA SurvivalElsewhere ==
    ASSUME SurvivalInv, NEW i \in Instances, pc[i] \notin Gone,
           NEW j \in Instances, j # i, pc'[j] = pc[j],
           cache'[j] = cache[j], snap'[j] = snap[j]
    PROVE  OutlivesFile(j)'
BY DEF SurvivalInv, OneAtATime, OutlivesFile, Saving, SavePcs, Gone

\* Every step keeps the entries of the file below those of the running instance.
LEMMA SurvivalStep ==
    ASSUME Orderly, SurvivalInv, [Next]_vars
    PROVE  /\ SurvivalInv'
           /\ \A k \in Keys : file[k] > 1 => file'[k] > 0
<1> DEFINE Good ==
      /\ \A k \in Keys, n \in Lives : file'[k] <= n
      /\ \A i \in Instances : OutlivesFile(i)'
      /\ \A k \in Keys : file[k] > 1 => file'[k] > 0
<1>1. TypeOK /\ TypeOK' /\ OneAtATime'
  BY TypeStep, OneStep DEF SurvivalInv, Orderly
<1>2. /\ file \in [Keys -> Int] /\ Lives \subseteq Nat \ {0}
      /\ \A i \in Instances : cache[i] \in [Keys -> Nat] /\ snap[i] \in [Keys -> Int]
      /\ pc \in [Instances -> LoadPcs \cup SavePcs \cup Gone \cup {"open", "tick"}]
  BY <1>1, LivesAssumption DEF TypeOK, Life, Absent
<1> USE DEF Goto
<1>3. ASSUME Tick PROVE Good
  <2>1. ~Loading
    BY <1>1, <1>3 DEF Tick, Orderly, TypeOK
  <2>2. \A k \in Keys : file'[k] = IF file[k] > 0 THEN file[k] - 1 ELSE file[k]
    BY <1>3 DEF Tick, Less
  <2>3. ASSUME NEW i \in Instances
        PROVE  /\ pc[i] # "loading" /\ pc'[i] = pc[i]
               /\ \A k \in Keys :
                    /\ cache'[i][k] = IF cache[i][k] > 0 THEN cache[i][k] - 1 ELSE cache[i][k]
                    /\ snap'[i][k] = IF snap[i][k] > 0 THEN snap[i][k] - 1 ELSE snap[i][k]
    BY <1>3, <2>1 DEF Tick, Less, Loading
  <2>4. ASSUME NEW i \in Instances, NEW k \in Keys
        PROVE  /\ \A n \in Lives : cache'[i][k] <= n /\ snap'[i][k] <= n
               /\ file[k] <= cache[i][k] => file'[k] <= cache'[i][k]
               /\ (file[k] > 0 => file[k] <= snap[i][k])
                    => (file'[k] > 0 => file'[k] <= snap'[i][k])
               /\ snap[i][k] <= cache[i][k] => snap'[i][k] <= cache'[i][k]
    <3>1. \A n \in Lives : cache[i][k] <= n /\ snap[i][k] <= n /\ n \in Nat
      BY <1>2 DEF SurvivalInv, OutlivesFile
    <3>2. file[k] \in Int /\ cache[i][k] \in Nat /\ snap[i][k] \in Int
      BY <1>2
    <3> QED BY <2>2, <2>3, <3>1, <3>2
  <2>5. \A i \in Instances : OutlivesFile(i)'
    BY <2>3, <2>4 DEF SurvivalInv, OutlivesFile
  <2>6. ASSUME NEW k \in Keys, NEW n \in Lives PROVE file'[k] <= n
    <3>1. file[k] <= n /\ file[k] \in Int /\ n \in Nat
      BY <1>2 DEF SurvivalInv
    <3> QED BY <2>2, <3>1
  <2>7. \A k \in Keys : file[k] > 1 => file'[k] > 0
    BY <1>2, <2>2
  <2> QED BY <2>5, <2>6, <2>7
<1>4. ASSUME NEW i \in Instances, NEW k \in Keys, Grant(i, k) PROVE Good
  <2>1. PICK n \in Lives : cache' = [cache EXCEPT ![i][k] = n]
    BY <1>4 DEF Grant
  <2>2. UNCHANGED <<file, snap, pc>>
    BY <1>4 DEF Grant, saver
  <2>3. \A m \in Lives : m = n
    BY DEF Orderly
  <2>4. ASSUME NEW j \in Instances, NEW q \in Keys
        PROVE  /\ cache'[j][q] = IF j = i /\ q = k THEN n ELSE cache[j][q]
               /\ cache[j][q] <= n /\ snap[j][q] <= n /\ file[q] <= n
    BY <1>1, <2>1 DEF SurvivalInv, OutlivesFile, TypeOK
  <2>5. \A j \in Instances : OutlivesFile(j)'
    BY <1>2, <2>2, <2>3, <2>4 DEF SurvivalInv, OutlivesFile
  <2>6. \A q \in Keys : file[q] > 1 => file'[q] > 0
    BY <1>2, <2>2
  <2> QED BY <2>2, <2>5, <2>6 DEF SurvivalInv
<1>5. ASSUME NEW i \in Instances, LoadRead(i) \/ LoadEntries(i) \/ TakeSnapshot(i) PROVE Good
  <2>1. file' = file /\ pc[i] \notin Gone /\ pc' = [pc EXCEPT ![i] = pc'[i]]
    BY <1>2, <1>5 DEF LoadRead, LoadEntries, TakeSnapshot, Gone
  <2>2. \A j \in Instances : j # i => cache'[j] = cache[j] /\ snap'[j] = snap[j] /\ pc'[j] = pc[j]
    BY <1>1, <1>5 DEF LoadRead, LoadEntries, TakeSnapshot, memory, TypeOK
  <2>3. OutlivesFile(i)'
    <3>1. CASE LoadRead(i)
      <4>1. snap'[i] = file /\ cache' = cache /\ pc'[i] = "loading"
        BY <1>1, <3>1 DEF LoadRead, memory, TypeOK
      <4>2. /\ \A k \in Keys : file[k] <= file[k]
            /\ \A k \in Keys, n \in Lives : file[k] <= n /\ cache[i][k] <= n
        <5>1. \A k \in Keys : file[k] \in Int
          BY <1>2
        <5>2. \A k \in Keys, n \in Lives : file[k] <= n /\ cache[i][k] <= n
          BY DEF SurvivalInv, OutlivesFile
        <5> QED BY <5>1, <5>2
      <4>3. pc'[i] \notin Saving /\ pc'[i] # "write"
        BY <4>1 DEF Saving, SavePcs
      <4> QED BY <2>1, <4>1, <4>2, <4>3 DEF OutlivesFile
    <3>2. CASE LoadEntries(i)
      <4>1. /\ \A k \in Keys : cache'[i][k] = IF snap[i][k] > 0 THEN snap[i][k] ELSE 0
            /\ pc[i] = "loading" /\ pc'[i] = "open"
            /\ \A k \in Keys : snap'[i][k] = -1
        BY <1>1, <3>2 DEF LoadEntries, TypeOK, NoEntry, Absent, Left
      <4>2. \A k \in Keys : /\ file[k] <= snap[i][k] /\ file[k] \in Int /\ snap[i][k] \in Int
                            /\ \A n \in Lives : snap[i][k] <= n /\ n \in Nat
        BY <1>2, <4>1 DEF SurvivalInv, OutlivesFile
      <4> QED BY <2>1, <4>1, <4>2 DEF OutlivesFile
    <3>3. CASE TakeSnapshot(i)
      <4>1. /\ \A k \in Keys : snap'[i][k] = IF cache[i][k] > 0 THEN cache[i][k] ELSE -1
            /\ cache' = cache /\ pc[i] = "snapshot" /\ pc'[i] = "write"
        BY <1>1, <3>3 DEF TakeSnapshot, memory, TypeOK, Absent
      <4>2. \A k \in Keys : /\ file[k] <= cache[i][k] /\ file[k] \in Int /\ cache[i][k] \in Nat
                            /\ \A n \in Lives : cache[i][k] <= n /\ n \in Nat
        BY <1>2, <4>1 DEF SurvivalInv, OutlivesFile, Saving, SavePcs
      <4> QED BY <2>1, <4>1, <4>2 DEF OutlivesFile
    <3> QED BY <1>5, <3>1, <3>2, <3>3
  <2>4. \A j \in Instances : OutlivesFile(j)'
    BY <2>1, <2>2, <2>3, SurvivalElsewhere
  <2>5. \A k \in Keys : file[k] > 1 => file'[k] > 0
    BY <1>2, <2>1
  <2> QED BY <2>1, <2>4, <2>5 DEF SurvivalInv
<1>6. ASSUME NEW i \in Instances, Write(i) PROVE Good
  <2>1. /\ file' = snap[i] /\ pc[i] = "write" /\ pc'[i] = "release" /\ cache' = cache
        /\ \A k \in Keys : snap'[i][k] = -1
        /\ \A j \in Instances : j # i => snap'[j] = snap[j] /\ pc'[j] = pc[j]
    BY <1>1, <1>6 DEF Write, memory, TypeOK, NoEntry, Absent
  <2>2. \A k \in Keys : (file[k] > 0 => file[k] <= snap[i][k]) /\ snap[i][k] <= cache[i][k]
    BY <2>1 DEF SurvivalInv, OutlivesFile
  <2>3. OutlivesFile(i)'
    <3>1. \A k \in Keys : /\ cache[i][k] \in Nat
                          /\ \A n \in Lives : cache[i][k] <= n /\ n \in Nat
      BY <1>2 DEF SurvivalInv, OutlivesFile
    <3> QED BY <2>1, <2>2, <3>1 DEF OutlivesFile
  <2>4. \A j \in Instances : OutlivesFile(j)'
    BY <2>1, <2>3, SurvivalElsewhere DEF Gone
  <2>5. \A k \in Keys : file[k] > 1 => file'[k] > 0
    BY <1>2, <2>1, <2>2
  <2>6. \A k \in Keys, n \in Lives : file'[k] <= n
    BY <2>1 DEF SurvivalInv, OutlivesFile
  <2> QED BY <2>4, <2>5, <2>6
<1>7. ASSUME NEW i \in Instances, Crash(i) PROVE Good
  <2>1. /\ file' = file /\ pc'[i] = "dead"
        /\ \A k \in Keys : cache'[i][k] = 0 /\ snap'[i][k] = -1
        /\ \A j \in Instances : j # i => cache'[j] = cache[j] /\ snap'[j] = snap[j] /\ pc'[j] = pc[j]
    BY <1>1, <1>7 DEF Crash, TypeOK, Empty, NoEntry, Absent
  <2>2. \A j \in Instances : OutlivesFile(j)'
    BY <1>2, <2>1 DEF SurvivalInv, OutlivesFile, Saving, SavePcs
  <2>3. \A k \in Keys : file[k] > 1 => file'[k] > 0
    BY <1>2, <2>1
  <2> QED BY <2>1, <2>2, <2>3 DEF SurvivalInv
<1> DEFINE Quiet ==
      /\ UNCHANGED <<file, cache, snap>>
      /\ \A j \in Instances : \/ pc'[j] = pc[j]
                              \/ pc'[j] \in Gone \cup {"loadLock", "loadRead"}
                              \/ pc[j] \in Saving /\ pc'[j] \in Saving \ {"write"}
<1>8. ASSUME Quiet PROVE Good
  <2>1. \A i \in Instances : OutlivesFile(i)'
    BY <1>8, SurvivalQuiet
  <2>2. \A k \in Keys : file[k] > 1 => file'[k] > 0
    BY <1>2, <1>8
  <2> QED BY <1>8, <2>1, <2>2 DEF SurvivalInv
<1>9. ASSUME NEW i \in Instances, Start(i) \/ LoadLock(i) \/ OpenStateFile(i) PROVE Quiet
  BY <1>2, <1>9 DEF Start, LoadLock, OpenStateFile, memory, Orderly, NoFailures, Saving, SavePcs, Gone
<1>10. ASSUME NEW i \in Instances, TickerFires(i) \/ ContextDone(i) \/ SaveLock(i) PROVE Quiet
  BY <1>2, <1>10 DEF TickerFires, ContextDone, BeginSave, SaveLock, memory, Saving, SavePcs, Gone
<1>11. ASSUME NEW i \in Instances, ReleaseLock(i) \/ MarkSaved(i) PROVE Quiet
  BY <1>2, <1>11 DEF ReleaseLock, MarkSaved, EndSave, memory, Saving, SavePcs, Gone
<1>12. ASSUME NEW i \in Instances, Cancel(i) \/ LockExpires(i) \/ \E k \in Keys : MarkDirty(i, k)
       PROVE  Quiet
  BY <1>12 DEF Cancel, LockExpires, MarkDirty, memory, saver
<1>13. UNCHANGED vars => Quiet
  BY DEF vars, memory, saver
<1>14. ASSUME NEW i \in Instances PROVE ~LoadGivesUp(i) /\ ~LoadFails(i) /\ ~SaveGivesUp(i) /\ ~SaveFails(i)
  BY DEF LoadGivesUp, LoadFails, SaveGivesUp, SaveFails, Orderly, NoFailures
<1>15. Good
  <2> HIDE DEF Good, Quiet
  <2> QED BY <1>3, <1>4, <1>5, <1>6, <1>7, <1>8, <1>9, <1>10, <1>11, <1>12, <1>13, <1>14
          DEF Next, Load, Save, Handle
<1>16. SurvivalInv'
  BY <1>1, <1>15 DEF SurvivalInv
<1> QED BY <1>15, <1>16

\* An unexpired entry of the state file stays in it until it expires, across any
\* number of saves, crashes and restarts, as long as no load fails.
THEOREM SurvivalCorrect == Orderly /\ Spec => FileEntriesSurvive
<1> SUFFICES ASSUME Orderly PROVE Spec => FileEntriesSurvive
  OBVIOUS
<1>1. Init => SurvivalInv
  <2> SUFFICES ASSUME Init PROVE SurvivalInv
    OBVIOUS
  <2>1. /\ \A k \in Keys : file[k] = -1
        /\ \A i \in Instances, k \in Keys : cache[i][k] = 0 /\ snap[i][k] = -1
        /\ \A i \in Instances : pc[i] = "off"
    BY DEF Init, Empty, NoEntry, Absent
  <2>2. \A n \in Lives : 0 <= n /\ -1 <= n
    BY LivesAssumption
  <2> QED BY <2>1, <2>2, TypeInit DEF SurvivalInv, OneAtATime, OutlivesFile, Gone, Saving, SavePcs
<1> DEFINE Survives == \A k \in Keys : file[k] > 1 => file'[k] > 0
<1>2. SurvivalInv /\ [Next]_vars => SurvivalInv' /\ [Survives]_vars
  BY SurvivalStep
<1> QED BY <1>1, <1>2, PTL DEF Spec, FileEntriesSurvive

-----------------------------------------------------------------------------
\* Only the holder of the lock is anywhere between getting and releasing it.
Locked == {"loadRead", "loading", "snapshot", "write", "release"}
HolderWorks == \A i \in Instances : pc[i] \in Locked => holder = i

\* What is being loaded is what is in the file, up to the time since it was read.
LoadedIsCurrent ==
    \A i \in Instances : pc[i] = "loading" =>
      \A k \in Keys : Left(snap[i][k]) \in Left(file[k]) .. Left(file[k]) + loadTicks

\* A step that changes one instance only, as far as loads are concerned.
Moves(i) ==
    /\ UNCHANGED <<file, loadTicks>>
    /\ \A j \in Instances \ {i} : pc'[j] = pc[j] /\ snap'[j] = snap[j]

\* A step of one instance that neither gets nor releases the lock, nor writes.
LEMMA OtherInstanceStep ==
    ASSUME HolderWorks, LoadedIsCurrent, NEW i \in Instances, Moves(i), holder' = holder,
           pc'[i] \in Locked => holder = i,
           pc'[i] = "loading" =>
             \A k \in Keys : Left(snap'[i][k]) \in Left(file[k]) .. Left(file[k]) + loadTicks
    PROVE  HolderWorks' /\ LoadedIsCurrent'
BY DEF Moves, Locked, HolderWorks, LoadedIsCurrent

\* A step of one instance that gets the lock or releases it.
LEMMA LockingStep ==
    ASSUME HolderWorks, LoadedIsCurrent, NEW i \in Instances, Moves(i), pc'[i] # "loading",
           \/ Lock!Acquire(i)
           \/ Lock!Release(i) /\ pc'[i] \notin Locked
    PROVE  HolderWorks' /\ LoadedIsCurrent'
<1>1. ASSUME NEW j \in Instances, pc'[j] \in Locked PROVE holder' = j
  BY <1>1, InstancesAssumption DEF Moves, Locked, HolderWorks, Lock!Acquire, Lock!Release
<1>2. LoadedIsCurrent'
  BY DEF Moves, LoadedIsCurrent
<1> QED BY <1>1, <1>2 DEF HolderWorks, Locked

\* Time passes for the file and, but for the counted ticks, not for what is being
\* loaded.
LEMMA LoadTick ==
    ASSUME TypeOK, HolderWorks, LoadedIsCurrent, Tick
    PROVE  HolderWorks' /\ LoadedIsCurrent'
<1>1. HolderWorks'
  BY DEF Tick, HolderWorks
<1>2. ASSUME NEW i \in Instances, pc'[i] = "loading", NEW k \in Keys
      PROVE  Left(snap'[i][k]) \in Left(file'[k]) .. Left(file'[k]) + loadTicks'
  <2>1. pc[i] = "loading" /\ Loading /\ snap'[i] = snap[i] /\ loadTicks' = loadTicks + 1
    BY <1>2 DEF Tick, Loading
  <2>2. /\ Left(file[k]) \in Nat /\ Left(snap[i][k]) \in Nat /\ loadTicks \in Nat
        /\ Left(file'[k]) = IF Left(file[k]) > 0 THEN Left(file[k]) - 1 ELSE 0
    <3>1. /\ file \in [Keys -> Life \cup {Absent}] /\ snap[i] \in [Keys -> Life \cup {Absent}]
          /\ file' = Less(file)
      BY DEF TypeOK, Tick
    <3>2. loadTicks \in Nat
      BY BoundsAssumption DEF TypeOK
    <3>3. Left(file[k]) \in Nat /\ Left(snap[i][k]) \in Nat
      BY <3>1 DEF Left, Life, Absent
    <3> QED BY <3>1, <3>2, <3>3, LessFacts
  <2>3. Left(snap[i][k]) \in Left(file[k]) .. Left(file[k]) + loadTicks
    BY <2>1 DEF LoadedIsCurrent
  <2> QED BY <2>1, <2>2, <2>3
<1> QED BY <1>1, <1>2 DEF LoadedIsCurrent

\* Every step keeps both.
LEMMA LoadStep ==
    ASSUME TypeOK, HolderWorks, LoadedIsCurrent, [Next]_vars
    PROVE  HolderWorks' /\ LoadedIsCurrent'
<1> DEFINE Done == HolderWorks' /\ LoadedIsCurrent'
<1>1. CASE UNCHANGED <<holder, file, loadTicks, pc, snap>>
  BY <1>1 DEF HolderWorks, LoadedIsCurrent
<1>2. ASSUME NEW i \in Instances, Load(i) PROVE Done
  <2>1. Moves(i)
    BY <1>2 DEF Load, Start, LoadLock, LoadRead, LoadEntries, LoadGivesUp, LoadFails, Goto,
       TypeOK, Moves, ghosts
  <2>2. CASE LoadRead(i)
    <3>1. \A k \in Keys : Left(file[k]) \in Left(file[k]) .. Left(file[k]) + loadTicks
      BY BoundsAssumption DEF TypeOK, Life, Left, Absent
    <3>2. snap'[i] = file /\ holder' = holder /\ holder = i
      BY <2>2 DEF LoadRead, TypeOK, HolderWorks, Locked
    <3> QED BY <2>1, <3>1, <3>2, OtherInstanceStep
  <2>3. CASE LoadLock(i) \/ LoadFails(i) \/ LoadEntries(i)
    <3>1. /\ pc'[i] # "loading"
          /\ Lock!Acquire(i) \/ (Lock!Release(i) /\ pc'[i] \notin Locked)
      BY <2>3 DEF LoadLock, LoadFails, LoadEntries, Goto, TypeOK, Locked
    <3> QED BY <2>1, <3>1, LockingStep
  <2>4. CASE Start(i) \/ LoadGivesUp(i)
    <3>1. holder' = holder /\ pc'[i] \in {"loadLock", "open"}
      BY <2>4 DEF Start, LoadGivesUp, Goto, TypeOK
    <3> QED BY <2>1, <3>1, OtherInstanceStep DEF Locked
  <2> QED BY <1>2, <2>2, <2>3, <2>4 DEF Load
<1>3. ASSUME NEW i \in Instances, OpenStateFile(i) \/ TickerFires(i) \/ ContextDone(i) PROVE Done
  <2>1. /\ Moves(i) /\ holder' = holder
        /\ pc'[i] \in {"tick", "exited", "lock"}
    BY <1>3 DEF OpenStateFile, TickerFires, ContextDone, BeginSave, Goto, TypeOK, Moves, ghosts
  <2> QED BY <2>1, OtherInstanceStep DEF Locked
<1>4. ASSUME NEW i \in Instances, SaveLock(i) \/ ReleaseLock(i) PROVE Done
  <2>1. /\ Moves(i) /\ pc'[i] # "loading"
        /\ Lock!Acquire(i) \/ (Lock!Release(i) /\ pc'[i] \notin Locked)
    BY <1>4 DEF SaveLock, ReleaseLock, Goto, TypeOK, Moves, Locked, ghosts
  <2> QED BY <2>1, LockingStep
<1>5. ASSUME NEW i \in Instances, TakeSnapshot(i) PROVE Done
  <2>1. /\ Moves(i) /\ holder = i /\ holder' = holder
        /\ pc'[i] = "write"
    BY <1>5 DEF TakeSnapshot, Goto, TypeOK, Moves, HolderWorks, Locked, ghosts
  <2> QED BY <2>1, OtherInstanceStep
<1>6. ASSUME NEW i \in Instances, Write(i) PROVE Done
  \* Nobody else holds the lock, so nobody is loading the file that is replaced.
  <2>1. holder = i /\ \A j \in Instances : pc[j] # "loading"
    BY <1>6 DEF Write, HolderWorks, Locked
  <2> QED BY <1>6, <2>1 DEF Write, Goto, TypeOK, HolderWorks, LoadedIsCurrent, Locked
<1>7. ASSUME NEW i \in Instances, MarkSaved(i) \/ SaveGivesUp(i) PROVE Done
  <2>1. /\ Moves(i) /\ holder' = holder
        /\ pc'[i] \in {"tick", "exited"}
    BY <1>7 DEF MarkSaved, SaveGivesUp, EndSave, Goto, TypeOK, Moves, ghosts
  <2> QED BY <2>1, OtherInstanceStep DEF Locked
<1>8. ASSUME NEW i \in Instances, SaveFails(i) PROVE Done
  <2>1. Moves(i) /\ Lock!Release(i) /\ pc'[i] \in {"tick", "exited"}
    BY <1>8 DEF SaveFails, EndSave, Goto, TypeOK, Moves, ghosts
  <2> QED BY <2>1, LockingStep DEF Locked
<1>9. ASSUME NEW i \in Instances, Crash(i) PROVE Done
  <2>1. Moves(i) /\ holder' = holder /\ pc'[i] = "dead"
    BY <1>9 DEF Crash, Goto, TypeOK, Moves
  <2> QED BY <2>1, OtherInstanceStep DEF Locked
<1>10. ASSUME NEW i \in Instances, LockExpires(i) PROVE Done
  <2>1. Moves(i) /\ Lock!Release(i) /\ pc'[i] = "dead"
    BY <1>10 DEF LockExpires, Moves, saver, ghosts
  <2> QED BY <2>1, LockingStep DEF Locked
<1>11. ASSUME NEW i \in Instances, Cancel(i) \/ Handle(i) PROVE Done
  BY <1>1, <1>11 DEF Cancel, Handle, Grant, MarkDirty, saver, ghosts
<1>12. CASE Tick
  BY <1>12, LoadTick
<1>13. CASE UNCHANGED vars
  BY <1>1, <1>13 DEF vars, saver, ghosts
<1> QED
  BY <1>2, <1>3, <1>4, <1>5, <1>6, <1>7, <1>8, <1>9, <1>10, <1>11, <1>12, <1>13
  DEF Next, Save

\* However many instances save and load one file at the same time, crash and lose
\* their locks: who has loaded it has what is in it at the end of the load.
THEOREM LoadsCurrentCorrect == Spec => LoadsAreCurrent
<1> DEFINE Current ==
      \A i \in Instances : pc[i] = "loading" /\ pc'[i] = "open" =>
        \A k \in Keys : cache'[i][k] \in Left(file[k]) .. Left(file[k]) + loadTicks
<1>1. Init => HolderWorks /\ LoadedIsCurrent
  BY DEF Init, HolderWorks, LoadedIsCurrent, Locked
<1>2. TypeOK /\ HolderWorks /\ LoadedIsCurrent /\ [Next]_vars
        => HolderWorks' /\ LoadedIsCurrent'
  BY LoadStep
<1>3. ASSUME TypeOK, LoadedIsCurrent, [Next]_vars, NEW i \in Instances,
             pc[i] = "loading", pc'[i] = "open", NEW k \in Keys
      PROVE  cache'[i][k] \in Left(file[k]) .. Left(file[k]) + loadTicks
  <2>1. ASSUME NEW j \in Instances, pc' = pc \/ \E l : pc' = [pc EXCEPT ![j] = l]
        PROVE  j = i
    BY <1>3, <2>1 DEF TypeOK
  <2>2. ~ Tick /\ ~ UNCHANGED vars
    BY <1>3 DEF Tick, vars, saver
  <2>3. PICK j \in Instances :
          Load(j) \/ Save(j) \/ Handle(j) \/ Cancel(j) \/ Crash(j) \/ LockExpires(j)
    BY <1>3, <2>2 DEF Next
  <2>4. pc' = pc \/ \E l : pc' = [pc EXCEPT ![j] = l]
    BY <2>3, Zenon DEF Load, Start, LoadLock, LoadRead, LoadEntries, LoadGivesUp, LoadFails,
       Save, OpenStateFile, TickerFires, ContextDone, BeginSave, SaveLock, TakeSnapshot, Write,
       ReleaseLock, MarkSaved, SaveGivesUp, SaveFails, EndSave, Handle, Grant, MarkDirty, Cancel,
       Crash, LockExpires, Goto, saver
  <2>5. LoadEntries(i)
    BY <1>3, <2>1, <2>3, <2>4 DEF Load, Start, LoadLock, LoadRead, LoadGivesUp, LoadFails,
       Save, OpenStateFile, TickerFires, ContextDone, BeginSave, SaveLock, TakeSnapshot, Write,
       ReleaseLock, MarkSaved, SaveGivesUp, SaveFails, EndSave, Handle, Grant, MarkDirty, Cancel,
       Crash, LockExpires, Goto, saver, TypeOK
  <2> QED BY <1>3, <2>5 DEF LoadEntries, LoadedIsCurrent, TypeOK
<1>4. TypeOK /\ LoadedIsCurrent /\ [Next]_vars => [Current]_vars
  BY <1>3
<1> QED BY <1>1, <1>2, <1>4, TypeCorrect, PTL DEF Spec, LoadsAreCurrent
=============================================================================
