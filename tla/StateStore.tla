----------------------------- MODULE StateStore -----------------------------
(***************************************************************************)
(* The persistence of the verified cache: saveState, saveStateNow and      *)
(* loadState of main.go over internal/state/state.go.  Several instances   *)
(* of the middleware share one state file, one after the other (restarts)  *)
(* or at the same time (a reloaded configuration, or several middlewares). *)
(*                                                                         *)
(* An expiration is represented by the ticks that are left until it, which *)
(* every Tick decrements.  An entry of a file with 0 ticks left is expired *)
(* but still there, other than no entry; a cache finds neither.            *)
(* The lock is the abstract one that module FileLock implements.           *)
(***************************************************************************)
EXTENDS Integers

CONSTANTS
    Instances,     \* incarnations of the middleware that use the file
    None,          \* "nobody"
    Keys,          \* verification keys
    Lives,         \* the lifetimes that verifyChallengePage gives to an entry
    MaxMarks,      \* bound on the changes of one instance
    LoadSlack,     \* bound on the ticks that pass while state files load
    Overlap,       \* may instances run at the same time?
    LockTimeouts,  \* may Lock() give up while another holds the lock?
    IoErrors       \* may reading and writing files fail?

ASSUME InstancesAssumption == None \notin Instances
ASSUME LivesAssumption == Lives \subseteq Nat \ {0}
ASSUME BoundsAssumption == MaxMarks \in Nat /\ LoadSlack \in Nat
ASSUME SwitchAssumption == {Overlap, LockTimeouts, IoErrors} \subseteq BOOLEAN

VARIABLES
    holder,        \* who holds the lock of the state file
    file,          \* the state file: ticks left of every key in it, or Absent
    lastWriter,    \* ghost: the instance that wrote the file last
    cache,         \* verifiedCache of every instance
    marking,       \* how many handlers are between verifiedCache.Set and markStateDirty
    dirty,         \* stateDirty
    saved,         \* stateSavedDirty
    pc,            \* loadState, then the saveState goroutine
    dirtyAtStart,  \* local of saveStateNow
    snap,          \* the items being loaded or saved, as in a file
    final,         \* is this the save that follows the cancellation?
    rested,        \* has the interval since the last save passed?
    cancelled,     \* is the context of the instance cancelled?
    dirtyAtCancel, \* ghost: stateDirty at that moment
    loadTicks,     \* ghost: ticks that passed while state files were loaded
    granted        \* ghost: ticks left of the longest grant of every key

memory == <<cache, marking, dirty, saved>>
saver == <<pc, dirtyAtStart, snap, final, rested>>
ghosts == <<lastWriter, dirtyAtCancel, loadTicks, granted>>
vars == <<holder, file, memory, saver, cancelled, ghosts>>

Lock == INSTANCE ExclusiveLock WITH Procs <- Instances

Life == Nat
Empty == [k \in Keys |-> 0]
Absent == -1
NoEntry == [k \in Keys |-> Absent]

\* What an entry of a file is worth.
Left(n) == IF n > 0 THEN n ELSE 0
LoadPcs == {"loadLock", "loadRead", "loading"}
SavePcs == {"lock", "snapshot", "write", "release", "mark"}
Gone == {"off", "exited", "dead"}

TypeOK ==
    /\ holder \in Instances \cup {None}
    /\ file \in [Keys -> Life \cup {Absent}]
    /\ lastWriter \in Instances \cup {None}
    /\ cache \in [Instances -> [Keys -> Life]]
    /\ marking \in [Instances -> [Keys -> Nat]]
    /\ dirty \in [Instances -> Nat]
    /\ saved \in [Instances -> Nat]
    /\ pc \in [Instances -> LoadPcs \cup SavePcs \cup Gone \cup {"open", "tick"}]
    /\ dirtyAtStart \in [Instances -> Nat]
    /\ snap \in [Instances -> [Keys -> Life \cup {Absent}]]
    /\ final \in [Instances -> BOOLEAN]
    /\ rested \in [Instances -> BOOLEAN]
    /\ cancelled \in [Instances -> BOOLEAN]
    /\ dirtyAtCancel \in [Instances -> Nat]
    /\ loadTicks \in 0 .. LoadSlack
    /\ granted \in [Keys -> Life]

Init ==
    /\ holder = None
    /\ file = NoEntry
    /\ lastWriter = None
    /\ cache = [i \in Instances |-> Empty]
    /\ marking = [i \in Instances |-> Empty]
    /\ dirty = [i \in Instances |-> 0]
    /\ saved = [i \in Instances |-> 0]
    /\ pc = [i \in Instances |-> "off"]
    /\ dirtyAtStart = [i \in Instances |-> 0]
    /\ snap = [i \in Instances |-> NoEntry]
    /\ final = [i \in Instances |-> FALSE]
    /\ rested = [i \in Instances |-> TRUE]
    /\ cancelled = [i \in Instances |-> FALSE]
    /\ dirtyAtCancel = [i \in Instances |-> 0]
    /\ loadTicks = 0
    /\ granted = Empty

Goto(i, l) == pc' = [pc EXCEPT ![i] = l]

-----------------------------------------------------------------------------
\* NewCaptchaProtect calls loadState.
Start(i) ==
    /\ pc[i] = "off"
    /\ Overlap \/ \A j \in Instances : pc[j] \in Gone
    /\ Goto(i, "loadLock")
    /\ UNCHANGED <<holder, file, memory, dirtyAtStart, snap, final, rested, cancelled, ghosts>>

\* LoadStateFromFile: lock, read, and set every entry with the duration from
\* the one reading of the clock to its expiration; the deferred Close unlocks.
LoadLock(i) ==
    /\ pc[i] = "loadLock"
    /\ Lock!Acquire(i)
    /\ Goto(i, "loadRead")
    /\ UNCHANGED <<file, memory, dirtyAtStart, snap, final, rested, cancelled, ghosts>>

LoadRead(i) ==
    /\ pc[i] = "loadRead"
    /\ snap' = [snap EXCEPT ![i] = file]
    /\ Goto(i, "loading")
    /\ UNCHANGED <<holder, file, memory, dirtyAtStart, final, rested, cancelled, ghosts>>

\* Mutant: expired entries are loaded too, and a duration of 0 means the default.
LoadEntriesUnskipped(i) ==
    /\ pc[i] = "loading"
    /\ cache' = [cache EXCEPT ![i] = [k \in Keys |->
                   IF snap[i][k] = 0 THEN CHOOSE n \in Lives : \A m \in Lives : n >= m
                                     ELSE Left(snap[i][k])]]
    /\ snap' = [snap EXCEPT ![i] = NoEntry]
    /\ Lock!Release(i)
    /\ Goto(i, "open")
    /\ UNCHANGED <<file, marking, dirty, saved, dirtyAtStart, final, rested, cancelled, ghosts>>

\* Expired entries are skipped: a duration of 0 or less means another thing to Set.
LoadEntries(i) ==
    /\ pc[i] = "loading"
    /\ cache' = [cache EXCEPT ![i] = [k \in Keys |-> Left(snap[i][k])]]
    /\ snap' = [snap EXCEPT ![i] = NoEntry]
    /\ Lock!Release(i)
    /\ Goto(i, "open")
    /\ UNCHANGED <<file, marking, dirty, saved, dirtyAtStart, final, rested, cancelled, ghosts>>

\* The load fails: a warning is logged and the instance starts with no entry.
LoadGivesUp(i) ==
    /\ LockTimeouts
    /\ pc[i] = "loadLock"
    /\ holder # None
    /\ Goto(i, "open")
    /\ UNCHANGED <<holder, file, memory, dirtyAtStart, snap, final, rested, cancelled, ghosts>>

LoadFails(i) ==
    /\ IoErrors
    /\ pc[i] = "loadRead"
    /\ Lock!Release(i)
    /\ Goto(i, "open")
    /\ UNCHANGED <<file, memory, dirtyAtStart, snap, final, rested, cancelled, ghosts>>

-----------------------------------------------------------------------------
\* verifyChallengePage of a running instance: Set, then markStateDirty.
Grant(i, k) ==
    /\ pc[i] \in {"open", "tick", "exited"} \cup SavePcs
    /\ dirty[i] + marking[i][k] < MaxMarks
    /\ \E n \in Lives :
         /\ cache' = [cache EXCEPT ![i][k] = n]
         /\ granted' = [granted EXCEPT ![k] = IF n > @ THEN n ELSE @]
    /\ marking' = [marking EXCEPT ![i][k] = @ + 1]
    /\ UNCHANGED <<holder, file, dirty, saved, saver, cancelled, lastWriter, dirtyAtCancel, loadTicks>>

MarkDirty(i, k) ==
    /\ marking[i][k] > 0
    /\ marking' = [marking EXCEPT ![i][k] = @ - 1]
    /\ dirty' = [dirty EXCEPT ![i] = @ + 1]
    /\ UNCHANGED <<holder, file, cache, saved, saver, cancelled, ghosts>>

-----------------------------------------------------------------------------
\* Mutant: the file is opened with O_TRUNC.
OpenStateFileTruncating(i) ==
    /\ pc[i] = "open"
    /\ file' = NoEntry
    /\ Goto(i, "tick")
    /\ UNCHANGED <<holder, memory, dirtyAtStart, snap, final, rested, cancelled, ghosts>>

\* saveState begins: it opens the file, or gives up for good.
OpenStateFile(i) ==
    /\ pc[i] = "open"
    /\ \/ Goto(i, "tick")
       \/ IoErrors /\ Goto(i, "exited")
    /\ UNCHANGED <<holder, file, memory, dirtyAtStart, snap, final, rested, cancelled, ghosts>>

\* saveStateNow begins.
BeginSave(i) ==
    /\ Goto(i, "lock")
    /\ dirtyAtStart' = [dirtyAtStart EXCEPT ![i] = dirty[i]]
    /\ UNCHANGED <<holder, file, memory, snap, rested, cancelled, ghosts>>

\* Mutant: a single change is not worth a save.
TickerFiresForTwo(i) ==
    /\ pc[i] = "tick"
    /\ dirty[i] > saved[i] + 1
    /\ rested[i]
    /\ BeginSave(i)
    /\ UNCHANGED final

TickerFires(i) ==
    /\ pc[i] = "tick"
    /\ dirty[i] # saved[i]
    /\ rested[i]
    /\ BeginSave(i)
    /\ UNCHANGED final

\* Mutant: the shutdown respects the interval between two saves.
ContextDoneResting(i) ==
    /\ pc[i] = "tick"
    /\ cancelled[i]
    /\ \/ dirty[i] # saved[i] /\ rested[i] /\ final' = [final EXCEPT ![i] = TRUE] /\ BeginSave(i)
       \/ /\ dirty[i] = saved[i] \/ ~rested[i]
          /\ Goto(i, "exited")
          /\ UNCHANGED <<holder, file, memory, dirtyAtStart, snap, final, rested, cancelled, ghosts>>

ContextDone(i) ==
    /\ pc[i] = "tick"
    /\ cancelled[i]
    /\ \/ dirty[i] # saved[i] /\ final' = [final EXCEPT ![i] = TRUE] /\ BeginSave(i)
       \/ /\ dirty[i] = saved[i]
          /\ Goto(i, "exited")
          /\ UNCHANGED <<holder, file, memory, dirtyAtStart, snap, final, rested, cancelled, ghosts>>

\* Mutant: a lock that cannot be had is only worth a warning.
SaveLockOrNot(i) ==
    /\ pc[i] = "lock"
    /\ Lock!Acquire(i) \/ (holder # None /\ UNCHANGED holder)
    /\ Goto(i, "snapshot")
    /\ UNCHANGED <<file, memory, dirtyAtStart, snap, final, rested, cancelled, ghosts>>

\* SaveStateToFileWithMetrics: lock, copy the cache, write and rename.
SaveLock(i) ==
    /\ pc[i] = "lock"
    /\ Lock!Acquire(i)
    /\ Goto(i, "snapshot")
    /\ UNCHANGED <<file, memory, dirtyAtStart, snap, final, rested, cancelled, ghosts>>

\* Items leaves out what is expired; what expires from here on is in the file.
TakeSnapshot(i) ==
    /\ pc[i] = "snapshot"
    /\ snap' = [snap EXCEPT ![i] =
                  [k \in Keys |-> IF cache[i][k] > 0 THEN cache[i][k] ELSE Absent]]
    /\ Goto(i, "write")
    /\ UNCHANGED <<holder, file, memory, dirtyAtStart, final, rested, cancelled, ghosts>>

Write(i) ==
    /\ pc[i] = "write"
    /\ file' = snap[i]
    /\ lastWriter' = i
    /\ snap' = [snap EXCEPT ![i] = NoEntry]
    /\ Goto(i, "release")
    /\ UNCHANGED <<holder, memory, dirtyAtStart, final, rested, cancelled, dirtyAtCancel, loadTicks, granted>>

ReleaseLock(i) ==
    /\ pc[i] = "release"
    /\ Lock!Release(i)
    /\ Goto(i, "mark")
    /\ UNCHANGED <<file, memory, dirtyAtStart, snap, final, rested, cancelled, ghosts>>

\* saveStateNow returns: to the loop, or, after the cancellation, for good.
EndSave(i) ==
    /\ Goto(i, IF final[i] THEN "exited" ELSE "tick")
    /\ final' = [final EXCEPT ![i] = FALSE]
    /\ dirtyAtStart' = [dirtyAtStart EXCEPT ![i] = 0]

\* Mutant: everything counts as saved, the changes during the save included.
MarkSavedLatest(i) ==
    /\ pc[i] = "mark"
    /\ saved' = [saved EXCEPT ![i] = dirty[i]]
    /\ rested' = [rested EXCEPT ![i] = FALSE]
    /\ EndSave(i)
    /\ UNCHANGED <<holder, file, cache, marking, dirty, snap, cancelled, ghosts>>

\* markStateSaved with the count that was read before the snapshot.
MarkSaved(i) ==
    /\ pc[i] = "mark"
    /\ saved' = [saved EXCEPT ![i] = dirtyAtStart[i]]
    /\ rested' = [rested EXCEPT ![i] = FALSE]
    /\ EndSave(i)
    /\ UNCHANGED <<holder, file, cache, marking, dirty, snap, cancelled, ghosts>>

\* The save fails: nothing is marked, and the next tick tries again.
SaveGivesUp(i) ==
    /\ LockTimeouts
    /\ pc[i] = "lock"
    /\ holder # None
    /\ EndSave(i)
    /\ UNCHANGED <<holder, file, memory, snap, rested, cancelled, ghosts>>

SaveFails(i) ==
    /\ IoErrors
    /\ pc[i] = "write"
    /\ snap' = [snap EXCEPT ![i] = NoEntry]
    /\ Lock!Release(i)
    /\ EndSave(i)
    /\ UNCHANGED <<file, memory, rested, cancelled, ghosts>>

-----------------------------------------------------------------------------
\* Traefik shuts down or loads a new configuration.
Cancel(i) ==
    /\ pc[i] \notin Gone \cup LoadPcs
    /\ ~cancelled[i]
    /\ cancelled' = [cancelled EXCEPT ![i] = TRUE]
    /\ dirtyAtCancel' = [dirtyAtCancel EXCEPT ![i] = dirty[i]]
    /\ UNCHANGED <<holder, file, memory, saver, lastWriter, loadTicks, granted>>

\* The process is killed; a lock that it holds stays behind.
Crash(i) ==
    /\ pc[i] \notin {"off", "dead"}
    /\ Goto(i, "dead")
    /\ cache' = [cache EXCEPT ![i] = Empty]
    /\ snap' = [snap EXCEPT ![i] = NoEntry]
    /\ marking' = [marking EXCEPT ![i] = Empty]
    /\ dirty' = [dirty EXCEPT ![i] = 0]
    /\ saved' = [saved EXCEPT ![i] = 0]
    /\ dirtyAtStart' = [dirtyAtStart EXCEPT ![i] = 0]
    /\ final' = [final EXCEPT ![i] = FALSE]
    /\ rested' = [rested EXCEPT ![i] = TRUE]
    /\ cancelled' = [cancelled EXCEPT ![i] = FALSE]
    /\ dirtyAtCancel' = [dirtyAtCancel EXCEPT ![i] = 0]
    /\ UNCHANGED <<holder, file, lastWriter, loadTicks, granted>>

\* The lock of a dead process becomes stale and is removed.
LockExpires(i) ==
    /\ pc[i] = "dead"
    /\ Lock!Release(i)
    /\ UNCHANGED <<file, memory, saver, cancelled, ghosts>>

Loading == \E i \in Instances : pc[i] = "loading"

\* Mutant: the durations of expired entries are not cut off at zero.
LessThanZero(f) == [k \in Keys |-> f[k] - 1]

Less(f) == [k \in Keys |-> IF f[k] > 0 THEN f[k] - 1 ELSE f[k]]

\* Time passes.  Entries that are being loaded keep the duration they had when
\* LoadStateFromFile read the clock.
Tick ==
    /\ Loading => loadTicks < LoadSlack
    /\ file' = Less(file)
    /\ granted' = Less(granted)
    /\ cache' = [i \in Instances |-> Less(cache[i])]
    /\ snap' = [i \in Instances |-> IF pc[i] = "loading" THEN snap[i] ELSE Less(snap[i])]
    /\ loadTicks' = IF Loading THEN loadTicks + 1 ELSE loadTicks
    /\ rested' = [i \in Instances |-> TRUE]
    /\ UNCHANGED <<holder, marking, dirty, saved, pc, dirtyAtStart, final, cancelled,
                   lastWriter, dirtyAtCancel>>

Load(i) ==
    \/ Start(i) \/ LoadLock(i) \/ LoadRead(i) \/ LoadEntries(i)
    \/ LoadGivesUp(i) \/ LoadFails(i)

Save(i) ==
    \/ OpenStateFile(i) \/ TickerFires(i) \/ ContextDone(i)
    \/ SaveLock(i) \/ TakeSnapshot(i) \/ Write(i) \/ ReleaseLock(i) \/ MarkSaved(i)
    \/ SaveGivesUp(i) \/ SaveFails(i)

Handle(i) == \E k \in Keys : Grant(i, k) \/ MarkDirty(i, k)

Next ==
    \/ Tick
    \/ \E i \in Instances :
         Load(i) \/ Save(i) \/ Handle(i) \/ Cancel(i) \/ Crash(i) \/ LockExpires(i)

Spec == Init /\ [][Next]_vars

\* The goroutine runs, a save that is tried for ever succeeds some time, the
\* lock of a dead process expires, and time passes.
Fairness ==
    /\ WF_vars(Tick)
    /\ \A i \in Instances :
         /\ WF_vars(Save(i))
         /\ WF_vars(\E k \in Keys : MarkDirty(i, k))
         /\ SF_vars(SaveLock(i)) /\ SF_vars(Write(i))
         /\ WF_vars(LoadLock(i) \/ LoadRead(i) \/ LoadEntries(i))
         /\ WF_vars(LockExpires(i))

FairSpec == Spec /\ Fairness

-----------------------------------------------------------------------------
\* An instance that thinks everything is saved is right: as long as nobody else
\* wrote the file, it has every live entry whose handlers are done, with the
\* expiration the cache has.  (A change during a save is never forgotten.)
SavedMeansOnDisk ==
    \A i \in Instances : lastWriter = i /\ dirty[i] = saved[i] /\ pc[i] # "dead" =>
      \A k \in Keys : marking[i][k] = 0 => Left(file[k]) = cache[i][k]

\* However often an entry is saved and loaded, also when it expires on the way, it
\* outlives what was granted by no more than the time that the loads took.
LoadsHardlyProlong ==
    \A i \in Instances, k \in Keys : cache[i][k] <= granted[k] + loadTicks

\* An instance that has loaded the file has what is in it at the end of the load,
\* however many others save meanwhile, but for the time that loads took.
LoadsAreCurrent ==
    [][\A i \in Instances : pc[i] = "loading" /\ pc'[i] = "open" =>
         \A k \in Keys : cache'[i][k] \in Left(file[k]) .. Left(file[k]) + loadTicks]_vars

\* An unexpired entry of the state file stays in the file until it expires,
\* across saves, crashes and restarts.  (A key that is verified again for a
\* shorter time loses the rest of the longer one, so this is about one life.)
FileEntriesSurvive ==
    [][\A k \in Keys : file[k] > 1 => file'[k] > 0]_vars

\* What was marked when the context was cancelled is saved when saveState ends.
ShutdownSaves ==
    \A i \in Instances : pc[i] = "exited" => saved[i] >= dirtyAtCancel[i]

\* Every change is saved some time, unless the instance ends before.
ChangesGetSaved ==
    \A i \in Instances : \A n \in 1 .. MaxMarks :
      dirty[i] >= n ~> saved[i] >= n \/ pc[i] \in Gone
=============================================================================
