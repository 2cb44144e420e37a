----------------------------- MODULE MCFileLock -----------------------------
\* FileLock on small instances: the values of its constants for TLC.
EXTENDS FileLock, TLC

\* Every user has tokens of its own: different processes on one machine, or
\* instances of one process, which share lockOwnerCounter.
DistinctPids == Procs
OwnPid == [p \in Procs |-> p]

\* Containers that share the directory of the state file: each runs Traefik as
\* process 1 and counts its locks from 1.
ContainerPids == {1}
ContainerPid == [p \in Procs |-> 1]

Symmetry == Permutations(Procs)
=============================================================================
