-------------------------- MODULE MCFileWriteLocks --------------------------
(***************************************************************************)
(* Three writers, two inodes and five mutexes: as many as can be alive or  *)
(* weakly referenced at once, so NewMutex never waits for one.             *)
(***************************************************************************)
EXTENDS FileWriteLocks, TLC

MutexSymmetry == Permutations(Mutex)
=============================================================================
