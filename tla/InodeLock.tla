----------------------------- MODULE InodeLock -----------------------------
(***************************************************************************)
(* What the write locks of the file system promise: of every inode there   *)
(* is at most one writer at a time, a lock is only ever taken when it is   *)
(* free, and only its holder gives it back.  FileWriteLocks is the         *)
(* detailed specification of the code that keeps this promise.             *)
(***************************************************************************)
CONSTANTS Task,      \* the tasks that open files for writing
          Inode,     \* inode identifiers
          NoTask     \* "nobody holds the lock"

VARIABLE holder      \* holder[i] is the task that may write inode i

LockInit == holder = [i \in Inode |-> NoTask]

Take(t, i) ==
  /\ holder[i] = NoTask
  /\ holder' = [holder EXCEPT ![i] = t]

Give(t, i) ==
  /\ holder[i] = t
  /\ holder' = [holder EXCEPT ![i] = NoTask]

LockNext == \E t \in Task, i \in Inode : Take(t, i) \/ Give(t, i)

LockSpec == LockInit /\ [][LockNext]_holder
=============================================================================
