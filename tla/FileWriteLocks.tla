--------------------------- MODULE FileWriteLocks ---------------------------
(***************************************************************************)
(* The per-inode write locks of janus-vfs (vfs/file.rs, FileWriteLocks) and*)
(* their twin in the NFS server (janus-fs/src/nfs/mod.rs, WriteLock).      *)
(*                                                                         *)
(* A lock is an async mutex that lives only as long as somebody holds a    *)
(* strong reference to it: a task waiting for it or the guard of the task  *)
(* that owns it.  The table keeps weak references, and a released lock     *)
(* purges the entries that died.  Two tasks exclude each other only if     *)
(* they met at the same mutex, so what has to be right is the bookkeeping  *)
(* of references: a purge that is too eager, or a lookup that replaces a   *)
(* living mutex, gives two writers two different mutexes.                  *)
(***************************************************************************)
CONSTANTS Task,      \* tasks that open a file for writing
          Inode,     \* inode identifiers
          Mutex,     \* the mutex objects that can exist at once
          NoTask, NoMutex

ASSUME NoTaskAssumption == NoTask \notin Task
ASSUME NoMutexAssumption == NoMutex \notin Mutex

VARIABLES
  table,   \* table[i]: the mutex the weak reference of inode i points to
  pc,      \* where each task is
  want,    \* the inode a task asked for
  arc,     \* the mutex a task keeps alive
  owner    \* owner[m]: the task whose guard has locked m

vars == <<table, pc, want, arc, owner>>

TypeOK ==
  /\ table \in [Inode -> Mutex \cup {NoMutex}]
  /\ pc \in [Task -> {"idle", "waiting", "holding", "releasing"}]
  /\ want \in [Task -> Inode]
  /\ arc \in [Task -> Mutex \cup {NoMutex}]
  /\ owner \in [Mutex -> Task \cup {NoTask}]

Init ==
  /\ table = [i \in Inode |-> NoMutex]
  /\ pc = [t \in Task |-> "idle"]
  /\ want \in [Task -> Inode]
  /\ arc = [t \in Task |-> NoMutex]
  /\ owner = [m \in Mutex |-> NoTask]

\* Weak::strong_count(m) >= 1
Alive(m) == \E t \in Task : arc[t] = m

\* HashMap::get(inode).and_then(Weak::upgrade)
Upgradable(i) == table[i] # NoMutex /\ Alive(table[i])

\* A new Arc: its memory is shared neither with a living mutex nor with one
\* that a weak reference still points to.
Unused(m) == ~Alive(m) /\ \A i \in Inode : table[i] # m

(***************************************************************************)
(* acquire, the part under the table's own lock: share the living mutex of *)
(* the inode or put a new one in its place.                                *)
(***************************************************************************)
JoinMutex(t, i) ==
  /\ pc[t] = "idle"
  /\ Upgradable(i)
  /\ arc' = [arc EXCEPT ![t] = table[i]]
  /\ want' = [want EXCEPT ![t] = i]
  /\ pc' = [pc EXCEPT ![t] = "waiting"]
  /\ UNCHANGED <<table, owner>>

NewMutex(t, i) ==
  /\ pc[t] = "idle"
  /\ ~Upgradable(i)
  /\ \E m \in Mutex :
       /\ Unused(m)
       /\ table' = [table EXCEPT ![i] = m]
       /\ arc' = [arc EXCEPT ![t] = m]
       /\ owner' = [owner EXCEPT ![m] = NoTask]
  /\ want' = [want EXCEPT ![t] = i]
  /\ pc' = [pc EXCEPT ![t] = "waiting"]

\* Mutant of Lock: the mutex is taken although somebody owns it.
LockOwned(t) ==
  /\ pc[t] = "waiting"
  /\ owner' = [owner EXCEPT ![arc[t]] = t]
  /\ pc' = [pc EXCEPT ![t] = "holding"]
  /\ UNCHANGED <<table, want, arc>>

\* lock_owned() resolves.
Lock(t) ==
  /\ pc[t] = "waiting"
  /\ owner[arc[t]] = NoTask
  /\ owner' = [owner EXCEPT ![arc[t]] = t]
  /\ pc' = [pc EXCEPT ![t] = "holding"]
  /\ UNCHANGED <<table, want, arc>>

\* The five seconds are over (LockError::AcquisitionTimeout), or the caller's
\* future is dropped: the strong reference goes, the table entry stays.
GiveUp(t) ==
  /\ pc[t] = "waiting"
  /\ arc' = [arc EXCEPT ![t] = NoMutex]
  /\ pc' = [pc EXCEPT ![t] = "idle"]
  /\ UNCHANGED <<table, want, owner>>

(***************************************************************************)
(* Drop of the lock takes two steps that other tasks can come between:     *)
(* the guard goes first, then the table is purged under its own lock.      *)
(***************************************************************************)
DropGuard(t) ==
  /\ pc[t] = "holding"
  /\ owner' = [owner EXCEPT ![arc[t]] = NoTask]
  /\ arc' = [arc EXCEPT ![t] = NoMutex]
  /\ pc' = [pc EXCEPT ![t] = "releasing"]
  /\ UNCHANGED <<table, want>>

\* Mutant of Purge: entries that nobody has locked go, waited for or not.
PurgeWaiting(t) ==
  /\ pc[t] = "releasing"
  /\ table' = [i \in Inode |->
       IF Upgradable(i) /\ owner[table[i]] # NoTask THEN table[i] ELSE NoMutex]
  /\ pc' = [pc EXCEPT ![t] = "idle"]
  /\ UNCHANGED <<want, arc, owner>>

Purge(t) ==
  /\ pc[t] = "releasing"
  /\ table' = [i \in Inode |-> IF Upgradable(i) THEN table[i] ELSE NoMutex]
  /\ pc' = [pc EXCEPT ![t] = "idle"]
  /\ UNCHANGED <<want, arc, owner>>

TaskStep(t) ==
  \/ \E i \in Inode : JoinMutex(t, i) \/ NewMutex(t, i)
  \/ Lock(t) \/ GiveUp(t) \/ DropGuard(t) \/ Purge(t)

Next == \E t \in Task : TaskStep(t)

Spec == Init /\ [][Next]_vars

-----------------------------------------------------------------------------
\* Two tasks never hold the write lock of the same inode, whatever mutexes
\* acquire handed them (vfs/file.rs:210, nfs/mod.rs:251).
MutualExclusion ==
  \A t, u \in Task :
    (pc[t] = "holding" /\ pc[u] = "holding" /\ want[t] = want[u]) => t = u

\* The strengthening that makes mutual exclusion inductive: every task that
\* waits for or holds a lock keeps alive the very mutex the table has for its
\* inode, no mutex serves two inodes, and a mutex is owned by exactly the
\* holder that keeps it alive.
SharedMutex ==
  \A t \in Task :
    pc[t] \in {"waiting", "holding"} =>
      arc[t] # NoMutex /\ table[want[t]] = arc[t]

OneInodePerMutex ==
  \A i, j \in Inode : (table[i] = table[j] /\ table[i] # NoMutex) => i = j

NoStrayReference ==
  \A t \in Task : pc[t] \in {"idle", "releasing"} => arc[t] = NoMutex

OwnerHolds ==
  /\ \A t \in Task : pc[t] = "holding" => owner[arc[t]] = t
  /\ \A m \in Mutex : owner[m] # NoTask => (pc[owner[m]] = "holding" /\ arc[owner[m]] = m)

LockInv ==
  TypeOK /\ SharedMutex /\ OneInodePerMutex /\ NoStrayReference /\ OwnerHolds

-----------------------------------------------------------------------------
\* The lock an outside observer sees, and that it is the promised one.
Holder ==
  [i \in Inode |->
     IF \E t \in Task : pc[t] = "holding" /\ want[t] = i
     THEN CHOOSE t \in Task : pc[t] = "holding" /\ want[t] = i
     ELSE NoTask]

Abstract == INSTANCE InodeLock WITH holder <- Holder

\* The weak-reference table implements one plain lock per inode.
ImplementsInodeLock == Abstract!LockSpec
=============================================================================
