--------------------------- MODULE VfsTablesProofs ---------------------------
(***************************************************************************)
(* Proofs about the tables the file system keeps in memory: the write      *)
(* locks of its inodes (FileWriteLocks) and what it has read of its        *)
(* database (InodeCaches), for any number of tasks, inodes and mutexes,    *)
(* of requests, rows and commits.                                          *)
(*                                                                         *)
(* Locks: a task that waits for an inode's lock or has it refers to the    *)
(* mutex the table has for it, so that two tasks meet at one mutex.        *)
(*                                                                         *)
(* Caches: what an entry says was so in some commit that is no older than  *)
(* the oldest that has yet to invalidate it.  What a request puts together *)
(* of several entries was so between the oldest such commit when it began  *)
(* and now.                                                                *)
(***************************************************************************)
EXTENDS FileWriteLocks, InodeCaches, WellFoundedInduction, SequenceTheorems, TLAPS

-----------------------------------------------------------------------------
(* Write locks. *)

USE NoTaskAssumption, NoMutexAssumption

\* The inductive invariant holds initially (no lock was ever asked for).
LEMMA InitLockInv == Init => LockInv
  BY DEF Init, LockInv, TypeOK, SharedMutex, OneInodePerMutex, NoStrayReference, OwnerHolds

\* Joining a living mutex of the table (vfs/file.rs:214-215) keeps the
\* references in order.
LEMMA JoinMutexStep ==
  ASSUME LockInv, NEW t \in Task, NEW i \in Inode, JoinMutex(t, i)
  PROVE  LockInv'
  <1> USE DEF LockInv, JoinMutex, Upgradable, Alive
  <1>1. TypeOK' BY DEF TypeOK
  <1>2. SharedMutex' BY DEF TypeOK, SharedMutex
  <1>3. OneInodePerMutex' BY DEF OneInodePerMutex
  <1>4. NoStrayReference' BY DEF TypeOK, NoStrayReference
  <1>5. OwnerHolds' BY DEF TypeOK, OwnerHolds
  <1> QED BY <1>1, <1>2, <1>3, <1>4, <1>5

\* A new mutex replaces only a dead one, so no waiter or holder of the inode
\* is left behind at another mutex (vfs/file.rs:217-219).
LEMMA NewMutexStep ==
  ASSUME LockInv, NEW t \in Task, NEW i \in Inode, NewMutex(t, i)
  PROVE  LockInv'
  <1> USE DEF LockInv
  <1>1. PICK m \in Mutex :
          /\ Unused(m)
          /\ table' = [table EXCEPT ![i] = m]
          /\ arc' = [arc EXCEPT ![t] = m]
          /\ owner' = [owner EXCEPT ![m] = NoTask]
    BY DEF NewMutex
  <1>2. pc[t] = "idle" /\ ~Upgradable(i) /\ want' = [want EXCEPT ![t] = i]
        /\ pc' = [pc EXCEPT ![t] = "waiting"]
    BY DEF NewMutex
  <1>3. \A u \in Task : pc[u] \in {"waiting", "holding"} => want[u] # i
    BY <1>2 DEF SharedMutex, Upgradable, Alive
  <1>4. \A u \in Task : arc[u] # m
    BY <1>1 DEF Unused, Alive
  <1>5. TypeOK' BY <1>1, <1>2 DEF TypeOK
  <1>6. SharedMutex' BY <1>1, <1>2, <1>3 DEF TypeOK, SharedMutex
  <1>7. OneInodePerMutex' BY <1>1 DEF TypeOK, OneInodePerMutex, Unused
  <1>8. NoStrayReference' BY <1>1, <1>2 DEF TypeOK, NoStrayReference
  <1>9. OwnerHolds'
    <2>1. \A u \in Task : pc'[u] = "holding" => owner'[arc'[u]] = u
      BY <1>1, <1>2, <1>4 DEF TypeOK, OwnerHolds, SharedMutex
    <2>2. \A n \in Mutex : owner'[n] # NoTask =>
            (pc'[owner'[n]] = "holding" /\ arc'[owner'[n]] = n)
      BY <1>1, <1>2 DEF TypeOK, OwnerHolds
    <2> QED BY <2>1, <2>2 DEF OwnerHolds
  <1> QED BY <1>5, <1>6, <1>7, <1>8, <1>9

\* Locking, giving up, dropping the guard and purging keep it too.
LEMMA TaskStepKeepsInv ==
  ASSUME LockInv, NEW t \in Task, TaskStep(t)
  PROVE  LockInv'
  <1> USE DEF LockInv
  <1>1. CASE \E i \in Inode : JoinMutex(t, i)
    BY <1>1, JoinMutexStep
  <1>2. CASE \E i \in Inode : NewMutex(t, i)
    BY <1>2, NewMutexStep
  <1>3. CASE Lock(t)
    <2> USE <1>3 DEF Lock
    <2>1. arc[t] \in Mutex
      BY DEF TypeOK, SharedMutex
    <2>2. TypeOK' BY <2>1 DEF TypeOK
    <2>3. SharedMutex' BY DEF TypeOK, SharedMutex
    <2>4. OneInodePerMutex' BY DEF OneInodePerMutex
    <2>5. NoStrayReference' BY DEF TypeOK, NoStrayReference
    <2>6. OwnerHolds' BY <2>1 DEF TypeOK, OwnerHolds, SharedMutex
    <2> QED BY <2>2, <2>3, <2>4, <2>5, <2>6
  <1>4. CASE GiveUp(t)
    <2> USE <1>4 DEF GiveUp
    <2>1. TypeOK' BY DEF TypeOK
    <2>2. SharedMutex' BY DEF TypeOK, SharedMutex
    <2>3. OneInodePerMutex' BY DEF OneInodePerMutex
    <2>4. NoStrayReference' BY DEF TypeOK, NoStrayReference
    <2>5. OwnerHolds' BY DEF TypeOK, OwnerHolds
    <2> QED BY <2>1, <2>2, <2>3, <2>4, <2>5
  <1>5. CASE DropGuard(t)
    <2> USE <1>5 DEF DropGuard
    <2>1. TypeOK' BY DEF TypeOK
    <2>2. SharedMutex' BY DEF TypeOK, SharedMutex
    <2>3. OneInodePerMutex' BY DEF OneInodePerMutex
    <2>4. NoStrayReference' BY DEF TypeOK, NoStrayReference
    <2>5. arc[t] \in Mutex /\ owner[arc[t]] = t
      BY DEF TypeOK, SharedMutex, OwnerHolds
    <2>6. OwnerHolds' BY <2>5 DEF TypeOK, OwnerHolds
    <2> QED BY <2>1, <2>2, <2>3, <2>4, <2>6
  <1>6. CASE Purge(t)
    <2> USE <1>6 DEF Purge
    <2>1. TypeOK' BY DEF TypeOK
    <2>2. SharedMutex'
      BY DEF TypeOK, SharedMutex, Upgradable, Alive
    <2>3. OneInodePerMutex' BY DEF TypeOK, OneInodePerMutex
    <2>4. NoStrayReference' BY DEF TypeOK, NoStrayReference
    <2>5. OwnerHolds' BY DEF TypeOK, OwnerHolds
    <2> QED BY <2>1, <2>2, <2>3, <2>4, <2>5
  <1> QED BY <1>1, <1>2, <1>3, <1>4, <1>5, <1>6 DEF TaskStep

\* The invariant of the locks is inductive.
LEMMA NextKeepsLockInv == LockInv /\ [Next]_vars => LockInv'
  <1> SUFFICES ASSUME LockInv, [Next]_vars PROVE LockInv'
    OBVIOUS
  <1>1. CASE Next
    BY <1>1, TaskStepKeepsInv DEF Next
  <1>2. CASE UNCHANGED vars
    BY <1>2 DEF vars, LockInv, TypeOK, SharedMutex, OneInodePerMutex, NoStrayReference, OwnerHolds
  <1> QED BY <1>1, <1>2

\* The bookkeeping of references is right in every reachable state.
THEOREM LockInvariant == Spec => []LockInv
  <1> QED BY InitLockInv, NextKeepsLockInv, PTL DEF Spec

\* Two tasks that hold the lock of one inode met at one mutex, and a mutex has
\* one owner.
LEMMA LockInvExcludes == LockInv => MutualExclusion
  BY DEF LockInv, SharedMutex, OwnerHolds, MutualExclusion

\* No two tasks ever hold the write lock of the same inode.
THEOREM WriteMutualExclusion == Spec => []MutualExclusion
  <1> QED BY LockInvariant, LockInvExcludes, PTL

-----------------------------------------------------------------------------
\* Who holds the lock of an inode, read off the tasks.
LEMMA HolderIs ==
  ASSUME LockInv, NEW i \in Inode
  PROVE  /\ \A t \in Task : (pc[t] = "holding" /\ want[t] = i) => Holder[i] = t
         /\ (\A t \in Task : ~(pc[t] = "holding" /\ want[t] = i)) => Holder[i] = NoTask
  <1>1. MutualExclusion
    BY LockInvExcludes
  <1>2. ASSUME NEW t \in Task, pc[t] = "holding", want[t] = i
        PROVE  Holder[i] = t
    <2> DEFINE P(u) == u \in Task /\ pc[u] = "holding" /\ want[u] = i
    <2>1. P(CHOOSE u : P(u))
      BY <1>2
    <2>2. (CHOOSE u \in Task : pc[u] = "holding" /\ want[u] = i) = t
      BY <1>1, <1>2 DEF MutualExclusion
    <2> QED BY <1>2, <2>2 DEF Holder
  <1>3. ASSUME \A t \in Task : ~(pc[t] = "holding" /\ want[t] = i)
        PROVE  Holder[i] = NoTask
    BY <1>3 DEF Holder
  <1> QED BY <1>2, <1>3

\* A step in which no task starts or stops holding is a stutter of the lock.
LEMMA HolderUnchanged ==
  ASSUME \A t \in Task : pc'[t] = "holding" <=> pc[t] = "holding",
         \A t \in Task : pc[t] = "holding" => want'[t] = want[t]
  PROVE  Holder' = Holder
  <1>1. \A t \in Task, i \in Inode :
          (pc'[t] = "holding" /\ want'[t] = i) <=> (pc[t] = "holding" /\ want[t] = i)
    OBVIOUS
  <1>2. ASSUME NEW i \in Inode PROVE Holder'[i] = Holder[i]
    BY <1>1 DEF Holder
  <1>3. Holder = [i \in Inode |-> Holder[i]] /\ Holder' = [i \in Inode |-> Holder'[i]]
    BY DEF Holder
  <1> QED BY <1>2, <1>3

\* Lock is the abstract Take.
LEMMA LockTakes ==
  ASSUME LockInv, LockInv', NEW t \in Task, Lock(t)
  PROVE  Abstract!Take(t, want[t])
  <1> DEFINE i == want[t]
  <1> USE DEF Lock
  <1>1. i \in Inode /\ pc[t] = "waiting" /\ pc \in [Task -> {"idle", "waiting", "holding", "releasing"}] /\ want' = want
    BY DEF LockInv, TypeOK
  <1>2. \A u \in Task : ~(pc[u] = "holding" /\ want[u] = i)
    <2> SUFFICES ASSUME NEW u \in Task, pc[u] = "holding", want[u] = i PROVE FALSE
      OBVIOUS
    <2>1. arc[u] = arc[t]
      BY DEF LockInv, SharedMutex
    <2>2. owner[arc[t]] = u
      BY <2>1 DEF LockInv, OwnerHolds
    <2> QED BY <2>2
  <1>3. Holder[i] = NoTask
    BY <1>1, <1>2, HolderIs
  <1>4. pc'[t] = "holding" /\ \A u \in Task \ {t} : pc'[u] = pc[u]
    BY <1>1
  <1>5. Holder'[i] = t
    <2>1. \A u \in Task : (pc'[u] = "holding" /\ want'[u] = i) => u = t
      BY <1>1, <1>2, <1>4
    <2>2. (CHOOSE u \in Task : pc'[u] = "holding" /\ want'[u] = i) = t
      BY <1>1, <1>4, <2>1
    <2> QED BY <1>1, <1>4, <2>2 DEF Holder
  <1>6. ASSUME NEW j \in Inode, j # i
        PROVE  Holder'[j] = Holder[j]
    BY <1>1, <1>4, <1>6 DEF Holder
  <1>7. /\ Holder = [j \in Inode |-> Holder[j]]
        /\ Holder' = [j \in Inode |-> Holder'[j]]
    BY DEF Holder
  <1>8. Holder' = [Holder EXCEPT ![i] = t]
    BY <1>1, <1>5, <1>6, <1>7
  <1> QED BY <1>3, <1>8 DEF Abstract!Take

\* Dropping the guard is the abstract Give.
LEMMA DropGuardGives ==
  ASSUME LockInv, LockInv', NEW t \in Task, DropGuard(t)
  PROVE  Abstract!Give(t, want[t])
  <1> DEFINE i == want[t]
  <1> USE DEF DropGuard
  <1>1. i \in Inode /\ pc[t] = "holding" /\ pc \in [Task -> {"idle", "waiting", "holding", "releasing"}] /\ want' = want
    BY DEF LockInv, TypeOK
  <1>2. Holder[i] = t
    BY <1>1, HolderIs
  <1>3. pc'[t] = "releasing" /\ \A u \in Task \ {t} : pc'[u] = pc[u]
    BY <1>1
  <1>4. \A u \in Task : ~(pc'[u] = "holding" /\ want'[u] = i)
    BY <1>1, <1>3, LockInvExcludes DEF MutualExclusion
  <1>5. Holder'[i] = NoTask
    BY <1>1, <1>4 DEF Holder
  <1>6. ASSUME NEW j \in Inode, j # i
        PROVE  Holder'[j] = Holder[j]
    <2>1. \A u \in Task : (pc'[u] = "holding" /\ want'[u] = j) <=> (pc[u] = "holding" /\ want[u] = j)
      BY <1>1, <1>3, <1>6
    <2>2. Holder[j] = IF \E u \in Task : pc[u] = "holding" /\ want[u] = j
                      THEN CHOOSE u \in Task : pc[u] = "holding" /\ want[u] = j ELSE NoTask
      BY <1>6 DEF Holder
    <2>3. Holder'[j] = IF \E u \in Task : pc'[u] = "holding" /\ want'[u] = j
                       THEN CHOOSE u \in Task : pc'[u] = "holding" /\ want'[u] = j ELSE NoTask
      BY <1>6 DEF Holder
    <2> QED BY <2>1, <2>2, <2>3
  <1>7. Holder' = [Holder EXCEPT ![i] = NoTask]
    <2>1. Holder = [j \in Inode |-> Holder[j]] /\ Holder' = [j \in Inode |-> Holder'[j]]
      BY DEF Holder
    <2> QED BY <1>1, <1>5, <1>6, <2>1
  <1> QED BY <1>2, <1>7 DEF Abstract!Give

\* The weak-reference table implements one plain lock per inode: waiting,
\* giving up and purging are invisible, locking takes the lock, dropping the
\* guard gives it back.
THEOREM Refinement == Spec => ImplementsInodeLock
  <1>1. Init => Abstract!LockInit
    BY DEF Init, Abstract!LockInit, Holder
  <1>2. LockInv /\ LockInv' /\ [Next]_vars => [Abstract!LockNext]_Holder
    <2> SUFFICES ASSUME LockInv, LockInv', [Next]_vars
                 PROVE  [Abstract!LockNext]_Holder
      OBVIOUS
    <2> USE DEF LockInv, TypeOK
    <2>1. CASE UNCHANGED vars
      BY <2>1 DEF vars, Holder
    <2>2. ASSUME NEW t \in Task, TaskStep(t)
          PROVE  [Abstract!LockNext]_Holder
      <3>1. CASE Lock(t)
        BY <3>1, LockTakes DEF Abstract!LockNext
      <3>2. CASE DropGuard(t)
        BY <3>2, DropGuardGives DEF Abstract!LockNext
      <3>3. CASE \E i \in Inode : JoinMutex(t, i)
        BY <3>3, HolderUnchanged DEF JoinMutex
      <3>4. CASE \E i \in Inode : NewMutex(t, i)
        BY <3>4, HolderUnchanged DEF NewMutex
      <3>5. CASE GiveUp(t)
        BY <3>5, HolderUnchanged DEF GiveUp
      <3>6. CASE Purge(t)
        BY <3>6, HolderUnchanged DEF Purge
      <3> QED BY <2>2, <3>1, <3>2, <3>3, <3>4, <3>5, <3>6 DEF TaskStep
    <2> QED BY <2>1, <2>2 DEF Next
  <1> QED BY <1>1, <1>2, LockInvariant, PTL DEF Spec, Abstract!LockSpec, ImplementsInodeLock

-----------------------------------------------------------------------------
(* The caches of paths and inodes. *)

USE CacheAssumption

\* The minimum of a set of naturals is in it and is below the others.
LEMMA NatMin ==
  ASSUME NEW S \in SUBSET Nat, S # {}
  PROVE  Min(S) \in S /\ \A y \in S : Min(S) <= y
<1>1. \E x \in S : \A y \in S : x <= y
  <2> DEFINE R == OpToRel(<, Nat)
  <2>1. IsWellFoundedOn(R, Nat)
    BY NatLessThanWellFounded
  <2> HIDE DEF R
  <2>2. PICK x \in S : \A y \in S : ~ (<<y, x>> \in R)
    BY <2>1, WFMin
  <2>3. \A y \in S : ~ (y < x)
    BY <2>2 DEF R, OpToRel
  <2> QED  BY <2>3
<1> QED  BY <1>1 DEF Min

IsPending(p, n) ==
  /\ p = [commit |-> p.commit, inodes |-> p.inodes, next |-> p.next]
  /\ p.commit \in 1 .. n /\ p.next \in {"paths", "inodes"}

IsTable(T) ==
  /\ T = [i \in DOMAIN T |-> T[i]]
  /\ DOMAIN T \subseteq Inodes
  /\ \A i \in DOMAIN T : T[i] \in Rows /\ (i # Root => T[i].path # <<>>)

IsLog(L) == Len(L) \in Nat \ {0} /\ L = [v \in 1 .. Len(L) |-> L[v]] /\ \A v \in 1 .. Len(L) : IsTable(L[v])

IsEntry(e) == e = [value |-> e.value, late |-> e.late] /\ e.late \in BOOLEAN

\* Oldest, of a log of n tables.
OldestOf(n, P) == Min({n} \cup {p.commit : p \in P})

PathTrue(q, e, L, P) ==
  ~e.late => \E v \in OldestOf(Len(L), {p \in P : p.next = "paths"}) .. Len(L) : e.value = At(L[v], q)

InodeTrue(i, e, L, P) ==
  ~e.late => \E v \in OldestOf(Len(L), {p \in P : i \in p.inodes}) .. Len(L) : e.value = Row(L[v], i)

EntryTrue(k, e, L, P) ==
  IF IsPath(k) THEN PathTrue(k.path, e, L, P) ELSE InodeTrue(k.inode, e, L, P)

\* The oldest commit is one of the log: the last, or one that is pending.
LEMMA OldestBounds ==
  ASSUME NEW n \in Nat \ {0}, NEW P, \A p \in P : IsPending(p, n)
  PROVE  /\ OldestOf(n, P) \in 1 .. n
         /\ \A p \in P : OldestOf(n, P) <= p.commit
         /\ OldestOf(n, P) = n \/ \E p \in P : OldestOf(n, P) = p.commit
<1> DEFINE S == {n} \cup {p.commit : p \in P}
<1>1. S \in SUBSET Nat /\ S # {} /\ S \subseteq 1 .. n /\ n \in S
  BY DEF IsPending
<1> HIDE DEF S
<1>2. Min(S) \in S /\ \A y \in S : Min(S) <= y
  BY <1>1, NatMin
<1>3. OldestOf(n, P) = Min(S)
  BY DEF OldestOf, S
<1> DEFINE o == OldestOf(n, P)
<1>4. o \in S /\ \A y \in S : o <= y
  BY <1>2, <1>3
<1> HIDE DEF o
<1>5. o \in 1 .. n
  BY <1>1, <1>4
<1>6. (\A p \in P : o <= p.commit) /\ (o = n \/ \E p \in P : o = p.commit)
  BY <1>4 DEF S
<1> QED  BY <1>5, <1>6 DEF o

\* The less is pending, the younger is the oldest.
LEMMA OldestOfFewer ==
  ASSUME NEW n \in Nat \ {0}, NEW P, \A p \in P : IsPending(p, n), NEW Q \in SUBSET P
  PROVE  OldestOf(n, P) <= OldestOf(n, Q)
<1>1. OldestOf(n, Q) = n \/ \E p \in Q : OldestOf(n, Q) = p.commit
  BY OldestBounds
<1> QED  BY <1>1, OldestBounds

\* What is committed is the oldest only where nothing was pending.
LEMMA OldestAfterCommit ==
  ASSUME NEW n \in Nat \ {0}, NEW P, \A p \in P : IsPending(p, n), NEW Q,
         \A p \in Q : IsPending(p, n), P \subseteq Q
  PROVE  /\ OldestOf(n, Q) <= OldestOf(n + 1, Q)
         /\ (\A p \in Q \ P : p.commit = n) => OldestOf(n, P) <= OldestOf(n + 1, Q)
         /\ (\A p \in Q \ P : p.commit = n) /\ Q # P => OldestOf(n + 1, Q) <= OldestOf(n, P)
         /\ OldestOf(n, P) # n => OldestOf(n + 1, Q) <= OldestOf(n, P)
<1>1. \A p \in Q : IsPending(p, n + 1)
  BY DEF IsPending
<1>2. /\ OldestOf(n + 1, Q) \in 1 .. n + 1
      /\ \A p \in Q : OldestOf(n + 1, Q) <= p.commit
      /\ OldestOf(n + 1, Q) = n + 1 \/ \E p \in Q : OldestOf(n + 1, Q) = p.commit
  BY <1>1, OldestBounds
<1>3. /\ OldestOf(n, P) \in 1 .. n
      /\ \A p \in P : OldestOf(n, P) <= p.commit
      /\ OldestOf(n, P) = n \/ \E p \in P : OldestOf(n, P) = p.commit
  BY OldestBounds
<1>4. /\ OldestOf(n, Q) \in 1 .. n
      /\ \A p \in Q : OldestOf(n, Q) <= p.commit
  BY OldestBounds
<1>5. \A p \in Q : p.commit \in 1 .. n
  BY DEF IsPending
<1>6. P = Q \/ \E p \in Q : p \notin P
  OBVIOUS
<1> DEFINE a == OldestOf(n, P)
           b == OldestOf(n + 1, Q)
           c == OldestOf(n, Q)
<1> HIDE DEF a, b, c
<1>7. c <= b
  BY <1>2, <1>4, <1>5 DEF b, c
<1>8. ASSUME \A p \in Q \ P : p.commit = n PROVE a <= b
  BY <1>2, <1>3, <1>5, <1>8 DEF a, b
<1>9. ASSUME \A p \in Q \ P : p.commit = n, Q # P PROVE b <= a
  <2>1. PICK p \in Q : p \notin P
    BY <1>6, <1>9
  <2>2. b <= n
    BY <1>2, <1>9, <2>1 DEF b
  <2>3. CASE a = n
    BY <2>2, <2>3
  <2>4. CASE a # n
    BY <1>2, <1>3, <2>4 DEF a, b
  <2> QED  BY <2>3, <2>4
<1>10. ASSUME a # n PROVE b <= a
  BY <1>2, <1>3, <1>10 DEF a, b
<1> QED  BY <1>7, <1>8, <1>9, <1>10 DEF a, b, c

\* A transaction with an empty change log has changed nothing.
LEMMA ChangeLogEmpty ==
  ASSUME NEW T, NEW U, IsTable(T), IsTable(U), ChangeLog(T, U) = {}
  PROVE  U = T
<1>1. DOMAIN T = DOMAIN U
  BY DEF ChangeLog
<1>2. \A i \in DOMAIN T : T[i] = U[i]
  BY DEF ChangeLog
<1> QED  BY <1>1, <1>2 DEF IsTable

\* What is not in the change log is as it was.
LEMMA RowOutsideLog ==
  ASSUME NEW T, NEW U, NEW i, i \notin ChangeLog(T, U)
  PROVE  Row(U, i) = Row(T, i)
BY DEF ChangeLog, Row

\* An entry stays true when a transaction is committed.
LEMMA CommitKeepsEntries ==
  ASSUME NEW L, IsLog(L), NEW P, \A p \in P : IsPending(p, Len(L)), NEW T, IsTable(T),
         NEW Q, Q = IF ChangeLog(L[Len(L)], T) = {} THEN P
                    ELSE P \cup {[commit |-> Len(L), inodes |-> ChangeLog(L[Len(L)], T), next |-> "paths"]}
  PROVE  LET M == Append(L, T)
         IN  /\ IsLog(M) /\ Len(M) = Len(L) + 1 /\ \A v \in 1 .. Len(L) : M[v] = L[v]
             /\ \A p \in Q : IsPending(p, Len(M))
             /\ OldestOf(Len(L), P) <= OldestOf(Len(M), Q)
             /\ \A q, e : PathTrue(q, e, L, P) => PathTrue(q, e, M, Q)
             /\ \A i, e : InodeTrue(i, e, L, P) => InodeTrue(i, e, M, Q)
<1> DEFINE n == Len(L)
           M == Append(L, T)
           C == ChangeLog(L[n], T)
           new == [commit |-> n, inodes |-> C, next |-> "paths"]
<1>1. n \in Nat \ {0} /\ IsTable(L[n])
  BY DEF IsLog
<1>2. Len(M) = n + 1 /\ M = [v \in 1 .. n + 1 |-> M[v]] /\ M[n + 1] = T /\ \A v \in 1 .. n : M[v] = L[v]
  <2> DEFINE S == {L[v] : v \in 1 .. n} \cup {T}
  <2>1. L \in Seq(S) /\ T \in S
    BY <1>1 DEF IsLog
  <2> HIDE DEF S
  <2>2. /\ M \in Seq(S) /\ Len(M) = n + 1 /\ M[n + 1] = T
        /\ \A v \in 1 .. n : M[v] = L[v]
    BY <2>1, AppendProperties
  <2>3. M = [v \in 1 .. n + 1 |-> M[v]]
    <3> HIDE DEF M
    <3> QED  BY <1>1, <2>2
  <2> QED  BY <2>2, <2>3
<1> HIDE DEF M
<1>3. IsLog(M)
  <2>1. \A v \in 1 .. n + 1 : IsTable(M[v])
    <3> SUFFICES ASSUME NEW v \in 1 .. n + 1 PROVE IsTable(M[v])
      OBVIOUS
    <3>1. v = n + 1 \/ v \in 1 .. n
      BY <1>1
    <3> QED  BY <1>2, <3>1 DEF IsLog
  <2> QED  BY <1>1, <1>2, <2>1 DEF IsLog
<1>4. \A p \in Q : IsPending(p, n)
  BY <1>1 DEF IsPending
<1>5. \A p \in Q : IsPending(p, n + 1)
  BY <1>1, <1>4 DEF IsPending
<1>6. P \subseteq Q /\ (\A p \in Q \ P : p = new /\ p.commit = n)
  OBVIOUS
<1>7. OldestOf(n, P) <= OldestOf(n + 1, Q)
  BY <1>1, <1>4, <1>6, OldestAfterCommit
<1>8. ASSUME NEW q, NEW e, PathTrue(q, e, L, P) PROVE PathTrue(q, e, M, Q)
  <2> DEFINE A == {p \in P : p.next = "paths"}
             B == {p \in Q : p.next = "paths"}
  <2> SUFFICES ASSUME ~e.late
               PROVE  \E v \in OldestOf(n + 1, B) .. n + 1 : e.value = At(M[v], q)
    BY <1>2 DEF PathTrue
  <2>1. PICK v \in OldestOf(n, A) .. n : e.value = At(L[v], q)
    BY <1>8 DEF PathTrue
  <2>2. A \subseteq B /\ (\A p \in A : IsPending(p, n)) /\ (\A p \in B : IsPending(p, n)) /\ \A p \in B \ A : p.commit = n
    BY <1>4, <1>6
  <2>3. OldestOf(n, A) \in 1 .. n
    BY <1>1, <2>2, OldestBounds
  <2>4. OldestOf(n + 1, B) \in 1 .. n + 1
    <3> DEFINE m == n + 1
    <3>1. m \in Nat \ {0} /\ \A p \in B : IsPending(p, m)
      BY <1>1, <1>5
    <3> HIDE DEF B, m
    <3>2. OldestOf(m, B) \in 1 .. m
      BY <3>1, OldestBounds
    <3> QED  BY <3>2 DEF m
  <2>5. CASE C = {}
    <3>1. T = L[n] /\ A = B
      BY <1>1, <2>5, ChangeLogEmpty
    <3>2. CASE v = n
      <4>1. e.value = At(M[n + 1], q)
        BY <1>2, <2>1, <3>1, <3>2
      <4>2. n + 1 \in OldestOf(n + 1, B) .. n + 1
        <5> HIDE DEF B
        <5> QED  BY <1>1, <2>4
      <4> QED  BY <4>1, <4>2
    <3>3. CASE v # n
      <4>1. OldestOf(n, A) # n
        BY <1>1, <2>1, <2>3, <3>3
      <4>2. OldestOf(n + 1, B) <= OldestOf(n, A)
        <5> HIDE DEF A, B
        <5> QED  BY <1>1, <2>2, <4>1, OldestAfterCommit
      <4>3. v \in 1 .. n /\ v \in OldestOf(n + 1, B) .. n + 1
        BY <1>1, <2>1, <2>3, <2>4, <4>2
      <4> QED  BY <1>2, <2>1, <4>3
    <3> QED  BY <3>2, <3>3
  <2>6. CASE C # {}
    <3>1. new \in B \ A \/ new \in A
      BY <2>6
    <3>2. OldestOf(n + 1, B) <= OldestOf(n, A)
      <4>1. CASE B = A
        <5>1. OldestOf(n, A) <= n /\ OldestOf(n + 1, B) <= new.commit
          <6> DEFINE m == n + 1
          <6>1. m \in Nat \ {0} /\ new \in B /\ \A p \in B : IsPending(p, m)
            BY <1>1, <1>5, <3>1, <4>1
          <6> HIDE DEF B, new, m
          <6>2. OldestOf(m, B) <= new.commit
            BY <6>1, OldestBounds
          <6> QED  BY <1>1, <2>3, <6>2 DEF m
        <5>2. CASE OldestOf(n, A) = n
          BY <1>1, <2>3, <2>4, <5>1, <5>2
        <5>3. CASE OldestOf(n, A) # n
          <6> HIDE DEF A, B
          <6> QED  BY <1>1, <2>2, <5>3, OldestAfterCommit
        <5> QED  BY <5>2, <5>3
      <4>2. CASE B # A
        <5> HIDE DEF A, B
        <5> QED  BY <1>1, <2>2, <4>2, OldestAfterCommit
      <4> QED  BY <4>1, <4>2
    <3>3. v \in 1 .. n /\ v \in OldestOf(n + 1, B) .. n + 1
      BY <1>1, <2>1, <2>3, <2>4, <3>2
    <3> QED  BY <1>2, <2>1, <3>3
  <2> QED  BY <2>5, <2>6
<1>9. ASSUME NEW i, NEW e, InodeTrue(i, e, L, P) PROVE InodeTrue(i, e, M, Q)
  <2> DEFINE A == {p \in P : i \in p.inodes}
             B == {p \in Q : i \in p.inodes}
  <2> SUFFICES ASSUME ~e.late
               PROVE  \E v \in OldestOf(n + 1, B) .. n + 1 : e.value = Row(M[v], i)
    BY <1>2 DEF InodeTrue
  <2>1. PICK v \in OldestOf(n, A) .. n : e.value = Row(L[v], i)
    BY <1>9 DEF InodeTrue
  <2>2. A \subseteq B /\ (\A p \in A : IsPending(p, n)) /\ (\A p \in B : IsPending(p, n)) /\ \A p \in B \ A : p.commit = n
    BY <1>4, <1>6
  <2>3. OldestOf(n, A) \in 1 .. n
    BY <1>1, <2>2, OldestBounds
  <2>4. OldestOf(n + 1, B) \in 1 .. n + 1
    <3> DEFINE m == n + 1
    <3>1. m \in Nat \ {0} /\ \A p \in B : IsPending(p, m)
      BY <1>1, <1>5
    <3> HIDE DEF B, m
    <3>2. OldestOf(m, B) \in 1 .. m
      BY <3>1, OldestBounds
    <3> QED  BY <3>2 DEF m
  <2>5. CASE i \notin C
    <3>1. Row(T, i) = Row(L[n], i)
      BY <2>5, RowOutsideLog
    <3>2. CASE v = n
      <4>1. e.value = Row(M[n + 1], i)
        BY <1>2, <2>1, <3>1, <3>2
      <4>2. n + 1 \in OldestOf(n + 1, B) .. n + 1
        <5> HIDE DEF B
        <5> QED  BY <1>1, <2>4
      <4> QED  BY <4>1, <4>2
    <3>3. CASE v # n
      <4>1. OldestOf(n, A) # n
        BY <1>1, <2>1, <2>3, <3>3
      <4>2. OldestOf(n + 1, B) <= OldestOf(n, A)
        <5> HIDE DEF A, B
        <5> QED  BY <1>1, <2>2, <4>1, OldestAfterCommit
      <4>3. v \in 1 .. n /\ v \in OldestOf(n + 1, B) .. n + 1
        BY <1>1, <2>1, <2>3, <2>4, <4>2
      <4> QED  BY <1>2, <2>1, <4>3
    <3> QED  BY <3>2, <3>3
  <2>6. CASE i \in C
    <3>1. new \in B
      BY <2>6
    <3>2. OldestOf(n + 1, B) <= OldestOf(n, A)
      <4>1. OldestOf(n + 1, B) <= n
        <5>1. \A p \in B : IsPending(p, n + 1)
          BY <1>5
        <5>2. OldestOf(n + 1, B) <= new.commit
          <6> DEFINE m == n + 1
          <6>1. m \in Nat \ {0} /\ \A p \in B : IsPending(p, m)
            BY <1>1, <5>1
          <6> HIDE DEF B, new, m
          <6>2. OldestOf(m, B) <= new.commit
            BY <3>1, <6>1, OldestBounds
          <6> QED  BY <6>2 DEF m
        <5> QED  BY <5>2
      <4>2. CASE OldestOf(n, A) = n
        BY <1>1, <2>3, <2>4, <4>1, <4>2
      <4>3. CASE OldestOf(n, A) # n
        <5> HIDE DEF A, B
        <5> QED  BY <1>1, <2>2, <4>3, OldestAfterCommit
      <4> QED  BY <4>2, <4>3
    <3>3. v \in 1 .. n /\ v \in OldestOf(n + 1, B) .. n + 1
      BY <1>1, <2>1, <2>3, <2>4, <3>2
    <3> QED  BY <1>2, <2>1, <3>3
  <2> QED  BY <2>5, <2>6
<1> QED  BY <1>2, <1>3, <1>5, <1>7, <1>8, <1>9 DEF M

----------------------------------------------------------------------------
(* What requests know. *)

\* The key a request has come to is one that the rows of its window led to.
Meant(r, L) ==
  /\ r.stage = "dir" => r.key = [inode |-> r.dir]
  /\ r.stage = "path" =>
       \E u \in Window(r, L) : r.dir \in DOMAIN L[u] /\ r.key = [path |-> Append(L[u][r.dir].path, r.name)]
  /\ r.stage = "inode" => \E i \in Truths(r, L) : i # None /\ r.key = [inode |-> i]
  /\ r.stage = "answer" => TrueAnswer(r, L)

ReqTrue(r, L, P) ==
  /\ r = [stage |-> r.stage, dir |-> r.dir, name |-> r.name, key |-> r.key, late |-> r.late, since |-> r.since]
  /\ r.stage \in {"dir", "path", "inode", "answer"} /\ r.late \in BOOLEAN
  /\ r.since \in 1 .. Len(L) /\ r.since <= OldestOf(Len(L), P)
  /\ ~r.late => Meant(r, L)

\* What a request has come to, it has also come to when the log has grown.
LEMMA MeantGrows ==
  ASSUME NEW r, NEW L, NEW M, Len(L) \in Nat, Len(M) \in Nat, Len(L) <= Len(M),
         r.since \in 1 .. Len(L), \A v \in 1 .. Len(L) : M[v] = L[v], Meant(r, L)
  PROVE  Meant(r, M)
<1>1. Window(r, L) \subseteq Window(r, M) /\ \A v \in Window(r, L) : M[v] = L[v]
  BY DEF Window
<1>2. Truths(r, L) \subseteq Truths(r, M)
  BY <1>1 DEF Truths
<1> QED  BY <1>1, <1>2 DEF Meant, TrueAnswer

\* What Advance makes of a request, field by field.
Req(stage, r, key, late) ==
  [stage |-> stage, dir |-> r.dir, name |-> r.name, key |-> key, late |-> late, since |-> r.since]

Stops(r, e) == e.value = None \/ (r.stage = "dir" /\ r.dir \in Files)

\* Where a request goes on to: the path, the inode, the answer.
LEMMA AdvanceFields ==
  ASSUME NEW r, NEW e, r.late \in BOOLEAN, e.late \in BOOLEAN,
         r = Req(r.stage, r, r.key, r.late), r.stage \in {"dir", "path", "inode"},
         NEW late \in BOOLEAN, late <=> (r.late \/ e.late)
  PROVE  /\ Stops(r, e) => Advance(r, e) = Req("answer", r, None, late)
         /\ ~Stops(r, e) /\ r.stage = "dir" =>
              Advance(r, e) = Req("path", r, [path |-> Append(e.value.path, r.name)], late)
         /\ ~Stops(r, e) /\ r.stage = "path" => Advance(r, e) = Req("inode", r, [inode |-> e.value], late)
         /\ ~Stops(r, e) /\ r.stage = "inode" => Advance(r, e) = Req("answer", r, r.key.inode, late)
<1> DEFINE s == [r EXCEPT !.late = @ \/ e.late]
           Answer(i) == [s EXCEPT !.stage = "answer", !.key = i]
<1>1. s = Req(r.stage, r, r.key, late)
  BY DEF Req
<1>2. Stops(r, e) => Advance(r, e) = Answer(None)
  BY DEF Advance, Stops
<1>3. ~Stops(r, e) /\ r.stage = "dir" => Advance(r, e) = [s EXCEPT !.stage = "path", !.key = [path |-> Append(e.value.path, r.name)]]
  BY DEF Advance, Stops
<1>4. ~Stops(r, e) /\ r.stage = "path" => Advance(r, e) = [s EXCEPT !.stage = "inode", !.key = [inode |-> e.value]]
  BY DEF Advance, Stops
<1>5. ~Stops(r, e) /\ r.stage = "inode" => Advance(r, e) = Answer(r.key.inode)
  BY DEF Advance, Stops
<1> HIDE DEF s
<1>6. ASSUME NEW x, NEW k PROVE [s EXCEPT !.stage = x, !.key = k] = Req(x, r, k, late)
  <2>1. [s EXCEPT !.stage = x, !.key = k] = [[s EXCEPT !.stage = x] EXCEPT !.key = k]
    OBVIOUS
  <2>2. [s EXCEPT !.stage = x] = Req(x, r, r.key, late)
    BY <1>1 DEF Req
  <2>3. [Req(x, r, r.key, late) EXCEPT !.key = k] = Req(x, r, k, late)
    BY DEF Req
  <2> QED  BY <2>1, <2>2, <2>3
<1> QED  BY <1>2, <1>3, <1>4, <1>5, <1>6

\* What a table has at a path is an inode of it.
LEMMA AtIs ==
  ASSUME NEW T, IsTable(T), NEW q
  PROVE  At(T, q) = None \/ (At(T, q) \in DOMAIN T /\ At(T, q) \in Inodes /\ At(T, q) # None)
BY DEF At, IsTable

\* A row that is absent is not in the table.
LEMMA RowIs ==
  ASSUME NEW T, IsTable(T), NEW i
  PROVE  /\ Row(T, i) = None => i \notin DOMAIN T
         /\ Row(T, i) # None => i \in DOMAIN T /\ Row(T, i) = T[i]
BY DEF Row, IsTable

\* A request for a path, and its path.
LEMMA PathKey ==
  ASSUME NEW k, NEW path, k = [path |-> path]
  PROVE  IsPath(k) /\ k.path = path
BY DEF IsPath

\* A request that goes on with a true entry goes on to what the commits of its window led to.
LEMMA AdvanceIsTrue ==
  ASSUME NEW L, IsLog(L), NEW P, \A p \in P : IsPending(p, Len(L)),
         NEW r, ReqTrue(r, L, P), r.stage \in {"dir", "path", "inode"},
         NEW e, IsEntry(e), EntryTrue(r.key, e, L, P)
  PROVE  ReqTrue(Advance(r, e), L, P)
<1> DEFINE a == Advance(r, e)
           stop == Stops(r, e)
           n == Len(L)
<1>0. r = Req(r.stage, r, r.key, r.late)
  BY DEF ReqTrue, Req
<1>1. PICK late \in BOOLEAN : late <=> (r.late \/ e.late)
  BY Zenon
<1>00. r.late \in BOOLEAN /\ e.late \in BOOLEAN
  BY DEF ReqTrue, IsEntry
<1>01. /\ stop => a = Req("answer", r, None, late)
       /\ ~stop /\ r.stage = "dir" => a = Req("path", r, [path |-> Append(e.value.path, r.name)], late)
       /\ ~stop /\ r.stage = "path" => a = Req("inode", r, [inode |-> e.value], late)
       /\ ~stop /\ r.stage = "inode" => a = Req("answer", r, r.key.inode, late)
  BY <1>0, <1>00, <1>1, AdvanceFields
<1> HIDE DEF a
<1>2. /\ a.dir = r.dir /\ a.name = r.name /\ a.since = r.since /\ a.late = late
      /\ a.stage \in {"answer", "path", "inode"}
      /\ a = Req(a.stage, r, a.key, late)
  BY <1>01 DEF Req, ReqTrue
<1>4. n \in Nat \ {0} /\ r.since \in 1 .. n /\ \A v \in r.since .. n : v \in 1 .. n /\ IsTable(L[v])
  BY DEF IsLog, ReqTrue
<1>5. Window(a, L) = Window(r, L) /\ Truths(a, L) = Truths(r, L)
  BY <1>2 DEF Window, Truths
<1>6. ASSUME ~a.late PROVE Meant(a, L)
  <2>1. Meant(r, L) /\ ~r.late /\ ~e.late
    BY <1>1, <1>2, <1>6 DEF ReqTrue
  <2>2. \A Q \in SUBSET P : r.since <= OldestOf(n, Q) /\ OldestOf(n, Q) \in 1 .. n
    <3> SUFFICES ASSUME NEW Q \in SUBSET P PROVE r.since <= OldestOf(n, Q) /\ OldestOf(n, Q) \in 1 .. n
      OBVIOUS
    <3>1. OldestOf(n, P) <= OldestOf(n, Q) /\ OldestOf(n, Q) \in 1 .. n /\ OldestOf(n, P) \in 1 .. n
      BY <1>4, OldestOfFewer, OldestBounds
    <3> QED  BY <1>4, <3>1 DEF ReqTrue
  <2>3. IsPath(r.key) => \E v \in Window(r, L) : e.value = At(L[v], r.key.path)
    <3> DEFINE Q == {p \in P : p.next = "paths"}
    <3> SUFFICES ASSUME IsPath(r.key) PROVE \E v \in Window(r, L) : e.value = At(L[v], r.key.path)
      OBVIOUS
    <3>1. PICK v \in OldestOf(n, Q) .. n : e.value = At(L[v], r.key.path)
      BY <2>1 DEF EntryTrue, PathTrue
    <3>2. r.since <= OldestOf(n, Q) /\ OldestOf(n, Q) \in 1 .. n
      BY <2>2
    <3> QED  BY <1>4, <3>1, <3>2 DEF Window
  <2>4. ~IsPath(r.key) => \E v \in Window(r, L) : e.value = Row(L[v], r.key.inode)
    <3> DEFINE Q == {p \in P : r.key.inode \in p.inodes}
    <3> SUFFICES ASSUME ~IsPath(r.key) PROVE \E v \in Window(r, L) : e.value = Row(L[v], r.key.inode)
      OBVIOUS
    <3>1. PICK v \in OldestOf(n, Q) .. n : e.value = Row(L[v], r.key.inode)
      BY <2>1 DEF EntryTrue, InodeTrue
    <3>2. r.since <= OldestOf(n, Q) /\ OldestOf(n, Q) \in 1 .. n
      BY <2>2
    <3> QED  BY <1>4, <3>1, <3>2 DEF Window
  <2>5. CASE r.stage = "dir"
    <3>1. r.key = [inode |-> r.dir] /\ ~IsPath(r.key) /\ r.key.inode = r.dir
      BY <2>1, <2>5 DEF Meant, IsPath
    <3>2. PICK v \in Window(r, L) : e.value = Row(L[v], r.dir)
      BY <2>4, <3>1
    <3>3. IsTable(L[v])
      BY <1>4 DEF Window
    <3>4. CASE stop
      <4>1. a.stage = "answer" /\ a.key = None
        BY <1>01, <2>5, <3>4 DEF Req, Stops
      <4>2. (\E w \in Window(r, L) : r.dir \notin DOMAIN L[w]) \/ r.dir \in Files
        BY <3>2, <3>3, <3>4, RowIs DEF Stops
      <4> QED  BY <1>2, <1>5, <4>1, <4>2 DEF Meant, TrueAnswer
    <3>5. CASE ~stop
      <4>1. a.stage = "path" /\ a.key = [path |-> Append(e.value.path, r.name)]
        BY <1>01, <2>5, <3>5 DEF Req, Stops
      <4>2. r.dir \in DOMAIN L[v] /\ e.value = L[v][r.dir]
        BY <3>2, <3>3, <3>5, RowIs DEF Stops
      <4>3. \E u \in Window(a, L) : a.dir \in DOMAIN L[u] /\ a.key = [path |-> Append(L[u][a.dir].path, a.name)]
        BY <1>2, <1>5, <4>1, <4>2
      <4> QED  BY <4>1, <4>3 DEF Meant
    <3> QED  BY <3>4, <3>5
  <2>6. CASE r.stage = "path"
    <3>1. PICK u \in Window(r, L) : r.dir \in DOMAIN L[u] /\ r.key = [path |-> Append(L[u][r.dir].path, r.name)]
      BY <2>1, <2>6 DEF Meant
    <3>2. IsPath(r.key) /\ r.key.path = Append(L[u][r.dir].path, r.name)
      BY <3>1, PathKey
    <3>3. PICK v \in Window(r, L) : e.value = At(L[v], Append(L[u][r.dir].path, r.name))
      BY <2>3, <3>2
    <3>4. e.value \in Truths(r, L)
      BY <3>1, <3>3 DEF Truths
    <3>5. CASE stop
      <4>1. a.stage = "answer" /\ a.key = None /\ e.value = None
        BY <1>01, <2>6, <3>5 DEF Req, Stops
      <4> QED  BY <1>5, <3>4, <4>1 DEF Meant, TrueAnswer
    <3>6. CASE ~stop
      <4>1. a.stage = "inode" /\ a.key = [inode |-> e.value] /\ e.value # None
        BY <1>01, <2>6, <3>6 DEF Req, Stops
      <4> QED  BY <1>5, <3>4, <4>1 DEF Meant
    <3> QED  BY <3>5, <3>6
  <2>7. CASE r.stage = "inode"
    <3>1. PICK i \in Truths(r, L) : i # None /\ r.key = [inode |-> i]
      BY <2>1, <2>7 DEF Meant
    <3>2. ~IsPath(r.key) /\ r.key.inode = i
      BY <3>1 DEF IsPath
    <3>3. CASE stop
      <4>1. a.stage = "answer" /\ a.key = None /\ e.value = None
        BY <1>01, <2>7, <3>3 DEF Req, Stops
      <4>2. PICK v \in Window(r, L) : e.value = Row(L[v], i)
        BY <2>4, <3>2
      <4>3. i \notin DOMAIN L[v]
        <5>1. IsTable(L[v])
          BY <1>4 DEF Window
        <5> QED  BY <4>1, <4>2, <5>1, RowIs
      <4> QED  BY <1>5, <3>1, <4>1, <4>3 DEF Meant, TrueAnswer
    <3>4. CASE ~stop
      <4>1. a.stage = "answer" /\ a.key = i
        BY <1>01, <2>7, <3>2, <3>4 DEF Req, Stops
      <4> QED  BY <1>5, <3>1, <4>1 DEF Meant, TrueAnswer
    <3> QED  BY <3>3, <3>4
  <2> QED  BY <2>5, <2>6, <2>7
<1>7. a = [stage |-> a.stage, dir |-> a.dir, name |-> a.name, key |-> a.key, late |-> a.late, since |-> a.since]
  BY <1>2 DEF Req
<1>8. ReqTrue(a, L, P)
  BY <1>1, <1>2, <1>6, <1>7 DEF ReqTrue
<1> QED  BY <1>8 DEF a

----------------------------------------------------------------------------
(* The tables that transactions write. *)

\* The mark of the commit on directories above leaves a table a table.
LEMMA RewrittenIsTable ==
  ASSUME NEW U, IsTable(U), NEW t, Len(log) \in Nat
  PROVE  IsTable(Rewritten(U, t))
<1> DEFINE T == Rewritten(U, t)
           n == Len(log)
<1>1. ASSUME NEW i \in DOMAIN U PROVE [U[i] EXCEPT !.ver = n] = [path |-> U[i].path, ver |-> n]
  BY <1>1 DEF IsTable, Rows
<1>2. ASSUME NEW i \in DOMAIN U
      PROVE  T[i].path = U[i].path /\ T[i] \in Rows
  BY <1>1, <1>2 DEF IsTable, Rows, Rewritten
<1> QED  BY <1>2 DEF IsTable, Rewritten

\* A path is a sequence of names, not empty but for the root.
LEMMA PathOfRow ==
  ASSUME NEW T, IsTable(T), NEW i \in DOMAIN T
  PROVE  T[i].path \in Seq(Names) /\ Len(T[i].path) \in Nat /\ T[i].ver \in Nat
         /\ (i # Root => Len(T[i].path) > 0)
<1>1. T[i].path \in Seq(Names) /\ T[i].ver \in Nat
  BY DEF IsTable, Rows
<1>2. Len(T[i].path) \in Nat
  BY <1>1
<1>3. T[i].path # <<>> => Len(T[i].path) # 0
  BY <1>1
<1> QED  BY <1>1, <1>2, <1>3 DEF IsTable

\* What follows the front of a path is a path.
LEMMA RestIsPath ==
  ASSUME NEW p \in Seq(Names), NEW s \in Seq(Names), IsPrefix(p, s)
  PROVE  SubSeq(s, Len(p) + 1, Len(s)) \in Seq(Names)
<1>1. Len(p) \in Nat /\ Len(s) \in Nat
  OBVIOUS
<1>2. \A k \in Len(p) + 1 .. Len(s) : s[k] \in Names
  BY <1>1
<1> QED  BY <1>1, <1>2, SubSeqProperties

\* mv and rename leave a table a table (the path triggers).
LEMMA RepathIsTable ==
  ASSUME IsTable(db), NEW i \in DOMAIN db, NEW q \in Seq(Names), q # <<>>
  PROVE  IsTable(Repath(i, q)) /\ DOMAIN Repath(i, q) = DOMAIN db
<1> DEFINE T == Repath(i, q)
           p == db[i].path
           moved(j) == q \o SubSeq(db[j].path, Len(p) + 1, Len(db[j].path))
<1>1. DOMAIN T = DOMAIN db /\ T = [j \in DOMAIN T |-> T[j]]
  BY DEF Repath
<1>2. ASSUME NEW j \in DOMAIN db, j \notin Below(db, i) PROVE T[j] = db[j]
  BY <1>2 DEF Repath
<1>3. ASSUME NEW j \in DOMAIN db, j \in Below(db, i)
      PROVE  T[j] \in Rows /\ T[j].path # <<>>
  <2>1. SubSeq(db[j].path, Len(p) + 1, Len(db[j].path)) \in Seq(Names)
    BY <1>3, PathOfRow, RestIsPath DEF Below
  <2>2. moved(j) \in Seq(Names) /\ Len(moved(j)) >= Len(q) /\ Len(q) > 0
    BY <2>1, ConcatProperties, EmptySeq
  <2>3. T[j] = [db[j] EXCEPT !.path = moved(j)]
    BY <1>3 DEF Repath
  <2>4. db[j] = [path |-> db[j].path, ver |-> db[j].ver] /\ db[j].ver \in Nat
    BY DEF IsTable, Rows
  <2> HIDE DEF moved
  <2>5. T[j] = [path |-> moved(j), ver |-> db[j].ver]
    BY <2>3, <2>4
  <2>6. T[j].path # <<>>
    BY <2>2, <2>5
  <2> QED  BY <2>2, <2>4, <2>5, <2>6 DEF Rows
<1> HIDE DEF T
<1>4. \A j \in DOMAIN db : T[j] \in Rows /\ (j # Root => T[j].path # <<>>)
  BY <1>2, <1>3 DEF IsTable
<1> QED  BY <1>1, <1>4 DEF IsTable, T

\* A row of which only the commit changes.
LEMMA VersionIsTable ==
  ASSUME NEW U, IsTable(U), NEW i \in DOMAIN U, NEW n \in Nat
  PROVE  IsTable([U EXCEPT ![i].ver = n])
<1> DEFINE T == [U EXCEPT ![i].ver = n]
<1>1. DOMAIN T = DOMAIN U /\ T = [j \in DOMAIN T |-> T[j]] /\ \A j \in DOMAIN U : j # i => T[j] = U[j]
  BY DEF IsTable
<1>2. T[i] = [U[i] EXCEPT !.ver = n]
  BY DEF IsTable
<1>3. T[i] = [path |-> U[i].path, ver |-> n]
  BY <1>2 DEF IsTable, Rows
<1> HIDE DEF T
<1>4. T[i] \in Rows /\ T[i].path = U[i].path
  BY <1>3 DEF IsTable, Rows
<1> QED  BY <1>1, <1>4 DEF IsTable, T

\* So does a delete.
LEMMA DeleteTables ==
  ASSUME IsTable(db), NEW i, Delete(i)
  PROVE  \E U, t : IsTable(U) /\ Commit(U, t)
<1> DEFINE U == [j \in DOMAIN db \ Below(db, i) |-> db[j]]
<1>1. Commit(U, {db[i].path})
  BY DEF Delete
<1>2. DOMAIN U \subseteq DOMAIN db /\ U = [j \in DOMAIN U |-> U[j]] /\ \A j \in DOMAIN U : U[j] = db[j]
  OBVIOUS
<1> HIDE DEF U
<1>3. IsTable(U)
  BY <1>2 DEF IsTable
<1> QED  BY <1>1, <1>3

\* Whatever is committed, it is a table.
LEMMA WritesTables ==
  ASSUME IsLog(log), Write
  PROVE  \E U, t : IsTable(U) /\ Commit(U, t)
<1>1. Len(log) \in Nat \ {0} /\ IsTable(db)
  BY DEF IsLog, db
<1> HIDE DEF db
<1>2. ASSUME NEW i \in Inodes, NEW p \in Dirs, NEW n \in Names, Create(i, p, n)
      PROVE  \E U, t : IsTable(U) /\ Commit(U, t)
  <2> DEFINE q == Append(db[p].path, n)
             U == [j \in DOMAIN db \cup {i} |-> IF j = i THEN [path |-> q, ver |-> Len(log)] ELSE db[j]]
  <2>1. i \notin DOMAIN db /\ p \in DOMAIN db /\ Commit(U, {q})
    BY <1>2 DEF Create
  <2>2. q \in Seq(Names) /\ q # <<>>
    BY <1>1, <2>1, PathOfRow, AppendProperties
  <2> HIDE DEF q
  <2>3. [path |-> q, ver |-> Len(log)] \in Rows /\ [path |-> q, ver |-> Len(log)].path # <<>>
    BY <1>1, <2>2 DEF Rows
  <2>4. DOMAIN U = DOMAIN db \cup {i} /\ \A j \in DOMAIN U : U[j] \in Rows /\ (j # Root => U[j].path # <<>>)
    BY <1>1, <2>3 DEF IsTable
  <2>5. IsTable(U)
    BY <1>1, <2>4 DEF IsTable
  <2> QED  BY <2>1, <2>5
<1>3. ASSUME NEW i \in Inodes, Delete(i)
      PROVE  \E U, t : IsTable(U) /\ Commit(U, t)
  BY <1>1, <1>3, DeleteTables
<1>4. ASSUME NEW i \in Inodes, Touch(i)
      PROVE  \E U, t : IsTable(U) /\ Commit(U, t)
  BY <1>1, <1>4, VersionIsTable DEF Touch
<1>5. ASSUME NEW i \in Inodes, NEW p \in Dirs, Mv(i, p)
      PROVE  \E U, t : IsTable(U) /\ Commit(U, t)
  <2> DEFINE q == Append(db[p].path, Last(db[i].path))
  <2>1. i \in DOMAIN db /\ i # Root /\ p \in DOMAIN db /\ Commit(Repath(i, q), {db[i].path, q})
    BY <1>5 DEF Mv
  <2>2. Last(db[i].path) \in Names
    BY <1>1, <2>1, PathOfRow DEF Last
  <2>3. q \in Seq(Names) /\ q # <<>>
    BY <1>1, <2>1, <2>2, PathOfRow, AppendProperties
  <2> HIDE DEF q
  <2> QED  BY <1>1, <2>1, <2>3, RepathIsTable
<1>6. ASSUME NEW i \in Inodes, NEW n \in Names, Rename(i, n)
      PROVE  \E U, t : IsTable(U) /\ Commit(U, t)
  <2> DEFINE q == Append(Front(db[i].path), n)
             U == Repath(i, q)
  <2>1. i \in DOMAIN db /\ i # Root /\ Commit([U EXCEPT ![i].ver = Len(log)], {q})
    BY <1>6 DEF Rename
  <2>2. Front(db[i].path) \in Seq(Names)
    <3>1. db[i].path \in Seq(Names) /\ Len(db[i].path) \in Nat \ {0}
      BY <1>1, <2>1, PathOfRow
    <3>2. \A k \in 1 .. Len(db[i].path) - 1 : db[i].path[k] \in Names
      BY <3>1
    <3> QED  BY <3>1, <3>2, SubSeqProperties DEF Front
  <2>3. q \in Seq(Names) /\ q # <<>>
    BY <2>2, AppendProperties
  <2> HIDE DEF q
  <2>4. IsTable(U) /\ i \in DOMAIN U
    BY <1>1, <2>1, <2>3, RepathIsTable
  <2> HIDE DEF U
  <2>5. IsTable([U EXCEPT ![i].ver = Len(log)])
    BY <1>1, <2>4, VersionIsTable
  <2> QED  BY <2>1, <2>5
<1> QED  BY <1>2, <1>3, <1>4, <1>5, <1>6 DEF Write

----------------------------------------------------------------------------
(* The inductive invariant. *)

IsCache(c) == \A x \in DOMAIN c : IsEntry(c[x])

LogInv == IsLog(log) /\ \A p \in pending : IsPending(p, Len(log))

PathsInv == \A q \in DOMAIN paths : IsEntry(paths[q]) /\ PathTrue(q, paths[q], log, pending)

InodesInv == \A i \in DOMAIN inodes : IsEntry(inodes[i]) /\ InodeTrue(i, inodes[i], log, pending)

FillsInv == \A k \in DOMAIN fills : IsEntry(fills[k]) /\ EntryTrue(k, fills[k], log, pending)

ReqInv ==
  /\ req = [c \in Clients |-> req[c]]
  /\ \A c \in Clients : req[c] = NoRequest \/ ReqTrue(req[c], log, pending)

CachesInv == LogInv /\ PathsInv /\ InodesInv /\ FillsInv /\ ReqInv

\* A request that knows something is not idle.
LEMMA ReqIsARequest ==
  ASSUME NEW r, NEW L, NEW P, ReqTrue(r, L, P)
  PROVE  r # NoRequest
BY DEF ReqTrue, NoRequest

\* Oldest of the properties is OldestOf of the invariant.
LEMMA OldestIs == ASSUME NEW P PROVE Oldest(P) = OldestOf(Len(log), P)
BY DEF Oldest, OldestOf

\* Nothing is cached at first.
LEMMA CachesInitInv == CachesInit => CachesInv
<1> SUFFICES ASSUME CachesInit PROVE CachesInv
  OBVIOUS
<1> USE DEF CachesInit
<1>1. IsTable(FirstTree)
  <2>1. FirstTree = [i \in DOMAIN FirstTree |-> FirstTree[i]]
    BY DEF CacheAssumption
  <2> QED  BY <2>1 DEF CacheAssumption, IsTable
<1>2. Len(log) = 1 /\ log[1] = FirstTree /\ log = [v \in 1 .. 1 |-> log[v]]
  OBVIOUS
<1>3. LogInv
  BY <1>1, <1>2 DEF LogInv, IsLog
<1>4. PathsInv /\ InodesInv /\ FillsInv
  BY DEF PathsInv, InodesInv, FillsInv
<1>5. ReqInv
  BY DEF ReqInv
<1> QED  BY <1>3, <1>4, <1>5 DEF CachesInv

\* A transaction is committed: what entries and requests know is still so.
LEMMA CommitStep ==
  ASSUME CachesInv, NEW U, IsTable(U), NEW t, Commit(U, t)
  PROVE  /\ LogInv' /\ PathsInv' /\ InodesInv' /\ FillsInv'
         /\ \A r : ReqTrue(r, log, pending) => ReqTrue(r, log', pending')
<1> DEFINE T == Rewritten(U, t)
           n == Len(log)
           C == ChangeLog(log[n], T)
<1>1. IsLog(log) /\ n \in Nat \ {0} /\ \A p \in pending : IsPending(p, n)
  BY DEF CachesInv, LogInv, IsLog
<1>2. IsTable(T)
  BY <1>1, RewrittenIsTable
<1> HIDE DEF T
<1>3. /\ log' = Append(log, T)
      /\ pending' = IF C = {} THEN pending ELSE pending \cup {[commit |-> n, inodes |-> C, next |-> "paths"]}
      /\ paths' = paths /\ inodes' = inodes /\ fills' = fills
  BY DEF Commit, db, T
<1> HIDE DEF n
<1>4. /\ IsLog(log') /\ Len(log') = n + 1 /\ (\A v \in 1 .. n : log'[v] = log[v])
      /\ \A p \in pending' : IsPending(p, Len(log'))
      /\ OldestOf(n, pending) <= OldestOf(Len(log'), pending')
      /\ \A q, e : PathTrue(q, e, log, pending) => PathTrue(q, e, log', pending')
      /\ \A i, e : InodeTrue(i, e, log, pending) => InodeTrue(i, e, log', pending')
  BY <1>1, <1>2, <1>3, CommitKeepsEntries DEF n
<1>5. LogInv'
  BY <1>4 DEF LogInv
<1>6. PathsInv' /\ InodesInv'
  BY <1>3, <1>4 DEF CachesInv, PathsInv, InodesInv
<1>7. FillsInv'
  BY <1>3, <1>4 DEF CachesInv, FillsInv, EntryTrue
<1>8. ASSUME NEW r, ReqTrue(r, log, pending) PROVE ReqTrue(r, log', pending')
  <2>1. r.since \in 1 .. n /\ r.since <= OldestOf(n, pending)
    BY <1>8 DEF ReqTrue, n
  <2>2. OldestOf(n, pending) \in 1 .. n /\ OldestOf(Len(log'), pending') \in 1 .. n + 1
    BY <1>1, <1>4, OldestBounds
  <2>3. r.since \in 1 .. Len(log') /\ r.since <= OldestOf(Len(log'), pending')
    BY <1>1, <1>4, <2>1, <2>2
  <2>4. Meant(r, log) => Meant(r, log')
    BY <1>1, <1>4, <2>1, MeantGrows DEF n
  <2> QED  BY <1>8, <2>3, <2>4 DEF ReqTrue
<1> QED  BY <1>5, <1>6, <1>7, <1>8

\* Every write transaction keeps the invariant.
LEMMA WriteStep ==
  ASSUME CachesInv, Write
  PROVE  CachesInv'
<1>1. PICK U, t : IsTable(U) /\ Commit(U, t)
  BY WritesTables DEF CachesInv, LogInv
<1>2. /\ LogInv' /\ PathsInv' /\ InodesInv' /\ FillsInv'
      /\ \A r : ReqTrue(r, log, pending) => ReqTrue(r, log', pending')
  BY <1>1, CommitStep
<1>3. req' = req
  BY DEF Write
<1>4. ReqInv'
  BY <1>2, <1>3 DEF CachesInv, ReqInv
<1> QED  BY <1>2, <1>4 DEF CachesInv

\* A request that ends, and maybe deletes what it found.
LEMMA EndStep ==
  ASSUME CachesInv, NEW c \in Clients, Reply(c) \/ RemoveIt(c)
  PROVE  CachesInv'
<1>1. req' = [req EXCEPT ![c] = NoRequest]
  BY DEF Reply, RemoveIt
<1>2. \A x \in Clients : req'[x] = NoRequest \/ req'[x] = req[x]
  BY <1>1 DEF CachesInv, ReqInv
<1>3. req' = [x \in Clients |-> req'[x]]
  BY <1>1 DEF CachesInv, ReqInv
<1>4. CASE Reply(c)
  <2>1. UNCHANGED <<log, pending, paths, inodes, fills>>
    BY <1>4 DEF Reply
  <2>2. LogInv' /\ PathsInv' /\ InodesInv' /\ FillsInv'
    BY <2>1 DEF CachesInv, LogInv, PathsInv, InodesInv, FillsInv
  <2>3. ReqInv'
    BY <1>2, <1>3, <2>1 DEF CachesInv, ReqInv
  <2> QED  BY <2>2, <2>3 DEF CachesInv
<1>5. CASE RemoveIt(c)
  <2>1. PICK U, t : IsTable(U) /\ Commit(U, t)
    <3>1. Delete(req[c].key) /\ IsTable(db)
      BY <1>5 DEF RemoveIt, CachesInv, LogInv, IsLog, db
    <3> QED  BY <3>1, DeleteTables
  <2>2. /\ LogInv' /\ PathsInv' /\ InodesInv' /\ FillsInv'
        /\ \A r : ReqTrue(r, log, pending) => ReqTrue(r, log', pending')
    BY <2>1, CommitStep
  <2>3. ReqInv'
    BY <1>2, <1>3, <2>2 DEF CachesInv, ReqInv
  <2> QED  BY <2>2, <2>3 DEF CachesInv
<1> QED  BY <1>4, <1>5

\* The oldest depends on the commits that are pending alone.
LEMMA SameOldest ==
  ASSUME NEW n, NEW P, NEW Q, {p.commit : p \in P} = {p.commit : p \in Q}
  PROVE  OldestOf(n, P) = OldestOf(n, Q)
BY DEF OldestOf

\* Requests know no less when less is pending.
LEMMA ReqsKept ==
  ASSUME CachesInv, NEW P, OldestOf(Len(log), pending) <= OldestOf(Len(log), P),
         \A p \in P : IsPending(p, Len(log)), NEW r, ReqTrue(r, log, pending)
  PROVE  ReqTrue(r, log, P)
<1>1. Len(log) \in Nat \ {0} /\ r.since \in 1 .. Len(log)
  BY DEF CachesInv, LogInv, IsLog, ReqTrue
<1>2. OldestOf(Len(log), pending) \in 1 .. Len(log) /\ OldestOf(Len(log), P) \in 1 .. Len(log)
  BY <1>1, OldestBounds DEF CachesInv, LogInv
<1> QED  BY <1>1, <1>2 DEF ReqTrue

\* An entry that is marked late is an entry.
LEMMA MarkedEntry ==
  ASSUME NEW e, IsEntry(e), NEW t \in BOOLEAN
  PROVE  IsEntry([e EXCEPT !.late = t]) /\ [e EXCEPT !.late = t].late = t
<1> DEFINE v == e.value
<1>1. e = [value |-> v, late |-> e.late]
  BY DEF IsEntry
<1> HIDE DEF v
<1>2. [e EXCEPT !.late = t] = [value |-> v, late |-> t]
  BY <1>1
<1> QED  BY <1>2 DEF IsEntry

\* An invalidation marks the fills of its keys and leaves the others.
LEMMA LateFills ==
  ASSUME FillsInv, NEW keys, NEW k \in DOMAIN fills
  PROVE  /\ DOMAIN LateIf(keys) = DOMAIN fills
         /\ IsEntry(LateIf(keys)[k])
         /\ k \in keys => LateIf(keys)[k].late
         /\ k \notin keys => LateIf(keys)[k] = fills[k]
<1> DEFINE e == fills[k]
           l == LateIf(keys)[k]
<1>1. IsEntry(e)
  BY DEF FillsInv
<1>2. DOMAIN LateIf(keys) = DOMAIN fills /\ l = IF k \in keys THEN [e EXCEPT !.late = TRUE] ELSE e
  BY DEF LateIf
<1> HIDE DEF e, l
<1>3. IsEntry([e EXCEPT !.late = TRUE]) /\ [e EXCEPT !.late = TRUE].late = TRUE
  BY <1>1, MarkedEntry, Zenon
<1>5. k \in keys => IsEntry(l) /\ l.late
  BY <1>2, <1>3
<1>6. k \notin keys => IsEntry(l) /\ l = e
  BY <1>1, <1>2
<1> QED  BY <1>2, <1>5, <1>6 DEF e, l

\* What is late knows nothing.
LEMMA LateIsTrue ==
  ASSUME NEW k, NEW e, e.late, NEW L, NEW P
  PROVE  EntryTrue(k, e, L, P)
BY DEF EntryTrue, PathTrue, InodeTrue

\* All paths go, and what is about to become one is late.
LEMMA InvalidatePathsStep ==
  ASSUME CachesInv, NEW p \in pending, InvalidatePaths(p)
  PROVE  CachesInv'
<1> DEFINE n == Len(log)
           q == [p EXCEPT !.next = "inodes"]
<1>1. IsPending(p, n) /\ n \in Nat \ {0} /\ p.next = "paths" /\ \A x \in pending : IsPending(x, n)
  BY DEF CachesInv, LogInv, IsLog, InvalidatePaths
<1>2. q = [commit |-> p.commit, inodes |-> p.inodes, next |-> "inodes"]
  BY <1>1 DEF IsPending
<1> HIDE DEF q
<1>3. q.commit = p.commit /\ q.inodes = p.inodes /\ IsPending(q, n)
  BY <1>1, <1>2 DEF IsPending
<1>4. pending' = (pending \ {p}) \cup {q} /\ log' = log /\ inodes' = inodes /\ req' = req
  BY DEF InvalidatePaths, q
<1>5. \A x \in pending' : IsPending(x, n)
  BY <1>1, <1>3, <1>4
<1>6. LogInv'
  BY <1>4, <1>5 DEF CachesInv, LogInv
<1>7. DOMAIN paths' = {}
  BY DEF InvalidatePaths
<1>8. PathsInv'
  BY <1>7 DEF PathsInv
<1>9. ASSUME NEW i, NEW e, InodeTrue(i, e, log, pending) PROVE InodeTrue(i, e, log', pending')
  <2>1. {x.commit : x \in {y \in pending : i \in y.inodes}} = {x.commit : x \in {y \in pending' : i \in y.inodes}}
    BY <1>3, <1>4
  <2>2. OldestOf(n, {y \in pending : i \in y.inodes}) = OldestOf(n, {y \in pending' : i \in y.inodes})
    BY <2>1, SameOldest
  <2> QED  BY <1>4, <1>9, <2>2 DEF InodeTrue
<1>10. InodesInv'
  BY <1>4, <1>9 DEF CachesInv, InodesInv
<1>11. FillsInv'
  <2> DEFINE keys == {k \in DOMAIN fills : IsPath(k)}
  <2>1. fills' = LateIf(keys)
    BY DEF InvalidatePaths
  <2>2. DOMAIN fills' = DOMAIN fills
    BY <2>1 DEF LateIf
  <2>3. ASSUME NEW k \in DOMAIN fills PROVE IsEntry(fills'[k]) /\ EntryTrue(k, fills'[k], log', pending')
    <3>1. IsEntry(fills'[k]) /\ (k \in keys => fills'[k].late) /\ (k \notin keys => fills'[k] = fills[k])
      BY <2>1, LateFills DEF CachesInv
    <3>2. CASE IsPath(k)
      BY <3>1, <3>2, LateIsTrue
    <3>3. CASE ~IsPath(k)
      <4>1. fills'[k] = fills[k] /\ InodeTrue(k.inode, fills[k], log, pending)
        BY <3>1, <3>3 DEF CachesInv, FillsInv, EntryTrue
      <4> QED  BY <1>9, <3>1, <3>3, <4>1 DEF EntryTrue
    <3> QED  BY <3>2, <3>3
  <2> QED  BY <2>2, <2>3 DEF FillsInv
<1>12. ReqInv'
  <2>1. {x.commit : x \in pending} = {x.commit : x \in pending'}
    BY <1>3, <1>4
  <2>2. OldestOf(n, pending) = OldestOf(n, pending')
    BY <2>1, SameOldest
  <2>3. OldestOf(n, pending) \in 1 .. n
    BY <1>1, OldestBounds
  <2>4. \A r : ReqTrue(r, log, pending) => ReqTrue(r, log, pending')
    BY <1>5, <2>2, <2>3, ReqsKept
  <2> QED  BY <1>4, <2>4 DEF CachesInv, ReqInv
<1> QED  BY <1>6, <1>8, <1>10, <1>11, <1>12 DEF CachesInv

\* The inodes of a commit go, and what is about to become one of them is late.
LEMMA InvalidateInodesStep ==
  ASSUME CachesInv, NEW p \in pending, InvalidateInodes(p)
  PROVE  CachesInv'
<1> DEFINE n == Len(log)
<1>1. IsPending(p, n) /\ n \in Nat \ {0} /\ p.next = "inodes" /\ \A x \in pending : IsPending(x, n)
  BY DEF CachesInv, LogInv, IsLog, InvalidateInodes
<1>2. pending' = pending \ {p} /\ log' = log /\ paths' = paths /\ req' = req
  BY DEF InvalidateInodes
<1>3. \A x \in pending' : IsPending(x, n)
  BY <1>1, <1>2
<1>4. LogInv'
  BY <1>2, <1>3 DEF CachesInv, LogInv
<1>5. ASSUME NEW q, NEW e, PathTrue(q, e, log, pending) PROVE PathTrue(q, e, log', pending')
  <2>1. {x \in pending : x.next = "paths"} = {x \in pending' : x.next = "paths"}
    BY <1>1, <1>2
  <2> QED  BY <1>2, <1>5, <2>1 DEF PathTrue
<1>6. ASSUME NEW i, i \notin p.inodes, NEW e, InodeTrue(i, e, log, pending) PROVE InodeTrue(i, e, log', pending')
  <2>1. {x \in pending : i \in x.inodes} = {x \in pending' : i \in x.inodes}
    BY <1>2, <1>6
  <2> QED  BY <1>2, <1>6, <2>1 DEF InodeTrue
<1>7. PathsInv'
  BY <1>2, <1>5 DEF CachesInv, PathsInv
<1>8. InodesInv'
  <2>1. DOMAIN inodes' = DOMAIN inodes \ p.inodes /\ \A i \in DOMAIN inodes' : inodes'[i] = inodes[i]
    BY DEF InvalidateInodes
  <2> QED  BY <1>6, <2>1 DEF CachesInv, InodesInv
<1>9. FillsInv'
  <2> DEFINE keys == {k \in DOMAIN fills : ~IsPath(k) /\ k.inode \in p.inodes}
  <2>1. fills' = LateIf(keys)
    BY DEF InvalidateInodes
  <2>2. DOMAIN fills' = DOMAIN fills
    BY <2>1 DEF LateIf
  <2>3. ASSUME NEW k \in DOMAIN fills PROVE IsEntry(fills'[k]) /\ EntryTrue(k, fills'[k], log', pending')
    <3>1. IsEntry(fills'[k]) /\ (k \in keys => fills'[k].late) /\ (k \notin keys => fills'[k] = fills[k])
      BY <2>1, LateFills DEF CachesInv
    <3>2. EntryTrue(k, fills[k], log, pending)
      BY DEF CachesInv, FillsInv
    <3>3. CASE IsPath(k)
      <4>1. fills'[k] = fills[k] /\ PathTrue(k.path, fills[k], log, pending)
        BY <3>1, <3>2, <3>3 DEF EntryTrue
      <4> QED  BY <1>5, <3>1, <3>3, <4>1 DEF EntryTrue
    <3>4. CASE ~IsPath(k) /\ k.inode \in p.inodes
      BY <3>1, <3>4, LateIsTrue
    <3>5. CASE ~IsPath(k) /\ k.inode \notin p.inodes
      <4>1. fills'[k] = fills[k] /\ InodeTrue(k.inode, fills[k], log, pending)
        BY <3>1, <3>2, <3>5 DEF EntryTrue
      <4> QED  BY <1>6, <3>1, <3>5, <4>1 DEF EntryTrue
    <3> QED  BY <3>3, <3>4, <3>5
  <2> QED  BY <2>2, <2>3 DEF FillsInv
<1>10. ReqInv'
  <2>1. OldestOf(n, pending) <= OldestOf(n, pending')
    BY <1>1, <1>2, OldestOfFewer
  <2>2. \A r : ReqTrue(r, log, pending) => ReqTrue(r, log, pending')
    BY <1>3, <2>1, ReqsKept
  <2> QED  BY <1>2, <2>2 DEF CachesInv, ReqInv
<1> QED  BY <1>4, <1>7, <1>8, <1>9, <1>10 DEF CachesInv

\* An entry that goes takes no truth with it.
LEMMA ExpireStep ==
  ASSUME CachesInv, (\E q \in DOMAIN paths : ExpirePath(q)) \/ (\E i \in DOMAIN inodes : ExpireInode(i))
  PROVE  CachesInv'
<1>1. /\ UNCHANGED <<log, pending, fills, req>>
      /\ DOMAIN paths' \subseteq DOMAIN paths /\ \A q \in DOMAIN paths' : paths'[q] = paths[q]
      /\ DOMAIN inodes' \subseteq DOMAIN inodes /\ \A i \in DOMAIN inodes' : inodes'[i] = inodes[i]
  BY DEF ExpirePath, ExpireInode
<1>2. LogInv' /\ FillsInv' /\ ReqInv'
  BY <1>1 DEF CachesInv, LogInv, FillsInv, ReqInv
<1>3. PathsInv' /\ InodesInv'
  BY <1>1 DEF CachesInv, PathsInv, InodesInv
<1> QED  BY <1>2, <1>3 DEF CachesInv

\* A request begins with a window that no pending commit is older than.
LEMMA BeginStep ==
  ASSUME CachesInv, NEW c \in Clients, NEW d, NEW n, Begin(c, d, n)
  PROVE  CachesInv'
<1> DEFINE r == [stage |-> "dir", dir |-> d, name |-> n, key |-> [inode |-> d], late |-> FALSE, since |-> Oldest(pending)]
<1>1. req' = [req EXCEPT ![c] = r] /\ UNCHANGED <<log, pending, paths, inodes, fills>>
  BY DEF Begin
<1>2. Oldest(pending) = OldestOf(Len(log), pending) /\ OldestOf(Len(log), pending) \in 1 .. Len(log)
  BY OldestIs, OldestBounds DEF CachesInv, LogInv, IsLog
<1>3. ReqTrue(r, log, pending)
  BY <1>2 DEF ReqTrue, Meant
<1> HIDE DEF r
<1>4. ReqInv'
  BY <1>1, <1>3 DEF CachesInv, ReqInv
<1>5. LogInv' /\ PathsInv' /\ InodesInv' /\ FillsInv'
  BY <1>1 DEF CachesInv, LogInv, PathsInv, InodesInv, FillsInv
<1> QED  BY <1>4, <1>5 DEF CachesInv

\* A request goes on with what is cached.
LEMMA FindEntryStep ==
  ASSUME CachesInv, NEW c \in Clients, NEW k, FindEntry(c, k)
  PROVE  CachesInv'
<1> DEFINE e == IF IsPath(k) THEN paths[k.path] ELSE inodes[k.inode]
           r == req[c]
<1>1. /\ r.stage \in {"dir", "path", "inode"} /\ r.key = k
      /\ req' = [req EXCEPT ![c] = Advance(r, e)] /\ UNCHANGED <<log, pending, paths, inodes, fills>>
  BY DEF FindEntry, Asks
<1>2. IsEntry(e) /\ EntryTrue(k, e, log, pending)
  <2>1. CASE IsPath(k)
    BY <2>1 DEF FindEntry, Cached, CachesInv, PathsInv, EntryTrue
  <2>2. CASE ~IsPath(k)
    BY <2>2 DEF FindEntry, Cached, CachesInv, InodesInv, EntryTrue
  <2> QED  BY <2>1, <2>2
<1> HIDE DEF e
<1>3. ReqTrue(r, log, pending)
  BY <1>1 DEF CachesInv, ReqInv, NoRequest
<1>4. ReqTrue(Advance(r, e), log, pending)
  BY <1>1, <1>2, <1>3, AdvanceIsTrue DEF CachesInv, LogInv
<1>5. ReqInv'
  BY <1>1, <1>4 DEF CachesInv, ReqInv
<1>6. LogInv' /\ PathsInv' /\ InodesInv' /\ FillsInv'
  BY <1>1 DEF CachesInv, LogInv, PathsInv, InodesInv, FillsInv
<1> QED  BY <1>5, <1>6 DEF CachesInv

\* A fill has read what the database says.
LEMMA StartFillStep ==
  ASSUME CachesInv, NEW k, StartFill(k)
  PROVE  CachesInv'
<1> DEFINE n == Len(log)
           e == [value |-> IF IsPath(k) THEN At(db, k.path) ELSE Row(db, k.inode), late |-> FALSE]
<1>1. /\ DOMAIN fills' = DOMAIN fills \cup {k} /\ fills'[k] = e /\ \A x \in DOMAIN fills : x # k => fills'[x] = fills[x]
      /\ k \notin DOMAIN fills /\ UNCHANGED <<log, pending, paths, inodes, req>>
  BY DEF StartFill
<1>2. IsEntry(e) /\ EntryTrue(k, e, log, pending)
  <2>1. IsEntry(e)
    BY DEF IsEntry
  <2>2. n \in Nat \ {0} /\ \A p \in pending : IsPending(p, n)
    BY DEF CachesInv, LogInv, IsLog
  <2>3. \A P \in SUBSET pending : n \in OldestOf(n, P) .. n
    <3> SUFFICES ASSUME NEW P \in SUBSET pending PROVE n \in OldestOf(n, P) .. n
      OBVIOUS
    <3>1. OldestOf(n, P) \in 1 .. n
      BY <2>2, OldestBounds
    <3> QED  BY <2>2, <3>1
  <2>4. CASE IsPath(k)
    <3>1. e.value = At(log[n], k.path)
      BY <2>4 DEF db
    <3>2. n \in OldestOf(n, {p \in pending : p.next = "paths"}) .. n
      BY <2>3
    <3> QED  BY <2>1, <2>4, <3>1, <3>2 DEF EntryTrue, PathTrue
  <2>5. CASE ~IsPath(k)
    <3>1. e.value = Row(log[n], k.inode)
      BY <2>5 DEF db
    <3>2. n \in OldestOf(n, {p \in pending : k.inode \in p.inodes}) .. n
      BY <2>3
    <3> QED  BY <2>1, <2>5, <3>1, <3>2 DEF EntryTrue, InodeTrue
  <2> QED  BY <2>4, <2>5
<1> HIDE DEF e
<1>3. FillsInv'
  BY <1>1, <1>2 DEF CachesInv, FillsInv
<1>4. LogInv' /\ PathsInv' /\ InodesInv' /\ ReqInv'
  BY <1>1 DEF CachesInv, LogInv, PathsInv, InodesInv, ReqInv
<1> QED  BY <1>3, <1>4 DEF CachesInv

\* A fill that ends: what it knows goes into the cache and to all who ask, or nothing does.
LEMMA FillStep ==
  ASSUME CachesInv, NEW k \in DOMAIN fills, Fill(k) \/ FillFails(k)
  PROVE  CachesInv'
<1> DEFINE e == fills[k]
<1>1. IsEntry(e) /\ EntryTrue(k, e, log, pending)
  BY DEF CachesInv, FillsInv
<1>2. /\ DOMAIN fills' = DOMAIN fills \ {k} /\ (\A x \in DOMAIN fills' : fills'[x] = fills[x])
      /\ log' = log /\ pending' = pending
  BY DEF Fill, FillFails, EndFill
<1>3. LogInv' /\ FillsInv'
  BY <1>2 DEF CachesInv, LogInv, FillsInv
<1>4. /\ req' = [c \in Clients |-> req'[c]]
      /\ \A c \in Clients : \/ req'[c] = req[c] \/ req'[c] = NoRequest
                            \/ Asks(c, k) /\ req'[c] = Advance(req[c], e)
  BY DEF Fill, FillFails, EndFill
<1> HIDE DEF e
<1>5. ReqInv'
  <2> SUFFICES ASSUME NEW c \in Clients, req'[c] # NoRequest PROVE ReqTrue(req'[c], log, pending)
    BY <1>2, <1>4 DEF ReqInv
  <2>1. CASE req'[c] = req[c]
    BY <2>1 DEF CachesInv, ReqInv
  <2>2. CASE Asks(c, k) /\ req'[c] = Advance(req[c], e)
    <3>1. req[c].stage \in {"dir", "path", "inode"} /\ req[c].key = k
      BY <2>2 DEF Asks
    <3>2. ReqTrue(req[c], log, pending)
      BY <3>1 DEF CachesInv, ReqInv, NoRequest
    <3>3. ReqTrue(Advance(req[c], e), log, pending)
      BY <1>1, <3>1, <3>2, AdvanceIsTrue DEF CachesInv, LogInv
    <3> QED  BY <2>2, <3>3
  <2> QED  BY <1>4, <2>1, <2>2
<1>6. PathsInv'
  <2>1. \/ paths' = paths
        \/ IsPath(k) /\ paths' = Put(paths, k.path, e)
    BY DEF Fill, FillFails, e
  <2>2. \A q \in DOMAIN paths' : (q \in DOMAIN paths /\ paths'[q] = paths[q]) \/ (IsPath(k) /\ q = k.path /\ paths'[q] = e)
    BY <2>1 DEF Put
  <2> QED  BY <1>1, <1>2, <2>2 DEF CachesInv, PathsInv, EntryTrue
<1>7. InodesInv'
  <2>1. \/ inodes' = inodes
        \/ ~IsPath(k) /\ inodes' = Put(inodes, k.inode, e)
    BY DEF Fill, FillFails, e
  <2>2. \A i \in DOMAIN inodes' : (i \in DOMAIN inodes /\ inodes'[i] = inodes[i]) \/ (~IsPath(k) /\ i = k.inode /\ inodes'[i] = e)
    BY <2>1 DEF Put
  <2> QED  BY <1>1, <1>2, <2>2 DEF CachesInv, InodesInv, EntryTrue
<1> QED  BY <1>3, <1>5, <1>6, <1>7 DEF CachesInv

\* The invariant is inductive.
LEMMA CachesStep ==
  ASSUME CachesInv, [CachesNext]_entryVars
  PROVE  CachesInv'
<1>1. CASE UNCHANGED entryVars
  BY <1>1 DEF entryVars, CachesInv, LogInv, PathsInv, InodesInv, FillsInv, ReqInv
<1>2. CASE CachesNext
  <2>1. CASE Write
    BY <2>1, WriteStep
  <2>2. CASE \E p \in pending : InvalidatePaths(p) \/ InvalidateInodes(p)
    BY <2>2, InvalidatePathsStep, InvalidateInodesStep
  <2>3. CASE \E c \in Clients, w \in Wanted : Begin(c, w[1], w[2])
    BY <2>3, BeginStep
  <2>4. CASE \E c \in {x \in Clients : req[x] # NoRequest} : FindEntry(c, req[c].key)
    BY <2>4, FindEntryStep
  <2>5. CASE \E c \in {x \in Clients : req[x] # NoRequest} : Asks(c, req[c].key) /\ StartFill(req[c].key)
    BY <2>5, StartFillStep
  <2>6. CASE \E c \in {x \in Clients : req[x] # NoRequest} : Reply(c) \/ RemoveIt(c)
    BY <2>6, EndStep
  <2>7. CASE \E k \in [inode : Inodes] \cup [path : {db[i].path : i \in DOMAIN db \ {Root}}] : StartFill(k)
    BY <2>7, StartFillStep
  <2>8. CASE \E k \in DOMAIN fills : Fill(k) \/ FillFails(k)
    BY <2>8, FillStep
  <2>9. CASE (\E q \in DOMAIN paths : ExpirePath(q)) \/ (\E i \in DOMAIN inodes : ExpireInode(i))
    BY <2>9, ExpireStep
  <2> QED  BY <1>2, <2>1, <2>2, <2>3, <2>4, <2>5, <2>6, <2>7, <2>8, <2>9 DEF CachesNext
<1> QED  BY <1>1, <1>2

\* Whatever is not late, entry, fill or request, was so in a commit of its window.
THEOREM CachesAreTrue == CachesSpec => []CachesInv
  BY CachesInitInv, CachesStep, PTL DEF CachesSpec

\* The invariant says of the caches' entries what the property says.
LEMMA TrueCaches == CachesInv => OnlyLateFillsAreStale
<1> SUFFICES ASSUME CachesInv PROVE OnlyLateFillsAreStale
  OBVIOUS
<1>1. \A q \in DOMAIN paths : ~paths[q].late =>
        \E v \in Oldest({p \in pending : p.next = "paths"}) .. Len(log) : paths[q].value = At(log[v], q)
  BY OldestIs DEF CachesInv, PathsInv, PathTrue
<1>2. \A i \in DOMAIN inodes : ~inodes[i].late =>
        \E v \in Oldest({p \in pending : i \in p.inodes}) .. Len(log) : inodes[i].value = Row(log[v], i)
  BY OldestIs DEF CachesInv, InodesInv, InodeTrue
<1> QED  BY <1>1, <1>2 DEF OnlyLateFillsAreStale

\* And of an answer.
LEMMA TrueAnswers == CachesInv => AnswersWereTrue
<1> SUFFICES ASSUME CachesInv, NEW c \in Clients, req[c] # NoRequest, req[c].stage = "answer", ~req[c].late
             PROVE  TrueAnswer(req[c], log)
  BY DEF AnswersWereTrue
<1> QED  BY DEF CachesInv, ReqInv, ReqTrue, Meant

\* Only a fill that an invalidation overtook leaves a stale entry (vfs/inode.rs, the invalidation after
\* each commit).
THEOREM OnlyLateIsStale == CachesSpec => []OnlyLateFillsAreStale
  BY CachesAreTrue, TrueCaches, PTL

\* A lookup that met no late entry answers what was so since it began, or was committed and not
\* yet invalidated then.
THEOREM TrueWhenAsked == CachesSpec => []AnswersWereTrue
  BY CachesAreTrue, TrueAnswers, PTL

=============================================================================
