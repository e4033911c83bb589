----------------------------- MODULE NfsHandles -----------------------------
(***************************************************************************)
(* The NFS server's table of open files.  A handle has a slot in a table   *)
(* under one mutex; an operation takes the open file out of its slot while *)
(* it runs and puts it back.  Opening for writing first gets the file's    *)
(* permit, from a semaphore a table of weak references keeps while anyone  *)
(* refers to it; the permit goes when the open file is dropped.            *)
(*                                                                         *)
(* The mutex is held for single steps here, but for one: whoever drops a   *)
(* file open for writing while he holds the mutex waits for himself, and   *)
(* everyone for him (stuck).                                               *)
(***************************************************************************)
EXTENDS Naturals, FiniteSets

CONSTANTS
  Task,       \* requests the server works on at a time
  Handle,     \* handles (vfs_fh)
  File,       \* ids of files
  Semaphore,
  None,       \* nobody, nothing
  MaxOpen,    \* bound: handles open or being opened at a time
  MaxFailed,  \* bound: opens that fail, each keeps its slot
  CloseBusy   \* may a handle be closed while an operation on it runs?

ASSUME TableAssumption ==
  /\ None \notin Task \cup Handle \cup File \cup Semaphore
  /\ None \notin [file : File \cup {None}, rw : BOOLEAN, sem : Semaphore \cup {None}]
  /\ MaxOpen \in Nat /\ MaxFailed \in Nat /\ CloseBusy \in BOOLEAN

VARIABLES
  slot,         \* the table file_handles: handle -> an open file, or None in a slot whose file is out
  write_locks,  \* file -> the semaphore weakly referred to
  permit,       \* semaphore -> the handle its one permit is given to
  task,         \* task -> what its request does
  stuck,        \* the mutex is never released again
  given,        \* handles returned to the caller and not closed by it
  failed        \* handles whose open failed

vars == <<slot, write_locks, permit, task, stuck, given, failed>>

----------------------------------------------------------------------------

Idle == [phase |-> "idle", handle |-> None, file |-> None, rw |-> FALSE, sem |-> None]

\* An open file is what its opener knew of it; the semaphore is the one of its permit.
OpenFile(r) == [file |-> r.file, rw |-> r.rw, sem |-> r.sem]

Init ==
  /\ slot = [h \in {} |-> None]
  /\ write_locks = [f \in File |-> None]
  /\ permit = [s \in Semaphore |-> None]
  /\ task = [t \in Task |-> Idle]
  /\ stuck = FALSE
  /\ given = {} /\ failed = {}

\* strong_count >= 1: an opener that waits or a permit refers to it
Alive(s) == permit[s] # None \/ \E t \in Task : task[t].phase = "wait" /\ task[t].sem = s

Put(h, x) == [g \in DOMAIN slot \cup {h} |-> IF g = h THEN x ELSE slot[g]]
Without(h) == [g \in DOMAIN slot \ {h} |-> slot[g]]

\* Handles are random and semaphores allocated: which unused one it is makes no difference.
NewHandle(h) == h \notin DOMAIN slot /\ \A t \in Task : task[t].handle # h
NewSemaphore(s) == ~Alive(s) /\ \A f \in File : write_locks[f] # s

\* open: a new handle's slot is reserved; a semaphore is joined or made, under the same lock.
Reserve(t, f, rw) ==
  /\ ~stuck
  /\ task[t] = Idle
  /\ \E h \in Handle : NewHandle(h)
  /\ Cardinality(DOMAIN slot \ failed) < MaxOpen
  /\ LET h == CHOOSE g \in Handle : NewHandle(g)
         joins == write_locks[f] # None /\ Alive(write_locks[f])
         s == IF ~rw THEN None ELSE IF joins THEN write_locks[f]
              ELSE CHOOSE x \in Semaphore : NewSemaphore(x)
     IN  /\ rw /\ ~joins => \E x \in Semaphore : NewSemaphore(x)
         /\ write_locks' = IF rw THEN [write_locks EXCEPT ![f] = s] ELSE write_locks
         /\ slot' = Put(h, None)
         /\ task' = [task EXCEPT ![t] = [phase |-> IF rw THEN "wait" ELSE "open",
                                         handle |-> h, file |-> f, rw |-> rw, sem |-> s]]
  /\ UNCHANGED <<permit, stuck, given, failed>>

\* Mutant of Acquire: a semaphore with room for two.
AcquireShared(t) ==
  /\ task[t].phase = "wait"
  /\ permit' = [permit EXCEPT ![task[t].sem] = task[t].handle]
  /\ task' = [task EXCEPT ![t].phase = "open"]
  /\ UNCHANGED <<slot, write_locks, stuck, given, failed>>

Acquire(t) ==
  /\ task[t].phase = "wait"
  /\ permit[task[t].sem] = None
  /\ permit' = [permit EXCEPT ![task[t].sem] = task[t].handle]
  /\ task' = [task EXCEPT ![t].phase = "open"]
  /\ UNCHANGED <<slot, write_locks, stuck, given, failed>>

\* The file is loaded and opened; the handle is the caller's.
Opened(t) ==
  /\ ~stuck
  /\ task[t].phase = "open"
  /\ slot' = Put(task[t].handle, OpenFile(task[t]))
  /\ given' = given \cup {task[t].handle}
  /\ task' = [task EXCEPT ![t] = Idle]
  /\ UNCHANGED <<write_locks, permit, stuck, failed>>

\* Mutant of Released: the permit is handed to a waiter that is not told.
ReleasedToWaiter(r) ==
  LET waiters == {t \in Task : task[t].phase = "wait" /\ task[t].sem = r.sem}
  IN  IF ~r.rw THEN permit
      ELSE [permit EXCEPT ![r.sem] = IF waiters = {} THEN None
                                     ELSE task[CHOOSE t \in waiters : TRUE].handle]

\* An OwnedSemaphorePermit is dropped.
Released(r) == IF r.rw THEN [permit EXCEPT ![r.sem] = None] ELSE permit

\* Mutant of LookupFails: the error forgets the permit.
LookupFailsHolding(t) ==
  /\ task[t].phase = "open"
  /\ Cardinality(failed) < MaxFailed
  /\ failed' = failed \cup {task[t].handle}
  /\ task' = [task EXCEPT ![t] = Idle]
  /\ UNCHANGED <<slot, write_locks, permit, stuck, given>>

\* The inode is not there or no file, or a file opened for reading cannot be: the permit goes
\* at once, the slot stays as it was reserved.
LookupFails(t) ==
  /\ task[t].phase = "open"
  /\ Cardinality(failed) < MaxFailed
  /\ failed' = failed \cup {task[t].handle}
  /\ permit' = Released(task[t])
  /\ task' = [task EXCEPT ![t] = Idle]
  /\ UNCHANGED <<slot, write_locks, stuck, given>>

\* open_rw fails: the permit is in a WriteLock by now, whose drop purges.
OpenRwFails(t) ==
  /\ task[t].phase = "open" /\ task[t].rw
  /\ Cardinality(failed) < MaxFailed
  /\ failed' = failed \cup {task[t].handle}
  /\ task' = [task EXCEPT ![t].phase = "drop"]
  /\ UNCHANGED <<slot, write_locks, permit, stuck, given>>

\* WriteLock::drop: the permit first ...
DropPermit(t) ==
  /\ task[t].phase = "drop"
  /\ permit' = Released(task[t])
  /\ task' = [task EXCEPT ![t].phase = "purge"]
  /\ UNCHANGED <<slot, write_locks, stuck, given, failed>>

\* Mutant of Purge: a semaphore nobody has the permit of is purged.
PurgeFree(t) ==
  /\ ~stuck
  /\ task[t].phase = "purge"
  /\ write_locks' = [f \in File |-> IF write_locks[f] # None /\ permit[write_locks[f]] # None
                                    THEN write_locks[f] ELSE None]
  /\ task' = [task EXCEPT ![t] = Idle]
  /\ UNCHANGED <<slot, permit, stuck, given, failed>>

\* ... then, under the mutex, the references nobody shares any more.
Purge(t) ==
  /\ ~stuck
  /\ task[t].phase = "purge"
  /\ write_locks' = [f \in File |-> IF write_locks[f] # None /\ Alive(write_locks[f])
                                    THEN write_locks[f] ELSE None]
  /\ task' = [task EXCEPT ![t] = Idle]
  /\ UNCHANGED <<slot, permit, stuck, given, failed>>

----------------------------------------------------------------------------
(* Operations on a handle. *)

Running(h) == \E t \in Task : task[t].phase = "run" /\ task[t].handle = h

\* read or write takes the open file; on a slot that is empty or gone it is refused.
Take(t, h) ==
  /\ ~stuck
  /\ task[t] = Idle
  /\ h \in given /\ h \in DOMAIN slot /\ slot[h] # None
  /\ slot' = Put(h, None)
  /\ task' = [task EXCEPT ![t] = [phase |-> "run", handle |-> h, file |-> slot[h].file,
                                  rw |-> slot[h].rw, sem |-> slot[h].sem]]
  /\ UNCHANGED <<write_locks, permit, stuck, given, failed>>

\* Mutant of Return: a write on a handle opened for reading is refused and its file lost.
ReturnReadOnlyLost(t) ==
  /\ ~stuck
  /\ task[t].phase = "run"
  /\ IF task[t].handle \in DOMAIN slot
     THEN /\ slot' = IF task[t].rw THEN Put(task[t].handle, OpenFile(task[t])) ELSE slot
          /\ UNCHANGED <<permit, stuck>>
     ELSE slot' = slot /\ permit' = Released(task[t]) /\ stuck' = task[t].rw
  /\ task' = [task EXCEPT ![t] = Idle]
  /\ UNCHANGED <<write_locks, given, failed>>

\* It returns it, with its result or an error.  If the slot is gone, the open file is dropped
\* there, the mutex still held.
Return(t) ==
  /\ ~stuck
  /\ task[t].phase = "run"
  /\ IF task[t].handle \in DOMAIN slot
     THEN slot' = Put(task[t].handle, OpenFile(task[t])) /\ UNCHANGED <<permit, stuck>>
     ELSE slot' = slot /\ permit' = Released(task[t]) /\ stuck' = task[t].rw
  /\ task' = [task EXCEPT ![t] = Idle]
  /\ UNCHANGED <<write_locks, given, failed>>

\* Mutant of Close: the slot is emptied, not removed.
CloseLeaving(t, h) ==
  /\ ~stuck
  /\ task[t] = Idle
  /\ h \in given
  /\ CloseBusy \/ ~Running(h)
  /\ given' = given \ {h}
  /\ h \in DOMAIN slot
  /\ slot' = Put(h, None)
  /\ task' = IF slot[h] # None /\ slot[h].rw
             THEN [task EXCEPT ![t] = [phase |-> "drop", handle |-> h, file |-> slot[h].file,
                                       rw |-> TRUE, sem |-> slot[h].sem]]
             ELSE task
  /\ UNCHANGED <<write_locks, permit, stuck, failed>>

\* close: the slot goes, whether its file is there or out; the file is closed and dropped, its
\* permit before its handle.
Close(t, h) ==
  /\ ~stuck
  /\ task[t] = Idle
  /\ h \in given
  /\ CloseBusy \/ ~Running(h)
  /\ given' = given \ {h}
  /\ h \in DOMAIN slot
  /\ slot' = Without(h)
  /\ task' = IF slot[h] # None /\ slot[h].rw
             THEN [task EXCEPT ![t] = [phase |-> "drop", handle |-> h, file |-> slot[h].file,
                                       rw |-> TRUE, sem |-> slot[h].sem]]
             ELSE task
  /\ UNCHANGED <<write_locks, permit, stuck, failed>>

----------------------------------------------------------------------------

Next ==
  \E t \in Task :
    \/ \E f \in File, rw \in BOOLEAN : Reserve(t, f, rw)
    \/ Acquire(t) \/ Opened(t) \/ LookupFails(t) \/ OpenRwFails(t)
    \/ DropPermit(t) \/ Purge(t)
    \/ \E h \in Handle : Take(t, h) \/ Close(t, h)
    \/ Return(t)

Spec == Init /\ [][Next]_vars

\* What a request does once it has begun; a semaphore serves its waiters in order, so none is
\* passed over for ever.
Proceeds(t) == Opened(t) \/ DropPermit(t) \/ Purge(t) \/ Return(t)

\* The caller closes every handle in the end.
FairSpec ==
  /\ Spec
  /\ \A t \in Task : WF_vars(Proceeds(t)) /\ SF_vars(Acquire(t))
  /\ \A h \in Handle : SF_vars(\E t \in Task : Close(t, h))

----------------------------------------------------------------------------
(* Properties. *)

\* Who holds a file open for writing, or is about to: open_files, requests and drops.
Writing(h, f) ==
  \/ h \in DOMAIN slot /\ slot[h] # None /\ slot[h].rw /\ slot[h].file = f
  \/ \E t \in Task : /\ task[t].handle = h /\ task[t].file = f /\ task[t].rw
                     /\ task[t].phase \in {"open", "run", "drop"}

\* The promise of the permits: however openers, closers and purges interleave, a file is open
\* for writing under one handle at a time (nfs/mod.rs:248).
OneWriterPerFile == \A f \in File, g, h \in Handle : Writing(g, f) /\ Writing(h, f) => g = h

\* A handle the caller has can be used again when nothing runs on it: whatever an operation
\* comes to, its open file is back in its slot (nfs/mod.rs:69).
GivenIsUsable == \A h \in given : h \in DOMAIN slot /\ (slot[h] # None \/ Running(h))

\* No slot and no permit is forgotten, but the slots of opens that failed: every slot is the
\* caller's, a request's or one of those, and every permit has an open file or a request that will
\* give it back (nfs/mod.rs:243).
NothingLeaks ==
  /\ \A h \in DOMAIN slot :
       \/ h \in given \cup failed
       \/ \E t \in Task : task[t].handle = h /\ task[t].phase \in {"wait", "open", "drop", "purge"}
  /\ \A s \in Semaphore :
       \/ permit[s] = None
       \/ \E f \in File : Writing(permit[s], f)
       \/ \E t \in Task : task[t].handle = permit[s] /\ task[t].phase = "wait"

\* Every request comes to an end: an opener gets its permit, and nobody waits for a mutex its
\* holder waits for (nfs/mod.rs:271, 216).
RequestsEnd == \A t \in Task : task[t] # Idle ~> task[t] = Idle
=============================================================================
