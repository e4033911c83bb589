--------------------------- MODULE NfsHandlesProofs ---------------------------
(***************************************************************************)
(* Why a file is open for writing under one handle at a time, for any      *)
(* number of requests, handles, files and semaphores, and also while       *)
(* handles are closed that are in use (CloseBusy).                         *)
(***************************************************************************)
EXTENDS NfsHandles, TLAPS

USE TableAssumption

Phase == {"idle", "wait", "open", "run", "drop", "purge"}

OpenFiles == [file : File \cup {None}, rw : BOOLEAN, sem : Semaphore \cup {None}]

Requests == [phase : Phase, handle : Handle \cup {None}, file : File \cup {None},
             rw : BOOLEAN, sem : Semaphore \cup {None}]

TypeOK ==
  /\ DOMAIN slot \subseteq Handle
  /\ \A h \in DOMAIN slot : slot[h] = None \/ slot[h] \in OpenFiles
  /\ write_locks \in [File -> Semaphore \cup {None}]
  /\ permit \in [Semaphore -> Handle \cup {None}]
  /\ task \in [Task -> Requests]

Busy(t) == task[t].phase # "idle"

\* A request has a handle of its own, and it, not the slot, has the open file.
OwnHandle ==
  /\ \A t \in Task : Busy(t) => /\ task[t].handle \in Handle /\ task[t].file \in File
                                /\ task[t].rw => task[t].sem \in Semaphore
  /\ \A t \in Task : task[t].phase \in {"wait", "drop"} => task[t].rw
  /\ \A t, u \in Task : Busy(t) /\ Busy(u) /\ task[t].handle = task[u].handle => t = u
  /\ \A t \in Task : Busy(t) /\ task[t].handle \in DOMAIN slot => slot[task[t].handle] = None

Full(h) == h \in DOMAIN slot /\ slot[h] # None

SlotsOK == \A h \in Handle : Full(h) => /\ slot[h].file \in File
                                        /\ slot[h].rw => slot[h].sem \in Semaphore

Wants(t) == task[t].phase \in {"wait", "open", "run", "drop"} /\ task[t].rw

Has(t) == task[t].phase \in {"open", "run", "drop"} /\ task[t].rw

\* Whoever wants or has the permit of a file has it from the semaphore in the table: none is
\* replaced or purged while it is referred to.
SharedSemaphore ==
  /\ \A t \in Task : Wants(t) => write_locks[task[t].file] = task[t].sem
  /\ \A h \in Handle : Full(h) /\ slot[h].rw => write_locks[slot[h].file] = slot[h].sem

OneFilePerSemaphore ==
  \A f, g \in File : write_locks[f] # None /\ write_locks[f] = write_locks[g] => f = g

HolderHasPermit ==
  /\ \A t \in Task : Has(t) => permit[task[t].sem] = task[t].handle
  /\ \A h \in Handle : Full(h) /\ slot[h].rw => permit[slot[h].sem] = h

IInv == TypeOK /\ OwnHandle /\ SlotsOK /\ SharedSemaphore /\ OneFilePerSemaphore /\ HolderHasPermit

LEMMA InitInv == Init => IInv
BY DEF Init, Idle, IInv, TypeOK, Phase, Requests, OpenFiles, Busy, OwnHandle, Full, SlotsOK, Wants, Has,
       SharedSemaphore, OneFilePerSemaphore, HolderHasPermit

\* What is in use is alive.
LEMMA UsedIsAlive ==
  ASSUME IInv
  PROVE  /\ \A t \in Task : Wants(t) => task[t].sem \in Semaphore /\ Alive(task[t].sem)
         /\ \A h \in Handle : Full(h) /\ slot[h].rw => slot[h].sem \in Semaphore /\ Alive(slot[h].sem)
<1>1. ASSUME NEW t \in Task, Wants(t) PROVE task[t].sem \in Semaphore /\ Alive(task[t].sem)
  BY <1>1 DEF IInv, OwnHandle, HolderHasPermit, Wants, Has, Busy, Alive
<1>2. ASSUME NEW h \in Handle, Full(h), slot[h].rw PROVE slot[h].sem \in Semaphore /\ Alive(slot[h].sem)
  BY <1>2 DEF IInv, SlotsOK, HolderHasPermit, Alive
<1> QED BY <1>1, <1>2

\* A request reserves a slot, and joins or makes a semaphore (nfs/mod.rs:243).
LEMMA ReserveInv ==
  ASSUME IInv, NEW t \in Task, NEW f \in File, NEW rw \in BOOLEAN, Reserve(t, f, rw)
  PROVE  IInv'
<1>1. PICK h \in Handle, s \in Semaphore \cup {None} :
        /\ NewHandle(h) /\ slot' = Put(h, None)
        /\ task' = [task EXCEPT ![t] = [phase |-> IF rw THEN "wait" ELSE "open",
                                        handle |-> h, file |-> f, rw |-> rw, sem |-> s]]
        /\ \/ ~rw /\ write_locks' = write_locks
           \/ /\ rw /\ s \in Semaphore /\ s = write_locks[f] /\ write_locks' = write_locks
           \/ /\ rw /\ s \in Semaphore /\ NewSemaphore(s)
              /\ write_locks' = [write_locks EXCEPT ![f] = s]
              /\ write_locks[f] = None \/ ~Alive(write_locks[f])
  <2> DEFINE h == CHOOSE g \in Handle : NewHandle(g)
             x == CHOOSE y \in Semaphore : NewSemaphore(y)
             joins == write_locks[f] # None /\ Alive(write_locks[f])
  <2>1. h \in Handle /\ NewHandle(h)
    BY DEF Reserve
  <2>2. CASE ~rw
    <3>1. write_locks' = write_locks /\ slot' = Put(h, None)
          /\ task' = [task EXCEPT ![t] = [phase |-> IF rw THEN "wait" ELSE "open",
                                          handle |-> h, file |-> f, rw |-> rw, sem |-> None]]
      BY <2>2 DEF Reserve
    <3> QED BY <2>1, <2>2, <3>1
  <2>3. CASE rw /\ joins
    <3>1. write_locks' = [write_locks EXCEPT ![f] = write_locks[f]] /\ slot' = Put(h, None)
          /\ task' = [task EXCEPT ![t] = [phase |-> IF rw THEN "wait" ELSE "open",
                                          handle |-> h, file |-> f, rw |-> rw, sem |-> write_locks[f]]]
      BY <2>3 DEF Reserve
    <3>2. write_locks' = write_locks /\ write_locks[f] \in Semaphore
      BY <2>3, <3>1 DEF IInv, TypeOK
    <3> QED BY <2>1, <2>3, <3>1, <3>2
  <2>4. CASE rw /\ ~joins
    <3>1. x \in Semaphore /\ NewSemaphore(x)
      BY <2>4 DEF Reserve
    <3>2. write_locks' = [write_locks EXCEPT ![f] = x] /\ slot' = Put(h, None)
          /\ task' = [task EXCEPT ![t] = [phase |-> IF rw THEN "wait" ELSE "open",
                                          handle |-> h, file |-> f, rw |-> rw, sem |-> x]]
      BY <2>4 DEF Reserve
    <3> QED BY <2>1, <2>4, <3>1, <3>2
  <2> QED BY <2>2, <2>3, <2>4
<1>2. task[t].phase = "idle" /\ permit' = permit
  BY DEF Reserve, Idle
<1>3. TypeOK'
  BY <1>1, <1>2 DEF IInv, TypeOK, Put, Requests, Phase
<1>4. OwnHandle'
  BY <1>1, <1>2 DEF IInv, TypeOK, OwnHandle, Busy, NewHandle, Put
<1>5. \A g \in Handle : Full(g)' => Full(g) /\ slot'[g] = slot[g]
  BY <1>1 DEF Full, Put, NewHandle
<1>6. SlotsOK'
  BY <1>5 DEF IInv, SlotsOK
<1>7. HolderHasPermit'
  BY <1>1, <1>2, <1>5 DEF IInv, TypeOK, HolderHasPermit, Has
<1>8. /\ \A u \in Task : Wants(u) => write_locks'[task[u].file] = task[u].sem
      /\ \A g \in Handle : Full(g) /\ slot[g].rw => write_locks'[slot[g].file] = slot[g].sem
  <2>1. /\ \A u \in Task : Wants(u) => task[u].file \in File /\ write_locks[task[u].file] = task[u].sem
        /\ \A g \in Handle : Full(g) /\ slot[g].rw =>
             slot[g].file \in File /\ write_locks[slot[g].file] = slot[g].sem
    BY DEF IInv, OwnHandle, Busy, Wants, SlotsOK, SharedSemaphore
  <2> QED BY <1>1, <2>1, UsedIsAlive DEF IInv, TypeOK
<1>9. SharedSemaphore'
  BY <1>1, <1>2, <1>5, <1>8 DEF IInv, TypeOK, SharedSemaphore, Wants
<1>10. OneFilePerSemaphore'
  <2>1. ASSUME NEW g \in File, NEW k \in File, write_locks'[g] # None, write_locks'[g] = write_locks'[k]
        PROVE  g = k
    BY <1>1, <2>1 DEF IInv, TypeOK, OneFilePerSemaphore, NewSemaphore
  <2> QED BY <2>1 DEF OneFilePerSemaphore
<1> QED BY <1>3, <1>4, <1>6, <1>7, <1>9, <1>10 DEF IInv

\* The one permit is taken while nobody has it (nfs/mod.rs:271).
LEMMA AcquireInv ==
  ASSUME IInv, NEW t \in Task, Acquire(t)
  PROVE  IInv'
<1> DEFINE s == task[t].sem
<1>1. s \in Semaphore /\ permit[s] = None /\ task[t].rw /\ task[t].phase = "wait" /\ task[t].handle \in Handle
  BY DEF Acquire, IInv, OwnHandle, Busy
<1>2. /\ permit' = [permit EXCEPT ![s] = task[t].handle]
      /\ task' = [task EXCEPT ![t].phase = "open"]
      /\ UNCHANGED <<slot, write_locks>>
  BY DEF Acquire
<1>3. TypeOK' /\ OwnHandle'
  BY <1>1, <1>2 DEF IInv, TypeOK, Requests, Phase, OwnHandle, Busy
<1>4. SlotsOK' /\ SharedSemaphore' /\ OneFilePerSemaphore'
  BY <1>1, <1>2 DEF IInv, TypeOK, Requests, SlotsOK, Full, SharedSemaphore, Wants, OneFilePerSemaphore
<1>5. HolderHasPermit'
  BY <1>1, <1>2 DEF IInv, TypeOK, Requests, HolderHasPermit, Has, OwnHandle, Busy, SlotsOK, Full
<1> QED BY <1>3, <1>4, <1>5 DEF IInv

\* A permit that is given back by the request that has it leaves the others theirs.
LEMMA ReleaseKeepsOthers ==
  ASSUME IInv, NEW t \in Task, Busy(t), permit' = Released(task[t]), task[t].rw => Has(t)
  PROVE  /\ permit' \in [Semaphore -> Handle \cup {None}]
         /\ \A u \in Task \ {t} : Has(u) => permit'[task[u].sem] = task[u].handle
         /\ \A h \in Handle : Full(h) /\ slot[h].rw => permit'[slot[h].sem] = h
<1> USE DEF IInv, TypeOK
<1>1. permit' \in [Semaphore -> Handle \cup {None}]
  BY DEF Released, OwnHandle, Busy
<1>2. ASSUME NEW u \in Task \ {t}, Has(u) PROVE permit'[task[u].sem] = task[u].handle
  BY <1>2 DEF Released, OwnHandle, Busy, HolderHasPermit, Has
<1>3. ASSUME NEW h \in Handle, Full(h), slot[h].rw PROVE permit'[slot[h].sem] = h
  BY <1>3 DEF Released, OwnHandle, Busy, HolderHasPermit, SlotsOK, Full
<1> QED BY <1>1, <1>2, <1>3

\* The open file goes from the request into its slot (nfs/mod.rs:300).
LEMMA OpenedInv ==
  ASSUME IInv, NEW t \in Task, task[t].phase \in {"open", "run"},
         slot' = Put(task[t].handle, OpenFile(task[t])), task' = [task EXCEPT ![t] = Idle],
         UNCHANGED <<write_locks, permit>>
  PROVE  IInv'
<1> DEFINE h == task[t].handle
<1>1. Busy(t) /\ h \in Handle /\ task[t].file \in File /\ (task[t].rw => task[t].sem \in Semaphore)
      /\ (task[t].rw => Wants(t) /\ Has(t))
  BY DEF IInv, OwnHandle, Busy, Wants, Has
<1>2. OpenFile(task[t]) \in OpenFiles
      /\ OpenFile(task[t]).file = task[t].file /\ OpenFile(task[t]).rw = task[t].rw
      /\ OpenFile(task[t]).sem = task[t].sem
  BY DEF IInv, TypeOK, Requests, OpenFile, OpenFiles
<1>3. /\ DOMAIN slot' = DOMAIN slot \cup {h} /\ slot'[h] = OpenFile(task[t])
      /\ \A g \in DOMAIN slot \ {h} : slot'[g] = slot[g]
  BY DEF Put
<1>4. \A u \in Task : u # t => task'[u] = task[u] /\ (Busy(u) => task[u].handle # h)
  BY <1>1 DEF IInv, TypeOK, OwnHandle
<1>5. task'[t].phase = "idle"
  BY DEF IInv, TypeOK, Idle
<1>6. TypeOK'
  <2>1. task' \in [Task -> Requests]
    BY DEF IInv, TypeOK, Idle, Requests, Phase
  <2> QED BY <2>1, <1>1, <1>2, <1>3 DEF IInv, TypeOK
<1>7. OwnHandle'
  BY <1>1, <1>3, <1>4, <1>5 DEF IInv, OwnHandle, Busy
<1>8. SlotsOK'
  BY <1>1, <1>2, <1>3 DEF IInv, SlotsOK, Full
<1>9. SharedSemaphore'
  BY <1>1, <1>2, <1>3, <1>4, <1>5 DEF IInv, SharedSemaphore, Full, Wants
<1>10. HolderHasPermit'
  BY <1>1, <1>2, <1>3, <1>4, <1>5 DEF IInv, HolderHasPermit, Full, Has
<1>11. OneFilePerSemaphore'
  BY DEF IInv, OneFilePerSemaphore
<1> QED BY <1>6, <1>7, <1>8, <1>9, <1>10, <1>11 DEF IInv

\* The request drops the open file, whose slot is not its own any more or stays empty.
LEMMA ReleasedInv ==
  ASSUME IInv, NEW t \in Task, Busy(t), task[t].rw => Has(t),
         permit' = Released(task[t]), UNCHANGED <<slot, write_locks>>,
         task' = [task EXCEPT ![t] = Idle] \/ (task[t].rw /\ task' = [task EXCEPT ![t].phase = "purge"])
  PROVE  IInv'
<1>1. \A u \in Task : u # t => task'[u] = task[u]
  BY DEF IInv, TypeOK
<1>2. ~Wants(t)' /\ ~Has(t)' /\ task' \in [Task -> Requests]
  <2>1. Idle \in Requests
    BY DEF Idle, Requests, Phase
  <2>2. [task[t] EXCEPT !.phase = "purge"] \in Requests /\ [task[t] EXCEPT !.phase = "purge"].phase = "purge"
    BY DEF IInv, TypeOK, Requests, Phase
  <2>3. /\ task' \in [Task -> Requests]
        /\ task'[t] = Idle \/ task'[t] = [task[t] EXCEPT !.phase = "purge"]
    BY <2>1, <2>2 DEF IInv, TypeOK
  <2>4. task'[t].phase \in {"idle", "purge"}
    <3>1. Idle.phase = "idle"
      BY DEF Idle
    <3> QED BY <2>2, <2>3, <3>1
  <2> QED BY <2>3, <2>4 DEF Wants, Has
<1>3. TypeOK' /\ HolderHasPermit'
  BY <1>1, <1>2, ReleaseKeepsOthers DEF IInv, TypeOK, HolderHasPermit, Has, Full
<1>4. OwnHandle'
  <2>1. CASE task' = [task EXCEPT ![t] = Idle]
    <3>1. task'[t].phase = "idle"
      BY <2>1 DEF IInv, TypeOK, Idle
    <3>2. \A u \in Task : Busy(u)' => u # t /\ Busy(u)
      BY <1>1, <3>1 DEF Busy
    <3>3. \A u \in Task : task'[u].phase \in {"wait", "drop"} => u # t
      BY <3>1
    <3>4. \A u \in Task : Busy(u)' =>
             /\ task'[u].handle \in Handle /\ task'[u].file \in File
             /\ task'[u].rw => task'[u].sem \in Semaphore
             /\ task'[u].handle \in DOMAIN slot => slot[task'[u].handle] = None
      BY <1>1, <3>2 DEF IInv, OwnHandle
    <3>5. \A u \in Task : task'[u].phase \in {"wait", "drop"} => task'[u].rw
      BY <1>1, <3>3 DEF IInv, OwnHandle
    <3>6. \A u, v \in Task : Busy(u)' /\ Busy(v)' /\ task'[u].handle = task'[v].handle => u = v
      BY <1>1, <3>2 DEF IInv, OwnHandle
    <3> QED BY <3>4, <3>5, <3>6 DEF OwnHandle
  <2>2. CASE task[t].rw /\ task' = [task EXCEPT ![t].phase = "purge"]
    <3>1. /\ task'[t].phase = "purge" /\ task'[t].handle = task[t].handle /\ task'[t].file = task[t].file
          /\ task'[t].rw = task[t].rw /\ task'[t].sem = task[t].sem
      BY <2>2 DEF IInv, TypeOK, Requests
    <3> QED BY <1>1, <3>1 DEF IInv, OwnHandle, Busy
  <2> QED BY <2>1, <2>2
<1>5. SlotsOK' /\ OneFilePerSemaphore'
  BY DEF IInv, SlotsOK, OneFilePerSemaphore, Full
<1>6. SharedSemaphore'
  BY <1>1, <1>2 DEF IInv, SharedSemaphore, Wants, Full
<1> QED BY <1>3, <1>4, <1>5, <1>6 DEF IInv

\* A failed open_rw hands the permit to a lock that is dropped.
LEMMA OpenRwFailsInv ==
  ASSUME IInv, NEW t \in Task, OpenRwFails(t)
  PROVE  IInv'
<1>1. /\ task[t].phase = "open" /\ task[t].rw
      /\ task' = [task EXCEPT ![t].phase = "drop"] /\ UNCHANGED <<slot, write_locks, permit>>
  BY DEF OpenRwFails
<1>2. /\ \A u \in Task : u # t => task'[u] = task[u]
      /\ task'[t] = [task[t] EXCEPT !.phase = "drop"] /\ task' \in [Task -> Requests]
  BY <1>1 DEF IInv, TypeOK, Requests, Phase
<1>3. /\ task'[t].phase = "drop" /\ task'[t].handle = task[t].handle /\ task'[t].file = task[t].file
      /\ task'[t].rw /\ task'[t].sem = task[t].sem
  BY <1>1, <1>2 DEF IInv, TypeOK, Requests
<1>4. OwnHandle'
  BY <1>1, <1>2, <1>3 DEF IInv, OwnHandle, Busy
<1>5. SharedSemaphore' /\ HolderHasPermit'
  BY <1>1, <1>2, <1>3 DEF IInv, SharedSemaphore, HolderHasPermit, Wants, Has, Full
<1> QED BY <1>1, <1>2, <1>4, <1>5 DEF IInv, TypeOK, SlotsOK, OneFilePerSemaphore, Full

\* Only semaphores nobody refers to leave the table (nfs/mod.rs:216).
LEMMA PurgeInv ==
  ASSUME IInv, NEW t \in Task, Purge(t)
  PROVE  IInv'
<1>1. /\ task[t].phase = "purge" /\ task' = [task EXCEPT ![t] = Idle] /\ UNCHANGED <<slot, permit>>
      /\ write_locks' = [f \in File |-> IF write_locks[f] # None /\ Alive(write_locks[f])
                                         THEN write_locks[f] ELSE None]
  BY DEF Purge
<1>2. /\ \A u \in Task : u # t => task'[u] = task[u]
      /\ task'[t] = Idle /\ task' \in [Task -> Requests]
  BY <1>1 DEF IInv, TypeOK, Idle, Requests, Phase
<1>3. TypeOK' /\ OwnHandle' /\ SlotsOK' /\ HolderHasPermit'
  BY <1>1, <1>2 DEF IInv, TypeOK, OwnHandle, Busy, SlotsOK, Full, HolderHasPermit, Has, Idle
<1>4. OneFilePerSemaphore'
  BY <1>1 DEF IInv, OneFilePerSemaphore
<1>5. /\ \A u \in Task : Wants(u) => write_locks'[task[u].file] = task[u].sem
      /\ \A g \in Handle : Full(g) /\ slot[g].rw => write_locks'[slot[g].file] = slot[g].sem
  <2>1. /\ \A u \in Task : Wants(u) => task[u].file \in File /\ write_locks[task[u].file] = task[u].sem
        /\ \A g \in Handle : Full(g) /\ slot[g].rw =>
             slot[g].file \in File /\ write_locks[slot[g].file] = slot[g].sem
    BY DEF IInv, OwnHandle, Busy, Wants, SlotsOK, SharedSemaphore
  <2> QED BY <1>1, <2>1, UsedIsAlive
<1>6. SharedSemaphore'
  BY <1>1, <1>2, <1>5 DEF SharedSemaphore, Wants, Full, Idle
<1> QED BY <1>3, <1>4, <1>6 DEF IInv

\* An operation takes the open file out of its slot (nfs/mod.rs:61).
LEMMA TakeInv ==
  ASSUME IInv, NEW t \in Task, NEW h \in Handle, Take(t, h)
  PROVE  IInv'
<1>1. /\ task[t].phase = "idle" /\ Full(h) /\ slot' = Put(h, None) /\ UNCHANGED <<write_locks, permit>>
      /\ task' = [task EXCEPT ![t] = [phase |-> "run", handle |-> h, file |-> slot[h].file,
                                      rw |-> slot[h].rw, sem |-> slot[h].sem]]
  BY DEF Take, Idle, Full
<1>2. slot[h] \in OpenFiles /\ slot[h].file \in File /\ slot[h].rw \in BOOLEAN
      /\ slot[h].sem \in Semaphore \cup {None} /\ (slot[h].rw => slot[h].sem \in Semaphore)
  BY <1>1 DEF IInv, TypeOK, Full, SlotsOK, OpenFiles
<1>3. /\ \A u \in Task : u # t => task'[u] = task[u] /\ (Busy(u) => task[u].handle # h)
      /\ task'[t] = [phase |-> "run", handle |-> h, file |-> slot[h].file,
                     rw |-> slot[h].rw, sem |-> slot[h].sem]
  BY <1>1 DEF IInv, TypeOK, OwnHandle, Full
<1>4. /\ DOMAIN slot' = DOMAIN slot /\ slot'[h] = None
      /\ \A g \in DOMAIN slot : g # h => slot'[g] = slot[g]
  BY <1>1 DEF Put, Full
<1>5. TypeOK'
  BY <1>1, <1>2, <1>4 DEF IInv, TypeOK, Requests, Phase
<1>6. OwnHandle'
  BY <1>2, <1>3, <1>4 DEF IInv, OwnHandle, Busy
<1>7. SlotsOK'
  BY <1>4 DEF IInv, SlotsOK, Full
<1>8. SharedSemaphore' /\ HolderHasPermit'
  BY <1>1, <1>3, <1>4 DEF IInv, SharedSemaphore, HolderHasPermit, Wants, Has, Full
<1>9. OneFilePerSemaphore'
  BY <1>1 DEF IInv, OneFilePerSemaphore
<1> QED BY <1>5, <1>6, <1>7, <1>8, <1>9 DEF IInv

\* A slot goes, with its open file if it is there, whose permit the request then has.
LEMMA CloseInv ==
  ASSUME IInv, NEW t \in Task, NEW h \in Handle, Close(t, h)
  PROVE  IInv'
<1>1. /\ task[t].phase = "idle" /\ h \in DOMAIN slot /\ slot' = Without(h)
      /\ UNCHANGED <<write_locks, permit>>
      /\ \/ task' = task
         \/ /\ Full(h) /\ slot[h].rw
            /\ task' = [task EXCEPT ![t] = [phase |-> "drop", handle |-> h, file |-> slot[h].file,
                                            rw |-> TRUE, sem |-> slot[h].sem]]
  BY DEF Close, Idle, Full
<1>2. /\ DOMAIN slot' = DOMAIN slot \ {h}
      /\ \A g \in DOMAIN slot' : slot'[g] = slot[g]
  BY <1>1 DEF Without
<1>3. CASE task' = task
  BY <1>1, <1>2, <1>3 DEF IInv, TypeOK, OwnHandle, Busy, SlotsOK, Full, SharedSemaphore, OneFilePerSemaphore,
                          HolderHasPermit, Wants, Has
<1>4. CASE task' # task
  <2>1. /\ Full(h) /\ slot[h].rw
        /\ task' = [task EXCEPT ![t] = [phase |-> "drop", handle |-> h, file |-> slot[h].file,
                                        rw |-> TRUE, sem |-> slot[h].sem]]
    BY <1>1, <1>4
  <2>2. slot[h].file \in File /\ slot[h].sem \in Semaphore
    BY <2>1 DEF IInv, SlotsOK
  <2>3. /\ \A u \in Task : u # t => task'[u] = task[u] /\ (Busy(u) => task[u].handle # h)
        /\ task'[t] = [phase |-> "drop", handle |-> h, file |-> slot[h].file,
                       rw |-> TRUE, sem |-> slot[h].sem]
    BY <2>1 DEF IInv, TypeOK, OwnHandle, Full
  <2>4. TypeOK'
    BY <1>1, <1>2, <2>1, <2>2 DEF IInv, TypeOK, Requests, Phase
  <2>5. OwnHandle'
    BY <1>2, <2>2, <2>3 DEF IInv, OwnHandle, Busy
  <2>6. SharedSemaphore' /\ HolderHasPermit'
    BY <1>1, <1>2, <2>1, <2>3 DEF IInv, SharedSemaphore, HolderHasPermit, Wants, Has, Full
  <2>7. SlotsOK' /\ OneFilePerSemaphore'
    BY <1>1, <1>2 DEF IInv, SlotsOK, Full, OneFilePerSemaphore
  <2> QED BY <2>4, <2>5, <2>6, <2>7 DEF IInv
<1> QED BY <1>3, <1>4

\* No step of a request lets go of what another one relies on.
LEMMA StepInv == IInv /\ [Next]_vars => IInv'
<1> SUFFICES ASSUME IInv, [Next]_vars PROVE IInv'
  OBVIOUS
<1>1. CASE UNCHANGED vars
  BY <1>1 DEF vars, IInv, TypeOK, OwnHandle, Busy, SlotsOK, Full, SharedSemaphore, OneFilePerSemaphore,
              HolderHasPermit, Wants, Has
<1>2. CASE Next
  <2>1. PICK t \in Task :
          \/ \E f \in File, rw \in BOOLEAN : Reserve(t, f, rw)
          \/ Acquire(t) \/ Opened(t) \/ LookupFails(t) \/ OpenRwFails(t)
          \/ DropPermit(t) \/ Purge(t)
          \/ \E h \in Handle : Take(t, h) \/ Close(t, h)
          \/ Return(t)
    BY <1>2 DEF Next
  <2>2. CASE \E f \in File, rw \in BOOLEAN : Reserve(t, f, rw)
    BY <2>2, ReserveInv
  <2>3. CASE Acquire(t)
    BY <2>3, AcquireInv
  <2>4. CASE Opened(t)
    BY <2>4, OpenedInv DEF Opened
  <2>5. CASE LookupFails(t)
    BY <2>5, ReleasedInv DEF LookupFails, Busy, Has
  <2>6. CASE OpenRwFails(t)
    BY <2>6, OpenRwFailsInv
  <2>7. CASE DropPermit(t)
    BY <2>7, ReleasedInv DEF DropPermit, Busy, Has, IInv, OwnHandle
  <2>8. CASE Purge(t)
    BY <2>8, PurgeInv
  <2>9. CASE \E h \in Handle : Take(t, h) \/ Close(t, h)
    BY <2>9, TakeInv, CloseInv
  <2>10. CASE Return(t)
    <3>1. CASE task[t].handle \in DOMAIN slot
      BY <2>10, <3>1, OpenedInv DEF Return
    <3>2. CASE task[t].handle \notin DOMAIN slot
      BY <2>10, <3>2, ReleasedInv DEF Return, Busy, Has
    <3> QED BY <3>1, <3>2
  <2> QED BY <2>1, <2>2, <2>3, <2>4, <2>5, <2>6, <2>7, <2>8, <2>9, <2>10
<1> QED BY <1>1, <1>2

\* Two writers of a file would have the one permit of one semaphore.
LEMMA InvMeansOneWriter == IInv => OneWriterPerFile
<1> SUFFICES ASSUME IInv, NEW f \in File, NEW g \in Handle, NEW h \in Handle,
                    Writing(g, f), Writing(h, f)
             PROVE  g = h
  BY DEF OneWriterPerFile
<1>1. ASSUME NEW k \in Handle, Writing(k, f) PROVE permit[write_locks[f]] = k
  <2>1. CASE Full(k) /\ slot[k].rw /\ slot[k].file = f
    BY <2>1 DEF IInv, SharedSemaphore, HolderHasPermit
  <2>2. CASE \E t \in Task : /\ task[t].handle = k /\ task[t].file = f /\ task[t].rw
                             /\ task[t].phase \in {"open", "run", "drop"}
    BY <2>2 DEF IInv, SharedSemaphore, HolderHasPermit, Wants, Has
  <2> QED BY <1>1, <2>1, <2>2 DEF Writing, Full
<1> QED BY <1>1

\* A file is open for writing under one handle at a time, however openers, operations, closers
\* and purges interleave and fail (nfs/mod.rs:248).
THEOREM OneWriter == Spec => []OneWriterPerFile
<1>1. Spec => []IInv
  BY InitInv, StepInv, PTL DEF Spec
<1> QED BY <1>1, InvMeansOneWriter, PTL

----------------------------------------------------------------------------
(* What a request takes it gives back. *)

GivenOK == given \subseteq DOMAIN slot /\ \A h \in given : slot[h] # None \/ Running(h)

SlotsKept ==
  \A h \in DOMAIN slot :
    h \in given \cup failed \/ \E t \in Task : task[t].handle = h /\ task[t].phase \in {"wait", "open"}

\* Who has the permit of a semaphore knows that semaphore.
PermitsKept ==
  \A s \in Semaphore : permit[s] # None =>
    \/ \E t \in Task : Has(t) /\ task[t].handle = permit[s] /\ task[t].sem = s
    \/ Full(permit[s]) /\ slot[permit[s]].rw /\ slot[permit[s]].sem = s

KInv == GivenOK /\ SlotsKept /\ PermitsKept

\* A step of t that is not an operation's end takes no operation from another handle.
LEMMA OthersRun ==
  ASSUME NEW t \in Task, \A u \in Task : u # t => task'[u] = task[u],
         NEW h, Running(h), task[t].phase # "run" \/ task[t].handle # h
  PROVE  Running(h)'
BY DEF Running

LEMMA KInit == Init => KInv
BY DEF Init, KInv, GivenOK, SlotsKept, PermitsKept

LEMMA ReserveKeeps ==
  ASSUME IInv, KInv, NEW t \in Task, NEW f \in File, NEW rw \in BOOLEAN, Reserve(t, f, rw)
  PROVE  KInv'
<1>1. task[t].phase = "idle" /\ UNCHANGED <<permit, given, failed>>
  BY DEF Reserve, Idle
<1>2. PICK h \in Handle :
        /\ NewHandle(h) /\ slot' = Put(h, None)
        /\ \E s : task' = [task EXCEPT ![t] = [phase |-> IF rw THEN "wait" ELSE "open",
                                              handle |-> h, file |-> f, rw |-> rw, sem |-> s]]
  <2> DEFINE h == CHOOSE g \in Handle : NewHandle(g)
             joins == write_locks[f] # None /\ Alive(write_locks[f])
             s == IF ~rw THEN None ELSE IF joins THEN write_locks[f]
                  ELSE CHOOSE x \in Semaphore : NewSemaphore(x)
  <2>1. h \in Handle /\ NewHandle(h)
    BY DEF Reserve
  <2>2. /\ slot' = Put(h, None)
        /\ task' = [task EXCEPT ![t] = [phase |-> IF rw THEN "wait" ELSE "open",
                                        handle |-> h, file |-> f, rw |-> rw, sem |-> s]]
    BY DEF Reserve
  <2> HIDE DEF h, s
  <2> QED BY <2>1, <2>2
<1>3. /\ \A u \in Task : u # t => task'[u] = task[u]
      /\ task'[t].handle = h /\ task'[t].phase \in {"wait", "open"}
  BY <1>2 DEF IInv, TypeOK
<1>4. /\ h \notin DOMAIN slot /\ DOMAIN slot' = DOMAIN slot \cup {h}
      /\ \A g \in DOMAIN slot : slot'[g] = slot[g]
  BY <1>2 DEF NewHandle, Put
<1>5. GivenOK'
  BY <1>1, <1>3, <1>4, OthersRun DEF KInv, GivenOK
<1>6. SlotsKept'
  BY <1>1, <1>3, <1>4 DEF KInv, SlotsKept
<1>7. PermitsKept'
  BY <1>1, <1>3, <1>4 DEF KInv, PermitsKept, Has, Full
<1> QED BY <1>5, <1>6, <1>7 DEF KInv

LEMMA AcquireKeeps ==
  ASSUME IInv, KInv, NEW t \in Task, Acquire(t)
  PROVE  KInv'
<1>1. /\ task[t].phase = "wait" /\ UNCHANGED <<slot, given, failed>>
      /\ permit' = [permit EXCEPT ![task[t].sem] = task[t].handle]
      /\ task' = [task EXCEPT ![t].phase = "open"]
  BY DEF Acquire
<1>2. /\ \A u \in Task : u # t => task'[u] = task[u]
      /\ task'[t].phase = "open" /\ task'[t].handle = task[t].handle /\ task'[t].sem = task[t].sem
      /\ task'[t].rw
  BY <1>1 DEF IInv, TypeOK, Requests, OwnHandle
<1>3. GivenOK'
  BY <1>1, <1>2, OthersRun DEF KInv, GivenOK
<1>4. SlotsKept'
  BY <1>1, <1>2 DEF KInv, SlotsKept
<1>5. PermitsKept'
  BY <1>1, <1>2 DEF IInv, TypeOK, KInv, PermitsKept, Has, Full
<1> QED BY <1>3, <1>4, <1>5 DEF KInv

\* Opened and Return: the open file is in the slot, with the permit.
LEMMA PutKeeps ==
  ASSUME IInv, KInv, NEW t \in Task, task[t].phase \in {"open", "run"},
         slot' = Put(task[t].handle, OpenFile(task[t])), task' = [task EXCEPT ![t] = Idle],
         UNCHANGED <<permit, failed>>,
         given' \in {given, given \cup {task[t].handle}},
         task[t].phase = "run" => task[t].handle \in DOMAIN slot /\ given' = given,
         task[t].phase = "open" => given' = given \cup {task[t].handle}
  PROVE  KInv'
<1> DEFINE h == task[t].handle
<1>1. Busy(t) /\ h \in Handle /\ (task[t].rw => Has(t))
  BY DEF IInv, OwnHandle, Busy, Has
<1>2. OpenFile(task[t]) # None /\ OpenFile(task[t]).rw = task[t].rw /\ OpenFile(task[t]).sem = task[t].sem
  <2>1. OpenFile(task[t]) \in [file : File \cup {None}, rw : BOOLEAN, sem : Semaphore \cup {None}]
    BY DEF IInv, TypeOK, Requests, OpenFile
  <2> QED BY <2>1 DEF OpenFile
<1>3. /\ DOMAIN slot' = DOMAIN slot \cup {h} /\ slot'[h] = OpenFile(task[t])
      /\ \A g \in DOMAIN slot \ {h} : slot'[g] = slot[g]
  BY DEF Put
<1>4. \A u \in Task : u # t => task'[u] = task[u]
  BY DEF IInv, TypeOK
<1>5. GivenOK'
  BY <1>2, <1>3, <1>4, OthersRun DEF KInv, GivenOK
<1>6. SlotsKept'
  BY <1>3, <1>4 DEF KInv, SlotsKept
<1>7. ASSUME NEW s \in Semaphore, permit'[s] # None
      PROVE  \/ \E u \in Task : Has(u)' /\ task'[u].handle = permit'[s] /\ task'[u].sem = s
             \/ Full(permit[s])' /\ slot'[permit'[s]].rw /\ slot'[permit'[s]].sem = s
  <2>1. CASE \E u \in Task : Has(u) /\ task[u].handle = permit[s] /\ task[u].sem = s
    <3>1. PICK u \in Task : Has(u) /\ task[u].handle = permit[s] /\ task[u].sem = s
      BY <2>1
    <3>2. CASE u = t
      BY <3>1, <3>2, <1>2, <1>3 DEF Has, Full
    <3>3. CASE u # t
      BY <3>1, <3>3, <1>4 DEF Has
    <3> QED BY <3>2, <3>3
  <2>2. CASE Full(permit[s]) /\ slot[permit[s]].rw /\ slot[permit[s]].sem = s
    <3>1. permit[s] # h
      BY <1>1, <2>2 DEF IInv, OwnHandle, Full
    <3> QED BY <3>1, <2>2, <1>3 DEF Full
  <2> QED BY <1>7, <2>1, <2>2 DEF KInv, PermitsKept
<1> QED BY <1>5, <1>6, <1>7 DEF KInv, PermitsKept

\* The open file is dropped, or is on its way to be: only the request's own permit goes.
LEMMA DropKeeps ==
  ASSUME IInv, KInv, NEW t \in Task, Busy(t), task[t].rw => Has(t),
         permit' = Released(task[t]), UNCHANGED <<slot, given>>,
         task' = [task EXCEPT ![t] = Idle] \/ (task[t].rw /\ task' = [task EXCEPT ![t].phase = "purge"]),
         failed' = failed \/ failed' = failed \cup {task[t].handle},
         task[t].phase = "run" => task[t].handle \notin DOMAIN slot,
         task[t].phase = "open" => failed' = failed \cup {task[t].handle},
         task[t].phase # "wait"
  PROVE  KInv'
<1>1. \A u \in Task : u # t => task'[u] = task[u]
  BY DEF IInv, TypeOK
<1>2. GivenOK'
  BY <1>1, OthersRun DEF KInv, GivenOK
<1>3. SlotsKept'
  BY <1>1 DEF KInv, SlotsKept
<1>4. ASSUME NEW s \in Semaphore, permit'[s] # None
      PROVE  \/ \E u \in Task : Has(u)' /\ task'[u].handle = permit'[s] /\ task'[u].sem = s
             \/ Full(permit[s])' /\ slot'[permit'[s]].rw /\ slot'[permit'[s]].sem = s
  <2>1. permit'[s] = permit[s] /\ (task[t].rw => task[t].sem # s)
    BY <1>4 DEF Released, IInv, TypeOK
  <2>2. CASE \E u \in Task : Has(u) /\ task[u].handle = permit[s] /\ task[u].sem = s
    <3>1. PICK u \in Task : Has(u) /\ task[u].handle = permit[s] /\ task[u].sem = s
      BY <2>2
    <3>2. u # t
      BY <2>1, <3>1 DEF Has
    <3> QED BY <2>1, <3>1, <3>2, <1>1 DEF Has
  <2>3. CASE Full(permit[s]) /\ slot[permit[s]].rw /\ slot[permit[s]].sem = s
    BY <2>1, <2>3 DEF Full
  <2> QED BY <1>4, <2>1, <2>2, <2>3 DEF KInv, PermitsKept
<1> QED BY <1>2, <1>3, <1>4 DEF KInv, PermitsKept

LEMMA OpenRwFailsKeeps ==
  ASSUME IInv, KInv, NEW t \in Task, OpenRwFails(t)
  PROVE  KInv'
<1>1. /\ task[t].phase = "open" /\ task[t].rw /\ failed' = failed \cup {task[t].handle}
      /\ task' = [task EXCEPT ![t].phase = "drop"] /\ UNCHANGED <<slot, permit, given>>
  BY DEF OpenRwFails
<1>2. /\ \A u \in Task : u # t => task'[u] = task[u]
      /\ task'[t].phase = "drop" /\ task'[t].handle = task[t].handle
      /\ task'[t].rw /\ task'[t].sem = task[t].sem
  BY <1>1 DEF IInv, TypeOK, Requests
<1>3. GivenOK'
  BY <1>1, <1>2, OthersRun DEF KInv, GivenOK
<1>4. SlotsKept' /\ PermitsKept'
  BY <1>1, <1>2 DEF KInv, SlotsKept, PermitsKept, Has, Full
<1> QED BY <1>3, <1>4 DEF KInv

LEMMA PurgeKeeps ==
  ASSUME IInv, KInv, NEW t \in Task, Purge(t)
  PROVE  KInv'
<1>1. /\ task[t].phase = "purge" /\ task' = [task EXCEPT ![t] = Idle]
      /\ UNCHANGED <<slot, permit, given, failed>>
  BY DEF Purge
<1>2. \A u \in Task : u # t => task'[u] = task[u]
  BY <1>1 DEF IInv, TypeOK
<1>3. GivenOK'
  BY <1>1, <1>2, OthersRun DEF KInv, GivenOK
<1>4. SlotsKept' /\ PermitsKept'
  BY <1>1, <1>2 DEF KInv, SlotsKept, PermitsKept, Has, Full
<1> QED BY <1>3, <1>4 DEF KInv

LEMMA TakeKeeps ==
  ASSUME IInv, KInv, NEW t \in Task, NEW h \in Handle, Take(t, h)
  PROVE  KInv'
<1>1. /\ task[t].phase = "idle" /\ Full(h) /\ h \in given /\ slot' = Put(h, None)
      /\ UNCHANGED <<permit, given, failed>>
      /\ task' = [task EXCEPT ![t] = [phase |-> "run", handle |-> h, file |-> slot[h].file,
                                      rw |-> slot[h].rw, sem |-> slot[h].sem]]
  BY DEF Take, Idle, Full
<1>2. /\ \A u \in Task : u # t => task'[u] = task[u]
      /\ task'[t] = [phase |-> "run", handle |-> h, file |-> slot[h].file,
                     rw |-> slot[h].rw, sem |-> slot[h].sem]
  BY <1>1 DEF IInv, TypeOK
<1>3. /\ DOMAIN slot' = DOMAIN slot /\ \A g \in DOMAIN slot : g # h => slot'[g] = slot[g]
  BY <1>1 DEF Put, Full
<1>4. GivenOK'
  <2>1. Running(h)'
    BY <1>2 DEF Running
  <2> QED BY <2>1, <1>1, <1>2, <1>3, OthersRun DEF KInv, GivenOK
<1>5. SlotsKept'
  BY <1>1, <1>2, <1>3 DEF KInv, SlotsKept
<1>6. PermitsKept'
  <2>1. ASSUME NEW s \in Semaphore, permit[s] # None, permit[s] = h, Full(h), slot[h].rw, slot[h].sem = s
        PROVE  Has(t)' /\ task'[t].handle = permit'[s] /\ task'[t].sem = s
    BY <1>1, <1>2, <2>1 DEF Has
  <2> QED BY <1>1, <1>2, <1>3, <2>1 DEF KInv, PermitsKept, Has, Full
<1> QED BY <1>4, <1>5, <1>6 DEF KInv

LEMMA CloseKeeps ==
  ASSUME IInv, KInv, NEW t \in Task, NEW h \in Handle, Close(t, h)
  PROVE  KInv'
<1>1. /\ task[t].phase = "idle" /\ h \in DOMAIN slot /\ slot' = Without(h) /\ given' = given \ {h}
      /\ UNCHANGED <<permit, failed>>
      /\ \/ task' = task /\ ~(Full(h) /\ slot[h].rw)
         \/ /\ Full(h) /\ slot[h].rw
            /\ task' = [task EXCEPT ![t] = [phase |-> "drop", handle |-> h, file |-> slot[h].file,
                                            rw |-> TRUE, sem |-> slot[h].sem]]
  BY DEF Close, Idle, Full
<1>2. /\ DOMAIN slot' = DOMAIN slot \ {h} /\ \A g \in DOMAIN slot' : slot'[g] = slot[g]
  BY <1>1 DEF Without
<1>3. \A u \in Task : u # t => task'[u] = task[u]
  BY <1>1 DEF IInv, TypeOK
<1>4. GivenOK'
  BY <1>1, <1>2, <1>3, OthersRun DEF KInv, GivenOK
<1>5. SlotsKept'
  BY <1>1, <1>2, <1>3 DEF KInv, SlotsKept
<1>6. Full(h) /\ slot[h].rw => Has(t)' /\ task'[t].handle = h /\ task'[t].sem = slot[h].sem
  BY <1>1 DEF IInv, TypeOK, Has
<1>7. PermitsKept'
  BY <1>1, <1>2, <1>3, <1>6 DEF KInv, PermitsKept, Has, Full
<1> QED BY <1>4, <1>5, <1>7 DEF KInv

LEMMA StepKeeps == IInv /\ KInv /\ [Next]_vars => KInv'
<1> SUFFICES ASSUME IInv, KInv, [Next]_vars PROVE KInv'
  OBVIOUS
<1>1. CASE UNCHANGED vars
  BY <1>1 DEF vars, KInv, GivenOK, SlotsKept, PermitsKept, Has, Full, Running
<1>2. CASE Next
  <2>1. PICK t \in Task :
          \/ \E f \in File, rw \in BOOLEAN : Reserve(t, f, rw)
          \/ Acquire(t) \/ Opened(t) \/ LookupFails(t) \/ OpenRwFails(t)
          \/ DropPermit(t) \/ Purge(t)
          \/ \E h \in Handle : Take(t, h) \/ Close(t, h)
          \/ Return(t)
    BY <1>2 DEF Next
  <2>2. CASE \E f \in File, rw \in BOOLEAN : Reserve(t, f, rw)
    BY <2>2, ReserveKeeps
  <2>3. CASE Opened(t)
    BY <2>3, PutKeeps DEF Opened
  <2>4. CASE LookupFails(t)
    BY <2>4, DropKeeps DEF LookupFails, Busy, Has
  <2>5. CASE DropPermit(t)
    BY <2>5, DropKeeps DEF DropPermit, Busy, Has, IInv, OwnHandle
  <2>6. CASE Return(t)
    <3>1. CASE task[t].handle \in DOMAIN slot
      BY <2>6, <3>1, PutKeeps DEF Return
    <3>2. CASE task[t].handle \notin DOMAIN slot
      BY <2>6, <3>2, DropKeeps DEF Return, Busy, Has
    <3> QED BY <3>1, <3>2
  <2>7. CASE \E h \in Handle : Take(t, h) \/ Close(t, h)
    BY <2>7, TakeKeeps, CloseKeeps
  <2> QED BY <2>1, <2>2, <2>3, <2>4, <2>5, <2>6, <2>7, AcquireKeeps, OpenRwFailsKeeps, PurgeKeeps
<1> QED BY <1>1, <1>2

LEMMA NothingLost == Spec => []KInv
BY InitInv, StepInv, KInit, StepKeeps, PTL DEF Spec

\* An operation that ends, however it ends, leaves the open file in the slot of a handle its caller
\* still has (nfs/mod.rs:69).
THEOREM HandlesStayUsable == Spec => []GivenIsUsable
<1>1. KInv => GivenIsUsable
  BY DEF KInv, GivenOK, GivenIsUsable
<1> QED BY <1>1, NothingLost, PTL

\* Only an open that fails leaves a slot behind, and nothing leaves a permit (nfs/mod.rs:243).
THEOREM NothingIsForgotten == Spec => []NothingLeaks
<1>1. ASSUME IInv, KInv PROVE NothingLeaks
  <2>1. ASSUME NEW s \in Semaphore, permit[s] # None PROVE \E f \in File : Writing(permit[s], f)
    <3>1. permit[s] \in Handle
      BY <1>1, <2>1 DEF IInv, TypeOK
    <3>2. CASE \E t \in Task : Has(t) /\ task[t].handle = permit[s] /\ task[t].sem = s
      BY <1>1, <3>2 DEF IInv, OwnHandle, Busy, Has, Writing
    <3>3. CASE Full(permit[s]) /\ slot[permit[s]].rw
      BY <1>1, <3>1, <3>3 DEF IInv, SlotsOK, Full, Writing
    <3> QED BY <1>1, <2>1, <3>2, <3>3 DEF KInv, PermitsKept
  <2> QED BY <1>1, <2>1 DEF KInv, SlotsKept, NothingLeaks
<1>2. Spec => []IInv
  BY InitInv, StepInv, PTL DEF Spec
<1> QED BY <1>1, <1>2, NothingLost, PTL
=============================================================================
