----------------------------- MODULE FileHandles -----------------------------
(***************************************************************************)
(* Open files of a branch and the local store under them: the rows of the  *)
(* tables chunk and blob with their reference counts and the triggers that *)
(* collect a local row when its count falls to zero (migrations/           *)
(* 202605201500_initial.sql), the write handles of vfs/file.rs with the    *)
(* temporary rows that pin what they stored, and the push job that pins    *)
(* what it uploads.                                                        *)
(*                                                                         *)
(* A blob is named by its content: here by the set of chunks its chunk map *)
(* names, each once.  Directories, entities and commits are left out: the  *)
(* tree maps an inode to its blob, and a local blob is referenced while an *)
(* inode or the push job names it.  Every action is one transaction of the *)
(* single writer connection, or a step in memory between two of them.      *)
(***************************************************************************)
EXTENDS Integers, FiniteSets

CONSTANTS Handle,      \* write handles that can be open at once
          Inode, Chunk,
          NoHandle,    \* "nobody holds the lock"
          Renames,     \* TRUE: Vfs::update runs beside the writers
          Pushes,      \* TRUE: push jobs run
          ReaperFails  \* TRUE: the reaper's transaction may fail

ASSUME NoHandleAssumption == NoHandle \notin Handle

\* Chunks are hashes of a fixed length.
ASSUME FiniteAssumption == IsFiniteSet(Handle) /\ IsFiniteSet(Chunk)

VARIABLES
  store,    \* [chunk, count, blob]: the modes and ref_count of the rows
  tree,     \* tree[i]: the blob of inode i, for the inodes that exist
  lock,     \* the write lock of an inode
  fh,       \* fh[h]: the state of handle h, for the handles in use
  job,      \* [blobs, chunks]: the rows of the push job's queue
  rename    \* a File someone has read and is about to pass to update

vars == <<store, tree, lock, fh, job, rename>>

Content == SUBSET Chunk

Mode == {"absent", "local", "synced"}

(***************************************************************************)
(* A handle: the inode it is for; the content of the inode as the handle   *)
(* knows it (file); the chunks its chunk map names (map); the chunk it is  *)
(* storing, if any; and the chunks pinned by its rows in temp_file_chunks. *)
(***************************************************************************)
FileHandle ==
  [phase : {"waiting", "locked", "open", "storing", "broken", "dead", "leaked"},
   inode : Inode, file : Content, map : Content, storing : Content, pins : Content]

Lock == INSTANCE InodeLock WITH Task <- Handle, NoTask <- NoHandle, holder <- lock

TypeOK ==
  /\ store \in [chunk : [Chunk -> Mode], count : [Chunk -> Nat], blob : [Content -> Mode]]
  /\ DOMAIN tree \subseteq Inode /\ \A i \in DOMAIN tree : tree[i] \in Content
  /\ lock \in [Inode -> Handle \cup {NoHandle}]
  /\ DOMAIN fh \subseteq Handle /\ \A h \in DOMAIN fh : fh[h] \in FileHandle
  /\ job \in [blobs : SUBSET Content, chunks : Content]
  /\ rename \subseteq [inode : Inode, blob : Content]

Idle == [blobs |-> {}, chunks |-> {}]

Nothing == [x \in {} |-> {}]

Init ==
  /\ store = [chunk |-> [c \in Chunk |-> "absent"],
              count |-> [c \in Chunk |-> 0],
              blob  |-> [b \in Content |-> "absent"]]
  /\ tree = Nothing
  /\ lock = [i \in Inode |-> NoHandle]
  /\ fh = Nothing
  /\ job = Idle
  /\ rename = {}

\* Functions on changing domains.
With(f, x, v) == [y \in DOMAIN f \cup {x} |-> IF y = x THEN v ELSE f[y]]

Without(f, x) == [y \in DOMAIN f \ {x} |-> f[y]]

Values(f) == {f[x] : x \in DOMAIN f}

-----------------------------------------------------------------------------
(* The tables and their triggers. *)

Present(s, C) == \A c \in C : s.chunk[c] # "absent"

\* A reference to each chunk of C is inserted.
Refer(s, C) ==
  [s EXCEPT !.count = [c \in Chunk |-> @[c] + (IF c \in C THEN 1 ELSE 0)]]

\* n[c] references to chunk c are deleted; a local chunk without any goes.
Release(s, n) ==
  [s EXCEPT
     !.count = [c \in Chunk |-> @[c] - n[c]],
     !.chunk = [c \in Chunk |->
                  IF n[c] > 0 /\ s.count[c] = n[c] /\ @[c] = "local" THEN "absent" ELSE @[c]]]

\* Mutant of ReleaseSet: the count falls, and nothing is collected.
ReleaseCountOnly(s, C) ==
  [s EXCEPT !.count = [c \in Chunk |-> @[c] - (IF c \in C THEN 1 ELSE 0)]]

ReleaseSet(s, C) == Release(s, [c \in Chunk |-> IF c \in C THEN 1 ELSE 0])

\* register_chunk with StorageMode::Local
RegisterChunk(s, c) ==
  IF s.chunk[c] = "absent" THEN [s EXCEPT !.chunk[c] = "local"] ELSE s

\* register_blob with StorageMode::Local
RegisterBlob(s, b) ==
  IF s.blob[b] = "absent" THEN Refer([s EXCEPT !.blob[b] = "local"], b) ELSE s

\* Local blobs that are in no use go, and their chunk maps with them.
CollectBlobs(s, InUse) ==
  LET gone == {b \in Content : s.blob[b] = "local" /\ b \notin InUse}
  IN  Release([s EXCEPT !.blob = [b \in Content |-> IF b \in gone THEN "absent" ELSE @[b]]],
              [c \in Chunk |-> Cardinality({b \in gone : c \in b})])

\* The store once the inodes name the blobs of t.
Repoint(s, t) == CollectBlobs(s, Values(t) \cup job.blobs)

-----------------------------------------------------------------------------
(* A write handle. *)

In(h, phase) == h \in DOMAIN fh /\ fh[h].phase = phase

Phase(h, phase) == fh' = [fh EXCEPT ![h].phase = phase]

\* temp_file_handle has a row for it.
HasRow(h) == h \in DOMAIN fh /\ fh[h].phase \notin {"waiting", "locked"}

\* open_rw: the caller has a File, its blob is loaded, the lock is next.
BeginOpen(h) ==
  /\ h \notin DOMAIN fh
  /\ \E i \in DOMAIN tree :
       fh' = With(fh, h, [phase |-> "waiting", inode |-> i, file |-> tree[i],
                          map |-> tree[i], storing |-> {}, pins |-> {}])
  /\ UNCHANGED <<store, tree, lock, job, rename>>

Acquire(h) ==
  /\ In(h, "waiting")
  /\ Lock!Take(h, fh[h].inode)
  /\ Phase(h, "locked")
  /\ UNCHANGED <<store, tree, job, rename>>

TimeOut(h) ==
  /\ In(h, "waiting")
  /\ fh' = Without(fh, h)
  /\ UNCHANGED <<store, tree, lock, job, rename>>

\* open_rw's transaction: the inode must still be the expected file.
\* Mutant of AsExpected: the file may have been modified meanwhile.
AsExpectedByInode(f) == f.inode \in DOMAIN tree

AsExpected(f) == f.inode \in DOMAIN tree /\ tree[f.inode] = f.file

OpenRw(h) ==
  /\ In(h, "locked") /\ AsExpected(fh[h])
  /\ Phase(h, "open")
  /\ UNCHANGED <<store, tree, lock, job, rename>>

OpenRwFails(h) ==
  /\ In(h, "locked") /\ ~AsExpected(fh[h])
  /\ fh' = Without(fh, h)
  /\ Lock!Give(h, fh[h].inode)
  /\ UNCHANGED <<store, tree, job, rename>>

\* Between the commit of that transaction and the handle that would tell the
\* reaper lies one more await (max_chunk_size): given up there, the row stays.
OpenRwAbandoned(h) ==
  /\ In(h, "locked") /\ AsExpected(fh[h])
  /\ Phase(h, "leaked")
  /\ Lock!Give(h, fh[h].inode)
  /\ UNCHANGED <<store, tree, job, rename>>

\* TempChunkTracker::insert_chunk, first transaction: the row ...
InsertChunk(h) ==
  /\ In(h, "open")
  /\ \E c \in Chunk :
       /\ store' = RegisterChunk(store, c)
       /\ fh' = [fh EXCEPT ![h].phase = "storing", ![h].storing = {c}]
  /\ UNCHANGED <<tree, lock, job, rename>>

\* Mutant of InsertTempFhChunk: no pin.
InsertUnpinned(h) ==
  /\ In(h, "storing") /\ Present(store, fh[h].storing)
  /\ \E R \in SUBSET fh[h].map :
       fh' = [fh EXCEPT ![h].phase = "open", ![h].storing = {},
                        ![h].map = (@ \ R) \cup fh[h].storing]
  /\ UNCHANGED <<store, tree, lock, job, rename>>

\* ... second transaction: the pin.  The chunk takes the place of some that
\* the chunk map named.
InsertTempFhChunk(h) ==
  /\ In(h, "storing") /\ Present(store, fh[h].storing)
  /\ store' = Refer(store, fh[h].storing \ fh[h].pins)
  /\ \E R \in SUBSET fh[h].map :
       fh' = [fh EXCEPT ![h].phase = "open", ![h].storing = {},
                        ![h].map = (@ \ R) \cup fh[h].storing,
                        ![h].pins = @ \cup fh[h].storing]
  /\ UNCHANGED <<tree, lock, job, rename>>

\* Without the row the pin is a foreign key error, which INSERT OR IGNORE does
\* not ignore; the handle is of no use any more.
FlushFails(h) ==
  /\ In(h, "storing") /\ ~Present(store, fh[h].storing)
  /\ Phase(h, "broken")
  /\ UNCHANGED <<store, tree, lock, job, rename>>

\* tx.fsync: register the blob, point the inode to it.
Fsynced(f) == Repoint(RegisterBlob(store, f.map), With(tree, f.inode, f.map))

Fsync(h) ==
  /\ In(h, "open") /\ Present(store, fh[h].map)
  /\ store' = Fsynced(fh[h])
  /\ tree' = With(tree, fh[h].inode, fh[h].map)
  /\ fh' = [fh EXCEPT ![h].file = fh[h].map]
  /\ UNCHANGED <<lock, job, rename>>

\* commit: the same and delete_fh in one transaction; then the lock goes.
Commit(h) ==
  /\ In(h, "open") /\ Present(store, fh[h].map)
  /\ store' = ReleaseSet(Fsynced(fh[h]), fh[h].pins)
  /\ tree' = With(tree, fh[h].inode, fh[h].map)
  /\ fh' = Without(fh, h)
  /\ Lock!Give(h, fh[h].inode)
  /\ UNCHANGED <<job, rename>>

\* The handle is dropped, maybe with a flush that waits for the store: the lock
\* goes, then the reaper is told.
Drop(h) ==
  /\ In(h, "open") \/ In(h, "storing") \/ In(h, "broken")
  /\ fh' = [fh EXCEPT ![h].phase = "dead", ![h].storing = {}]
  /\ Lock!Give(h, fh[h].inode)
  /\ UNCHANGED <<store, tree, job, rename>>

\* Mutant of Reap: only the row of the handle goes, not its pins.
ReapHandleOnly(h) ==
  /\ In(h, "dead")
  /\ fh' = Without(fh, h)
  /\ UNCHANGED <<store, tree, lock, job, rename>>

Reap(h) ==
  /\ In(h, "dead")
  /\ store' = ReleaseSet(store, fh[h].pins)
  /\ fh' = Without(fh, h)
  /\ UNCHANGED <<tree, lock, job, rename>>

\* The reaper ignores errors, and nobody tells it again.
ReapFails(h) ==
  /\ ReaperFails /\ In(h, "dead")
  /\ Phase(h, "leaked")
  /\ UNCHANGED <<store, tree, lock, job, rename>>

HandleStep(h) ==
  \/ BeginOpen(h) \/ Acquire(h) \/ TimeOut(h) \/ OpenRw(h) \/ OpenRwFails(h)
  \/ OpenRwAbandoned(h) \/ InsertChunk(h) \/ InsertTempFhChunk(h) \/ FlushFails(h)
  \/ Fsync(h) \/ Commit(h) \/ Drop(h) \/ Reap(h) \/ ReapFails(h)

-----------------------------------------------------------------------------
(* The rest of the volume. *)

CreateFile(i) ==
  /\ i \notin DOMAIN tree
  /\ tree' = With(tree, i, {})
  /\ store' = RegisterBlob(store, {})
  /\ UNCHANGED <<lock, fh, job, rename>>

\* temp_file_handle references vfs: an inode with a handle cannot go.
DeleteInode(i) ==
  /\ i \in DOMAIN tree
  /\ \A h \in Handle : HasRow(h) => fh[h].inode # i
  /\ tree' = Without(tree, i)
  /\ store' = Repoint(store, Without(tree, i))
  /\ UNCHANGED <<lock, fh, job, rename>>

\* The renaming of a file: inode_by_id, then update with what was read, which
\* needs the blob it names.
ReadFile(i) ==
  /\ Renames /\ rename = {} /\ i \in DOMAIN tree
  /\ rename' = {[inode |-> i, blob |-> tree[i]]}
  /\ UNCHANGED <<store, tree, lock, fh, job>>

\* Mutant of Updatable: the blob may have gone.
UpdatableByInode(r) == r.inode \in DOMAIN tree

Updatable(r) == r.inode \in DOMAIN tree /\ store.blob[r.blob] # "absent"

Update ==
  /\ \E r \in rename :
       IF Updatable(r)
       THEN /\ tree' = With(tree, r.inode, r.blob)
            /\ store' = Repoint(store, With(tree, r.inode, r.blob))
       ELSE UNCHANGED <<tree, store>>
  /\ rename' = {}
  /\ UNCHANGED <<lock, fh, job>>

\* clear_sync_job: the queue goes, and its references.
Cleared(s) == CollectBlobs(ReleaseSet(s, job.chunks), Values(tree))

\* A push task starts: clear what is left of the last job, then queue every
\* local row that has a reference.
StartPush ==
  /\ Pushes
  /\ LET s == Cleared(store)
         C == {c \in Chunk : s.chunk[c] = "local" /\ s.count[c] > 0}
     IN  /\ store' = Refer(s, C)
         /\ job' = [blobs |-> {b \in Content : s.blob[b] = "local"}, chunks |-> C]
  /\ UNCHANGED <<tree, lock, fh, rename>>

\* Mutant of EndPush: the pins of the last job stay.
EndPushLeaving ==
  /\ job # Idle
  /\ job' = Idle
  /\ UNCHANGED <<store, tree, lock, fh, rename>>

\* process_chunk, process_blob: the item has been uploaded.
ProcessChunk(c) ==
  /\ c \in job.chunks
  /\ store' = ReleaseSet([store EXCEPT !.chunk[c] = "synced"], {c})
  /\ job' = [job EXCEPT !.chunks = @ \ {c}]
  /\ UNCHANGED <<tree, lock, fh, rename>>

ProcessBlob(b) ==
  /\ b \in job.blobs
  /\ store' = [store EXCEPT !.blob[b] = "synced"]
  /\ job' = [job EXCEPT !.blobs = @ \ {b}]
  /\ UNCHANGED <<tree, lock, fh, rename>>

\* The clean-up at the end of a push task, complete or given up.
EndPush ==
  /\ job # Idle
  /\ store' = Cleared(store)
  /\ job' = Idle
  /\ UNCHANGED <<tree, lock, fh, rename>>

\* The process dies.  Db::new deletes every temp_file_handle before anything
\* else runs.
Restart ==
  /\ store' = Release(store, [c \in Chunk |-> Cardinality({h \in DOMAIN fh : c \in fh[h].pins})])
  /\ fh' = Nothing
  /\ lock' = [i \in Inode |-> NoHandle]
  /\ rename' = {}
  /\ UNCHANGED <<tree, job>>

VolumeStep ==
  \/ \E i \in Inode : CreateFile(i) \/ DeleteInode(i) \/ ReadFile(i)
  \/ Update \/ StartPush \/ EndPush \/ Restart
  \/ \E c \in Chunk : ProcessChunk(c)
  \/ \E b \in Content : ProcessBlob(b)

Next == (\E h \in Handle : HandleStep(h)) \/ VolumeStep

Spec == Init /\ [][Next]_vars

\* The reaper runs whenever it has something to do.
FairSpec == Spec /\ \A h \in Handle : WF_vars(Reap(h))

-----------------------------------------------------------------------------
\* The column ref_count, kept by triggers through every cascade, is the number
\* of rows that reference the chunk: chunk maps, pins of handles, the queue of
\* the push job (migrations:555, 896, 1048).  One too few and a chunk in use
\* is collected, one too many and it never is.
RefCountExact ==
  \A c \in Chunk :
    store.count[c] =
      Cardinality({b \in Content : store.blob[b] # "absent" /\ c \in b})
        + Cardinality({h \in DOMAIN fh : c \in fh[h].pins})
        + (IF c \in job.chunks THEN 1 ELSE 0)

\* Whatever was collected, no file lost anything: the blob of every inode and
\* all its chunks are still rows (migrations:443, 522).
ContentIsStored ==
  \A i \in DOMAIN tree : store.blob[tree[i]] # "absent" /\ Present(store, tree[i])

\* An open handle can always fsync: what it did not store itself is held by
\* the inode it has locked, what it did store by its pins, so register_blob
\* never names a chunk that was collected meanwhile (vfs/file.rs:391, 576).
HandleIsBacked ==
  \A h \in DOMAIN fh :
    fh[h].phase \in {"open", "storing"} => Present(store, fh[h].map)

\* Nobody changes a file behind the back of its writer: what the handle has
\* opened or fsynced is what the inode names until its next fsync
\* (vfs/file.rs:267, "make sure this is the expected file").
NobodyElseWrites ==
  \A h \in DOMAIN fh :
    fh[h].phase \in {"open", "storing", "broken"} =>
      fh[h].inode \in DOMAIN tree /\ tree[fh[h].inode] = fh[h].file

\* A local row that nobody references and no flush is about to pin.
Flushing(h, c) == In(h, "storing") /\ c \in fh[h].storing

Orphan(c) ==
  /\ store.chunk[c] = "local" /\ store.count[c] = 0
  /\ \A h \in Handle : ~Flushing(h, c)

\* A local chunk row is in use or goes (migrations:521, "Automatic GC of local
\* entries"), with one exception: a flush that is dropped, or dies with its
\* process, between storing its chunk and pinning it (vfs/file.rs:393-398)
\* leaves a row nobody refers to.  No other step does.
OnlyAbandonedChunksStay ==
  [][\A c \in Chunk :
       ~Orphan(c) /\ Orphan(c)' =>
         \E h \in Handle : /\ Flushing(h, c)
                           /\ h \in DOMAIN fh' => fh'[h].phase = "dead"]_vars

\* The pins of a handle that was dropped go in the end, so a chunk that only
\* dropped handles have pinned does not stay local for ever (vfs/file.rs:537).
Needed(c) ==
  \/ \E b \in Values(tree) \cup {d \in Content : store.blob[d] = "synced"} : c \in b
  \/ \E h \in DOMAIN fh : fh[h].phase # "dead" /\ c \in fh[h].pins \cup fh[h].storing
  \/ c \in job.chunks

UnneededChunksGo ==
  \A c \in Chunk :
    (store.chunk[c] = "local" /\ store.count[c] > 0 /\ ~Needed(c)) ~>
      (store.chunk[c] # "local" \/ Needed(c))
=============================================================================
