# janus-fs in TLA+

janus-fs is a file system for content-addressed remote storage: writes go to a local SQLite
database, every write transaction ends in a commit of the whole tree, and a background task pushes
commits to, and pulls them from, a storage backend. These modules specify the parts of it in which
several actors, several transactions or several calls meet; TLC checks them on small instances and
TLAPS proves nearly all their safety properties for any instance.

## The system

| component | state it keeps | operations | modules |
|---|---|---|---|
| file write locks (`vfs/file.rs`) | inode -> weak reference to a mutex | acquire (5 s timeout), drop, purge | `InodeLock`, `FileWriteLocks` |
| chunk map (`chunk/chunk_map.rs`) | ranges of a blob -> ranges of chunks, length | insert, remove, set_len, get | `ChunkMap` |
| blob writer and reader (`blob/io.rs`) | position, one write buffer, one chunk being stored, the blob | write, read, seek, set_len, flush, finalize | `ByteFile`, `BlobIo` |
| file handles and the local store (`vfs/file.rs`, `chunk/mod.rs`, `blob/mod.rs`, triggers) | handle rows, pins, chunk, blob and entity rows with reference counts | open_rw, flush, fsync, commit, drop, reaper, delete, push job, start | `FileHandles` |
| inode tree and commits (`vfs/mod.rs`, `vfs/entity.rs`, `db.rs`, triggers on `vfs`) | rows with parent, entity revision, dirty flag, path; head | create, delete, mv, update, commit of a transaction, rebuild by a pull | `InodeTree` |
| inode and path caches (`vfs/cache.rs`, `vfs/path.rs`) | path -> inode, inode id -> inode, absences; change log | fill on a miss, invalidate after a commit, lookup, remove | `InodeCaches` |
| remote chunk reader (`janus-io/chunk/reader.rs`, `cache/chunk.rs`) | position, current chunk, open download; shared cache | read, seek, fetch, evict | `ChunkedReader` |
| push (`sync/push.rs`) | one job, a queue of objects with a pending flag | fill, serve by size, upload a batch, mark synced, clear | `Sync`, `ObjectRows`; its pins on chunks in `FileHandles` |
| pull (`sync/pull.rs`) | object rows | list the remote, apply objects in order of kind, rebuild | `Sync`, `ObjectRows`; the rebuild in `InodeTree` |
| entities and objects (`vfs/entity.rs`, `object/mod.rs`, triggers) | rows by content, their synced mark, object rows | insert, merge, mark synced, collect | `ObjectRows` |
| config, branches, tags (`vfs/config.rs`) | heads -> commits, time | last writer wins by time; create and delete a head | `Sync`, `Commands`; the tree behind a moved head in `InodeTree` |
| remote storage (`janus-io/lib.rs`, `object.rs`, `upload.rs`, backends) | known object ids, cursor of the event loop | start, list, upload, delete, events | `RemoteObjects` |
| metadata cache and disk cache (`janus-io/cache`, `foyer-cache`) | metadata in memory and on disk, context file | lookup, insert, invalidate, open, clear | `ObjectCaches` |
| volumes (`vfs/scan.rs`, `vfs/delete.rs`, `lib.rs`) | configs, commits and objects of a volume on the remote | create, open, scan, delete | `Commands`, `RemoteObjects` |
| NFS server (`janus-fs/nfs`) | table of open files, table of write permits | open, use, close, commit; lookup, remove, create, rename | `NfsHandles`; lookups in `InodeCaches`, rename in `FileHandles`, `InodeTree` |
| command line (`janus-fs/main.rs`) | - | volume, branch and tag commands, scan, serve | `Commands` |
| compression | - | - | not modelled |

How they interact. An NFS write goes to a `FileHandle`, through `BlobWriter` into its buffer; a full
buffer becomes a chunk, stored in one transaction and pinned to the handle in another. fsync registers
the blob and writes the inode; the triggers mark its directories dirty, and the commit of the
transaction writes those anew and moves the branch's head. There is one write connection, so write
transactions are serial; what a caller carries from one to the next may be out of date. After the commit
the inodes in the change log, and all paths, are invalidated in the caches. Dropping a
handle sends its id to a reaper. The syncer runs push and then pull, one at a time; a push job pins
what it uploads. Reads of what is not local go to `ChunkedReader` over a shared cache. Push, pull, scans and
commands see the remote through `RemoteStorage`: a listing at the start, the service's events after it, and
a metadata cache that the same events and the client's own uploads and deletes change.

The hard behaviours: callers that act on what an earlier transaction returned (open, rename, fsync,
flush); collection by triggers in the middle of other statements; pins that outlive a crash, a dropped
future or a failed reaper; dirty marks that must reach the root and work that must end; lock-table
entries purged while others wait; open files taken out of their slots; fills of a cache that an
invalidation overtakes; arithmetic of overlapping ranges; positions and buffers around the
end of a file; shared fetches that fail; uploads that arrive in part; events that overlap a listing; two
uploads of one content; processes killed between the steps that clear a cache; commands that act on a
config read earlier. `PROJECT.json` lists each at its line, with the properties that would catch it.

What correctness is, by component: a lock has one holder per inode; a chunk map is the array its calls
describe; a handle's file is what was written, its length known but for a chunk on its way to the store; counts equal
references, nothing in use is collected and nothing unused stays but the chunk of a flush given up halfway; a commit is the tree; a cache keeps what a commit
replaced only when a fill came late, and an answer was true at some time of the request; a remote reader
returns the object's bytes; a replica's heads name what it has, what it counts as synced is on the remote
and is the right object, a pull gets all there is, and replicas agree once nobody writes; a client
knows the objects that are there; nothing is read from a disk cache that another release wrote; a file is
open for writing under one NFS handle and every request ends; commands that know of each other add up.

## Modules

`MC<module>` modules hold what a configuration needs besides constants. Names follow the source. The
operators marked "Mutant of" state a plausible mistake in the definition after them and are not used
by the specifications; they show that a property would notice.

**FileWriteLocks** — each task's stage in `acquire`: it joins the mutex the table's weak reference
still upgrades to or makes a new one (`JoinMutex`, `NewMutex`), waits, locks or gives up after the
timeout, and on drop gives back the guard first and its strong reference, with a purge of dead entries,
second (`DropGuard`, `Purge`). A mutex is alive while someone refers to it. **InodeLock** is the
promise: one plain lock per inode.

**ChunkMap** — the entries as a set of records [start, end, id, off]; a pure module. `Insert`,
`Remove`, `SetLen` and `Get` are the public calls. `MCBlobIo` drives a map alone, beside the array of bytes
it stands for.

**BlobIo** — one handle: `map` (the blob, a `ChunkMap`), `buffer`, `submit` (the chunk on its way)
and `file`, the bytes a caller would expect, defined by **ByteFile**. A chunk is stored under its
content. `used` remembers which of four uses of the interface the history contains: a write past the
end, set_len below the length, set_len above it, append by `SeekFrom::End`. Every property but
`FileIsWhatWasWritten` says for which it holds; that set is what the code gives its callers. The future of
`submit` resolves at any later step, or with an error (`Refused`). `Vec::with_capacity` is taken to
allocate exactly; empty writes are left out.

**FileHandles** — `store` (the rows of chunk and blob with their `ref_count` and mode), `tree` (an inode's
blob), `lock` (one per inode, by `InodeLock`), `fh` (each handle's phase, chunk map and its rows in
`temp_file_chunks`), `job` (the push queue) and `rename` (what a rename has read). A statement's
triggers are one operator each (`Refer`, `Release`, `ReleaseSet`, `CollectBlobs`, `Repoint`). Each transaction is
an action; a call of several transactions is several actions. `Restart` is a crash and the next
`Db::new`. Abstractions: a blob is the set of its chunks; an inode names its blob directly (entity,
directory and commit rows are in `InodeTree`; the head follows every transaction, so an entity lives as
long as the inode names it); two Files are equal if their contents are; the job's pins on entities and
commits and the pull are left out; the reaper's queue never overflows (a cloned sender has a slot of its
own); an fsync whose chunks are gone fails on a foreign key and changes nothing.

**InodeTree** — `vfs` is the table in the open transaction, `saved` what is committed. An entity is the
record [id, name, body, entries] and, the revision being its hash, its own key; `entries` are the
children's entities, so the root's is the whole tree. `Insert`, `Remove`, `Reparent` and `SetEntity` are
the four statements with their triggers. A write action opens the transaction; `ProcessDirtyInode` is a
turn of the loop in `Transaction::commit`, `Commit` its end, `Rollback` an error or a crash. `Pull` is
`set_config` naming another commit, `Unfold` its rebuild of the rows. Left out: the column `name` (always the
entity's), read-only heads (no
writes at all), a delete or rebuild refused because a handle row refers to the inode, and entity rows
that survive because they are synced. The loop's order within a batch is left open.

**InodeCaches** — `log` is the table after each commit, so that a cached value can be compared with every one
that was true; `pending` are commits whose invalidation is not through: first the paths, all at once, then the inodes of the
change log, one by one. A fill reads the database in one step and stores in a later one; whoever else
wants the key waits for it. A request is a lookup of a name in a directory, or an NFS remove, step by
step over both caches. `late` marks a value that an invalidation overtook while it was being filled
(`invalidate_entries_if` does not reach a `try_get_with` in progress): the code's own limit, and the only
one. Entries expire and are evicted at any time. The chunk cache is left out: ids name content there.

**NfsHandles** — `slot` is the table of handles, `write_locks` the table of weak references to the
semaphores of files, `permit` who has a semaphore's one permit, `task` what each request does: `Open` reserves a
slot, `Acquire` waits for the permit, an operation takes the open file out of its slot and puts it back, `Close` drops it and the permit
with it, and purges. The slot of an open that failed stays (`failed`). With `CloseBusy` a handle may be closed while an
operation runs on it; the operation then drops the open file while it holds the table's mutex, whose
`WriteLock::drop` waits for that very mutex (`stuck`). The run has callers
that close a handle only when nothing runs on it.

**ChunkedReader** — the object's byte k is the number k. A reader's `phase` says how far its fetch is; `Load`/`LoadFails` end
a shared fetch that `Miss` began, `Evict` empties memory and disk at once. Seeks go anywhere, as in `poll_seek`. The history variable
`skewed` tells that a fetch has begun in the middle of its chunk, which takes a seek there while nobody has the chunk or is fetching it; from then on the
cache may have other bytes than the object's, below. The volume reads its objects front to back, only a direct user of the crate seeks.

**Sync** — replicas and the remote. `db[r]` is a replica's rows (`local`, `synced`), its heads, the config's
`time` and `mode`, the `queue` of its push job with the `pending` ones, and the configs it has `seen`; `task[r]` is
where its sync task is; `remote` has objects and configs. `StartPush`, `Fill`, `Upload` or `UploadFails`,
`Mark` and `EndPush` are the transactions and the upload of `PushTask`; `EndPush` also lists the remote for
the pull, whose objects come one at a time (`Pull`, `PullFails`). `Write` is any write transaction of the
volume, at any moment; `CreateHead` and `DeleteHead` are the command line's, from any config it may have read.
`Crash` ends a process and leaves its job. Abstractions: each write adds one file and a commit is the set
of its files, so that "has the earlier change" can be said; a file stands for all commits share
(entities, blobs, chunks), a commit also for the directories made for it. An object is what it
holds: a second upload of it is the same object. Times come from one clock and differ. The items of a
batch are as many as there is room for, in any order, so by any size. A branch that is served is not
deleted. A replica's items are not synced by others
while they are queued, for a process runs one sync at a time (`SYNC_SEMAPHORE`).

**ObjectRows** — the same push and pull at the level of rows, for one replica: contents of five kinds that refer to each
other, and objects that are uploads of a content. Others upload the same contents (an object then has a
number, where the backend makes a new id each time). `Sync` is any step of the sync task: the listing, the queue,
batches of which some items failed, marking, and the pull's `Decide`d steps over a window of objects, with directories that wait for directories. A local row stays
while a head, a synced row or the queue needs it (`Kept`). `Write`, `Others` and moved heads happen at any time. The config,
sizes and attempts are in `Sync`; error counts are left out, nothing reads them.

**RemoteObjects** — what each client knows of the remote. `loop[c]` is its start (the history of events page by page, event by
event, or a list of names) and then its event loop: `Poll`, `Fetch` (a request that may fail), one `Event` at a time. `req[c]` is the upload or delete
or scan it works on, object by object, and may be aborted by an error or a crash. `feeds` chooses a backend with events (indexd) or
without (renterd, the mock). An event tells an object's last change only, and times of events are distinct.

**ObjectCaches** — one object's metadata: `memory` and `disk`, the `lookup` in progress, and two writers, the event
loop and a request, each of which changes the disk first and the memory second. A process opens the disk cache in steps
(read the context file, clear, write it anew), may die after any, and the next one may be of another release. The two caches of chunks and metadata
are opened alike.

**Commands** — each command is a process: it lists the remote, asks, looks again at what it knows then, and changes
the remote object by object. A create_head, delete_head, serve, create_volume, delete_volume or scan, of which the config is
the volume's whole state; `heads` is what the changes come to if nobody overlaps, `raced` a volume where somebody did.
A listing may break off (`torn`): the code takes what it has for all.

`MCClient` composes `InodeCaches`, `ChunkedReader`, `ObjectCaches` and `Commands`, which share no state: a behaviour is one of either.

## Runs

| run | instance | shows |
|---|---|---|
| `write_locks` | 3 tasks, 2 inodes, 5 mutexes | one writer per inode, `InodeLock` is implemented |
| `blob_io` | a handle on files to 5 bytes, chunks of 2, writes to 2 bytes; a chunk map of 4 bytes, 2 chunks | writes reach the blob, reads see them, the length is short of a chunk on its way at most, buffers cover writes; every call sequence on a map reads like the array, equal content has merged entries |
| `shrink` | the same handle, with set_len below the length | a counterexample, below |
| `writers` | 2 handles, 2 files, shared chunks; crashes, abandoned opens and flushes, failing reaper | pins hold, nobody else changes an open file |
| `volume` | 2 handles, 2 files, 1 chunk; crashes, abandoned opens and flushes, pushes, Vfs::update; fair reaper | counts exact, content kept, only a flush given up halfway leaves a row without a reference, pins of dropped handles go |
| `client` | root, a directory and a file, 2 transactions, 1 request, 1 fill at a time beside it, 1 entry per cache; 2 readers, object of 5 bytes, chunks of 2; 2 releases, 3 versions, 3 starts; 3 commands, 2 volumes, 2 heads, 1 listing that breaks off | only late fills are stale, answers were true; readers have the object's bytes until a fetch begins in the middle of its chunk; no entry of another release, only late values are stale; commands add up, deleted is gone |
| `seek` | the readers of `client` alone | a counterexample, below |
| `inode_tree` | root, 2 directories, 1 file, 2 names, 1 client; published trees of at most 3 inodes | dirty marks, commit = tree, paths, pull keeps its commit, transactions end |
| `sync` | 2 replicas of one branch, room for another head; 2 writes or heads, 3 events with failed uploads and crashes; 2 attempts, batches of 1 | heads are backed, synced is stored, a finished push is published whole, replicas agree in the end |
| `nfs` | 2 requests at a time, 2 files, 3 handles of which 2 open, 1 open that fails | one writer per file, a handle stays usable, no slot or permit is lost, every request ends |
| `remote` | 2 clients, a volume's two objects, pages of 1 event, 4 changes, 1 stop | known is right, configs have their commits, everybody catches up |
| `rows` | a file, 2 directories and a commit in a chain; batches of 2, windows of 1 and 2; 1 failure, 2 moves of heads | what was seen has rows, synced rows have the right object, one quiet pull is enough, all is pulled in the end |

The bounds. Four or five bytes and chunks of two give every relation of two ranges (disjoint, touching, overlapping
on either side, inside, equal), a short last chunk and a hole on each side. Three tasks are one holder,
one waiter and one that purges or arrives. Two handles on two files sharing a chunk are enough for each
count to be shared by a pin, a file and a job. Two directories under the root, with a file, give every
move between siblings, up, down and into a descendant, and dirty chains of length three. Runs on which
liveness is checked use no symmetry. Two writes and a third event are enough for two replicas to write in conflict
while an upload fails or a process dies, and for a commit to be replaced while it is pushed. A batch of
one is the uploader of `renterd`; with batches of two the run finds nothing else, and takes four times as long.
Two commits, one request and a fill are enough for a value to be read before a commit, stored after it, and met by
a request that reads one cache before and one after. Pages of one event put an upload or a delete between
any two events; three handles for two files and two requests let a semaphore be purged, made anew and waited for. Three
starts are a process that writes, one of another release that dies in the middle of clearing, and a third. A chain
of two directories is what a window of one and one of two order differently. Three commands are two
that overlap and one that comes after both.

`shrink` is a disagreement of the code with what its tests take for granted: set_len cuts inside a chunk, and the next
write there brings the cut-off bytes back (`blob/io.rs:459`; the test at `blob/io.rs:1001` cuts and reads but does not write
again). `seek` is another: a seek into the middle of a chunk that is not cached fetches from there and caches what comes
as the chunk (`janus-io/chunk/reader.rs:105`). The test at `janus-io/lib.rs:466` seeks to such a place and takes the object's bytes for granted; it has read
to the end before, which caches the chunk, and its backend starts every download at the front (`object.rs:397`). `PROJECT.json` has both findings.

Met while modelling and without a run:

- *A rename reads first and writes later.* Its `Vfs::update` writes the entries a directory had when it was read: a file made in
  between is in the table and in no commit until something else dirties the directory (`InodeTree`, false with `StaleUpdates`).
  It takes back an fsync made since it read the file, too (`vfs/mod.rs:867`; `NobodyElseWrites` is false with `Renames`).
- *Configs replace each other whole, by time.* A replica that writes on its own branch without having pulled another's takes the
  other branch back to what it knew, there too; two overlapping head commands both report success and the later wins. Deleting
  the last head leaves a config without heads, and the volume cannot be opened.
- *After a push, writing needs the remote*: the branch's commit and the config are there only, and the next write downloads them.
- *A handle closed while it is used* stops the server: `return_open_file` drops the file under the mutex its drop waits for
  (`CloseBusy` of `NfsHandles`; `nfs/mod.rs:70`, `:200`).
- `blob/io.rs`: an append after `SeekFrom::End` ignores a dirty buffer (`:576`); a write across the end of a hole made by set_len
  asks `write_at` for more than fits (`:477`); a read of a hole does not see the dirty buffer over it (`:225`); `len()` leaves out the
  chunk on its way to the store, so a file that grew is short by it until the flush is polled to its end (`:519`). They bound what
  `blob_io`'s properties promise.
- A flush given up between storing its chunk and pinning it leaves a local chunk row that nobody refers to, and that only a later
  reference and its release would collect (`vfs/file.rs:393`; `OnlyAbandonedChunksStay`). A flush stores a chunk that is there already, the row goes before the pin, and the pin is refused (`vfs/file.rs:393`; `FlushFails`).
- Every local commit replaced before it is pushed is collected (`commits_gc_on_local_zero_refcount`), though its successor names it
  as the preceding one.
- A client whose own upload is deleted elsewhere, and whose event loop sees that before the upload returns, knows the object for ever (`mine` in
  `KnownIsRight`, which has just those). Without events, what others upload is unknown until the next start, and metadata changed elsewhere stays cached. A scan
  and delete_fs end at the first error of the listing as if it were complete; a partial delete may bring an older config to light.
- A second remote object of a content that is synced already fails at every pull, harmlessly; a directory that cannot be downloaded, or deeper than
  1024, ends every pull there; a push that gives up leaves the pull out.
- The context file is opened without being truncated, so a shorter name over a longer one would never be read again; the two that
  exist are equally long.
- The question before a deletion is asked for ever when standard input is at its end.

## Fairness

`volume` assumes weak fairness of `Reap`: the reaper is one task in a loop over its queue. It is run without
reaper failures, since the code forgets a handle whose transaction fails (then only the next start
releases its pins). `inode_tree` assumes weak fairness of a turn of the dirty loop and of the commit: the
transaction holds the only write connection and waits for the database alone. `sync` assumes weak fairness
of a replica's sync task, which goes round and round (`sync/mod.rs:80`), and strong fairness of `Upload` and
`Pull`: a replica that uploads, or has an object to download, again and again succeeds at last. Nothing is assumed
of a single try, and the pulls that fail are not bounded. `nfs` assumes that a request that can go on does, that a
semaphore serves those that wait for it in turn (strong fairness of `Acquire`: tokio's semaphores are fair), and that the caller closes each handle it has
in the end. `remote` assumes that the start, the event loop and a request go on, and that a
request for events which is made again and again succeeds (the loop sleeps and repeats, `indexd/object.rs`). `rows` assumes that the
sync task goes on; failures are bounded there. Nothing else is assumed of callers, pushes, pulls, evictions or failures.

## Proofs

All for every value of the constants, from the assumptions in the modules. A condition named below is in the theorem's
statement and is the one the property itself states: without it the property is false, as the run or the list above shows.

*VfsTablesProofs*, of the tables in memory. Locks: `LockInv` is inductive. A task that
waits for or holds a lock keeps alive the very mutex the table has for its inode, no mutex serves two
inodes, and a mutex is owned by the task that holds it. The first part is why purging is safe, and makes
`MutualExclusion` inductive: two holders on an inode would hold one mutex. `Refinement` maps a
holder in the table to the holder of `InodeLock`'s lock; every step is a lock, an unlock or a stutter.
Caches (`OnlyLateIsStale`, `TrueWhenAsked`): what an entry says, present or absent, was so in a commit no older than the oldest
that has yet to invalidate it (`IsEntry`), unless it is late; a fill in progress says what was so since it read; and what a request
puts together of several entries was so at one time of its window (`ReqTrue`), which begins with the oldest commit pending when
it did. The paths go first and all at once, the inodes one by one: so a path read before and an inode read after still agree at some time
in between. `CacheAssumption` says of the commits what `InodeTree` shows: rows are a tree, and the change log has what changed.

*FileHandlesProofs*, of the chunk map: `MapIsTheArray` and `EntriesAreCanonical`. `TableInv` says that the pieces are apart, coalesced
and say of each byte what the array has (`Shows`). It is kept by what the code does in turn: cutting a range out leaves of each piece what is
outside it, a new piece fills the gap, and merging two pieces changes no byte; no third can continue both sides, since all were coalesced before.
A hole ends at the nearest piece behind it, the least of a set of naturals.
Of the blob: `BlobsGetTheWrites`, `BuffersCoverWrites`, `HandlesSeeTheirFile`, of one handle with any chunk size, writes and length, for the uses
the properties name. `HandleInv`: one chunk at most is being filled or stored (`Alone`); chunks are mapped whole from an aligned start, and a pending one reaches as far as the chunk it
replaces, which is why none of its bytes are lost (`Structure`); the file is the blob with what is pending over it (`FileKept`); the last
chunk ends with the blob (`NoPanic`); and without holes a write begins at most at the end (`Gapless`). A write is followed buffer by buffer:
`FilledIsWritten` for a part that fits, `MappedIs` and `StoredFile` when a full buffer goes to the map.
Of files: `WriterIsAlone` and `HandlesCanFsync`, while `Vfs::update` does not run
(`~Renames`). `NobodyElseWrites` is not inductive alone: it needs that a handle whose stage is past the
lock holds it (`OwnersHoldLock`), that files keep their shape, and that no rename has read a file. What a handle names it then
stored, and pins, or found in the inode it has locked.
Of the store: `CountsAreExact`, that `ref_count` is the number of blobs, pins and queue entries which refer to a chunk. This is
followed through every cascade, one statement's triggers at a time, by the cardinality of the set of referring rows: a chunk loses its row only when that
set is empty (`FilesAreWhole`), and always then: the only step after which a row is there without a reference is the end of a flush given up halfway
(`CollectionIsComplete`, of every step).
That handles and inodes are finite is `FiniteAssumption`.

*InodeTreeProofs*: `StaleMarked`, `CommitIsTheTree`, `PathsAreNames`, `PullsKeepTheCommit`, without the stale
updates of a rename (`~StaleUpdates`). The rows are a tree (`Shape`, and `Grounded`: the root is above every row); each of the four statements
keeps that. `MarkedBut` and `LocatedBut` say what a statement has broken before its triggers run (whose entity no longer lists its
children, below which row paths are old), and the triggers mend just that. That the loop ends with the tree needs that what is not dirty
is right all the way down; a pull's rebuilt rows are all dirty, and what the loop writes for each is the entity it came from.

*ClientProofs*: theorems about each part's own specification. `ReadersReadTheObject`, until a fetch begins in the
middle of its chunk (`skewed`): who fetches a chunk stands at its start, so what it fetches, for itself and for those that wait anywhere in the chunk, is that chunk (`ReaderInv`).
`ReadsOnlyItsOwn`: every entry on disk is of the release the context file names (`NamedByFile`), also while no process
runs and while another release is about to clear it: which is why the cache is cleared before the file is written anew.
`StaleOnlyIfLate`: what is in either cache is as new as the newest change that has been through it, and a writer goes through the disk first (`ValuesInv`).
`ChangesAreKept` and `DeletesAreWhole`: a command that has missed nothing knows every config there is, so
the config it builds on is the last one, and its own gets the latest time (`CommandsInv`).

*NfsHandlesProofs*: `OneWriter`, with handles closed in use and without. A request owns the handle it works on and the open file it took
out of the slot (`OwnHandle`); whoever wants or has a file's permit has it from the semaphore in the table, for
a semaphore is only purged when nobody refers to it (`SharedSemaphore`); no semaphore serves two files; and who
is past the permit has it (`HolderHasPermit`). Two writers of a file would have one permit. The mutex and its deadlock play no part. `HandlesStayUsable` and `NothingIsForgotten`
need three facts more: a handle the caller has is backed by its slot or by the one request that took the open file out
(`GivenOK`); a slot is reserved only for an open under way, or is one of `failed` (`SlotsKept`); and a permit that is out is with
an open file or a request (`PermitsKept`). That no open file equals `None` is an assumption (`TableAssumption`).

*ObjectRowsProofs*: `SyncedHasItsObject`. Every row is missing, local, or synced by a registered object that is on the remote and
holds the row's own content (`RowOf`); the objects an uploader answers with belong to the items of its batch one by one
(`Paired`), which is what marking relies on. Neither what is registered nor what is on the remote shrinks.
`SeenHasRow`: rows have the rows they refer to, what is seen is synced, and what the queue has is there: collection keeps what one of these needs, since
what a row needs is closed (`Closure`, the least set that is). `PullIsEnough`, of a quiet pull with a window of one: what it is done with has a
synced row, because everything its content refers to comes before it in the order of kinds and depths. That a directory is deeper
than those it lists is an induction over the sizes of closures, `Depth` being a recursive function; `RefsAssumption` says that contents are finite and
nothing refers to itself, as hashes have it.

*RemoteObjectsProofs*: `NoConfigAlone`. What an upload has still to do is the rest of a batch whose first objects are all on
the remote (`Uploading`), wherever it breaks off; the next object is therefore the first of its batch that may be missing, and,
batches having no object in common (`RemoteAssumption`), completes no part of another one. `KnowsWhatIsThere`: what a client knows
is right up to its cursor (`Knows`), and the page it holds is all that was to come between the cursor and the end of that page, an event being
an object's last change or overtaken by a later one (`Upcoming`); so handling the next event is right up to its time (`EventKnows`).
Whatever anybody changes is later than every cursor and page (`NewChange`), and needs no more than the cursor where it is (`ChangeKeeps`).
The listing at the start is the same from the beginning (`Listed`), its result a cursor at or before what it has handled
(`HistoryEndKeeps`). What is being forgotten is gone and no longer the client's own (`ReqOK`); what an upload adds is there, is to be told gone, or is the
exception the property names (`LearnsFound`, `LearnsOwn`).

*SyncProofs*: `SyncedStored` and `HeadsBacked`. `Good` holds of each replica for itself, and what others do only adds to the
remote (`MoreIsGood`), so a step is looked at where it is made (`OneReplica`). It says that rows have the rows they
refer to, the queue's and the heads' included, which collection keeps because it drops no row that one of these needs
(`CollectKeeps`); that what is synced is on the remote; and that a batch is part of the queue and, once uploaded, on
the remote, writes in between notwithstanding. So a marked row's references are there, and the config is
called synced only if the very config was in the batch. `PushPublishes` needs `PubInv`, between replicas: all a queued config names is
queued or synced (`QueuedWhole`); only the batch in hand is pending (`InHand`), so that a push ends with an empty queue and not with
one that has given up; and what a replica has made since its last push is younger than the clock of everything else (`Dated`, `Apart`), so no config
from elsewhere names it. The remote's own configs are whole for the same reason (`Published`).

Only model-checked are the liveness properties: fairness and `ENABLED` are beyond this prover. So is induction with the library's theorems, which take an operator; where a proof needs
one (`Depth`, `Closure` of `InodeTree`), the least element of a set of naturals stands for it (`NatSet`).

## Not modelled

Compression (a codec and a choice by size; it has no state), encryption, tags and all formats on the wire and in objects; the
requests of the backends below listing, uploading, deleting and events; how an upload packs slabs; attributes and
listings of the NFS server; the indexd tools of the command line. Read-only handles pin nothing and get an error,
never other bytes, when their chunks are collected. Read-only heads, temporary handles that block a delete, equal or skewed clocks, a branch deleted
while it is served, entries of the disk cache that a crash brings back after their deletion, and two processes on one data
directory are left out.

## Plan

1. Heads mounted read-only in `InodeTree` and `FileHandles`, handles that block a delete; `Sync` with equal and skewed times.
