---------------------------- MODULE ObjectCaches ----------------------------
(***************************************************************************)
(* The metadata of a remote object in the caches of a client: in memory    *)
(* and, below it, on disk (janus-io/src/cache/metadata.rs, foyer-cache).   *)
(* A lookup that misses both asks the backend and fills them on its way    *)
(* back; the event loop and the client's own uploads and deletes change    *)
(* them meanwhile, each first the disk and then the memory.  What is on    *)
(* disk outlives the process, and may be read by another release of the    *)
(* program, which tells by the context file beside it.                     *)
(*                                                                         *)
(* One object: no two share anything.  Its metadata is a version, 0 once   *)
(* it is deleted.                                                          *)
(***************************************************************************)
EXTENDS Naturals

CONSTANTS
  Release,     \* content type and compatibility version of a build
  MaxVersion,  \* bound: changes of the object
  MaxStarts    \* bound: starts of the process

ASSUME MaxVersionAssumption == MaxVersion \in Nat

VARIABLES
  remote,   \* the version on the remote
  memory,   \* l1: the versions cached, none or one
  disk,     \* l2: the entries there, none or one: [version, by, broken]
  file,     \* the release the context file names, none if it cannot be read
  process,  \* [phase, release, starts, backed]; backed: is there a disk cache
  lookup,   \* the retrieval of the object; all who want it wait for the same
  writer,   \* writer[w]: what changes the caches
  told,     \* the last version a writer was done with, in this process
  late      \* was a value stored that was read before a later change

cacheVars == <<remote, memory, disk, file, process, lookup, writer, told, late>>

Writer == {"loop", "request"}

Idle == [phase |-> "idle"]

Unheard == MaxVersion + 1

ObjectsInit ==
  /\ remote = 1 /\ memory = {} /\ disk = {} /\ file = {}
  /\ \E backed \in BOOLEAN, r \in Release :
       process = [phase |-> "off", release |-> r, starts |-> 0, backed |-> backed]
  /\ lookup = Idle
  /\ writer = [w \in Writer |-> Idle]
  /\ told = Unheard /\ late = FALSE

Running == process.phase = "running"

\* Somebody, here or elsewhere, changes the object; it is not created again.
Change ==
  /\ remote \in 1 .. MaxVersion - 1
  /\ remote' \in {0, remote + 1}

Entry(v) == [version |-> v, by |-> process.release, broken |-> FALSE]

\* l2.insert.., l2.invalidate..
OnDisk(V) == IF process.backed THEN {Entry(v) : v \in V} ELSE {}

----------------------------------------------------------------------------
(* DiskCache::new and init, then the listing at the start. *)

\* The entries that are on the disk are recovered.
Open ==
  /\ process.phase = "off" /\ process.starts < MaxStarts
  /\ \E r \in Release :
       process' = [process EXCEPT !.phase = IF process.backed THEN "opened" ELSE "listing",
                                  !.release = r, !.starts = @ + 1]
  /\ UNCHANGED <<remote, memory, disk, file, lookup, writer, told, late>>

\* check_compat_file
Compatible == file = {process.release}

Phase(p) == process' = [process EXCEPT !.phase = p]

\* Mutant of CheckContext: the file is written first and the entries go after.
CheckNaming ==
  /\ process.phase = "opened"
  /\ file' = {process.release}
  /\ Phase(IF Compatible THEN "listing" ELSE "clearing")
  /\ UNCHANGED <<remote, memory, disk, lookup, writer, told, late>>

CheckContext ==
  /\ process.phase = "opened"
  /\ Phase(IF Compatible THEN "listing" ELSE "clearing")
  /\ UNCHANGED <<remote, memory, disk, file, lookup, writer, told, late>>

ClearEntries ==
  /\ process.phase = "clearing"
  /\ disk' = {}
  /\ Phase("naming")
  /\ UNCHANGED <<remote, memory, file, lookup, writer, told, late>>

\* create_compat_file; the contexts that exist are equally long, so the new one covers
\* the old.
WriteContext ==
  /\ process.phase = "naming"
  /\ file' = {process.release}
  /\ Phase("listing")
  /\ UNCHANGED <<remote, memory, disk, lookup, writer, told, late>>

\* All objects there are go into the caches before anything else.
ListAtStart ==
  /\ process.phase = "listing"
  /\ Phase("running")
  /\ IF remote = 0
     THEN UNCHANGED <<memory, disk, told>>
     ELSE memory' = {remote} /\ disk' = OnDisk({remote}) /\ told' = remote
  /\ UNCHANGED <<remote, file, lookup, writer, late>>

\* The process ends anywhere, even while it writes the file.
Die ==
  /\ process.phase # "off"
  /\ Phase("off")
  /\ \/ UNCHANGED file
     \/ process.phase = "naming" /\ file' = {}
  /\ memory' = {} /\ lookup' = Idle /\ told' = Unheard /\ late' = FALSE
  /\ writer' = [w \in Writer |-> Idle]
  /\ UNCHANGED <<remote, disk>>

----------------------------------------------------------------------------
(* get_object *)

\* Nothing in memory: the disk is next, or the backend.
MissObject ==
  /\ Running /\ lookup = Idle /\ memory = {}
  /\ lookup' = [phase |-> IF process.backed THEN "disk" ELSE "backend", old |-> FALSE]
  /\ UNCHANGED <<remote, memory, disk, file, process, writer, told, late>>

Found(v, p) == lookup' = [phase |-> p, version |-> v, old |-> FALSE]

\* An entry that cannot be read is removed, and the lookup fails.
ReadDisk ==
  /\ lookup.phase = "disk"
  /\ \/ /\ disk = {}
        /\ lookup' = [lookup EXCEPT !.phase = "backend"]
        /\ UNCHANGED disk
     \/ \E e \in disk :
          IF e.broken THEN lookup' = Idle /\ disk' = {}
          ELSE Found(e.version, "found") /\ UNCHANGED disk
  /\ UNCHANGED <<remote, memory, file, process, writer, told, late>>

\* The object, or an error.
AskBackend ==
  /\ lookup.phase = "backend"
  /\ \/ lookup' = Idle
     \/ remote # 0 /\ Found(remote, "fill")
  /\ UNCHANGED <<remote, memory, disk, file, process, writer, told, late>>

FillDisk ==
  /\ lookup.phase = "fill"
  /\ disk' = OnDisk({lookup.version})
  /\ lookup' = [lookup EXCEPT !.phase = "found"]
  /\ late' = (late \/ lookup.old)
  /\ UNCHANGED <<remote, memory, file, process, writer, told>>

\* try_get_with caches what the retrieval has come to, whatever happened meanwhile.
FillMemory ==
  /\ lookup.phase = "found"
  /\ memory' = {lookup.version}
  /\ lookup' = Idle
  /\ late' = (late \/ lookup.old)
  /\ UNCHANGED <<remote, disk, file, process, writer, told>>

----------------------------------------------------------------------------
(* insert_object and invalidate_object *)

Busy(w) == writer[w] # Idle

\* The event loop has got the object's last change.
TakeEvent ==
  /\ Running /\ ~Busy("loop") /\ told # remote
  /\ writer' = [writer EXCEPT !["loop"] = [phase |-> "first", version |-> remote, old |-> FALSE]]
  /\ UNCHANGED <<remote, memory, disk, file, process, lookup, told, late>>

\* The backend has done what was asked: an update by an upload, or a delete.
OwnChange ==
  /\ Running /\ ~Busy("request")
  /\ Change
  /\ writer' = [writer EXCEPT !["request"] = [phase |-> "first", version |-> remote', old |-> FALSE]]
  /\ UNCHANGED <<memory, disk, file, process, lookup, told, late>>

OthersChange ==
  /\ Change
  /\ UNCHANGED <<memory, disk, file, process, lookup, writer, told, late>>

Versions(v) == IF v = 0 THEN {} ELSE {v}

\* From here on, what others have read before is out of date.
Outdated(x) == IF x.phase \in {"idle", "disk", "backend"} THEN x ELSE [x EXCEPT !.old = TRUE]

Outdate(w) ==
  /\ lookup' = Outdated(lookup)
  /\ writer' = [u \in Writer |-> IF u = w THEN [writer[u] EXCEPT !.phase = "second"]
                                 ELSE Outdated(writer[u])]

SetMemory(w) == memory' = Versions(writer[w].version) /\ UNCHANGED disk

SetDisk(w) == disk' = OnDisk(Versions(writer[w].version)) /\ UNCHANGED memory

\* The first half outdates what others hold, the second ends the change.
FirstHalf(w) ==
  /\ writer[w].phase = "first"
  /\ Outdate(w)
  /\ late' = writer[w].old
  /\ UNCHANGED <<remote, file, process, told>>

SecondHalf(w) ==
  /\ writer[w].phase = "second"
  /\ writer' = [writer EXCEPT ![w] = Idle]
  /\ told' = writer[w].version
  /\ late' = (late \/ writer[w].old)
  /\ UNCHANGED <<remote, file, process, lookup>>

\* Mutant of ChangeCaches: the memory first.
ChangeMemoryFirst(w) ==
  \/ FirstHalf(w) /\ SetMemory(w)
  \/ SecondHalf(w) /\ SetDisk(w)

ChangeCaches(w) ==
  \/ FirstHalf(w) /\ SetDisk(w)
  \/ SecondHalf(w) /\ SetMemory(w)

----------------------------------------------------------------------------
\* Evicted, or expired.
EvictMemory ==
  /\ memory # {} /\ memory' = {}
  /\ UNCHANGED <<remote, disk, file, process, lookup, writer, told, late>>

EvictDisk ==
  /\ disk # {} /\ disk' = {}
  /\ UNCHANGED <<remote, memory, file, process, lookup, writer, told, late>>

Break ==
  /\ \E e \in disk : disk' = {[e EXCEPT !.broken = TRUE]} /\ ~e.broken
  /\ UNCHANGED <<remote, memory, file, process, lookup, writer, told, late>>

ObjectsNext ==
  \/ Open \/ CheckContext \/ ClearEntries \/ WriteContext \/ ListAtStart \/ Die
  \/ MissObject \/ ReadDisk \/ AskBackend \/ FillDisk \/ FillMemory
  \/ TakeEvent \/ OwnChange \/ OthersChange
  \/ \E w \in Writer : ChangeCaches(w)
  \/ EvictMemory \/ EvictDisk \/ Break

ObjectsSpec == ObjectsInit /\ [][ObjectsNext]_cacheVars

----------------------------------------------------------------------------
\* No entry of another release is ever read: a crash between the clearing of the disk and
\* the naming of who uses it leaves a disk that is cleared again (disk_cache.rs:50).
EntriesAreOurs ==
  process.phase \in {"listing", "running"} => \A e \in disk : e.by = process.release

\* Once a change of the object is known here, neither cache has an older version: a lookup
\* beside an update or a delete cannot bring it back from the disk.  The exception is a value
\* that had been read before the change (metadata.rs:149).
OnlyLateValuesAreStale ==
  (Running /\ told = remote /\ ~late /\ (\A w \in Writer : ~Busy(w))) =>
    /\ memory \subseteq Versions(remote)
    /\ \A e \in disk : e.version = remote
=============================================================================
