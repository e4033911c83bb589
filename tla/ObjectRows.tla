------------------------------ MODULE ObjectRows ------------------------------
(***************************************************************************)
(* What a replica has rows for, while it writes, pushes and pulls: a       *)
(* content (chunk, blob, file or directory revision, commit) is named by a *)
(* hash, an object on the remote is one upload of a content.  A row is     *)
(* local, with its data, or synced, with the object that has it; it may be *)
(* made only when there are rows for what it refers to.  Beside the rows   *)
(* the replica keeps the objects it has seen, and a pull skips those.      *)
(*                                                                         *)
(* The config, attempts and sizes are in Sync; here a batch is any part of *)
(* the queue.  The count of errors of an object is left out: nothing reads *)
(* it (delete_gone_objects is not called).                                 *)
(***************************************************************************)
EXTENDS Naturals, Sequences, FiniteSets, SequencesExt

CONSTANTS
  Kind,       \* content -> "chunk", "blob", "file", "dir", "commit"
  Refs,       \* content -> the contents it refers to
  Own,        \* the commits written here; anything else may come from others as well
  MaxBatch,   \* items uploaded at once
  Windows,    \* how many objects a pull may work on at a time (max_concurrency)
  MaxFails,   \* bound: failures
  MaxMoves    \* bound: changes of the heads, writes included

Content == DOMAIN Kind

ASSUME RowsAssumption ==
  /\ DOMAIN Refs = Content /\ \A x \in Content : Refs[x] \subseteq Content \ {x}
  /\ Own \subseteq {x \in Content : Kind[x] = "commit"}
  /\ MaxBatch \in Nat \ {0} /\ Windows \subseteq Nat \ {0} /\ MaxFails \in Nat /\ MaxMoves \in Nat

VARIABLES
  conf,     \* its window (max_concurrency); is an object named by its content (renterd, mock),
            \* or anew at each upload (indexd)?
  remote,   \* the objects there are, [of, n]
  rows,     \* content -> Missing, Local, or the object of a synced row
  objects,  \* rows of table object
  heads,    \* the commits heads name
  task,     \* the sync task
  fails, moves

vars == <<conf, remote, rows, objects, heads, task, fails, moves>>

Missing == [row |-> "none"]
Local == [row |-> "L"]
Synced(o) == [row |-> "S", object |-> o]

HasRow(x) == rows[x] # Missing

\* x, and all it refers to.
Closure ==
  [x \in Content |-> {y \in Content :
     \A S \in SUBSET Content : x \in S /\ (\A z \in S : Refs[z] \subseteq S) => y \in S}]

Closures(X) == UNION {Closure[x] : x \in X}

\* A content has the hashes of those it refers to, so nothing refers to itself, directly or not;
\* a record has keys of these kinds (tables chunk_map, entity_references, commits).
ASSUME RefsAssumption ==
  /\ IsFiniteSet(Content) /\ \A x \in Content : x \notin Closures(Refs[x])
  /\ \A x \in Content : Kind[x] \in {"chunk", "blob", "file", "dir", "commit"}
  /\ \A x \in Content : \A y \in Refs[x] : <<Kind[x], Kind[y]>> \in
       {<<"blob", "chunk">>, <<"file", "blob">>, <<"dir", "file">>, <<"dir", "dir">>, <<"commit", "dir">>}

\* A local row lives as long as a head, a synced row or the push queue needs it.
Kept(r, h, queue) ==
  LET needed == Closures(h \cup queue \cup {x \in Content : r[x].row = "S"})
  IN  [x \in Content |-> IF r[x] = Local /\ x \notin needed THEN Missing ELSE r[x]]

Resting == [phase |-> "rest"]

Queue == IF task.phase = "push" THEN task.queue ELSE {}

Fails == fails < MaxFails /\ fails' = fails + 1

----------------------------------------------------------------------------
(* Writes here and elsewhere. *)

\* A transaction that commits: rows for all the commit refers to.
Write(m) ==
  /\ moves < MaxMoves /\ moves' = moves + 1
  /\ m \in Own /\ ~HasRow(m) /\ \A o \in remote : o.of # m
  /\ heads' = {m}
  /\ rows' = Kept([x \in Content |-> IF x \in Closure[m] /\ ~HasRow(x) THEN Local ELSE rows[x]], {m}, Queue)
  /\ UNCHANGED <<conf, remote, objects, task, fails>>

\* A head is moved by a pulled config, or deleted.
MoveHead(h) ==
  /\ moves < MaxMoves /\ moves' = moves + 1
  /\ h # heads /\ \A m \in h : HasRow(m)
  /\ heads' = h
  /\ rows' = Kept(rows, h, Queue)
  /\ UNCHANGED <<conf, remote, objects, task, fails>>

\* Another replica pushes, largest items first, whatever refers to what.
OthersUpload(x) ==
  /\ x \notin Own /\ [of |-> x, n |-> 0] \notin remote
  /\ remote' = remote \cup {[of |-> x, n |-> 0]}
  /\ UNCHANGED <<conf, rows, objects, heads, task, fails, moves>>

----------------------------------------------------------------------------
(* Push. *)

Pushable == {x \in Content : rows[x] = Local}

\* Mutant of StartPush: with nothing to push the sync is over.
StartPushOnly ==
  /\ task = Resting
  /\ task' = IF Pushable = {} THEN Resting
             ELSE [phase |-> "push", queue |-> Pushable, items |-> <<>>, up |-> <<>>]
  /\ UNCHANGED <<conf, remote, rows, objects, heads, fails, moves>>

StartPush ==
  /\ task = Resting
  /\ task' = IF Pushable = {} THEN [phase |-> "pulling"]
             ELSE [phase |-> "push", queue |-> Pushable, items |-> <<>>, up |-> <<>>]
  /\ UNCHANGED <<conf, remote, rows, objects, heads, fails, moves>>

NewObject(x) ==
  IF conf.named THEN [of |-> x, n |-> 0]
  ELSE [of |-> x, n |-> 1 + Cardinality({o \in remote : o.of = x /\ o.n # 0})]

\* Mutant of Uploaded: in an order of its own.
UploadedReversed(items) == [i \in DOMAIN items |-> NewObject(items[Len(items) + 1 - i])]

\* The uploader returns the objects in the order of their items.
Uploaded(items) == [i \in DOMAIN items |-> NewObject(items[i])]

Fits(batch) == batch # {} /\ Cardinality(batch) <= MaxBatch

\* Items are prepared (nothing becomes synced meanwhile, for the push holds the semaphore), marked
\* pending and uploaded.
Upload(batch) ==
  /\ task.phase = "push" /\ task.items = <<>>
  /\ Fits(batch)
  /\ LET items == SetToSeq(batch) IN
       /\ task' = [task EXCEPT !.items = items, !.up = Uploaded(items)]
       /\ remote' = remote \cup ToSet(Uploaded(items))
  /\ UNCHANGED <<conf, rows, objects, heads, fails, moves>>

\* What was uploaded of the batch stays on the remote; the queue is as before.
UploadFails(batch) ==
  /\ task.phase = "push" /\ task.items = <<>>
  /\ Fits(batch)
  /\ \E part \in SUBSET batch : remote' = remote \cup {NewObject(x) : x \in part}
  /\ Fails
  /\ UNCHANGED <<conf, rows, objects, heads, task, moves>>

\* process_chunk, process_blob, process_entity, process_commit for the items and the objects
\* the uploader returned, pair by pair, in one transaction.
Process ==
  /\ task.phase = "push" /\ task.items # <<>>
  /\ LET at(x) == CHOOSE i \in DOMAIN task.items : task.items[i] = x
         queue == task.queue \ ToSet(task.items)
         r == [x \in Content |-> IF x \in ToSet(task.items) THEN Synced(task.up[at(x)]) ELSE rows[x]]
     IN  /\ rows' = Kept(r, heads, queue)
         /\ objects' = objects \cup ToSet(task.up)
         /\ task' = [task EXCEPT !.queue = queue, !.items = <<>>, !.up = <<>>]
  /\ UNCHANGED <<conf, remote, heads, fails, moves>>

EndPush ==
  /\ task.phase = "push" /\ task.queue = {}
  /\ task' = [phase |-> "pulling"]
  /\ UNCHANGED <<conf, remote, rows, objects, heads, fails, moves>>

\* After too many attempts there is no pull either; or the process ends.
GiveUp ==
  /\ task # Resting /\ Fails
  /\ task' = Resting
  /\ rows' = Kept(rows, heads, {})
  /\ UNCHANGED <<conf, remote, objects, heads, moves>>

----------------------------------------------------------------------------
(* Pull. *)

\* How deep the listed directories below a directory go (sort_entities).
Depth(dirs) ==
  LET depth[d \in dirs] ==
        LET below == {depth[c] + 1 : c \in Refs[d] \cap dirs}
        IN  IF below = {} THEN 0 ELSE CHOOSE m \in below : \A n \in below : n <= m
  IN  [d \in dirs |-> depth[d]]

\* Every directory there is is downloaded first; if one cannot be, GiveUp.
StartPull ==
  /\ task.phase = "pulling"
  /\ task' = LET listed == {o.of : o \in remote} IN
       [phase |-> "pull", listed |-> listed, todo |-> remote,
        depth |-> Depth({x \in listed : Kind[x] = "dir"})]
  /\ UNCHANGED <<conf, remote, rows, objects, heads, fails, moves>>

Group(x) ==
  CASE Kind[x] = "chunk" -> 1
    [] Kind[x] = "blob" -> 2
    [] Kind[x] \in {"file", "dir"} -> 3
    [] Kind[x] = "commit" -> 4

\* Mutant of Before: entities in the order of the listing, any.
BeforeUnsorted(x, y) == Group(x) < Group(y)

Before(x, y) ==
  \/ Group(x) < Group(y)
  \/ /\ Group(x) = Group(y) /\ Kind[y] = "dir"
     /\ Kind[x] = "file" \/ (Kind[x] = "dir" /\ task.depth[x] < task.depth[y])

\* One kind after the other, and of a kind as many at a time as the window has room for.
InWork(o) ==
  /\ task.phase = "pull" /\ o \in task.todo
  /\ \A p \in task.todo : Group(p.of) >= Group(o.of)
  /\ Cardinality({p \in task.todo : Before(p.of, o.of)}) < conf.window

Done(o) == task' = [task EXCEPT !.todo = @ \ {o}]

Seen(o) ==
  /\ InWork(o) /\ o \in objects
  /\ Done(o)
  /\ UNCHANGED <<conf, remote, rows, objects, heads, fails, moves>>

\* A synced chunk or entity stays what it is, whichever other object has it too;
SyncedStays(x) == rows[x].row = "S" /\ Kind[x] \in {"chunk", "file", "dir"}

\* a synced blob or commit is told to change, which a trigger aborts.
SyncedAborts(x) == rows[x].row = "S" /\ Kind[x] \in {"blob", "commit"}

\* No row may refer to what has none.
RefsHaveRows(x) == \A y \in Refs[x] : HasRow(y)

Registrable(x) == ~SyncedAborts(x) /\ (rows[x] = Missing => RefsHaveRows(x))

Register(o) ==
  /\ InWork(o) /\ o \notin objects /\ Registrable(o.of)
  /\ objects' = objects \cup {o}
  /\ rows' = IF SyncedStays(o.of) THEN rows ELSE [rows EXCEPT ![o.of] = Synced(o)]
  /\ Done(o)
  /\ UNCHANGED <<conf, remote, heads, fails, moves>>

\* Mutant of Refused: the object counts as seen.
RefusedSeen(o) ==
  /\ InWork(o) /\ o \notin objects /\ ~Registrable(o.of)
  /\ objects' = objects \cup {o}
  /\ Done(o)
  /\ UNCHANGED <<conf, remote, rows, heads, fails, moves>>

\* The transaction is rolled back: the object is new again at the next pull.
Refused(o) ==
  /\ InWork(o) /\ o \notin objects /\ ~Registrable(o.of)
  /\ Done(o)
  /\ UNCHANGED <<conf, remote, rows, objects, heads, fails, moves>>

DownloadFails(o) ==
  /\ InWork(o) /\ o \notin objects /\ Kind[o.of] # "chunk" /\ Fails
  /\ Done(o)
  /\ UNCHANGED <<conf, remote, rows, objects, heads, moves>>

EndPull ==
  /\ task.phase = "pull" /\ task.todo = {}
  /\ task' = Resting
  /\ UNCHANGED <<conf, remote, rows, objects, heads, fails, moves>>

----------------------------------------------------------------------------

Init ==
  /\ conf \in [window : Windows, named : BOOLEAN]
  /\ remote = {} /\ objects = {} /\ heads = {}
  /\ rows = [x \in Content |-> Missing]
  /\ task = Resting
  /\ fails = 0 /\ moves = 0

Pull == \E o \in remote : Seen(o) \/ Register(o) \/ Refused(o)

Sync ==
  \/ StartPush \/ (\E batch \in SUBSET Queue : Upload(batch)) \/ Process \/ EndPush
  \/ StartPull \/ Pull \/ EndPull

Next ==
  \/ \E m \in Own : Write(m)
  \/ \E h \in SUBSET {x \in Content : Kind[x] = "commit"} : MoveHead(h)
  \/ \E x \in Content : OthersUpload(x)
  \/ Sync
  \/ GiveUp \/ \E batch \in SUBSET Queue : UploadFails(batch)
  \/ \E o \in remote : DownloadFails(o)

Spec == Init /\ [][Next]_vars

\* The sync task runs again and again (Syncer).
FairSpec == Spec /\ WF_vars(Sync)

----------------------------------------------------------------------------
(* Properties. *)

\* An object that counts as seen has given its content a row, and no row is made for nothing: the
\* pull skips what it has seen, so a row lost once would stay lost (pull.rs:95).
SeenIsRegistered ==
  /\ \A o \in objects : HasRow(o.of)
  /\ \A x \in Content : HasRow(x) => RefsHaveRows(x)

\* The data of a local row is dropped only for an object that has it, whatever attempts, failed
\* batches and uploads by others come before (push.rs:183, zip of items and objects).
SyncedIsItself ==
  \A x \in Content : rows[x].row = "S" =>
    rows[x].object \in remote \cap objects /\ rows[x].object.of = x

\* In the end all that is whole on the remote is synced here, whatever order it came in, was pulled
\* in, and failed or was refused before (pull.rs:78; README.md:17, "to stay in sync").
PullsAll ==
  <>[](\A x \in Content : Closure[x] \subseteq {o.of : o \in remote} => rows[x].row = "S")

\* A pull that works on one object at a time, and that nothing fails, has in the end everything
\* that was whole when it began: chunks, blobs, entities and commits in this order, and directories
\* below others first (pull.rs:32, entity.rs:745).
OnePullIsEnough ==
  (conf.window = 1 /\ fails = 0 /\ task.phase = "pull" /\ task.todo = {}) =>
    \A x \in task.listed : Closure[x] \subseteq task.listed => HasRow(x)

=============================================================================
