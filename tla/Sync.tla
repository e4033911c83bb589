-------------------------------- MODULE Sync --------------------------------
(***************************************************************************)
(* The synchronization of a volume with its remote (janus-vfs/src/sync).   *)
(* Several replicas, each a database and the process that serves a branch  *)
(* from it, commit locally; now and then each pushes what it has and then  *)
(* pulls what there is.  The remote keeps objects by id and a growing set  *)
(* of configs, each naming the commit of every head; the newest counts.    *)
(*                                                                         *)
(* Every write transaction adds one file, named by its time, so a commit is*)
(* the set of the files in it.  A file stands for the entities, blobs and  *)
(* chunks that commits share, a commit for the directories it writes anew, *)
(* too.  Times are the ticks of one clock.                                 *)
(***************************************************************************)
EXTENDS Naturals, FiniteSets

CONSTANTS
  Replica, Branch,
  Serves,        \* the branch a replica serves
  MaxAttempts,   \* max_sync_attempts
  MaxBatch,      \* the room of an uploader
  MaxTime,       \* bound: writes, and heads created or deleted
  MaxEvents      \* bound: these, failed uploads and crashes

ASSUME SyncAssumption ==
  /\ Serves \in [Replica -> Branch]
  /\ MaxAttempts \in Nat \ {0} /\ MaxBatch \in Nat \ {0}
  /\ MaxTime \in Nat /\ MaxEvents \in Nat

VARIABLES
  clock,
  faults,   \* failed uploads and crashes so far
  db,       \* db[r]: the rows of replica r, and the queue of its push job
  task,     \* task[r]: where the sync task of r is
  remote    \* [objects, configs]

vars == <<clock, faults, db, task, remote>>

----------------------------------------------------------------------------
(* Objects and configs. *)

Commit == SUBSET (0 .. MaxTime)

Object == [kind : {"file", "commit"}, of : Commit]

Files(c) == {[kind |-> "file", of |-> {n}] : n \in c}
Commits(C) == {[kind |-> "commit", of |-> c] : c \in C}

Config(heads, time) == [kind |-> "config", heads |-> heads, time |-> time]

Values(f) == {f[x] : x \in DOMAIN f}

\* The foreign keys: what must be there before an object or a config can be.
Needs(o) ==
  CASE o.kind = "file"   -> {}
    [] o.kind = "commit" -> Files(o.of)
    [] o.kind = "config" -> Commits(Values(o.heads))

\* All that the heads' commits are made of.
Closure(heads) == Commits(Values(heads)) \cup Files(UNION Values(heads))

----------------------------------------------------------------------------
(* A replica's database. *)

Rows(d) == d.local \cup d.synced

CurrentConfig(d) == Config(d.heads, d.time)

\* Rows with a reference: by a head, by the queue, or by a row that needs them.
Referenced(d) ==
  LET Held == (d.queue \cap Object) \cup d.synced \cup Commits(Values(d.heads))
  IN  Held \cup UNION {Needs(o) : o \in Held}

\* Mutant of Collect: a commit that is replaced takes its file along.
CollectCommit(d) ==
  [d EXCEPT !.local = @ \cap (d.queue \cup Files({d.time}) \cup Commits(Values(d.heads)))]

\* The triggers: a local row without a reference goes.
Collect(d) == [d EXCEPT !.local = @ \cap Referenced(d)]

\* clear_sync_job
Cleared(d) == Collect([d EXCEPT !.queue = {}, !.pending = {}])

\* The rows of a set of uploaded objects and configs name what is on the remote; the
\* config does only if it has not changed since it was queued.
Synced(d, X) ==
  [d EXCEPT !.local = @ \ X, !.synced = @ \cup (X \cap Object),
            !.seen = @ \cup (X \ Object),
            !.mode = IF CurrentConfig(d) \in X THEN "synced" ELSE @]

Resting == [phase |-> "idle", attempt |-> 0, batch |-> {}, todo |-> {}]

TypeOK ==
  /\ clock \in 0 .. MaxTime /\ faults \in 0 .. MaxEvents
  /\ remote.objects \subseteq Object
  /\ \A r \in Replica :
       /\ Rows(db[r]) \subseteq Object /\ db[r].local \cap db[r].synced = {}
       /\ DOMAIN db[r].heads \subseteq Branch /\ Serves[r] \in DOMAIN db[r].heads
       /\ db[r].time \in 0 .. clock /\ db[r].mode \in {"local", "synced"}
       /\ db[r].pending \subseteq db[r].queue /\ task[r].batch \subseteq db[r].pending
       /\ task[r].phase \in {"idle", "push", "upload", "uploaded", "pull"}
       /\ task[r].attempt \in 0 .. MaxAttempts - 1

\* Every replica has opened the volume that create_new left on the remote: its
\* first pull is over.
Init ==
  LET heads == [b \in {Serves[r] : r \in Replica} |-> {0}]
  IN  /\ clock = 0 /\ faults = 0
      /\ remote = [objects |-> Closure(heads), configs |-> {Config(heads, 0)}]
      /\ db = [r \in Replica |->
           [local |-> {}, synced |-> Closure(heads), heads |-> heads, time |-> 0,
            mode |-> "synced", queue |-> {}, pending |-> {}, seen |-> {Config(heads, 0)}]]
      /\ task = [r \in Replica |-> [Resting EXCEPT !.phase = "pull"]]

Tick ==
  /\ clock < MaxTime /\ clock + faults < MaxEvents
  /\ clock' = clock + 1
  /\ UNCHANGED faults

Fault ==
  /\ clock + faults < MaxEvents
  /\ faults' = faults + 1
  /\ UNCHANGED clock

----------------------------------------------------------------------------
(* Writing, beside whatever the sync task does. *)

\* A write transaction: the branch's commit and the config are made anew.
Write(r) ==
  LET c == db[r].heads[Serves[r]] \cup {clock'}
      d == [db[r] EXCEPT !.local = @ \cup Files({clock'}) \cup Commits({c}),
                         !.heads[Serves[r]] = c, !.time = clock', !.mode = "local"]
  IN  /\ Tick
      /\ db' = [db EXCEPT ![r] = Collect(d)]
      /\ UNCHANGED <<task, remote>>

\* The command line scans the remote for the newest config, and uploads one with
\* another head or without one.  The scan was some time ago, and ends where the
\* listing breaks off, so it can be any config.  A branch that is served is not
\* deleted.
ReplaceConfig(heads) ==
  /\ Tick
  /\ remote' = [remote EXCEPT !.configs = @ \cup {Config(heads, clock')}]
  /\ UNCHANGED <<db, task>>

CreateHead(b) ==
  \E k \in remote.configs :
    /\ b \notin DOMAIN k.heads
    /\ \E c \in Values(k.heads) :
         ReplaceConfig([x \in DOMAIN k.heads \cup {b} |-> IF x = b THEN c ELSE k.heads[x]])

DeleteHead(b) ==
  \E k \in remote.configs :
    /\ b \in DOMAIN k.heads /\ \A r \in Replica : Serves[r] # b
    /\ ReplaceConfig([x \in DOMAIN k.heads \ {b} |-> k.heads[x]])

----------------------------------------------------------------------------
(* The push task. *)

In(r, phase) == task[r].phase = phase

AtRest(r) == In(r, "idle") \/ (In(r, "pull") /\ task[r].todo = {})

\* The phase of the task of r, with nothing in its hands.
Enter(r, phase) == task' = [task EXCEPT ![r] = [Resting EXCEPT !.phase = phase]]

\* The job of an earlier push is cleared, and every local row is queued.
StartPush(r) ==
  LET d == Cleared(db[r])
      queue == d.local \cup (IF d.mode = "local" THEN {CurrentConfig(d)} ELSE {})
  IN  /\ AtRest(r)
      /\ db' = [db EXCEPT ![r] = [d EXCEPT !.queue = queue]]
      /\ Enter(r, "push")
      /\ UNCHANGED <<clock, faults, remote>>

\* Items are taken by size, as many as the uploader has room for; the sizes and
\* the room are left open.
Fill(r) ==
  /\ In(r, "push")
  /\ \E B \in SUBSET (db[r].queue \ db[r].pending) \ {{}} :
       /\ Cardinality(B) <= MaxBatch
       /\ db' = [db EXCEPT ![r].pending = @ \cup B]
       /\ task' = [task EXCEPT ![r].phase = "upload", ![r].batch = B]
  /\ UNCHANGED <<clock, faults, remote>>

Stored(X) ==
  [objects |-> remote.objects \cup (X \cap Object), configs |-> remote.configs \cup (X \ Object)]

Upload(r) ==
  /\ In(r, "upload")
  /\ remote' = Stored(task[r].batch)
  /\ task' = [task EXCEPT ![r].phase = "uploaded"]
  /\ UNCHANGED <<clock, faults, db>>

GivesUp(r) == task[r].attempt + 1 >= MaxAttempts

\* Mutants of UploadFails: an upload that broke off is taken for one that did
\* not; the items taken stay pending.
UploadBreaksOff(r) ==
  /\ In(r, "upload")
  /\ \E S \in SUBSET task[r].batch : remote' = Stored(S)
  /\ task' = [task EXCEPT ![r].phase = "uploaded"]
  /\ UNCHANGED <<clock, faults, db>>

UploadFailsPending(r) ==
  /\ In(r, "upload")
  /\ Fault
  /\ \E S \in SUBSET task[r].batch : remote' = Stored(S)
  /\ IF GivesUp(r)
     THEN /\ db' = [db EXCEPT ![r] = Cleared(@)]
          /\ Enter(r, "idle")
     ELSE /\ task' = [task EXCEPT ![r] = [Resting EXCEPT !.phase = "push", !.attempt = task[r].attempt + 1]]
          /\ UNCHANGED db

\* Some of the batch may have arrived, even all of it.  After max_attempts the
\* push is given up, and the pull left out.
UploadFails(r) ==
  /\ In(r, "upload")
  /\ Fault
  /\ \E S \in SUBSET task[r].batch : remote' = Stored(S)
  /\ IF GivesUp(r)
     THEN /\ db' = [db EXCEPT ![r] = Cleared(@)]
          /\ Enter(r, "idle")
     ELSE /\ db' = [db EXCEPT ![r].pending = {}]
          /\ task' = [task EXCEPT ![r] = [Resting EXCEPT !.phase = "push", !.attempt = task[r].attempt + 1]]

\* process_chunk .. process_config, in one transaction.
Mark(r) ==
  LET B == task[r].batch
      d == Synced(db[r], B)
  IN  /\ In(r, "uploaded")
      /\ db' = [db EXCEPT ![r] = Collect([d EXCEPT !.queue = @ \ B, !.pending = @ \ B])]
      /\ task' = [task EXCEPT ![r].phase = "push", ![r].batch = {}]
      /\ UNCHANGED <<clock, faults, remote>>

\* What the remote lists and there is no object row for.
Unseen(d) == (remote.objects \ d.synced) \cup (remote.configs \ d.seen)

\* The job is cleared, and the pull task lists the remote.
EndPush(r) ==
  /\ In(r, "push") /\ db[r].queue \subseteq db[r].pending
  /\ db' = [db EXCEPT ![r] = Cleared(@)]
  /\ task' = [task EXCEPT ![r] = [Resting EXCEPT !.phase = "pull", !.todo = Unseen(db[r])]]
  /\ UNCHANGED <<clock, faults, remote>>

----------------------------------------------------------------------------
(* The pull task. *)

\* Objects before what needs them; configs in any order.
Due(r, o) ==
  CASE o.kind = "file"   -> TRUE
    [] o.kind = "commit" -> \A x \in task[r].todo : x.kind # "file"
    [] o.kind = "config" -> \A x \in task[r].todo : x.kind = "config"

\* Mutant of IsNewer: a config is taken as it comes.
IsOther(d, k) == k # CurrentConfig(d)

\* maybe_set_config
IsNewer(d, k) == k.time > d.time

\* set_config
SetConfig(d, k) == [d EXCEPT !.heads = k.heads, !.time = k.time, !.mode = "synced"]

Refused(r, o) ==
  \/ o.kind # "config" /\ ~(Needs(o) \subseteq Rows(db[r]))
  \/ /\ o.kind = "config" /\ IsNewer(db[r], o)
     /\ ~(Needs(o) \subseteq Rows(db[r])) \/ Serves[r] \notin DOMAIN o.heads

\* An object or config that is there and is not refused gets its object row; a config
\* that is not newer gets no more.
Pulled(r, o) ==
  IF o.kind = "config"
  THEN LET d == [db[r] EXCEPT !.seen = @ \cup {o}]
       IN  IF IsNewer(d, o) THEN Collect(SetConfig(d, o)) ELSE d
  ELSE Synced(db[r], {o})

Pull(r) ==
  /\ In(r, "pull")
  /\ \E o \in task[r].todo :
       /\ Due(r, o)
       /\ ~Refused(r, o)
       /\ db' = [db EXCEPT ![r] = Pulled(r, o)]
       /\ task' = [task EXCEPT ![r].todo = @ \ {o}]
  /\ UNCHANGED <<clock, faults, remote>>

\* Refused, or not downloaded: left to the next pull.
PullFails(r) ==
  /\ In(r, "pull")
  /\ \E o \in task[r].todo :
       /\ Due(r, o)
       /\ task' = [task EXCEPT ![r].todo = @ \ {o}]
  /\ UNCHANGED <<clock, faults, db, remote>>

----------------------------------------------------------------------------
\* The process dies at any step; the job it leaves is in the database.
Crash(r) ==
  /\ ~AtRest(r)
  /\ Fault
  /\ Enter(r, "idle")
  /\ UNCHANGED <<db, remote>>

TaskStep(r) ==
  \/ StartPush(r) \/ Fill(r) \/ Upload(r) \/ UploadFails(r) \/ Mark(r) \/ EndPush(r)
  \/ Pull(r) \/ PullFails(r)

Next ==
  \/ \E r \in Replica : TaskStep(r) \/ Write(r) \/ Crash(r)
  \/ \E b \in Branch : CreateHead(b) \/ DeleteHead(b)

Spec == Init /\ [][Next]_vars

\* The sync task goes round and round; an upload or a download that is tried again and
\* again succeeds at last.
FairSpec ==
  /\ Spec
  /\ \A r \in Replica : WF_vars(TaskStep(r)) /\ SF_vars(Upload(r)) /\ SF_vars(Pull(r))

-----------------------------------------------------------------------------
\* All that a replica's heads name is in its database, whatever the triggers
\* collected and in whatever order the pull came by it (migrations:52, 166).
HeadsAreBacked == \A r \in Replica : Closure(db[r].heads) \subseteq Rows(db[r])

\* A row that says so really is on the remote, for its local data is gone
\* (push.rs:183-205).
SyncedIsStored ==
  \A r \in Replica :
    /\ db[r].synced \subseteq remote.objects
    /\ db[r].mode = "synced" => CurrentConfig(db[r]) \in remote.configs

\* A push that was not interrupted by writes has brought the remote all that
\* its config names; retries, crashes and commits replaced meanwhile included
\* (push.rs:102, 152).
PushedIsPublished ==
  \A r \in Replica :
    (In(r, "pull") /\ db[r].mode = "synced") => Closure(db[r].heads) \subseteq remote.objects

\* When nobody writes any more, all replicas come to have the same heads
\* (README.md:17, "to stay in sync with remote storage").
Converges == <>[](\A q, r \in Replica : db[q].heads = db[r].heads)

=============================================================================
