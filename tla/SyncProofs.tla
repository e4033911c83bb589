------------------------------ MODULE SyncProofs ------------------------------
(***************************************************************************)
(* Why a replica's heads name only what it has, why what it counts as      *)
(* synced is on the remote, and why a push brings the remote all that its  *)
(* config names, for any replicas, branches, batches, failures and crashes.*)
(***************************************************************************)
EXTENDS Sync, TLAPS

USE SyncAssumption

HeadMaps == UNION {[B -> Commit] : B \in SUBSET Branch}

Configs == [kind : {"config"}, heads : HeadMaps, time : Nat]

Items == Object \cup Configs

Database == [local : SUBSET Object, synced : SUBSET Object, heads : HeadMaps, time : Nat,
             mode : {"local", "synced"}, queue : SUBSET Items, pending : SUBSET Items,
             seen : SUBSET Configs]

Tasks == [phase : {"idle", "push", "upload", "uploaded", "pull"}, attempt : Nat,
          batch : SUBSET Items, todo : SUBSET Items]

Remotes == [objects : SUBSET Object, configs : SUBSET Configs]

\* The foreign keys of a replica's rows, of its queue and of its heads.
RowsNeed(d) == \A o \in Rows(d) : Needs(o) \subseteq Rows(d)

RowsOK(d) ==
  /\ RowsNeed(d)
  /\ d.queue \cap Object \subseteq Rows(d)
  /\ Commits(Values(d.heads)) \subseteq Rows(d)

\* What a database calls synced, the remote R has.
Backed(d, R) ==
  /\ d.synced \subseteq R.objects
  /\ d.mode = "synced" => CurrentConfig(d) \in R.configs

On(X, R) == X \subseteq R.objects \cup R.configs

\* What the sync task has in its hands: a batch out of the queue, on the remote when it is
\* uploaded, or a listing of the remote.
TaskOK(t, d, R) ==
  /\ t.batch \subseteq d.queue
  /\ t.phase \notin {"upload", "uploaded"} => t.batch = {}
  /\ t.phase = "uploaded" => On(t.batch, R)
  /\ On(t.todo, R)

Good(r, d, t, R) ==
  /\ d \in Database /\ t \in Tasks
  /\ Serves[r] \in DOMAIN d.heads
  /\ RowsOK(d) /\ Backed(d, R) /\ TaskOK(t, d, R)

IInv ==
  /\ clock \in Nat /\ remote \in Remotes
  /\ db \in [Replica -> Database] /\ task \in [Replica -> Tasks]
  /\ \A r \in Replica : Good(r, db[r], task[r], remote)

\* Objects are not configs.
LEMMA KindsDiffer ==
  /\ \A o \in Object : o.kind \in {"file", "commit"}
  /\ \A k \in Configs : k.kind = "config" /\ k \notin Object
  /\ \A k \in Configs : Config(k.heads, k.time) = k
BY DEF Object, Configs, Config

LEMMA CurrentIsConfig ==
  ASSUME NEW d \in Database
  PROVE  CurrentConfig(d) \in Configs
BY DEF Database, CurrentConfig, Config, Configs

\* Commits need files, files need nothing.
LEMMA NeedsAreObjects ==
  ASSUME NEW o \in Object
  PROVE  /\ Needs(o) \subseteq Object
         /\ \A x \in Needs(o) : Needs(x) = {}
<1>1. CASE o.kind = "file"
  BY <1>1 DEF Needs
<1>2. CASE o.kind = "commit"
  <2>1. Needs(o) = Files(o.of) /\ o.of \in Commit
    BY <1>2 DEF Needs, Object
  <2>2. \A x \in Files(o.of) : x \in Object /\ x.kind = "file"
    BY <2>1 DEF Files, Object, Commit
  <2> QED BY <2>1, <2>2 DEF Needs
<1> QED BY <1>1, <1>2, KindsDiffer

LEMMA NeedsOf ==
  /\ \A n : \A x \in Files({n}) : Needs(x) = {}
  /\ \A c : \A x \in Commits({c}) : Needs(x) = Files(c)
<1>1. ASSUME NEW n, NEW x \in Files({n}) PROVE Needs(x) = {}
  <2>1. x.kind = "file"
    BY DEF Files
  <2> QED BY <2>1 DEF Needs
<1>2. ASSUME NEW c, NEW x \in Commits({c}) PROVE Needs(x) = Files(c)
  <2>1. x.kind = "commit" /\ x.of = c
    BY DEF Commits
  <2> QED BY <2>1 DEF Needs
<1> QED BY <1>1, <1>2

LEMMA HeadCommits ==
  ASSUME NEW h \in HeadMaps
  PROVE  Values(h) \subseteq Commit /\ Commits(Values(h)) \subseteq Object
BY DEF HeadMaps, Values, Commits, Object

\* A collection drops no row that a row, the queue or a head still needs (migrations:151).
LEMMA CollectKeeps ==
  ASSUME NEW d \in Database, RowsOK(d)
  PROVE  /\ Collect(d) \in Database /\ RowsOK(Collect(d))
         /\ Collect(d).synced = d.synced /\ Collect(d).heads = d.heads /\ Collect(d).time = d.time
         /\ Collect(d).mode = d.mode /\ Collect(d).queue = d.queue /\ Collect(d).pending = d.pending
         /\ Collect(d).seen = d.seen
<1> DEFINE c == Collect(d)
           Held == (d.queue \cap Object) \cup d.synced \cup Commits(Values(d.heads))
<1>1. c = [d EXCEPT !.local = d.local \cap Referenced(d)]
  BY DEF Collect
<1>2. /\ c \in Database
      /\ c.local = d.local \cap Referenced(d)
      /\ c.synced = d.synced /\ c.heads = d.heads /\ c.time = d.time
      /\ c.mode = d.mode /\ c.queue = d.queue /\ c.pending = d.pending
      /\ c.seen = d.seen
  BY <1>1 DEF Database
<1>3. Referenced(d) = Held \cup UNION {Needs(o) : o \in Held}
  BY DEF Referenced
<1>4. Rows(c) = d.synced \cup (d.local \cap Referenced(d))
  BY <1>2 DEF Rows
<1>5. Held \subseteq Rows(d) /\ Held \subseteq Object
  BY HeadCommits DEF RowsOK, Rows, Database
<1>6. \A o \in Held : o \in Rows(c) /\ Needs(o) \subseteq Rows(c)
  BY <1>3, <1>4, <1>5 DEF RowsOK, RowsNeed, Rows
<1>7. ASSUME NEW o \in Rows(c) PROVE Needs(o) \subseteq Rows(c)
  <2>1. CASE o \in Held
    BY <2>1, <1>6
  <2>2. CASE o \notin Held
    <3>1. PICK x \in Held : o \in Needs(x)
      BY <2>2, <1>3, <1>4, <1>7
    <3> QED BY <3>1, <1>5, NeedsAreObjects
  <2> QED BY <2>1, <2>2
<1>8. RowsOK(c)
  BY <1>2, <1>6, <1>7 DEF RowsOK, RowsNeed
<1> HIDE DEF c
<1> QED BY <1>2, <1>8 DEF c

\* Clearing a job takes its references, nothing else (push.rs:319).
LEMMA ClearedKeeps ==
  ASSUME NEW d \in Database, RowsOK(d)
  PROVE  /\ Cleared(d) \in Database /\ RowsOK(Cleared(d))
         /\ Cleared(d).synced = d.synced /\ Cleared(d).heads = d.heads /\ Cleared(d).time = d.time
         /\ Cleared(d).mode = d.mode /\ Cleared(d).queue = {}
<1> DEFINE e == [d EXCEPT !.queue = {}, !.pending = {}]
<1>1. /\ e \in Database
      /\ e.local = d.local /\ e.synced = d.synced /\ e.heads = d.heads /\ e.time = d.time
      /\ e.mode = d.mode /\ e.queue = {}
  BY DEF Database
<1>2. RowsOK(e)
  BY <1>1 DEF RowsOK, RowsNeed, Rows
<1>3. Cleared(d) = Collect(e)
  BY DEF Cleared
<1> HIDE DEF e
<1> QED BY <1>1, <1>2, <1>3, CollectKeeps

\* Rows that come to be synced are rows with all they need; the mode says so only if the
\* current config is among what was stored.
LEMMA SyncedKeeps ==
  ASSUME NEW d \in Database, RowsOK(d), NEW X \in SUBSET Items,
         \A o \in X \cap Object : Needs(o) \subseteq Rows(d)
  PROVE  /\ Synced(d, X) \in Database /\ RowsOK(Synced(d, X))
         /\ Synced(d, X).synced = d.synced \cup (X \cap Object)
         /\ Synced(d, X).heads = d.heads /\ Synced(d, X).time = d.time
         /\ Synced(d, X).queue = d.queue
         /\ Synced(d, X).mode = d.mode \/ CurrentConfig(d) \in X
<1> DEFINE s == Synced(d, X)
<1>1. s = [d EXCEPT !.local = d.local \ X, !.synced = d.synced \cup (X \cap Object),
                    !.seen = d.seen \cup (X \ Object),
                    !.mode = IF CurrentConfig(d) \in X THEN "synced" ELSE d.mode]
  BY DEF Synced
<1>2. /\ s \in Database
      /\ s.local = d.local \ X /\ s.synced = d.synced \cup (X \cap Object)
      /\ s.heads = d.heads /\ s.time = d.time /\ s.queue = d.queue
      /\ s.mode = d.mode \/ CurrentConfig(d) \in X
  <2> DEFINE L == d.local \ X
             Y == d.synced \cup (X \cap Object)
             C == d.seen \cup (X \ Object)
             m == IF CurrentConfig(d) \in X THEN "synced" ELSE d.mode
  <2>1. L \in SUBSET Object /\ Y \in SUBSET Object
    BY DEF Database
  <2>2. C \in SUBSET Configs
    BY DEF Database, Items
  <2>3. m \in {"local", "synced"} /\ (m = d.mode \/ CurrentConfig(d) \in X)
    BY DEF Database
  <2>4. s = [d EXCEPT !.local = L, !.synced = Y, !.seen = C, !.mode = m]
    BY <1>1
  <2> HIDE DEF s, L, Y, C, m
  <2>5. s \in Database
    BY <2>1, <2>2, <2>3, <2>4 DEF Database
  <2>6. /\ s.local = L /\ s.synced = Y /\ s.mode = m
        /\ s.heads = d.heads /\ s.time = d.time /\ s.queue = d.queue
    BY <2>4 DEF Database
  <2> QED BY <2>3, <2>5, <2>6 DEF L, Y
<1>3. Rows(d) \subseteq Rows(s) /\ Rows(s) \subseteq Rows(d) \cup (X \cap Object)
  BY <1>2 DEF Rows, Database
<1>4. RowsOK(s)
  BY <1>2, <1>3 DEF RowsOK, RowsNeed
<1> HIDE DEF s
<1> QED BY <1>2, <1>4 DEF s

\* Nothing is deleted from the remote: what others bring takes nothing from a replica.
LEMMA MoreIsGood ==
  ASSUME NEW r \in Replica, NEW d, NEW t, NEW R, NEW S, Good(r, d, t, R),
         R.objects \subseteq S.objects, R.configs \subseteq S.configs
  PROVE  Good(r, d, t, S)
BY DEF Good, Backed, TaskOK, On

\* A step of one replica, if it leaves that replica's part good.
LEMMA OneReplica ==
  ASSUME IInv, NEW r \in Replica, clock' \in Nat, remote' \in Remotes,
         remote.objects \subseteq remote'.objects, remote.configs \subseteq remote'.configs,
         db' = [db EXCEPT ![r] = db'[r]], task' = [task EXCEPT ![r] = task'[r]],
         Good(r, db'[r], task'[r], remote')
  PROVE  IInv'
<1>1. ASSUME NEW s \in Replica PROVE Good(s, db'[s], task'[s], remote')
  <2>1. CASE s = r
    BY <2>1 DEF IInv
  <2>2. CASE s # r
    BY <2>2, MoreIsGood DEF IInv
  <2> QED BY <2>1, <2>2
<1>2. db' \in [Replica -> Database] /\ task' \in [Replica -> Tasks]
  BY DEF IInv, Good
<1> QED BY <1>1, <1>2 DEF IInv

LEMMA RestIsGood ==
  ASSUME NEW ph \in {"idle", "push", "pull"}, NEW n \in Nat, NEW X \in SUBSET Items
  PROVE  LET t == [phase |-> ph, attempt |-> n, batch |-> {}, todo |-> X]
         IN  /\ t \in Tasks /\ t.todo = X
             /\ \A d, R : On(X, R) => TaskOK(t, d, R)
BY DEF Tasks, TaskOK, On

LEMMA EnterIsRest ==
  ASSUME NEW ph
  PROVE  [Resting EXCEPT !.phase = ph] = [phase |-> ph, attempt |-> 0, batch |-> {}, todo |-> {}]
BY DEF Resting

\* The volume as create_new left it, opened by all.
LEMMA InitInv == Init => IInv
<1> SUFFICES ASSUME Init PROVE IInv
  OBVIOUS
<1> DEFINE heads == [b \in {Serves[r] : r \in Replica} |-> {0}]
           R == [objects |-> Closure(heads), configs |-> {Config(heads, 0)}]
           d == [local |-> {}, synced |-> Closure(heads), heads |-> heads, time |-> 0,
                 mode |-> "synced", queue |-> {}, pending |-> {}, seen |-> {Config(heads, 0)}]
           t == [phase |-> "pull", attempt |-> 0, batch |-> {}, todo |-> {}]
<1>1. heads \in HeadMaps /\ \A r \in Replica : Serves[r] \in DOMAIN heads
  <2>1. {0} \in Commit
    BY DEF Commit
  <2>2. heads \in [{Serves[r] : r \in Replica} -> Commit] /\ DOMAIN heads = {Serves[r] : r \in Replica}
    BY <2>1
  <2>3. {Serves[r] : r \in Replica} \in SUBSET Branch
    OBVIOUS
  <2> HIDE DEF heads
  <2> QED BY <2>2, <2>3 DEF HeadMaps
<1>2. Values(heads) \subseteq {{0}}
  BY DEF Values
<1>3. Closure(heads) \subseteq Object
  <2>1. Commits({{0}}) \subseteq Object /\ Files({0}) \subseteq Object
    BY DEF Commits, Files, Object, Commit
  <2>2. Closure(heads) \subseteq Commits({{0}}) \cup Files({0})
    BY <1>2 DEF Closure, Commits, Files
  <2> QED BY <2>1, <2>2
<1>4. Config(heads, 0) \in Configs /\ R \in Remotes
  BY <1>1, <1>3 DEF Config, Configs, Remotes
<1>5. d \in Database
  BY <1>1, <1>3, <1>4 DEF Database
<1>6. ASSUME NEW o \in Closure(heads) PROVE Needs(o) \subseteq Closure(heads)
  <2>1. CASE o \in Commits(Values(heads))
    <3>1. PICK c \in Values(heads) : o \in Commits({c})
      BY <2>1 DEF Commits
    <3>2. Needs(o) = Files(c)
      BY <3>1, NeedsOf
    <3>3. Files(c) \subseteq Files(UNION Values(heads))
      BY <3>1 DEF Files
    <3> QED BY <3>2, <3>3 DEF Closure
  <2>2. CASE o \in Files(UNION Values(heads))
    <3>1. PICK n : o \in Files({n})
      BY <2>2 DEF Files
    <3> QED BY <3>1, NeedsOf
  <2> QED BY <2>1, <2>2 DEF Closure
<1>7. RowsOK(d)
  BY <1>6 DEF RowsOK, RowsNeed, Rows, Closure
<1>8. Backed(d, R)
  BY DEF Backed, CurrentConfig
<1>9. t \in Tasks /\ TaskOK(t, d, R)
  BY RestIsGood DEF On
<1>10. /\ db = [r \in Replica |-> d] /\ task = [r \in Replica |-> t]
       /\ remote = R /\ clock = 0
  BY EnterIsRest DEF Init
<1> HIDE DEF heads, R, d, t
<1>11. \A r \in Replica : Serves[r] \in DOMAIN d.heads
  BY <1>1 DEF d
<1> QED BY <1>4, <1>5, <1>7, <1>8, <1>9, <1>10, <1>11 DEF IInv, Good

\* A write: a new file, the branch's commit with it, and a config that is not synced.
LEMMA WriteInv ==
  ASSUME IInv, NEW r \in Replica, Write(r)
  PROVE  IInv'
<1> DEFINE o == db[r]
           n == clock'
           c == o.heads[Serves[r]] \cup {n}
           h == [o.heads EXCEPT ![Serves[r]] = c]
           d == [o EXCEPT !.local = @ \cup Files({n}) \cup Commits({c}),
                          !.heads[Serves[r]] = c, !.time = n, !.mode = "local"]
<1>1. Good(r, o, task[r], remote) /\ o \in Database /\ RowsOK(o) /\ Serves[r] \in DOMAIN o.heads
  BY DEF IInv, Good
<1>2. n \in 0 .. MaxTime /\ UNCHANGED <<task, remote>> /\ db' = [db EXCEPT ![r] = Collect(d)]
  BY DEF Write, Tick, IInv
<1>3. h \in HeadMaps /\ DOMAIN h = DOMAIN o.heads /\ c \in Commit
      /\ Values(h) \subseteq Values(o.heads) \cup {c}
      /\ o.heads[Serves[r]] \in Values(o.heads)
  <2>1. PICK B \in SUBSET Branch : o.heads \in [B -> Commit]
    BY <1>1 DEF Database, HeadMaps
  <2>2. c \in Commit
    BY <1>1, <1>2, <2>1 DEF Commit
  <2>3. h \in [B -> Commit] /\ DOMAIN h = B
    BY <2>1, <2>2
  <2> QED BY <1>1, <2>1, <2>2, <2>3 DEF HeadMaps, Values
<1>4. Files({n}) \cup Commits({c}) \subseteq Object
  BY <1>2, <1>3 DEF Files, Commits, Object, Commit
<1>5. /\ d \in Database
      /\ d.local = o.local \cup Files({n}) \cup Commits({c}) /\ d.synced = o.synced
      /\ d.heads = h /\ d.mode = "local" /\ d.queue = o.queue
  <2> DEFINE L == o.local \cup Files({n}) \cup Commits({c})
             d1 == [o EXCEPT !.local = L]
             d2 == [d1 EXCEPT !.heads[Serves[r]] = c]
  <2>1. L \in SUBSET Object
    BY <1>1, <1>4 DEF Database
  <2> HIDE DEF L, c
  <2>2. d1 \in Database /\ d1.local = L /\ d1.synced = o.synced /\ d1.heads = o.heads /\ d1.queue = o.queue
    BY <1>1, <2>1 DEF Database
  <2> HIDE DEF d1
  <2>3. d2 = [d1 EXCEPT !.heads = h]
    BY <2>2
  <2> HIDE DEF h
  <2>4. d2 \in Database /\ d2.local = L /\ d2.synced = o.synced /\ d2.heads = h /\ d2.queue = o.queue
    BY <1>3, <2>2, <2>3 DEF Database
  <2>5. d = [[d2 EXCEPT !.time = n] EXCEPT !.mode = "local"]
    BY DEF d1, L
  <2>6. n \in Nat
    BY <1>2
  <2> HIDE DEF d2, d, n, o
  <2>7. d \in Database /\ d.local = L /\ d.synced = o.synced /\ d.heads = h /\ d.mode = "local" /\ d.queue = o.queue
    BY <2>4, <2>5, <2>6 DEF Database
  <2> QED BY <2>7 DEF L
<1>6. Rows(d) = Rows(o) \cup Files({n}) \cup Commits({c})
  BY <1>5 DEF Rows
<1>7. RowsOK(d)
  <2>1. Commits(Values(h)) \subseteq Rows(d)
    BY <1>1, <1>3, <1>6 DEF RowsOK, Commits
  <2>2. Files(c) \subseteq Rows(d)
    <3>1. [kind |-> "commit", of |-> o.heads[Serves[r]]] \in Rows(o)
      BY <1>1, <1>3 DEF RowsOK, Commits
    <3>2. Files(o.heads[Serves[r]]) \subseteq Rows(o)
      BY <1>1, <3>1 DEF RowsOK, RowsNeed, Needs
    <3> QED BY <3>2, <1>6 DEF Files
  <2>3. \A x \in Rows(d) : Needs(x) \subseteq Rows(d)
    <3> HIDE DEF d, c, h
    <3> QED BY <1>1, <1>6, <2>2, NeedsOf DEF RowsOK, RowsNeed
  <2> QED BY <1>1, <1>5, <1>6, <2>1, <2>3 DEF RowsOK, RowsNeed
<1> HIDE DEF d, h, c
<1>8. Good(r, Collect(d), task[r], remote)
  BY <1>1, <1>3, <1>5, <1>7, CollectKeeps DEF Good, Backed, TaskOK
<1>9. /\ task' = [task EXCEPT ![r] = task'[r]] /\ task'[r] = task[r]
      /\ db' = [db EXCEPT ![r] = db'[r]] /\ db'[r] = Collect(d)
  BY <1>2 DEF IInv
<1>10. clock' \in Nat /\ remote' = remote /\ remote' \in Remotes
  BY <1>2 DEF IInv
<1> HIDE DEF n, o
<1> QED BY <1>8, <1>9, <1>10, OneReplica

\* The command line's configs are made of one that is there.
LEMMA ReplaceConfigInv ==
  ASSUME IInv, NEW h \in HeadMaps, ReplaceConfig(h)
  PROVE  IInv'
<1>1. clock' \in Nat /\ UNCHANGED <<db, task>>
      /\ remote' = [remote EXCEPT !.configs = @ \cup {Config(h, clock')}]
  BY DEF ReplaceConfig, Tick, IInv
<1>2. Config(h, clock') \in Configs
  BY <1>1 DEF Config, Configs
<1>3. /\ remote' \in Remotes /\ remote.objects \subseteq remote'.objects
      /\ remote.configs \subseteq remote'.configs
  BY <1>1, <1>2 DEF IInv, Remotes
<1> QED BY <1>1, <1>3, MoreIsGood DEF IInv

LEMMA HeadsInv ==
  ASSUME IInv, NEW b \in Branch, CreateHead(b) \/ DeleteHead(b)
  PROVE  IInv'
<1>1. ASSUME NEW k \in remote.configs
      PROVE  \E B \in SUBSET Branch : k.heads \in [B -> Commit] /\ DOMAIN k.heads = B
  BY DEF IInv, Remotes, Configs, HeadMaps
<1>2. CASE CreateHead(b)
  <2>1. PICK k \in remote.configs : \E c \in Values(k.heads) :
          ReplaceConfig([x \in DOMAIN k.heads \cup {b} |-> IF x = b THEN c ELSE k.heads[x]])
    BY <1>2 DEF CreateHead
  <2>0. PICK c \in Values(k.heads) :
          ReplaceConfig([x \in DOMAIN k.heads \cup {b} |-> IF x = b THEN c ELSE k.heads[x]])
    BY <2>1
  <2>2. PICK B \in SUBSET Branch : k.heads \in [B -> Commit] /\ DOMAIN k.heads = B
    BY <1>1
  <2>3. [x \in DOMAIN k.heads \cup {b} |-> IF x = b THEN c ELSE k.heads[x]] \in [B \cup {b} -> Commit]
    BY <2>2 DEF Values
  <2>4. [x \in DOMAIN k.heads \cup {b} |-> IF x = b THEN c ELSE k.heads[x]] \in HeadMaps
    BY <2>3 DEF HeadMaps
  <2> QED BY <2>0, <2>4, ReplaceConfigInv
<1>3. CASE DeleteHead(b)
  <2>1. PICK k \in remote.configs : ReplaceConfig([x \in DOMAIN k.heads \ {b} |-> k.heads[x]])
    BY <1>3 DEF DeleteHead
  <2>2. PICK B \in SUBSET Branch : k.heads \in [B -> Commit] /\ DOMAIN k.heads = B
    BY <1>1
  <2>3. [x \in DOMAIN k.heads \ {b} |-> k.heads[x]] \in [B \ {b} -> Commit]
    BY <2>2
  <2>4. [x \in DOMAIN k.heads \ {b} |-> k.heads[x]] \in HeadMaps
    BY <2>3 DEF HeadMaps
  <2> QED BY <2>1, <2>4, ReplaceConfigInv
<1> QED BY <1>2, <1>3

LEMMA EnterGood ==
  ASSUME IInv, NEW r \in Replica, NEW ph \in {"idle", "push"}, Enter(r, ph)
  PROVE  /\ task' = [task EXCEPT ![r] = task'[r]] /\ task'[r] \in Tasks
         /\ \A d, R : TaskOK(task'[r], d, R)
<1> DEFINE t == [phase |-> ph, attempt |-> 0, batch |-> {}, todo |-> {}]
<1>1. task' = [task EXCEPT ![r] = t]
  BY EnterIsRest DEF Enter
<1>2. t \in Tasks /\ \A d, R : TaskOK(t, d, R)
  BY RestIsGood DEF On
<1> HIDE DEF t
<1> QED BY <1>1, <1>2 DEF IInv

\* Uploads only add to the remote.
LEMMA StoredGrows ==
  ASSUME IInv, NEW X \in SUBSET Items, remote' = Stored(X)
  PROVE  /\ remote' \in Remotes /\ On(X, remote')
         /\ remote.objects \subseteq remote'.objects /\ remote.configs \subseteq remote'.configs
<1>1. /\ remote'.objects = remote.objects \cup (X \cap Object)
      /\ remote'.configs = remote.configs \cup (X \ Object)
  BY DEF Stored
<1>2. remote' \in Remotes
  BY DEF Stored, IInv, Remotes, Items
<1> QED BY <1>1, <1>2 DEF On

LEMMA StartPushInv ==
  ASSUME IInv, NEW r \in Replica, StartPush(r)
  PROVE  IInv'
<1> DEFINE d == Cleared(db[r])
           q == d.local \cup (IF d.mode = "local" THEN {CurrentConfig(d)} ELSE {})
           e == [d EXCEPT !.queue = q]
<1>1. Good(r, db[r], task[r], remote)
  BY DEF IInv
<1>2. /\ d \in Database /\ RowsOK(d) /\ Serves[r] \in DOMAIN d.heads
      /\ d.synced = db[r].synced /\ d.heads = db[r].heads /\ d.time = db[r].time
      /\ d.mode = db[r].mode
  BY <1>1, ClearedKeeps DEF Good
<1>3. /\ db' = [db EXCEPT ![r] = e] /\ UNCHANGED <<clock, remote>>
      /\ task' = [task EXCEPT ![r] = task'[r]] /\ task'[r] \in Tasks
      /\ \A D, R : TaskOK(task'[r], D, R)
  BY EnterGood DEF StartPush
<1> HIDE DEF d
<1>4. q \in SUBSET Items /\ q \cap Object \subseteq d.local
  BY <1>2, CurrentIsConfig, KindsDiffer DEF Items, Database
<1> HIDE DEF q
<1>5. /\ e \in Database /\ e.local = d.local /\ e.synced = d.synced /\ e.heads = d.heads
      /\ e.time = d.time /\ e.mode = d.mode /\ e.queue = q
  BY <1>2, <1>4 DEF Database
<1> HIDE DEF e
<1>6. RowsOK(e)
  BY <1>2, <1>4, <1>5 DEF RowsOK, RowsNeed, Rows
<1>7. Backed(e, remote)
  BY <1>1, <1>2, <1>5 DEF Good, Backed, CurrentConfig
<1>8. db'[r] = e /\ db' = [db EXCEPT ![r] = db'[r]]
  BY <1>3 DEF IInv
<1>9. Good(r, db'[r], task'[r], remote')
  BY <1>2, <1>3, <1>5, <1>6, <1>7, <1>8 DEF Good
<1>10. clock' \in Nat /\ remote' = remote /\ remote' \in Remotes
  BY <1>3 DEF IInv
<1> QED BY <1>3, <1>8, <1>9, <1>10, OneReplica

LEMMA FillInv ==
  ASSUME IInv, NEW r \in Replica, Fill(r)
  PROVE  IInv'
<1> DEFINE d == db[r]
           t == task[r]
<1>1. Good(r, d, t, remote) /\ d \in Database /\ t \in Tasks
  BY DEF IInv, Good
<1>2. PICK B \in SUBSET (d.queue \ d.pending) :
        /\ db' = [db EXCEPT ![r].pending = @ \cup B]
        /\ task' = [task EXCEPT ![r].phase = "upload", ![r].batch = B]
  BY DEF Fill
<1>3. UNCHANGED <<clock, remote>>
  BY DEF Fill
<1> DEFINE e == [d EXCEPT !.pending = d.pending \cup B]
           u == [[t EXCEPT !.phase = "upload"] EXCEPT !.batch = B]
<1>4. db' = [db EXCEPT ![r] = db'[r]] /\ db'[r] = e
  BY <1>2 DEF IInv
<1>5. task' = [task EXCEPT ![r] = task'[r]] /\ task'[r] = u
  BY <1>2 DEF IInv
<1> HIDE DEF d, t
<1>6. /\ e \in Database /\ e.local = d.local /\ e.synced = d.synced /\ e.heads = d.heads
      /\ e.time = d.time /\ e.mode = d.mode /\ e.queue = d.queue
  BY <1>1, <1>2 DEF Database
<1>7. u \in Tasks /\ u.phase = "upload" /\ u.batch = B /\ u.todo = t.todo
  BY <1>1, <1>2 DEF Tasks, Database
<1> HIDE DEF e, u
<1>8. RowsOK(e) /\ Backed(e, remote) /\ TaskOK(u, e, remote)
  BY <1>1, <1>2, <1>6, <1>7 DEF Good, RowsOK, RowsNeed, Rows, Backed, CurrentConfig, TaskOK
<1>9. Good(r, db'[r], task'[r], remote')
  BY <1>1, <1>3, <1>4, <1>5, <1>6, <1>7, <1>8 DEF Good
<1>10. clock' \in Nat /\ remote' = remote /\ remote' \in Remotes
  BY <1>3 DEF IInv
<1> QED BY <1>4, <1>5, <1>9, <1>10, OneReplica

LEMMA UploadInv ==
  ASSUME IInv, NEW r \in Replica, Upload(r)
  PROVE  IInv'
<1> DEFINE t == task[r]
           u == [t EXCEPT !.phase = "uploaded"]
<1>1. Good(r, db[r], t, remote) /\ t \in Tasks
  BY DEF IInv, Good
<1>2. remote' = Stored(t.batch) /\ UNCHANGED <<clock, db>>
      /\ task' = [task EXCEPT ![r].phase = "uploaded"]
  BY DEF Upload
<1>3. /\ task' = [task EXCEPT ![r] = task'[r]] /\ task'[r] = u
      /\ db' = [db EXCEPT ![r] = db'[r]] /\ db'[r] = db[r]
  BY <1>2 DEF IInv
<1> HIDE DEF t
<1>4. t.batch \in SUBSET Items
  BY <1>1 DEF Tasks
<1>5. /\ remote' \in Remotes /\ On(t.batch, remote')
      /\ remote.objects \subseteq remote'.objects /\ remote.configs \subseteq remote'.configs
  BY <1>2, <1>4, StoredGrows
<1>6. Good(r, db[r], t, remote')
  BY <1>1, <1>5, MoreIsGood
<1>7. u \in Tasks /\ u.phase = "uploaded" /\ u.batch = t.batch /\ u.todo = t.todo
  BY <1>1 DEF Tasks
<1>8. Good(r, db'[r], task'[r], remote')
  BY <1>3, <1>5, <1>6, <1>7 DEF Good, TaskOK
<1>9. clock' \in Nat
  BY <1>2 DEF IInv
<1> QED BY <1>3, <1>5, <1>8, <1>9, OneReplica

LEMMA UploadFailsInv ==
  ASSUME IInv, NEW r \in Replica, UploadFails(r)
  PROVE  IInv'
<1>1. Good(r, db[r], task[r], remote) /\ db[r] \in Database /\ task[r] \in Tasks
  BY DEF IInv, Good
<1>2. PICK S \in SUBSET task[r].batch : remote' = Stored(S)
  BY DEF UploadFails
<1>3. /\ remote' \in Remotes
      /\ remote.objects \subseteq remote'.objects /\ remote.configs \subseteq remote'.configs
  <2>1. S \in SUBSET Items
    BY <1>1, <1>2 DEF Tasks
  <2> QED BY <1>2, <2>1, StoredGrows
<1>4. Good(r, db[r], task[r], remote')
  BY <1>1, <1>3, MoreIsGood
<1>5. clock' \in Nat
  BY DEF UploadFails, Fault, IInv
<1>6. CASE GivesUp(r)
  <2> DEFINE d == Cleared(db[r])
  <2>1. db' = [db EXCEPT ![r] = d] /\ Enter(r, "idle")
    BY <1>6 DEF UploadFails
  <2>2. db' = [db EXCEPT ![r] = db'[r]] /\ db'[r] = d
    BY <2>1 DEF IInv
  <2>3. /\ d \in Database /\ RowsOK(d) /\ Serves[r] \in DOMAIN d.heads
        /\ d.synced = db[r].synced /\ d.heads = db[r].heads /\ d.time = db[r].time
        /\ d.mode = db[r].mode
    BY <1>1, ClearedKeeps DEF Good
  <2>4. /\ task' = [task EXCEPT ![r] = task'[r]] /\ task'[r] \in Tasks
        /\ TaskOK(task'[r], d, remote')
    BY <2>1, EnterGood
  <2> HIDE DEF d
  <2>5. Good(r, db'[r], task'[r], remote')
    BY <1>4, <2>2, <2>3, <2>4 DEF Good, Backed, CurrentConfig
  <2> QED BY <1>3, <1>5, <2>2, <2>4, <2>5, OneReplica
<1>7. CASE ~GivesUp(r)
  <2> DEFINE o == db[r]
             d == [o EXCEPT !.pending = {}]
             n == task[r].attempt + 1
             t == [phase |-> "push", attempt |-> n, batch |-> {}, todo |-> {}]
  <2>1. /\ db' = [db EXCEPT ![r].pending = {}]
        /\ task' = [task EXCEPT ![r] = [Resting EXCEPT !.phase = "push", !.attempt = n]]
    BY <1>7 DEF UploadFails
  <2>2. [Resting EXCEPT !.phase = "push", !.attempt = n] = t
    <3> DEFINE u == [Resting EXCEPT !.phase = "push"]
    <3>1. u = [phase |-> "push", attempt |-> 0, batch |-> {}, todo |-> {}]
      BY EnterIsRest
    <3>2. [Resting EXCEPT !.phase = "push", !.attempt = n] = [u EXCEPT !.attempt = n]
      OBVIOUS
    <3> HIDE DEF u, n
    <3> QED BY <3>1, <3>2
  <2>3. /\ db' = [db EXCEPT ![r] = db'[r]] /\ db'[r] = d
        /\ task' = [task EXCEPT ![r] = task'[r]] /\ task'[r] = t
    BY <2>1, <2>2 DEF IInv
  <2>4. n \in Nat
    BY <1>1 DEF Tasks
  <2>5. t \in Tasks /\ TaskOK(t, d, remote')
    BY <2>4, RestIsGood DEF On
  <2> HIDE DEF t, n, o
  <2>6. /\ d \in Database /\ d.local = o.local /\ d.synced = o.synced /\ d.heads = o.heads
        /\ d.time = o.time /\ d.mode = o.mode /\ d.queue = o.queue
    BY <1>1 DEF Database, o
  <2> HIDE DEF d
  <2>7. RowsOK(d) /\ Backed(d, remote')
    BY <1>4, <2>6 DEF Good, RowsOK, RowsNeed, Rows, Backed, CurrentConfig, o
  <2>8. Good(r, db'[r], task'[r], remote')
    BY <1>4, <2>3, <2>5, <2>6, <2>7 DEF Good, o
  <2> QED BY <1>3, <1>5, <2>3, <2>8, OneReplica
<1> QED BY <1>6, <1>7

\* What is marked was in the queue, so its row had all it needs, and is on the remote.
LEMMA MarkInv ==
  ASSUME IInv, NEW r \in Replica, Mark(r)
  PROVE  IInv'
<1> DEFINE o == db[r]
           t == task[r]
           B == t.batch
           d == Synced(o, B)
           e == [[d EXCEPT !.queue = d.queue \ B] EXCEPT !.pending = d.pending \ B]
           u == [[t EXCEPT !.phase = "push"] EXCEPT !.batch = {}]
<1>1. Good(r, o, t, remote) /\ o \in Database /\ t \in Tasks /\ remote \in Remotes
  BY DEF IInv, Good
<1>2. In(r, "uploaded") /\ UNCHANGED <<clock, remote>>
      /\ db' = [db EXCEPT ![r] = Collect([d EXCEPT !.queue = @ \ B, !.pending = @ \ B])]
      /\ task' = [task EXCEPT ![r].phase = "push", ![r].batch = {}]
  BY DEF Mark
<1>3. [d EXCEPT !.queue = @ \ B, !.pending = @ \ B] = e
  <2>1. d \in [local : SUBSET Object, synced : SUBSET Object, heads : HeadMaps, time : Nat,
               mode : {"local", "synced"}, queue : SUBSET Items, pending : SUBSET Items,
               seen : SUBSET Configs]
    BY <1>1 DEF Synced, Database, Tasks, Items
  <2> HIDE DEF d
  <2> QED BY <2>1
<1>4. /\ db' = [db EXCEPT ![r] = db'[r]] /\ db'[r] = Collect(e)
      /\ task' = [task EXCEPT ![r] = task'[r]] /\ task'[r] = u
  <2>2. db' = [db EXCEPT ![r] = Collect(e)]
    BY <1>2, <1>3
  <2>3. task' = [task EXCEPT ![r] = u]
    BY <1>2 DEF IInv
  <2> HIDE DEF e, u
  <2> QED BY <2>2, <2>3 DEF IInv
<1>5. t.phase = "uploaded"
  BY <1>2 DEF In
<1> HIDE DEF o, t
<1>6. /\ B \in SUBSET Items /\ B \subseteq o.queue /\ On(B, remote)
      /\ \A x \in B \cap Object : Needs(x) \subseteq Rows(o)
  BY <1>1, <1>5 DEF Good, TaskOK, Tasks, RowsOK, RowsNeed
<1> HIDE DEF B
<1>7. /\ d \in Database /\ RowsOK(d) /\ d.synced = o.synced \cup (B \cap Object)
      /\ d.heads = o.heads /\ d.time = o.time /\ d.queue = o.queue
      /\ d.mode = o.mode \/ CurrentConfig(o) \in B
  BY <1>1, <1>6, SyncedKeeps DEF Good
<1> HIDE DEF d
<1>8. /\ e \in Database /\ e.local = d.local /\ e.synced = d.synced /\ e.heads = d.heads
      /\ e.time = d.time /\ e.mode = d.mode /\ e.queue = d.queue \ B
  BY <1>7 DEF Database
<1> HIDE DEF e
<1>9. RowsOK(e)
  BY <1>7, <1>8 DEF RowsOK, RowsNeed, Rows
<1>10. Backed(e, remote)
  <2>1. B \cap Object \subseteq remote.objects
    BY <1>1, <1>6, KindsDiffer DEF On, Remotes
  <2>2. CurrentConfig(e) = CurrentConfig(o) /\ CurrentConfig(o) \notin Object
    BY <1>1, <1>7, <1>8, CurrentIsConfig, KindsDiffer DEF CurrentConfig
  <2>3. CurrentConfig(o) \in B => CurrentConfig(o) \in remote.configs
    BY <1>1, <1>6, <2>2 DEF On, Remotes
  <2> QED BY <1>1, <1>7, <1>8, <2>1, <2>2, <2>3 DEF Good, Backed
<1>11. /\ Collect(e) \in Database /\ RowsOK(Collect(e)) /\ Backed(Collect(e), remote)
       /\ Serves[r] \in DOMAIN Collect(e).heads
  BY <1>1, <1>7, <1>8, <1>9, <1>10, CollectKeeps DEF Good, Backed, CurrentConfig
<1>12. u \in Tasks /\ u.phase = "push" /\ u.batch = {} /\ u.todo = t.todo
  BY <1>1 DEF Tasks
<1> HIDE DEF u
<1>13. TaskOK(u, Collect(e), remote)
  BY <1>1, <1>12 DEF Good, TaskOK
<1>14. Good(r, db'[r], task'[r], remote')
  BY <1>2, <1>4, <1>11, <1>12, <1>13 DEF Good
<1>15. clock' \in Nat /\ remote' = remote /\ remote' \in Remotes
  BY <1>2 DEF IInv
<1> QED BY <1>4, <1>14, <1>15, OneReplica

LEMMA EndPushInv ==
  ASSUME IInv, NEW r \in Replica, EndPush(r)
  PROVE  IInv'
<1> DEFINE d == Cleared(db[r])
           X == Unseen(db[r])
           t == [phase |-> "pull", attempt |-> 0, batch |-> {}, todo |-> X]
<1>1. Good(r, db[r], task[r], remote) /\ remote \in Remotes
  BY DEF IInv, Good
<1>2. /\ db' = [db EXCEPT ![r] = d] /\ UNCHANGED <<clock, remote>>
      /\ task' = [task EXCEPT ![r] = [Resting EXCEPT !.phase = "pull", !.todo = X]]
  BY DEF EndPush
<1>3. [Resting EXCEPT !.phase = "pull", !.todo = X] = t
  <2> DEFINE u == [Resting EXCEPT !.phase = "pull"]
  <2>1. u = [phase |-> "pull", attempt |-> 0, batch |-> {}, todo |-> {}]
    BY EnterIsRest
  <2>2. [Resting EXCEPT !.phase = "pull", !.todo = X] = [u EXCEPT !.todo = X]
    OBVIOUS
  <2> HIDE DEF u, X
  <2> QED BY <2>1, <2>2
<1>4. /\ db' = [db EXCEPT ![r] = db'[r]] /\ db'[r] = d
      /\ task' = [task EXCEPT ![r] = task'[r]] /\ task'[r] = t
  BY <1>2, <1>3 DEF IInv
<1>5. /\ d \in Database /\ RowsOK(d) /\ Serves[r] \in DOMAIN d.heads
      /\ d.synced = db[r].synced /\ d.heads = db[r].heads /\ d.time = db[r].time
      /\ d.mode = db[r].mode
  BY <1>1, ClearedKeeps DEF Good
<1> HIDE DEF d
<1>6. X \in SUBSET Items /\ On(X, remote)
  BY <1>1 DEF Unseen, Items, Remotes, On
<1> HIDE DEF X
<1>7. t \in Tasks /\ TaskOK(t, d, remote)
  BY <1>6, RestIsGood
<1> HIDE DEF t
<1>8. Good(r, db'[r], task'[r], remote')
  BY <1>1, <1>2, <1>4, <1>5, <1>7 DEF Good, Backed, CurrentConfig
<1>9. clock' \in Nat /\ remote' = remote /\ remote' \in Remotes
  BY <1>2 DEF IInv
<1> QED BY <1>4, <1>8, <1>9, OneReplica

\* What is pulled is on the remote; it gets its row only when all it needs is there.
LEMMA PulledIsGood ==
  ASSUME NEW r \in Replica, NEW t, Good(r, db[r], t, remote), remote \in Remotes,
         NEW o \in t.todo, ~Refused(r, o)
  PROVE  /\ Pulled(r, o) \in Database /\ RowsOK(Pulled(r, o)) /\ Backed(Pulled(r, o), remote)
         /\ Serves[r] \in DOMAIN Pulled(r, o).heads
         /\ Pulled(r, o).queue = db[r].queue
<1> DEFINE d == db[r]
<1>1. d \in Database /\ RowsOK(d) /\ Backed(d, remote) /\ Serves[r] \in DOMAIN d.heads
  BY DEF Good
<1>2. o \in remote.objects \cup remote.configs /\ o \in Items
  BY DEF Good, TaskOK, On, Tasks
<1>3. CASE o.kind = "config"
  <2> DEFINE s == [d EXCEPT !.seen = d.seen \cup {o}]
             k == [[[s EXCEPT !.heads = o.heads] EXCEPT !.time = o.time] EXCEPT !.mode = "synced"]
  <2>1. o \in Configs /\ o \in remote.configs /\ Config(o.heads, o.time) = o
    BY <1>2, <1>3, KindsDiffer DEF Items, Remotes
  <2>2. Pulled(r, o) = IF IsNewer(s, o) THEN Collect(SetConfig(s, o)) ELSE s
    BY <1>3 DEF Pulled
  <2>3. SetConfig(s, o) = k
    BY DEF SetConfig
  <2>4. /\ s \in Database /\ s.local = d.local /\ s.synced = d.synced /\ s.heads = d.heads
        /\ s.time = d.time /\ s.mode = d.mode /\ s.queue = d.queue
    BY <1>1, <2>1 DEF Database
  <2>5. IsNewer(s, o) => /\ Commits(Values(o.heads)) \subseteq Rows(d)
                         /\ Serves[r] \in DOMAIN o.heads
    <3>1. Needs(o) = Commits(Values(o.heads))
      BY <1>3 DEF Needs
    <3>2. IsNewer(s, o) = IsNewer(d, o)
      BY <2>4 DEF IsNewer
    <3> QED BY <1>3, <3>1, <3>2 DEF Refused
  <2> HIDE DEF d, s
  <2>6. /\ k \in Database /\ k.local = d.local /\ k.synced = d.synced /\ k.queue = d.queue
        /\ k.heads = o.heads /\ k.time = o.time
    BY <2>1, <2>4 DEF Database, Configs
  <2> HIDE DEF k
  <2>7. CASE IsNewer(s, o)
    <3>1. RowsOK(k)
      BY <1>1, <2>5, <2>6, <2>7 DEF RowsOK, RowsNeed, Rows
    <3>2. CurrentConfig(Collect(k)) = o
      BY <2>1, <2>6, <3>1, CollectKeeps DEF CurrentConfig
    <3> QED BY <1>1, <2>1, <2>2, <2>3, <2>5, <2>6, <2>7, <3>1, <3>2, CollectKeeps DEF Backed, d
  <2>8. CASE ~IsNewer(s, o)
    <3>1. RowsOK(s) /\ Backed(s, remote)
      BY <1>1, <2>4 DEF RowsOK, RowsNeed, Rows, Backed, CurrentConfig
    <3> QED BY <1>1, <2>2, <2>4, <2>8, <3>1 DEF d
  <2> QED BY <2>7, <2>8
<1>4. CASE o.kind # "config"
  <2> DEFINE s == Synced(d, {o})
  <2>1. o \in Object /\ o \in remote.objects
    BY <1>2, <1>4, KindsDiffer DEF Items, Remotes
  <2>2. Needs(o) \subseteq Rows(d)
    BY <1>4 DEF Refused
  <2>3. Pulled(r, o) = s
    BY <1>4 DEF Pulled
  <2> HIDE DEF d
  <2>4. /\ s \in Database /\ RowsOK(s) /\ s.synced = d.synced \cup ({o} \cap Object)
        /\ s.heads = d.heads /\ s.time = d.time /\ s.queue = d.queue
        /\ s.mode = d.mode \/ CurrentConfig(d) \in {o}
    BY <1>1, <1>2, <2>2, SyncedKeeps
  <2> HIDE DEF s
  <2>5. s.mode = d.mode
    BY <1>1, <2>1, <2>4, CurrentIsConfig, KindsDiffer
  <2> QED BY <1>1, <2>1, <2>3, <2>4, <2>5 DEF Backed, CurrentConfig, d
<1> QED BY <1>3, <1>4

LEMMA PullInv ==
  ASSUME IInv, NEW r \in Replica, Pull(r) \/ PullFails(r)
  PROVE  IInv'
<1> DEFINE t == task[r]
<1>1. Good(r, db[r], t, remote) /\ t \in Tasks /\ remote \in Remotes
  BY DEF IInv, Good
<1>2. UNCHANGED <<clock, remote>>
  BY DEF Pull, PullFails
<1>3. PICK o \in t.todo :
        /\ \/ db' = [db EXCEPT ![r] = Pulled(r, o)] /\ ~Refused(r, o)
           \/ db' = db
        /\ task' = [task EXCEPT ![r].todo = @ \ {o}]
  BY DEF Pull, PullFails
<1> DEFINE u == [t EXCEPT !.todo = t.todo \ {o}]
<1>4. task' = [task EXCEPT ![r] = task'[r]] /\ task'[r] = u
  BY <1>3 DEF IInv
<1> HIDE DEF t
<1>5. u \in Tasks /\ u.phase = t.phase /\ u.batch = t.batch /\ u.todo = t.todo \ {o}
  BY <1>1 DEF Tasks
<1> HIDE DEF u
<1>6. /\ db' = [db EXCEPT ![r] = db'[r]]
      /\ db'[r] = db[r] \/ (db'[r] = Pulled(r, o) /\ ~Refused(r, o))
  BY <1>3 DEF IInv
<1>7. /\ db'[r] \in Database /\ RowsOK(db'[r]) /\ Backed(db'[r], remote)
      /\ Serves[r] \in DOMAIN db'[r].heads /\ db'[r].queue = db[r].queue
  BY <1>1, <1>6, PulledIsGood DEF Good
<1>8. TaskOK(u, db'[r], remote)
  BY <1>1, <1>5, <1>7 DEF Good, TaskOK, On
<1>9. Good(r, db'[r], task'[r], remote')
  BY <1>2, <1>4, <1>5, <1>7, <1>8 DEF Good
<1>10. clock' \in Nat /\ remote' = remote /\ remote' \in Remotes
  BY <1>2 DEF IInv
<1> QED BY <1>4, <1>6, <1>9, <1>10, OneReplica

LEMMA CrashInv ==
  ASSUME IInv, NEW r \in Replica, Crash(r)
  PROVE  IInv'
<1>1. clock' \in Nat /\ remote' = remote /\ remote' \in Remotes /\ db' = db
  BY DEF Crash, Fault, IInv
<1>2. /\ task' = [task EXCEPT ![r] = task'[r]] /\ task'[r] \in Tasks
      /\ TaskOK(task'[r], db[r], remote)
  BY EnterGood DEF Crash
<1>3. db' = [db EXCEPT ![r] = db'[r]] /\ db'[r] = db[r] /\ Good(r, db[r], task[r], remote)
  BY <1>1 DEF IInv
<1>4. Good(r, db'[r], task'[r], remote')
  BY <1>1, <1>2, <1>3 DEF Good
<1> QED BY <1>1, <1>2, <1>3, <1>4, OneReplica

LEMMA StepInv == IInv /\ [Next]_vars => IInv'
<1> SUFFICES ASSUME IInv, [Next]_vars PROVE IInv'
  OBVIOUS
<1>1. ASSUME NEW r \in Replica, TaskStep(r) PROVE IInv'
  BY <1>1, StartPushInv, FillInv, UploadInv, UploadFailsInv, MarkInv, EndPushInv, PullInv
     DEF TaskStep
<1>2. ASSUME NEW r \in Replica, Write(r) \/ Crash(r) PROVE IInv'
  BY <1>2, WriteInv, CrashInv
<1>3. ASSUME NEW b \in Branch, CreateHead(b) \/ DeleteHead(b) PROVE IInv'
  BY <1>3, HeadsInv
<1>4. CASE UNCHANGED vars
  BY <1>4 DEF vars, IInv
<1> QED BY <1>1, <1>2, <1>3, <1>4 DEF Next

LEMMA Invariance == Spec => []IInv
BY InitInv, StepInv, PTL DEF Spec

\* A row that counts as synced is on the remote, and so is a config: push keeps the local
\* data until the upload is over, and only uploads, downloads and new configs say "synced"
\* (push.rs:183-205, config.rs:415, 650).
THEOREM SyncedStored == Spec => []SyncedIsStored
<1>1. IInv => SyncedIsStored
  BY DEF IInv, Good, Backed, SyncedIsStored
<1> QED BY <1>1, Invariance, PTL

\* What commits need, a database that has the commits has.
LEMMA HeadsWhole ==
  ASSUME NEW d, RowsNeed(d), NEW h, Commits(Values(h)) \subseteq Rows(d)
  PROVE  Closure(h) \subseteq Rows(d)
<1>1. ASSUME NEW c \in Values(h) PROVE Files(c) \subseteq Rows(d)
  <2>1. [kind |-> "commit", of |-> c] \in Commits({c}) /\ [kind |-> "commit", of |-> c] \in Rows(d)
    BY <1>1 DEF Commits
  <2> QED  BY <2>1, NeedsOf DEF RowsNeed
<1>2. Files(UNION Values(h)) \subseteq Rows(d)
  BY <1>1 DEF Files
<1> QED  BY <1>2 DEF Closure

\* A replica has all that its heads name: no trigger, no pull, no config of another replica
\* takes a commit or a file from under a head (migrations:52, 166).
THEOREM HeadsBacked == Spec => []HeadsAreBacked
<1>1. ASSUME NEW d, RowsOK(d) PROVE Closure(d.heads) \subseteq Rows(d)
  BY <1>1, HeadsWhole DEF RowsOK
<1>2. IInv => HeadsAreBacked
  BY <1>1 DEF IInv, Good, HeadsAreBacked
<1> QED BY <1>2, Invariance, PTL

----------------------------------------------------------------------------
(* A finished push is published. *)

\* Rows are no younger than the clock.
Dated(d, n) == \A o \in Rows(d) : o.of \subseteq 0 .. n

\* With a queued config all that it names is queued, or synced by now.
QueuedWhole(d) ==
  \A k \in d.queue : k.kind = "config" => Closure(k.heads) \subseteq d.queue \cup d.synced

\* Only the batch in hand is pending, and after a push nothing is queued.
InHand(d, t) ==
  /\ t.phase = "push" => d.pending = {}
  /\ t.phase \in {"upload", "uploaded"} => d.pending = t.batch
  /\ t.phase = "pull" => d.queue = {}

\* What was written since the push began is named by no config elsewhere.
Named(d, t, R) ==
  t.phase # "idle" =>
    \A k \in R.configs : Closure(k.heads) \cap d.local \subseteq d.queue \cup R.objects

\* What is still missing on the remote is in the queue.
Published(d, t, R) ==
  d.mode = "synced" =>
    /\ t.phase \in {"push", "upload", "uploaded"} => Closure(d.heads) \subseteq d.queue \cup d.synced
    /\ t.phase = "pull" => Closure(d.heads) \subseteq R.objects

\* What is said of each replica.
Part(d, t, R, n) ==
  Dated(d, n) /\ QueuedWhole(d) /\ InHand(d, t) /\ Named(d, t, R) /\ Published(d, t, R)

\* Nothing on the remote is younger than the clock.
RemoteDated(R, n) ==
  /\ \A o \in R.objects : o.of \subseteq 0 .. n
  /\ \A k \in R.configs : \A c \in Values(k.heads) : c \subseteq 0 .. n

\* Two replicas have the same local rows only of what they pulled.
Apart(D, R) == \A q, r \in Replica : q # r => D[q].local \cap D[r].local \subseteq R.objects

\* The invariant.
PubInv ==
  /\ IInv
  /\ \A r \in Replica : Part(db[r], task[r], remote, clock)
  /\ RemoteDated(remote, clock) /\ Apart(db, remote)

\* Collections, and marks, make no local rows.
LEMMA CollectLess ==
  ASSUME NEW d \in Database
  PROVE  Collect(d).local \subseteq d.local
BY DEF Collect, Database

\* Clearing a job leaves nothing pending.
LEMMA ClearedLess ==
  ASSUME NEW d \in Database
  PROVE  Cleared(d).local \subseteq d.local /\ Cleared(d).pending = {}
<1> DEFINE e == [d EXCEPT !.queue = {}, !.pending = {}]
<1>1. e \in Database /\ e.local = d.local /\ e.pending = {}
  BY DEF Database
<1>2. Cleared(d) = Collect(e)
  BY DEF Cleared
<1> HIDE DEF e
<1>3. Collect(e) = [e EXCEPT !.local = @ \cap Referenced(e)]
  BY DEF Collect
<1> QED  BY <1>1, <1>2, <1>3 DEF Database

\* What is marked is no longer local.
LEMMA SyncedLess ==
  ASSUME NEW d \in Database, NEW X
  PROVE  Synced(d, X).local \subseteq d.local /\ Synced(d, X).pending = d.pending
<1> DEFINE L == d.local \ X
           Y == d.synced \cup (X \cap Object)
           C == d.seen \cup (X \ Object)
           m == IF CurrentConfig(d) \in X THEN "synced" ELSE d.mode
<1>1. Synced(d, X) = [d EXCEPT !.local = L, !.synced = Y, !.seen = C, !.mode = m]
  BY DEF Synced
<1> HIDE DEF Y, C, m
<1>2. Synced(d, X).local = L /\ Synced(d, X).pending = d.pending
  BY <1>1 DEF Database
<1> QED  BY <1>2

\* A queued config names nothing of a replica that is neither queued there nor on the remote.
LEMMA QueuedIsNamed ==
  ASSUME PubInv, NEW q \in Replica, NEW k \in db[q].queue, k.kind = "config", NEW s \in Replica
  PROVE  Closure(k.heads) \cap db[s].local \subseteq db[s].queue \cup remote.objects
<1> SUFFICES ASSUME NEW x \in Closure(k.heads) \cap db[s].local PROVE x \in db[s].queue \cup remote.objects
  OBVIOUS
<1>1. /\ Good(q, db[q], task[q], remote) /\ Good(s, db[s], task[s], remote)
      /\ QueuedWhole(db[q])
  BY DEF PubInv, IInv, Part
<1>2. x \in Object /\ x \in db[q].queue \cup db[q].synced
  BY <1>1 DEF QueuedWhole, Good, Database
<1>3. x \in db[q].local \/ x \in remote.objects
  BY <1>1, <1>2 DEF Good, RowsOK, Rows, Backed
<1>4. CASE q = s
  BY <1>1, <1>2, <1>4 DEF Good, Backed
<1>5. CASE q # s
  BY <1>3, <1>5 DEF PubInv, Apart
<1> QED  BY <1>4, <1>5

\* What others do.
LEMMA OthersPart ==
  ASSUME NEW d, NEW t, NEW R, NEW n \in Nat, Part(d, t, R, n),
         NEW S, NEW m \in Nat, n <= m, R.objects \subseteq S.objects,
         \A k \in S.configs \ R.configs : Closure(k.heads) \cap d.local \subseteq d.queue \cup R.objects
  PROVE  Part(d, t, S, m)
<1>1. 0 .. n \subseteq 0 .. m
  OBVIOUS
<1>2. Dated(d, m)
  BY <1>1 DEF Part, Dated
<1>3. Named(d, t, S)
  BY DEF Part, Named
<1> QED  BY <1>2, <1>3 DEF Part, Published

\* A step of one replica.
LEMMA OnePart ==
  ASSUME PubInv, IInv', NEW r \in Replica, clock' \in Nat, clock <= clock',
         remote.objects \subseteq remote'.objects, RemoteDated(remote', clock'),
         \A k \in remote'.configs \ remote.configs : \A s \in Replica :
           Closure(k.heads) \cap db[s].local \subseteq db[s].queue \cup remote.objects,
         db' = [db EXCEPT ![r] = db'[r]], task' = [task EXCEPT ![r] = task'[r]],
         Part(db'[r], task'[r], remote', clock'),
         \A s \in Replica \ {r} : db'[r].local \cap db[s].local \subseteq remote'.objects
  PROVE  PubInv'
<1>1. db \in [Replica -> Database] /\ task \in [Replica -> Tasks] /\ clock \in Nat
  BY DEF PubInv, IInv
<1>2. \A s \in Replica \ {r} : db'[s] = db[s] /\ task'[s] = task[s]
  BY <1>1
<1>3. ASSUME NEW s \in Replica PROVE Part(db'[s], task'[s], remote', clock')
  <2>1. CASE s = r
    BY <2>1
  <2>2. CASE s # r
    <3>1. Part(db[s], task[s], remote, clock)
      BY DEF PubInv
    <3>2. Part(db[s], task[s], remote', clock')
      BY <1>1, <3>1, OthersPart
    <3> QED  BY <1>2, <2>2, <3>2
  <2> QED  BY <2>1, <2>2
<1>4. Apart(db', remote')
  <2> SUFFICES ASSUME NEW q \in Replica, NEW s \in Replica, q # s
               PROVE  db'[q].local \cap db'[s].local \subseteq remote'.objects
    BY DEF Apart
  <2>1. CASE q # r /\ s # r
    BY <1>2, <2>1 DEF PubInv, Apart
  <2>2. CASE q = r
    BY <1>2, <2>2
  <2>3. CASE s = r
    BY <1>2, <2>3
  <2> QED  BY <2>1, <2>2, <2>3
<1> QED  BY <1>3, <1>4 DEF PubInv

\* Steps that leave the remote and the clock, and add no local rows.
LEMMA QuietPart ==
  ASSUME PubInv, IInv', NEW r \in Replica, UNCHANGED <<clock, remote>>,
         db' = [db EXCEPT ![r] = db'[r]], task' = [task EXCEPT ![r] = task'[r]],
         Part(db'[r], task'[r], remote, clock),
         db'[r].local \subseteq db[r].local
  PROVE  PubInv'
<1>1. \A s \in Replica \ {r} : db'[r].local \cap db[s].local \subseteq remote'.objects
  BY DEF PubInv, Apart
<1>2. clock' \in Nat /\ clock <= clock' /\ RemoteDated(remote', clock') /\ Part(db'[r], task'[r], remote', clock')
  BY DEF PubInv, IInv
<1> QED  BY <1>1, <1>2, OnePart

\* The volume as it was created.
LEMMA PubInit == Init => PubInv
<1> SUFFICES ASSUME Init PROVE PubInv
  OBVIOUS
<1> DEFINE heads == [b \in {Serves[r] : r \in Replica} |-> {0}]
           R == [objects |-> Closure(heads), configs |-> {Config(heads, 0)}]
           d == [local |-> {}, synced |-> Closure(heads), heads |-> heads, time |-> 0,
                 mode |-> "synced", queue |-> {}, pending |-> {}, seen |-> {Config(heads, 0)}]
           t == [phase |-> "pull", attempt |-> 0, batch |-> {}, todo |-> {}]
<1>1. /\ db = [r \in Replica |-> d] /\ task = [r \in Replica |-> t]
      /\ remote = R /\ clock = 0
  BY EnterIsRest DEF Init
<1>2. /\ d.local = {} /\ d.synced = Closure(heads) /\ d.heads = heads /\ d.queue = {} /\ d.pending = {}
      /\ t.phase = "pull" /\ R.objects = Closure(heads) /\ R.configs = {Config(heads, 0)}
      /\ Config(heads, 0).heads = heads
  BY DEF Config
<1>3. Values(heads) \subseteq {{0}}
  BY DEF Values
<1> HIDE DEF heads, d, t, R
<1>4. \A o \in Closure(heads) : o.of \subseteq 0 .. 0
  BY <1>3 DEF Closure, Commits, Files
<1>5. RemoteDated(R, 0)
  BY <1>2, <1>3, <1>4 DEF RemoteDated
<1>6. Part(d, t, R, 0)
  BY <1>2, <1>4 DEF Part, Dated, Rows, QueuedWhole, InHand, Named, Published
<1>7. Apart(db, remote)
  BY <1>1, <1>2 DEF Apart
<1> QED  BY <1>1, <1>5, <1>6, <1>7, InitInv DEF PubInv

\* A push queues all local rows and, if it is not synced, the config.
LEMMA StartPushPub ==
  ASSUME PubInv, NEW r \in Replica, StartPush(r)
  PROVE  PubInv'
<1> DEFINE o == db[r]
           d == Cleared(o)
           q == d.local \cup (IF d.mode = "local" THEN {CurrentConfig(d)} ELSE {})
           e == [d EXCEPT !.queue = q]
           t == [phase |-> "push", attempt |-> 0, batch |-> {}, todo |-> {}]
<1>1. Good(r, o, task[r], remote) /\ Part(o, task[r], remote, clock) /\ o \in Database
  BY DEF PubInv, IInv, Good
<1>2. /\ d \in Database /\ RowsOK(d) /\ d.synced = o.synced /\ d.heads = o.heads
      /\ d.mode = o.mode /\ d.local \subseteq o.local /\ d.pending = {}
  BY <1>1, ClearedKeeps, ClearedLess DEF Good
<1>3. /\ db' = [db EXCEPT ![r] = db'[r]] /\ db'[r] = e /\ UNCHANGED <<clock, remote>>
      /\ task' = [task EXCEPT ![r] = task'[r]] /\ task'[r] = t
  BY EnterIsRest DEF StartPush, Enter, PubInv, IInv
<1> HIDE DEF o, d
<1>4. e.local = d.local /\ e.synced = d.synced /\ e.heads = d.heads /\ e.queue = q /\ e.pending = {}
  BY <1>2 DEF Database
<1>5. Closure(d.heads) \subseteq Rows(d)
  BY <1>2, HeadsWhole DEF RowsOK
<1>6. Closure(d.heads) \subseteq q \cup d.synced
  BY <1>5 DEF Rows
<1>7. \A k \in q : k.kind = "config" => k.heads = d.heads
  <2>1. \A k \in d.local : k.kind # "config"
    BY <1>2, KindsDiffer DEF Database
  <2>2. CurrentConfig(d).heads = d.heads
    BY DEF CurrentConfig, Config
  <2> QED  BY <2>1, <2>2
<1> HIDE DEF e
<1>8. Dated(e, clock)
  BY <1>1, <1>2, <1>4 DEF Part, Dated, Rows
<1>9. QueuedWhole(e)
  BY <1>4, <1>6, <1>7 DEF QueuedWhole
<1>10. Named(e, t, remote)
  BY <1>4 DEF Named
<1> HIDE DEF q
<1>11. Part(e, t, remote, clock)
  BY <1>4, <1>6, <1>8, <1>9, <1>10 DEF Part, InHand, Published
<1>12. IInv'
  BY StartPushInv DEF PubInv
<1> QED  BY <1>2, <1>3, <1>4, <1>11, <1>12, QuietPart DEF o

\* Nothing was pending when a batch is taken.
LEMMA FillPub ==
  ASSUME PubInv, NEW r \in Replica, Fill(r)
  PROVE  PubInv'
<1> DEFINE d == db[r]
           t == task[r]
<1>1. /\ Part(d, t, remote, clock) /\ d \in Database /\ t \in Tasks /\ t.phase = "push"
      /\ UNCHANGED <<clock, remote>>
  BY DEF PubInv, IInv, Good, Fill, In
<1>2. PICK B \in SUBSET (d.queue \ d.pending) :
        /\ db' = [db EXCEPT ![r].pending = @ \cup B]
        /\ task' = [task EXCEPT ![r].phase = "upload", ![r].batch = B]
  BY DEF Fill
<1> DEFINE e == [d EXCEPT !.pending = d.pending \cup B]
           u == [[t EXCEPT !.phase = "upload"] EXCEPT !.batch = B]
<1>3. db' = [db EXCEPT ![r] = db'[r]] /\ db'[r] = e
  BY <1>2 DEF PubInv, IInv
<1>4. task' = [task EXCEPT ![r] = task'[r]] /\ task'[r] = u
  BY <1>2 DEF PubInv, IInv
<1> HIDE DEF d, t
<1>5. /\ e.local = d.local /\ e.synced = d.synced /\ e.heads = d.heads /\ e.queue = d.queue
      /\ e.mode = d.mode /\ e.pending = B
  BY <1>1 DEF Database, Part, InHand
<1>6. u.phase = "upload" /\ u.batch = B
  BY <1>1 DEF Tasks
<1> HIDE DEF e, u
<1>7. Part(e, u, remote, clock)
  BY <1>1, <1>5, <1>6 DEF Part, Dated, Rows, QueuedWhole, InHand, Named, Published
<1>8. IInv'
  BY FillInv DEF PubInv
<1> QED  BY <1>1, <1>3, <1>4, <1>5, <1>7, <1>8, QuietPart DEF d

\* What an upload brings, all of its batch or a part: rows that are no younger than the clock, and
\* configs of the queue.
LEMMA StoredPub ==
  ASSUME PubInv, NEW r \in Replica, NEW X \in SUBSET task[r].batch, remote' = Stored(X)
  PROVE  /\ remote' \in Remotes /\ remote.objects \subseteq remote'.objects
         /\ RemoteDated(remote', clock)
         /\ \A k \in remote'.configs \ remote.configs : \A s \in Replica :
              Closure(k.heads) \cap db[s].local \subseteq db[s].queue \cup remote.objects
         /\ Part(db[r], task[r], remote', clock)
<1>1. /\ Good(r, db[r], task[r], remote) /\ Part(db[r], task[r], remote, clock) /\ clock \in Nat
      /\ IInv /\ RemoteDated(remote, clock)
  BY DEF PubInv, IInv
<1>2. X \subseteq db[r].queue /\ X \in SUBSET Items /\ db[r].queue \cap Object \subseteq Rows(db[r])
  BY <1>1 DEF Good, TaskOK, RowsOK, Tasks
<1>3. /\ remote'.objects = remote.objects \cup (X \cap Object)
      /\ remote'.configs = remote.configs \cup (X \ Object)
  BY DEF Stored
<1>4. remote' \in Remotes /\ remote.objects \subseteq remote'.objects
  BY <1>1, <1>2, StoredGrows
<1>5. ASSUME NEW k \in X \ Object PROVE k.kind = "config" /\ k \in db[r].queue
  BY <1>2, KindsDiffer DEF Items
<1>6. \A k \in remote'.configs \ remote.configs : \A s \in Replica :
        Closure(k.heads) \cap db[s].local \subseteq db[s].queue \cup remote.objects
  BY <1>3, <1>5, QueuedIsNamed
<1>7. RemoteDated(remote', clock)
  <2>1. \A o \in Rows(db[r]) : o.of \subseteq 0 .. clock
    BY <1>1 DEF Part, Dated
  <2>2. \A o \in remote'.objects : o.of \subseteq 0 .. clock
    BY <1>1, <1>2, <1>3, <2>1 DEF RemoteDated
  <2>3. ASSUME NEW k \in X \ Object, NEW c \in Values(k.heads) PROVE c \subseteq 0 .. clock
    <3> DEFINE o == [kind |-> "commit", of |-> c]
    <3>1. o \in Closure(k.heads) /\ o.kind = "commit" /\ o.of = c
      BY DEF Closure, Commits
    <3> HIDE DEF o
    <3>2. o \in db[r].queue \cup db[r].synced
      BY <1>1, <1>5, <3>1 DEF Part, QueuedWhole
    <3>3. o \in Object
      BY <1>1, <3>1, <3>2, KindsDiffer DEF Good, Database, Items
    <3>4. o \in Rows(db[r])
      BY <1>2, <3>2, <3>3 DEF Rows
    <3> QED  BY <2>1, <3>1, <3>4
  <2> QED  BY <1>1, <1>3, <2>2, <2>3 DEF RemoteDated
<1>8. Part(db[r], task[r], remote', clock)
  BY <1>1, <1>4, <1>6, OthersPart
<1> QED  BY <1>4, <1>6, <1>7, <1>8

\* A batch that arrived is pending until it is marked.
LEMMA UploadPub ==
  ASSUME PubInv, NEW r \in Replica, Upload(r)
  PROVE  PubInv'
<1> DEFINE t == task[r]
           u == [t EXCEPT !.phase = "uploaded"]
<1>1. /\ t \in Tasks /\ t.phase = "upload" /\ remote' = Stored(t.batch) /\ UNCHANGED <<clock, db>>
      /\ task' = [task EXCEPT ![r].phase = "uploaded"] /\ clock \in Nat
  BY DEF Upload, In, PubInv, IInv
<1>2. /\ task' = [task EXCEPT ![r] = task'[r]] /\ task'[r] = u
      /\ db' = [db EXCEPT ![r] = db'[r]] /\ db'[r] = db[r]
  BY <1>1 DEF PubInv, IInv
<1>3. /\ remote.objects \subseteq remote'.objects /\ RemoteDated(remote', clock)
      /\ \A k \in remote'.configs \ remote.configs : \A s \in Replica :
           Closure(k.heads) \cap db[s].local \subseteq db[s].queue \cup remote.objects
      /\ Part(db[r], t, remote', clock)
  BY <1>1, StoredPub
<1> HIDE DEF t
<1>4. u.phase = "uploaded" /\ u.batch = t.batch
  BY <1>1 DEF Tasks
<1> HIDE DEF u
<1>5. Part(db'[r], task'[r], remote', clock')
  BY <1>1, <1>2, <1>3, <1>4 DEF Part, InHand, Named, Published
<1>6. \A s \in Replica \ {r} : db'[r].local \cap db[s].local \subseteq remote'.objects
  BY <1>2, <1>3 DEF PubInv, Apart
<1>7. IInv'
  BY UploadInv DEF PubInv
<1>8. clock' \in Nat /\ clock <= clock' /\ RemoteDated(remote', clock')
  BY <1>1, <1>3
<1> QED  BY <1>2, <1>3, <1>5, <1>6, <1>7, <1>8, OnePart

\* After a failure nothing is pending; a push that is given up leaves the pull out.
LEMMA UploadFailsPub ==
  ASSUME PubInv, NEW r \in Replica, UploadFails(r)
  PROVE  PubInv'
<1> DEFINE o == db[r]
           n == task[r].attempt + 1
           t == [phase |-> "push", attempt |-> n, batch |-> {}, todo |-> {}]
           u == [phase |-> "idle", attempt |-> 0, batch |-> {}, todo |-> {}]
<1>1. PICK X \in SUBSET task[r].batch : remote' = Stored(X)
  BY DEF UploadFails
<1>2. /\ remote.objects \subseteq remote'.objects /\ RemoteDated(remote', clock)
      /\ \A k \in remote'.configs \ remote.configs : \A s \in Replica :
           Closure(k.heads) \cap db[s].local \subseteq db[s].queue \cup remote.objects
      /\ Part(o, task[r], remote', clock)
  BY <1>1, StoredPub
<1>3. clock' = clock /\ clock \in Nat /\ o \in Database /\ task[r].phase = "upload"
  BY DEF UploadFails, Fault, PubInv, IInv, In
<1>4. IInv'
  BY UploadFailsInv DEF PubInv
<1>5. ASSUME NEW e, e.local \subseteq o.local, db' = [db EXCEPT ![r] = e], NEW v, task' = [task EXCEPT ![r] = v],
             Part(e, v, remote', clock)
      PROVE  PubInv'
  <2>1. /\ db' = [db EXCEPT ![r] = db'[r]] /\ db'[r] = e
        /\ task' = [task EXCEPT ![r] = task'[r]] /\ task'[r] = v
    BY <1>5 DEF PubInv, IInv
  <2>2. \A s \in Replica \ {r} : db'[r].local \cap db[s].local \subseteq remote'.objects
    BY <1>2, <1>5, <2>1 DEF PubInv, Apart
  <2>3. clock' \in Nat /\ clock <= clock' /\ RemoteDated(remote', clock') /\ Part(db'[r], task'[r], remote', clock')
    BY <1>2, <1>3, <1>5, <2>1
  <2> HIDE DEF o
  <2> QED  BY <1>2, <1>4, <2>1, <2>2, <2>3, OnePart
<1>6. CASE GivesUp(r)
  <2> DEFINE d == Cleared(o)
  <2>1. db' = [db EXCEPT ![r] = d] /\ task' = [task EXCEPT ![r] = u]
    BY <1>6, EnterIsRest DEF UploadFails, Enter
  <2>2. d.local \subseteq o.local /\ d.synced = o.synced /\ d.heads = o.heads /\ d.queue = {}
    BY <1>3, ClearedLess, ClearedKeeps DEF PubInv, IInv, Good
  <2>3. u.phase = "idle"
    OBVIOUS
  <2> HIDE DEF d, u, o
  <2>4. Part(d, u, remote', clock)
    BY <1>2, <2>2, <2>3 DEF Part, Dated, Rows, QueuedWhole, InHand, Named, Published
  <2> QED  BY <1>5, <2>1, <2>2, <2>4
<1>7. CASE ~GivesUp(r)
  <2> DEFINE d == [o EXCEPT !.pending = {}]
  <2>1. db' = [db EXCEPT ![r] = d]
    BY <1>7 DEF UploadFails, PubInv, IInv
  <2>2. task' = [task EXCEPT ![r] = t]
    <3>1. task' = [task EXCEPT ![r] = [Resting EXCEPT !.phase = "push", !.attempt = n]]
      BY <1>7 DEF UploadFails
    <3> DEFINE v == [Resting EXCEPT !.phase = "push"]
    <3>2. v = [phase |-> "push", attempt |-> 0, batch |-> {}, todo |-> {}]
      BY EnterIsRest
    <3>3. [Resting EXCEPT !.phase = "push", !.attempt = n] = [v EXCEPT !.attempt = n]
      OBVIOUS
    <3> HIDE DEF v, n
    <3>4. [Resting EXCEPT !.phase = "push", !.attempt = n] = t
      BY <3>2, <3>3
    <3> QED  BY <3>1, <3>4
  <2>3. t.phase = "push"
    OBVIOUS
  <2> HIDE DEF t, o
  <2>4. /\ d.local = o.local /\ d.synced = o.synced /\ d.heads = o.heads /\ d.queue = o.queue
        /\ d.mode = o.mode /\ d.pending = {}
    BY <1>3 DEF Database
  <2> HIDE DEF d
  <2>5. Part(d, t, remote', clock)
    BY <1>2, <1>3, <2>3, <2>4 DEF Part, Dated, Rows, QueuedWhole, InHand, Named, Published
  <2> QED  BY <1>5, <2>1, <2>2, <2>4, <2>5
<1> QED  BY <1>6, <1>7

\* What is marked leaves the queue, and is synced.
LEMMA MarkPub ==
  ASSUME PubInv, NEW r \in Replica, Mark(r)
  PROVE  PubInv'
<1> DEFINE o == db[r]
           t == task[r]
           B == t.batch
           d == Synced(o, B)
           e == [[d EXCEPT !.queue = d.queue \ B] EXCEPT !.pending = d.pending \ B]
           c == Collect(e)
           u == [[t EXCEPT !.phase = "push"] EXCEPT !.batch = {}]
<1>1. /\ Good(r, o, t, remote) /\ Part(o, t, remote, clock) /\ o \in Database /\ t \in Tasks
      /\ t.phase = "uploaded" /\ remote \in Remotes
  BY DEF PubInv, IInv, Good, Mark, In
<1>2. /\ UNCHANGED <<clock, remote>>
      /\ db' = [db EXCEPT ![r] = Collect([d EXCEPT !.queue = @ \ B, !.pending = @ \ B])]
      /\ task' = [task EXCEPT ![r].phase = "push", ![r].batch = {}]
  BY DEF Mark
<1>3. [d EXCEPT !.queue = @ \ B, !.pending = @ \ B] = e
  <2>1. d \in [local : SUBSET Object, synced : SUBSET Object, heads : HeadMaps, time : Nat,
               mode : {"local", "synced"}, queue : SUBSET Items, pending : SUBSET Items,
               seen : SUBSET Configs]
    BY <1>1 DEF Synced, Database, Tasks, Items
  <2> HIDE DEF d
  <2> QED BY <2>1
<1>4. /\ db' = [db EXCEPT ![r] = db'[r]] /\ db'[r] = c
      /\ task' = [task EXCEPT ![r] = task'[r]] /\ task'[r] = u
  <2>2. db' = [db EXCEPT ![r] = Collect(e)]
    BY <1>2, <1>3
  <2>3. task' = [task EXCEPT ![r] = u]
    BY <1>2 DEF PubInv, IInv
  <2> HIDE DEF e, u
  <2> QED BY <2>2, <2>3 DEF PubInv, IInv
<1>5. u.phase = "push" /\ u.batch = {}
  BY <1>1 DEF Tasks
<1>6. IInv'
  BY MarkInv DEF PubInv
<1> HIDE DEF o, t, u
<1>7. /\ B \in SUBSET Items /\ B \subseteq o.queue /\ On(B, remote)
      /\ \A x \in B \cap Object : Needs(x) \subseteq Rows(o)
  BY <1>1 DEF Good, TaskOK, Tasks, RowsOK, RowsNeed
<1>8. o.pending = B
  BY <1>1 DEF Part, InHand
<1> HIDE DEF B
<1>9. /\ d \in Database /\ RowsOK(d) /\ d.synced = o.synced \cup (B \cap Object)
      /\ d.heads = o.heads /\ d.time = o.time /\ d.queue = o.queue
      /\ d.mode = o.mode \/ CurrentConfig(o) \in B
      /\ d.local \subseteq o.local /\ d.pending = o.pending
  BY <1>1, <1>7, SyncedKeeps, SyncedLess DEF Good
<1> HIDE DEF d
<1>10. /\ e \in Database /\ e.local = d.local /\ e.synced = d.synced /\ e.heads = d.heads
       /\ e.mode = d.mode /\ e.queue = d.queue \ B /\ e.pending = {}
  BY <1>8, <1>9 DEF Database
<1> HIDE DEF e
<1>11. RowsOK(e)
  BY <1>9, <1>10 DEF RowsOK, RowsNeed, Rows
<1>12. /\ c.local \subseteq o.local /\ c.synced = o.synced \cup (B \cap Object) /\ c.heads = o.heads
       /\ c.mode = o.mode \/ CurrentConfig(o) \in B
       /\ c.queue = o.queue \ B /\ c.pending = {}
  BY <1>9, <1>10, <1>11, CollectKeeps, CollectLess
<1> HIDE DEF c
<1>13. B \cap Object \subseteq remote.objects /\ B \cap Object \subseteq Rows(o)
  BY <1>1, <1>7, KindsDiffer DEF On, Remotes, Good, RowsOK
<1>14. Dated(c, clock)
  BY <1>1, <1>12, <1>13 DEF Part, Dated, Rows
<1>15. ASSUME NEW h, Closure(h) \subseteq o.queue \cup o.synced PROVE Closure(h) \subseteq c.queue \cup c.synced
  <2>1. \A x \in Closure(h) : x.kind # "config"
    BY DEF Closure, Commits, Files
  <2>2. \A x \in o.queue : x.kind # "config" => x \in Object
    BY <1>1, KindsDiffer DEF Database, Items
  <2> QED  BY <1>12, <1>15, <2>1, <2>2
<1>16. QueuedWhole(c)
  BY <1>1, <1>12, <1>15 DEF Part, QueuedWhole
<1>17. Named(c, u, remote)
  <2> SUFFICES ASSUME NEW k \in remote.configs, NEW x \in Closure(k.heads) \cap c.local
               PROVE  x \in c.queue \cup remote.objects
    BY DEF Named
  <2>1. x \in o.queue \cup remote.objects /\ x \in Object
    BY <1>1, <1>12 DEF Part, Named, Database
  <2> QED  BY <1>12, <1>13, <2>1
<1>18. Published(c, u, remote)
  <2> SUFFICES ASSUME c.mode = "synced" PROVE Closure(o.heads) \subseteq o.queue \cup o.synced
    BY <1>5, <1>12, <1>15 DEF Published
  <2>1. CASE o.mode = "synced"
    BY <1>1, <2>1 DEF Part, Published
  <2>2. CASE CurrentConfig(o) \in B
    <3>1. CurrentConfig(o).kind = "config" /\ CurrentConfig(o).heads = o.heads
      BY DEF CurrentConfig, Config
    <3> QED  BY <1>1, <1>7, <2>2, <3>1 DEF Part, QueuedWhole
  <2> QED  BY <1>12, <2>1, <2>2
<1>19. Part(c, u, remote, clock)
  BY <1>5, <1>12, <1>14, <1>16, <1>17, <1>18 DEF Part, InHand
<1> QED  BY <1>2, <1>4, <1>6, <1>12, <1>19, QuietPart DEF o

\* A push ends when the queue is empty: all it had is synced.
LEMMA EndPushPub ==
  ASSUME PubInv, NEW r \in Replica, EndPush(r)
  PROVE  PubInv'
<1> DEFINE o == db[r]
           d == Cleared(o)
           X == Unseen(o)
           t == [phase |-> "pull", attempt |-> 0, batch |-> {}, todo |-> X]
<1>1. /\ Good(r, o, task[r], remote) /\ Part(o, task[r], remote, clock) /\ o \in Database
      /\ task[r].phase = "push"
      /\ db' = [db EXCEPT ![r] = d] /\ UNCHANGED <<clock, remote>>
      /\ task' = [task EXCEPT ![r] = [Resting EXCEPT !.phase = "pull", !.todo = X]]
      /\ o.queue \subseteq o.pending
  BY DEF PubInv, IInv, Good, EndPush, In
<1>2. [Resting EXCEPT !.phase = "pull", !.todo = X] = t
  <2> DEFINE u == [Resting EXCEPT !.phase = "pull"]
  <2>1. u = [phase |-> "pull", attempt |-> 0, batch |-> {}, todo |-> {}]
    BY EnterIsRest
  <2>2. [Resting EXCEPT !.phase = "pull", !.todo = X] = [u EXCEPT !.todo = X]
    OBVIOUS
  <2> HIDE DEF u, X
  <2> QED BY <2>1, <2>2
<1>3. /\ db' = [db EXCEPT ![r] = db'[r]] /\ db'[r] = d
      /\ task' = [task EXCEPT ![r] = task'[r]] /\ task'[r] = t
  BY <1>1, <1>2 DEF PubInv, IInv
<1>4. t.phase = "pull"
  OBVIOUS
<1>5. /\ d.local \subseteq o.local /\ d.synced = o.synced /\ d.heads = o.heads /\ d.mode = o.mode /\ d.queue = {}
  BY <1>1, ClearedLess, ClearedKeeps DEF Good
<1>6. o.queue = {} /\ o.synced \subseteq remote.objects
  BY <1>1 DEF Part, InHand, Good, Backed
<1>7. IInv'
  BY EndPushInv DEF PubInv
<1> HIDE DEF o, d, t
<1>8. Part(d, t, remote, clock)
  BY <1>1, <1>4, <1>5, <1>6 DEF Part, Dated, Rows, QueuedWhole, InHand, Named, Published
<1> QED  BY <1>1, <1>3, <1>5, <1>7, <1>8, QuietPart DEF o

\* What a pulled config names is there; what of it is on no remote would be a row written since
\* the push began, which no config names.
LEMMA PullPub ==
  ASSUME PubInv, NEW r \in Replica, Pull(r) \/ PullFails(r)
  PROVE  PubInv'
<1> DEFINE d == db[r]
           t == task[r]
<1>1. /\ Good(r, d, t, remote) /\ Part(d, t, remote, clock) /\ d \in Database /\ t \in Tasks
      /\ t.phase = "pull" /\ d.queue = {} /\ UNCHANGED <<clock, remote>>
  BY DEF PubInv, IInv, Good, Pull, PullFails, In, Part, InHand
<1>2. PICK o \in t.todo :
        /\ \/ db' = [db EXCEPT ![r] = Pulled(r, o)] /\ ~Refused(r, o)
           \/ db' = db
        /\ task' = [task EXCEPT ![r].todo = @ \ {o}]
  BY DEF Pull, PullFails
<1> DEFINE u == [t EXCEPT !.todo = t.todo \ {o}]
           e == db'[r]
<1>3. /\ task' = [task EXCEPT ![r] = task'[r]] /\ task'[r] = u
      /\ db' = [db EXCEPT ![r] = e] /\ (e = d \/ (e = Pulled(r, o) /\ ~Refused(r, o)))
  BY <1>2 DEF PubInv, IInv
<1>4. IInv'
  BY PullInv DEF PubInv
<1>5. Good(r, e, task'[r], remote) /\ e \in Database
  BY <1>1, <1>4 DEF IInv, Good
<1>6. u.phase = "pull"
  BY <1>1 DEF Tasks
<1>7. o \in remote.objects \cup remote.configs /\ remote \in Remotes
  BY <1>1 DEF Good, TaskOK, On, PubInv, IInv
<1>8. ASSUME e = Pulled(r, o), ~Refused(r, o)
      PROVE  /\ e.local \subseteq d.local /\ e.queue = d.queue
             /\ e.synced \subseteq remote.objects
             /\ e.mode = "synced" => Closure(e.heads) \subseteq remote.objects
  <2>1. e.queue = d.queue /\ e.synced \subseteq remote.objects
    BY <1>1, <1>5, <1>7, <1>8, PulledIsGood DEF Good, Backed
  <2>2. CASE o.kind = "config"
    <3> DEFINE s == [d EXCEPT !.seen = d.seen \cup {o}]
               k == [[[s EXCEPT !.heads = o.heads] EXCEPT !.time = o.time] EXCEPT !.mode = "synced"]
    <3>1. o \in Configs /\ o \in remote.configs
      BY <1>7, <2>2, KindsDiffer DEF Remotes
    <3>2. e = IF IsNewer(s, o) THEN Collect(SetConfig(s, o)) ELSE s
      BY <1>8, <2>2 DEF Pulled
    <3>3. SetConfig(s, o) = k
      BY DEF SetConfig
    <3> HIDE DEF d
    <3>4. /\ s \in Database /\ s.local = d.local /\ s.synced = d.synced /\ s.heads = d.heads
          /\ s.time = d.time /\ s.mode = d.mode /\ s.queue = d.queue
      BY <1>1, <3>1 DEF Database
    <3> HIDE DEF s
    <3>5. k \in Database /\ k.local = d.local /\ k.synced = d.synced /\ k.queue = d.queue /\ k.heads = o.heads
      BY <3>1, <3>4 DEF Database, Configs
    <3> HIDE DEF k
    <3>6. CASE IsNewer(s, o)
      <4>1. e.local \subseteq d.local /\ e.heads = o.heads
        <5>1. IsNewer(d, o)
          BY <3>4, <3>6 DEF IsNewer
        <5>2. Commits(Values(o.heads)) \subseteq Rows(d)
          BY <1>8, <2>2, <5>1 DEF Refused, Needs, d
        <5>3. RowsOK(k)
          BY <1>1, <3>5, <5>2 DEF Good, RowsOK, RowsNeed, Rows
        <5> QED  BY <3>2, <3>3, <3>5, <3>6, <5>3, CollectKeeps, CollectLess
      <4>2. Closure(o.heads) \subseteq Rows(d)
        <5>1. IsNewer(d, o)
          BY <3>4, <3>6 DEF IsNewer
        <5>2. Commits(Values(o.heads)) \subseteq Rows(d)
          BY <1>8, <2>2, <5>1 DEF Refused, Needs, d
        <5> QED  BY <1>1, <5>2, HeadsWhole DEF Good, RowsOK
      <4>3. Closure(o.heads) \cap d.local \subseteq remote.objects
        BY <1>1, <3>1 DEF Part, Named
      <4>4. Closure(e.heads) \subseteq remote.objects
        BY <1>1, <4>1, <4>2, <4>3 DEF Rows, Good, Backed
      <4> QED  BY <2>1, <4>1, <4>4
    <3>7. CASE ~IsNewer(s, o)
      BY <1>1, <2>1, <3>2, <3>4, <3>7 DEF Part, Published
    <3> QED  BY <3>6, <3>7 DEF d
  <2>3. CASE o.kind # "config"
    <3>1. o \in Object /\ Needs(o) \subseteq Rows(d) /\ e = Synced(d, {o})
      BY <1>7, <1>8, <2>3, KindsDiffer DEF Remotes, Refused, Pulled
    <3> HIDE DEF d
    <3>2. e.local \subseteq d.local
      BY <1>1, <3>1, SyncedLess
    <3> HIDE DEF e
    <3>3. {o} \in SUBSET Items /\ \A x \in {o} \cap Object : Needs(x) \subseteq Rows(d)
      BY <3>1 DEF Items
    <3>4. e.heads = d.heads /\ (e.mode = d.mode \/ CurrentConfig(d) \in {o})
      BY <1>1, <3>1, <3>3, SyncedKeeps DEF Good
    <3>5. e.mode = d.mode
      BY <1>1, <3>1, <3>4, CurrentIsConfig, KindsDiffer
    <3>6. e.mode = "synced" => Closure(e.heads) \subseteq remote.objects
      BY <1>1, <3>4, <3>5 DEF Part, Published
    <3> QED  BY <2>1, <3>2, <3>6 DEF d
  <2> QED  BY <2>2, <2>3
<1> HIDE DEF d, e, t, u
<1>9. Part(e, u, remote, clock) /\ e.local \subseteq d.local
  <2>1. CASE e = d
    BY <1>1, <1>6, <2>1 DEF Part, Dated, Rows, QueuedWhole, InHand, Named, Published
  <2>2. CASE e = Pulled(r, o) /\ ~Refused(r, o)
    <3>0. /\ e.local \subseteq d.local /\ e.queue = {} /\ e.synced \subseteq remote.objects
          /\ e.mode = "synced" => Closure(e.heads) \subseteq remote.objects
      BY <1>1, <1>8, <2>2
    <3>1. Dated(e, clock)
      <4>1. \A x \in remote.objects : x.of \subseteq 0 .. clock
        BY DEF PubInv, RemoteDated
      <4>2. \A x \in d.local : x.of \subseteq 0 .. clock
        BY <1>1 DEF Part, Dated, Rows
      <4> QED  BY <3>0, <4>1, <4>2 DEF Dated, Rows
    <3>2. Named(e, u, remote)
      BY <1>1, <3>0 DEF Part, Named
    <3>3. QueuedWhole(e) /\ InHand(e, u) /\ Published(e, u, remote)
      BY <1>6, <3>0 DEF QueuedWhole, InHand, Published
    <3> QED  BY <3>0, <3>1, <3>2, <3>3 DEF Part
  <2> QED  BY <1>3, <2>1, <2>2
<1> QED  BY <1>1, <1>3, <1>4, <1>9, QuietPart DEF d, e

\* A crash leaves everything but what was in hand.
LEMMA CrashPub ==
  ASSUME PubInv, NEW r \in Replica, Crash(r)
  PROVE  PubInv'
<1> DEFINE u == [phase |-> "idle", attempt |-> 0, batch |-> {}, todo |-> {}]
<1>1. UNCHANGED <<clock, remote>> /\ db' = [db EXCEPT ![r] = db'[r]] /\ db'[r] = db[r]
  BY DEF Crash, Fault, PubInv, IInv
<1>2. task' = [task EXCEPT ![r] = task'[r]] /\ task'[r] = u
  BY EnterIsRest DEF Crash, Enter, PubInv, IInv
<1>3. Part(db[r], task[r], remote, clock) /\ u.phase = "idle"
  BY DEF PubInv
<1> HIDE DEF u
<1>4. Part(db[r], u, remote, clock)
  BY <1>3 DEF Part, InHand, Named, Published
<1>5. IInv'
  BY CrashInv DEF PubInv
<1> QED  BY <1>1, <1>2, <1>4, <1>5, QuietPart

\* A write makes rows that are younger than all there is.
LEMMA WritePub ==
  ASSUME PubInv, NEW r \in Replica, Write(r)
  PROVE  PubInv'
<1> DEFINE o == db[r]
           n == clock'
           c == o.heads[Serves[r]] \cup {n}
           d == [o EXCEPT !.local = @ \cup Files({n}) \cup Commits({c}),
                          !.heads[Serves[r]] = c, !.time = n, !.mode = "local"]
           e == Collect(d)
<1>1. /\ Good(r, o, task[r], remote) /\ Part(o, task[r], remote, clock) /\ o \in Database
      /\ Serves[r] \in DOMAIN o.heads /\ remote \in Remotes
  BY DEF PubInv, IInv, Good
<1>2. /\ clock \in Nat /\ n = clock + 1 /\ UNCHANGED <<task, remote>> /\ db' = [db EXCEPT ![r] = e]
  BY DEF Write, Tick, PubInv, IInv
<1>3. db' = [db EXCEPT ![r] = db'[r]] /\ db'[r] = e /\ task' = [task EXCEPT ![r] = task'[r]] /\ task'[r] = task[r]
  BY <1>2 DEF PubInv, IInv
<1>4. IInv'
  BY WriteInv DEF PubInv
<1>5. o.heads[Serves[r]] \subseteq 0 .. clock
  <2> DEFINE p == o.heads[Serves[r]]
             x == [kind |-> "commit", of |-> p]
  <2>1. x \in Commits(Values(o.heads)) /\ x.of = p
    BY <1>1 DEF Commits, Values
  <2> HIDE DEF x, p
  <2>2. x \in Rows(o)
    BY <1>1, <2>1 DEF Good, RowsOK
  <2>3. p \subseteq 0 .. clock
    BY <1>1, <2>1, <2>2 DEF Part, Dated
  <2> QED  BY <2>3 DEF p
<1>6. n \in c /\ c \subseteq 0 .. n /\ n \notin 0 .. clock /\ 0 .. clock \subseteq 0 .. n /\ n \in 0 .. n
  BY <1>2, <1>5
<1> DEFINE New == Files({n}) \cup Commits({c})
<1>7. \A x \in New : n \in x.of /\ x.of \subseteq 0 .. n
  BY <1>6 DEF Files, Commits
<1>8. e.local \subseteq o.local \cup New /\ e.synced = o.synced /\ e.queue = o.queue /\ e.pending = o.pending
      /\ e.mode = "local"
  <2> DEFINE L == o.local \cup New
             d1 == [o EXCEPT !.local = L]
             d2 == [d1 EXCEPT !.heads[Serves[r]] = c]
             d3 == [d2 EXCEPT !.time = n]
             d4 == [d3 EXCEPT !.mode = "local"]
             Shape == DOMAIN o
  <2>1. d = d4
    BY DEF L, New
  <2> HIDE DEF c, New, n, o
  <2>2. "local" \in DOMAIN o /\ "mode" \in DOMAIN o /\ "heads" \in DOMAIN o
    BY <1>1 DEF Database
  <2>3. /\ DOMAIN d1 = DOMAIN o /\ d1.local = L /\ d1.synced = o.synced /\ d1.queue = o.queue /\ d1.pending = o.pending
    BY <2>2
  <2> HIDE DEF d1
  <2>4. /\ DOMAIN d2 = DOMAIN o /\ d2.local = L /\ d2.synced = o.synced /\ d2.queue = o.queue /\ d2.pending = o.pending
    BY <2>3
  <2> HIDE DEF d2
  <2>5. /\ DOMAIN d3 = DOMAIN o /\ d3.local = L /\ d3.synced = o.synced /\ d3.queue = o.queue /\ d3.pending = o.pending
    BY <2>4
  <2> HIDE DEF d3
  <2>6. /\ DOMAIN d4 = DOMAIN o /\ d4.local = L /\ d4.synced = o.synced /\ d4.queue = o.queue /\ d4.pending = o.pending
        /\ d4.mode = "local"
    BY <2>2, <2>5
  <2> HIDE DEF d4, d
  <2>7. e = [d4 EXCEPT !.local = L \cap Referenced(d4)]
    BY <2>1, <2>6 DEF Collect
  <2> HIDE DEF e
  <2>8. e.local = L \cap Referenced(d4) /\ e.synced = o.synced /\ e.queue = o.queue /\ e.pending = o.pending /\ e.mode = "local"
    BY <2>2, <2>6, <2>7
  <2> QED  BY <2>8 DEF L
<1> HIDE DEF e, d, c, o, New
<1>9. Dated(e, n)
  BY <1>1, <1>6, <1>7, <1>8 DEF Part, Dated, Rows
<1>10. Named(e, task[r], remote)
  <2> SUFFICES ASSUME task[r].phase # "idle", NEW k \in remote.configs, NEW x \in Closure(k.heads), x \in e.local
               PROVE  x \in e.queue \cup remote.objects
    BY DEF Named
  <2>1. x.of \subseteq 0 .. clock
    <3>1. \A p \in Values(k.heads) : p \subseteq 0 .. clock
      BY DEF PubInv, RemoteDated
    <3>2. UNION Values(k.heads) \subseteq 0 .. clock
      BY <3>1
    <3>3. \A y \in Commits(Values(k.heads)) : y.of \subseteq 0 .. clock
      BY <3>1 DEF Commits
    <3>4. \A y \in Files(UNION Values(k.heads)) : y.of \subseteq 0 .. clock
      BY <3>2 DEF Files
    <3> QED  BY <3>3, <3>4 DEF Closure
  <2>2. x \in o.local
    BY <1>6, <1>7, <1>8, <2>1
  <2> QED  BY <1>1, <1>8, <2>2 DEF Part, Named
<1>11. Part(e, task[r], remote, n)
  BY <1>1, <1>8, <1>9, <1>10 DEF Part, QueuedWhole, InHand, Published
<1>12. ASSUME NEW s \in Replica \ {r} PROVE e.local \cap db[s].local \subseteq remote.objects
  <2>1. \A x \in db[s].local : n \notin x.of
    <3>1. \A x \in Rows(db[s]) : x.of \subseteq 0 .. clock
      BY DEF PubInv, Part, Dated
    <3> QED  BY <1>6, <3>1 DEF Rows
  <2>2. o.local \cap db[s].local \subseteq remote.objects
    BY DEF PubInv, Apart, o
  <2> QED  BY <1>7, <1>8, <2>1, <2>2
<1>13. RemoteDated(remote, n)
  BY <1>6 DEF PubInv, RemoteDated
<1> HIDE DEF n
<1>14. RemoteDated(remote', clock') /\ Part(db'[r], task'[r], remote', clock')
       /\ \A s \in Replica \ {r} : db'[r].local \cap db[s].local \subseteq remote'.objects
  BY <1>2, <1>3, <1>11, <1>12, <1>13 DEF n
<1>15. clock' \in Nat /\ clock <= clock' /\ remote.objects \subseteq remote'.objects /\ remote'.configs \ remote.configs = {}
  BY <1>2 DEF n
<1> QED  BY <1>3, <1>4, <1>14, <1>15, OnePart

\* The command line's configs name what one that is there names.
LEMMA ReplacePub ==
  ASSUME PubInv, IInv', NEW k \in remote.configs, NEW h, Values(h) \subseteq Values(k.heads), ReplaceConfig(h)
  PROVE  PubInv'
<1> DEFINE new == Config(h, clock')
<1>1. /\ clock \in Nat /\ clock' = clock + 1 /\ UNCHANGED <<db, task>>
      /\ remote' = [remote EXCEPT !.configs = @ \cup {new}] /\ remote \in Remotes
  BY DEF ReplaceConfig, Tick, PubInv, IInv
<1>2. new.heads = h
  BY DEF Config
<1> HIDE DEF new
<1>3. remote'.objects = remote.objects /\ remote'.configs = remote.configs \cup {new}
  BY <1>1 DEF Remotes
<1>4. Closure(h) \subseteq Closure(k.heads)
  BY DEF Closure, Commits, Files
<1>5. 0 .. clock \subseteq 0 .. clock'
  BY <1>1
<1>6. RemoteDated(remote', clock')
  BY <1>2, <1>3, <1>5 DEF PubInv, RemoteDated
<1>7. ASSUME NEW s \in Replica PROVE Part(db[s], task[s], remote', clock')
  <2>1. Part(db[s], task[s], remote, clock)
    BY DEF PubInv
  <2>2. Dated(db[s], clock')
    BY <1>5, <2>1 DEF Part, Dated
  <2>3. Named(db[s], task[s], remote')
    BY <1>2, <1>3, <1>4, <2>1 DEF Part, Named
  <2>4. Published(db[s], task[s], remote')
    BY <1>3, <2>1 DEF Part, Published
  <2> QED  BY <2>1, <2>2, <2>3, <2>4 DEF Part
<1>8. Apart(db', remote')
  BY <1>1, <1>3 DEF PubInv, Apart
<1> QED  BY <1>1, <1>6, <1>7, <1>8 DEF PubInv

\* Heads are made and deleted at the command line.
LEMMA HeadsPub ==
  ASSUME PubInv, NEW b \in Branch, CreateHead(b) \/ DeleteHead(b)
  PROVE  PubInv'
<1>1. IInv'
  BY HeadsInv DEF PubInv
<1>2. CASE CreateHead(b)
  <2>1. PICK k \in remote.configs : \E c \in Values(k.heads) :
          ReplaceConfig([x \in DOMAIN k.heads \cup {b} |-> IF x = b THEN c ELSE k.heads[x]])
    BY <1>2 DEF CreateHead
  <2>2. PICK c \in Values(k.heads) :
          ReplaceConfig([x \in DOMAIN k.heads \cup {b} |-> IF x = b THEN c ELSE k.heads[x]])
    BY <2>1
  <2> DEFINE h == [x \in DOMAIN k.heads \cup {b} |-> IF x = b THEN c ELSE k.heads[x]]
  <2>3. Values(h) \subseteq Values(k.heads)
    BY DEF Values
  <2>4. ReplaceConfig(h)
    BY <2>2
  <2> HIDE DEF h
  <2> QED  BY <1>1, <2>3, <2>4, ReplacePub
<1>3. CASE DeleteHead(b)
  <2>1. PICK k \in remote.configs : ReplaceConfig([x \in DOMAIN k.heads \ {b} |-> k.heads[x]])
    BY <1>3 DEF DeleteHead
  <2> DEFINE h == [x \in DOMAIN k.heads \ {b} |-> k.heads[x]]
  <2>2. Values(h) \subseteq Values(k.heads)
    BY DEF Values
  <2>3. ReplaceConfig(h)
    BY <2>1
  <2> HIDE DEF h
  <2> QED  BY <1>1, <2>2, <2>3, ReplacePub
<1> QED  BY <1>2, <1>3

\* Every step keeps it.
LEMMA PubStep == PubInv /\ [Next]_vars => PubInv'
<1> SUFFICES ASSUME PubInv, [Next]_vars PROVE PubInv'
  OBVIOUS
<1>1. ASSUME NEW r \in Replica, TaskStep(r) PROVE PubInv'
  BY <1>1, StartPushPub, FillPub, UploadPub, UploadFailsPub, MarkPub, EndPushPub, PullPub DEF TaskStep
<1>2. ASSUME NEW r \in Replica, Write(r) \/ Crash(r) PROVE PubInv'
  BY <1>2, WritePub, CrashPub
<1>3. ASSUME NEW b \in Branch, CreateHead(b) \/ DeleteHead(b) PROVE PubInv'
  BY <1>3, HeadsPub
<1>4. CASE UNCHANGED vars
  <2>1. IInv'
    BY <1>4, StepInv DEF PubInv
  <2> QED  BY <1>4, <2>1 DEF vars, PubInv, Apart
<1> QED  BY <1>1, <1>2, <1>3, <1>4 DEF Next

\* A replica that has pushed, and wrote nothing meanwhile, has brought the remote all that its config
\* names, whatever failed, crashed or was given up before and whatever configs it pulled since (push.rs:102, 152).
THEOREM PushPublishes == Spec => []PushedIsPublished
<1>1. PubInv => PushedIsPublished
  BY DEF PubInv, Part, Published, PushedIsPublished, In
<1> QED  BY <1>1, PubInit, PubStep, PTL DEF Spec
=============================================================================
