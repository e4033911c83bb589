----------------------------- MODULE InodeCaches -----------------------------
(***************************************************************************)
(* The caches in front of the table of inodes: path -> inode id and        *)
(* inode id -> inode, absence included.  A request that misses reads the   *)
(* database and fills the cache, while others wait for the same fill.  A   *)
(* write transaction collects the inodes it changed in a change log and,   *)
(* once it is committed, invalidates all paths and those inodes.           *)
(*                                                                         *)
(* An inode is its path and the number of the commit that last wrote its   *)
(* entity; its parent is the inode with the path's front.                  *)
(***************************************************************************)
EXTENDS Integers, Sequences, SequencesExt, FiniteSetsExt

CONSTANTS
  Root, Dirs, Files,  \* inodes
  Names,
  Clients,            \* requests the server works on at a time
  None,
  Wanted,             \* what they look for: a directory and a name
  FirstTree,          \* the rows when the volume is opened
  MaxCommits,         \* bound: write transactions
  Capacity,           \* bound: entries of a cache
  MaxFills            \* bound: fills at a time

Inodes == Dirs \cup Files

\* A row: its path, and the commit that last wrote its entity.
Rows == [path : Seq(Names), ver : Nat]

ASSUME CacheAssumption ==
  /\ Root \in Dirs /\ Dirs \cap Files = {} /\ None \notin Inodes \cup Rows
  /\ DOMAIN FirstTree \subseteq Inodes /\ FirstTree \in [DOMAIN FirstTree -> Rows]
  /\ \A i \in DOMAIN FirstTree \ {Root} : FirstTree[i].path # <<>>
  /\ MaxCommits \in Nat /\ Capacity \in Nat /\ MaxFills \in Nat

VARIABLES
  log,      \* the rows after each commit, the last are the database's
  pending,  \* commits whose invalidation is not through: [commit, inodes, next]
  paths,    \* path cache: path -> [value, late]
  inodes,   \* inode cache
  fills,    \* fills that have read the database: key -> [value, late]
  req       \* client -> its request

entryVars == <<log, pending, paths, inodes, fills, req>>

----------------------------------------------------------------------------
(* Rows. *)

db == log[Len(log)]

Below(T, i) == {j \in DOMAIN T : IsPrefix(T[i].path, T[j].path)}

At(T, p) == LET there == {i \in DOMAIN T : T[i].path = p}
            IN  IF there = {} THEN None ELSE CHOOSE i \in there : TRUE

Row(T, i) == IF i \in DOMAIN T THEN T[i] ELSE None

\* Mutant of ChangeLog: a row whose path alone has changed is not in it.
ChangeLogOfEntities(T, U) ==
  {i \in DOMAIN T \cup DOMAIN U : i \notin DOMAIN T \cap DOMAIN U \/ T[i].ver # U[i].ver}

\* The change log's triggers: rows inserted, deleted, or changed in path or entity.
ChangeLog(T, U) ==
  {i \in DOMAIN T \cup DOMAIN U : i \notin DOMAIN T \cap DOMAIN U \/ T[i] # U[i]}

\* The directories above what was touched are written anew before the transaction commits.
Rewritten(U, touched) ==
  [i \in DOMAIN U |-> IF \E p \in touched : IsStrictPrefix(U[i].path, p)
                      THEN [U[i] EXCEPT !.ver = Len(log)] ELSE U[i]]

\* A transaction is committed; its task goes on to the caches.
Commit(U, touched) ==
  /\ LET T == Rewritten(U, touched) IN
       /\ log' = Append(log, T)
       /\ pending' = IF ChangeLog(db, T) = {} THEN pending
                     ELSE pending \cup {[commit |-> Len(log), inodes |-> ChangeLog(db, T), next |-> "paths"]}
  /\ UNCHANGED <<paths, inodes, fills>>

Create(i, p, n) ==
  /\ i \in Inodes \ DOMAIN db /\ p \in Dirs \cap DOMAIN db
  /\ LET q == Append(db[p].path, n) IN
       /\ At(db, q) = None
       /\ Commit([j \in DOMAIN db \cup {i} |-> IF j = i THEN [path |-> q, ver |-> Len(log)] ELSE db[j]], {q})

Delete(i) ==
  /\ i \in DOMAIN db \ {Root}
  /\ Commit([j \in DOMAIN db \ Below(db, i) |-> db[j]], {db[i].path})

\* mv and a rename: the paths of all that is below the inode change with its own.
Repath(i, q) ==
  LET p == db[i].path
  IN  [j \in DOMAIN db |-> IF j \notin Below(db, i) THEN db[j]
                           ELSE [db[j] EXCEPT !.path = q \o SubSeq(@, Len(p) + 1, Len(@))]]

Mv(i, p) ==
  /\ i \in DOMAIN db \ {Root} /\ p \in (Dirs \cap DOMAIN db) \ Below(db, i)
  /\ LET q == Append(db[p].path, Last(db[i].path)) IN
       /\ At(db, q) = None
       /\ Commit(Repath(i, q), {db[i].path, q})

Rename(i, n) ==
  /\ i \in DOMAIN db \ {Root}
  /\ LET q == Append(Front(db[i].path), n)
         U == Repath(i, q)
     IN  /\ At(db, q) = None
         /\ Commit([U EXCEPT ![i].ver = Len(log)], {q})

\* fsync, a change of times, or an entity that becomes synced.
Touch(i) ==
  /\ i \in DOMAIN db \ {Root}
  /\ Commit([db EXCEPT ![i].ver = Len(log)], {db[i].path})

----------------------------------------------------------------------------
(* Invalidation.  A key is [path |-> q] or [inode |-> i]. *)

IsPath(k) == "path" \in DOMAIN k

\* What is being filled while its key is invalidated is not reached: it stays, and is late.
LateIf(keys) == [k \in DOMAIN fills |-> IF k \in keys THEN [fills[k] EXCEPT !.late = TRUE] ELSE fills[k]]

\* Mutant of InvalidatePaths: only the paths of the inodes that changed go, an absence stays.
InvalidateTheirPaths(p) ==
  /\ p \in pending /\ p.next = "paths"
  /\ paths' = [q \in {x \in DOMAIN paths : paths[x].value \notin p.inodes} |-> paths[q]]
  /\ fills' = LateIf({k \in DOMAIN fills : IsPath(k)})
  /\ pending' = (pending \ {p}) \cup {[p EXCEPT !.next = "inodes"]}
  /\ UNCHANGED <<log, inodes, req>>

\* All paths go, whatever the commit changed.
InvalidatePaths(p) ==
  /\ p \in pending /\ p.next = "paths"
  /\ paths' = [q \in {} |-> None]
  /\ fills' = LateIf({k \in DOMAIN fills : IsPath(k)})
  /\ pending' = (pending \ {p}) \cup {[p EXCEPT !.next = "inodes"]}
  /\ UNCHANGED <<log, inodes, req>>

InvalidateInodes(p) ==
  /\ p \in pending /\ p.next = "inodes"
  /\ inodes' = [i \in DOMAIN inodes \ p.inodes |-> inodes[i]]
  /\ fills' = LateIf({k \in DOMAIN fills : ~IsPath(k) /\ k.inode \in p.inodes})
  /\ pending' = pending \ {p}
  /\ UNCHANGED <<log, paths, req>>

\* An hour after its fill, or when there is no room, an entry goes.
ExpirePath(q) ==
  /\ q \in DOMAIN paths
  /\ paths' = [x \in DOMAIN paths \ {q} |-> paths[x]]
  /\ UNCHANGED <<log, pending, inodes, fills, req>>

ExpireInode(i) ==
  /\ i \in DOMAIN inodes
  /\ inodes' = [x \in DOMAIN inodes \ {i} |-> inodes[x]]
  /\ UNCHANGED <<log, pending, paths, fills, req>>

----------------------------------------------------------------------------
(* Requests: the directory's inode, its path with the name, the inode there. *)

NoRequest == [stage |-> "idle"]

\* The rows an entry may still have that pending invalidations in P will reach: none older.
Oldest(P) == Min({Len(log)} \cup {p.commit : p \in P})

Begin(c, d, n) ==
  /\ req[c] = NoRequest
  /\ req' = [req EXCEPT ![c] = [stage |-> "dir", dir |-> d, name |-> n,
                                key |-> [inode |-> d], late |-> FALSE, since |-> Oldest(pending)]]
  /\ UNCHANGED <<log, pending, paths, inodes, fills>>

\* What a request does with the value of its key: a file is not a directory to look in.
Advance(r, e) ==
  LET s == [r EXCEPT !.late = @ \/ e.late]
      Answer(i) == [s EXCEPT !.stage = "answer", !.key = i]
  IN  IF e.value = None \/ (r.stage = "dir" /\ r.dir \in Files) THEN Answer(None)
      ELSE CASE r.stage = "dir" -> [s EXCEPT !.stage = "path", !.key = [path |-> Append(e.value.path, r.name)]]
             [] r.stage = "path" -> [s EXCEPT !.stage = "inode", !.key = [inode |-> e.value]]
             [] r.stage = "inode" -> Answer(r.key.inode)

Asks(c, k) == req[c].stage \in {"dir", "path", "inode"} /\ req[c].key = k

Cached(k) == IF IsPath(k) THEN k.path \in DOMAIN paths ELSE k.inode \in DOMAIN inodes

FindEntry(c, k) ==
  /\ Asks(c, k) /\ Cached(k)
  /\ req' = [req EXCEPT ![c] = Advance(@, IF IsPath(k) THEN paths[k.path] ELSE inodes[k.inode])]
  /\ UNCHANGED <<log, pending, paths, inodes, fills>>

\* The first to miss, a request of Clients or another, reads the database.
StartFill(k) ==
  /\ ~Cached(k) /\ k \notin DOMAIN fills /\ Cardinality(DOMAIN fills) < MaxFills
  /\ fills' = [x \in DOMAIN fills \cup {k} |->
                 IF x # k THEN fills[x]
                 ELSE [value |-> IF IsPath(k) THEN At(db, k.path) ELSE Row(db, k.inode), late |-> FALSE]]
  /\ UNCHANGED <<log, pending, paths, inodes, req>>

Put(cache, x, e) == [y \in DOMAIN cache \cup {x} |-> IF y = x THEN e ELSE cache[y]]

EndFill(k, answers) ==
  /\ k \in DOMAIN fills
  /\ fills' = [x \in DOMAIN fills \ {k} |-> fills[x]]
  /\ req' = [c \in Clients |-> IF Asks(c, k) THEN answers[c] ELSE req[c]]
  /\ UNCHANGED <<log, pending>>

HasRoom(cache, x) == Cardinality(DOMAIN cache \cup {x}) <= Capacity

\* It fills the cache, with an absence too, and answers all who ask.
Fill(k) ==
  /\ EndFill(k, [c \in Clients |-> IF Asks(c, k) THEN Advance(req[c], fills[k]) ELSE NoRequest])
  /\ \/ /\ IsPath(k) /\ HasRoom(paths, k.path)
        /\ paths' = Put(paths, k.path, fills[k]) /\ UNCHANGED inodes
     \/ /\ ~IsPath(k) /\ HasRoom(inodes, k.inode)
        /\ inodes' = Put(inodes, k.inode, fills[k]) /\ UNCHANGED paths

\* The database fails: all who ask get the error, nothing is cached.
FillFails(k) == EndFill(k, [c \in Clients |-> NoRequest]) /\ UNCHANGED <<paths, inodes>>

\* A lookup ends with the answer.
Reply(c) ==
  /\ req[c].stage = "answer"
  /\ req' = [req EXCEPT ![c] = NoRequest]
  /\ UNCHANGED <<log, pending, paths, inodes, fills>>

\* A remove deletes it.
RemoveIt(c) ==
  /\ req[c].stage = "answer" /\ Len(log) <= MaxCommits
  /\ req' = [req EXCEPT ![c] = NoRequest]
  /\ Delete(req[c].key)

----------------------------------------------------------------------------

CachesInit ==
  /\ log = <<FirstTree>>
  /\ pending = {}
  /\ paths = [q \in {} |-> None]
  /\ inodes = [i \in {} |-> None]
  /\ fills = [k \in {} |-> None]
  /\ req = [c \in Clients |-> NoRequest]

\* Write transactions of other requests, of a pull and of push.
Write ==
  /\ Len(log) <= MaxCommits
  /\ \/ \E i \in Inodes, p \in Dirs, n \in Names : Create(i, p, n)
     \/ \E i \in Inodes : Delete(i) \/ Touch(i)
     \/ \E i \in Inodes, p \in Dirs : Mv(i, p)
     \/ \E i \in Inodes, n \in Names : Rename(i, n)
  /\ UNCHANGED req

CachesNext ==
  \/ Write
  \/ \E p \in pending : InvalidatePaths(p) \/ InvalidateInodes(p)
  \/ \E c \in Clients, w \in Wanted : Begin(c, w[1], w[2])
  \/ \E c \in {x \in Clients : req[x] # NoRequest} :
       \/ FindEntry(c, req[c].key)
       \/ Asks(c, req[c].key) /\ StartFill(req[c].key)
       \/ Reply(c) \/ RemoveIt(c)
  \/ \E k \in [inode : Inodes] \cup [path : {db[i].path : i \in DOMAIN db \ {Root}}] : StartFill(k)
  \/ \E k \in DOMAIN fills : Fill(k) \/ FillFails(k)
  \/ \E q \in DOMAIN paths : ExpirePath(q)
  \/ \E i \in DOMAIN inodes : ExpireInode(i)

CachesSpec == CachesInit /\ [][CachesNext]_entryVars

----------------------------------------------------------------------------
(* Properties. *)

\* Only a fill that an invalidation overtook leaves a cache wrong: every other entry is what the
\* database says, or said before a commit whose invalidation of that cache is still to come.
OnlyLateFillsAreStale ==
  /\ \A q \in DOMAIN paths : ~paths[q].late =>
       \E v \in Oldest({p \in pending : p.next = "paths"}) .. Len(log) : paths[q].value = At(log[v], q)
  /\ \A i \in DOMAIN inodes : ~inodes[i].late =>
       \E v \in Oldest({p \in pending : i \in p.inodes}) .. Len(log) : inodes[i].value = Row(log[v], i)

\* The commits a request may see, and the inodes that were at its name below a path its directory
\* had in one of them.
Window(r, L) == r.since .. Len(L)

Truths(r, L) ==
  {At(L[v], Append(L[u][r.dir].path, r.name)) :
     v \in Window(r, L), u \in {w \in Window(r, L) : r.dir \in DOMAIN L[w]}}

TrueAnswer(r, L) ==
  \/ r.key \in Truths(r, L)
  \/ r.key = None /\ ((\E v \in Window(r, L) : r.dir \notin DOMAIN L[v]) \/ r.dir \in Files)
  \* the path has led to an inode that is no longer in the tree
  \/ r.key = None /\ \E i \in Truths(r, L), v \in Window(r, L) : i # None /\ i \notin DOMAIN L[v]

\* A lookup goes through three entries of two caches while others move what it looks for.  Unless
\* it met a late one, its answer is no older than what was committed and invalidated before it
\* began: the inode was then, or has been since, at the name below a path its directory had.
\* What a remove deletes is such an answer.
AnswersWereTrue ==
  \A c \in Clients : req[c] # NoRequest /\ req[c].stage = "answer" /\ ~req[c].late => TrueAnswer(req[c], log)

=============================================================================
