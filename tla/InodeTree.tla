------------------------------ MODULE InodeTree ------------------------------
(***************************************************************************)
(* The tree of inodes (table vfs) and the commit it makes.  An inode's row *)
(* names one revision of its entity; a directory's entity lists its        *)
(* children's entities, revisions included, so the root's entity stands    *)
(* for the whole tree.  Triggers mark what an operation makes out of date; *)
(* before a transaction commits, dirty directories are written anew,       *)
(* children first, and the root's new revision becomes the head commit.    *)
(*                                                                         *)
(* A revision is the hash of what it names, so an entity stands for its    *)
(* own key here.  The name column of a row is always its entity's name:    *)
(* every statement that writes one writes the other.                       *)
(***************************************************************************)
EXTENDS Naturals, FiniteSets, Sequences

CONSTANTS
  Dirs, Files,    \* inodes of directories, of files
  Root,           \* the root directory's inode
  Names, Bodies,  \* names; contents of files, with their times
  Clients,        \* callers that read an inode and later update it
  Nobody,         \* the root's parent, what a client has not read
  MaxPublished,   \* bound: the remote's tree has no more inodes
  StaleUpdates    \* may an update be made of an inode read before it changed?

Inodes == Dirs \cup Files

ASSUME TreeAssumption ==
  /\ Root \in Dirs /\ Dirs \cap Files = {} /\ IsFiniteSet(Inodes)
  /\ Nobody \notin Inodes /\ MaxPublished \in Nat
  /\ StaleUpdates \in BOOLEAN

VARIABLES
  vfs,     \* the rows: inode -> [parent, entity, dirty, path]
  head,    \* the root entity of the commit the served branch is at
  saved,   \* [vfs, head] as last committed
  txn,     \* "none", "write", "pull": the one write transaction
  held,    \* client -> the entity it has read
  remote   \* the root entity of the commit the remote names for the branch

vars == <<vfs, head, saved, txn, held, remote>>

----------------------------------------------------------------------------
(* Entities. *)

Directory(i, n, entries) == [id |-> i, name |-> n, body |-> Nobody, entries |-> entries]
File(i, n, b) == [id |-> i, name |-> n, body |-> b, entries |-> {}]

Depth == Cardinality(Inodes)

\* An entity and all it lists, directly or not.
Closure(e) ==
  LET F[n \in Nat] == IF n = 0 THEN {e} ELSE F[n - 1] \cup UNION {x.entries : x \in F[n - 1]}
  IN  F[Depth]

----------------------------------------------------------------------------
(* Rows. *)

Children(T, i) == {x \in DOMAIN T : T[x].parent = i}

\* vfs_inode_ancestors: the least set that has the parents of the inode and of its own members.
Ancestors(T, i) ==
  LET Closed(A) == \A x \in A \cup {i} : T[x].parent \in DOMAIN T => T[x].parent \in A
  IN  {a \in DOMAIN T : \A A \in SUBSET DOMAIN T : Closed(A) => a \in A}

Subtree(T, i) == {x \in DOMAIN T : x = i \/ i \in Ancestors(T, x)}

Level(T, i) == Cardinality(Ancestors(T, i))

\* The names from the root to an inode, one on each level.
Chain(T, i) ==
  LET On(n) == CHOOSE x \in Ancestors(T, i) \cup {i} : Level(T, x) = n
  IN  [n \in 1 .. Level(T, i) |-> T[On(n)].entity.name]

\* Mutant of Repath: the paths below a moved or renamed directory are left.
RepathRow(T, i) == [T EXCEPT ![i].path = Chain(T, i)]

\* An inode's path is cleared and computed again, and its descendants' after it.
Repath(T, i) ==
  [x \in DOMAIN T |-> IF x \in Subtree(T, i) THEN [T[x] EXCEPT !.path = Chain(T, x)] ELSE T[x]]

\* Mutant of MarkDirty: the mark does not climb.
MarkDirtyRows(T, S) ==
  [x \in DOMAIN T |-> IF x \in S THEN [T[x] EXCEPT !.dirty = TRUE] ELSE T[x]]

\* Mark inodes dirty: a row that becomes dirty marks its parent, one that was dirty does not.
MarkDirty(T, S) ==
  LET Clean(X) == {x \in X \cap DOMAIN T : ~T[x].dirty}
      Closed(M) == Clean(S) \cup Clean({T[x].parent : x \in M}) \subseteq M
      Marked == {x \in DOMAIN T : \A M \in SUBSET DOMAIN T : Closed(M) => x \in M}
  IN  [x \in DOMAIN T |-> IF x \in Marked THEN [T[x] EXCEPT !.dirty = TRUE] ELSE T[x]]

\* UNIQUE(parent, name)
NameIsFree(T, p, n) == \A x \in Children(T, p) : T[x].entity.name # n

\* INSERT INTO vfs
Insert(T, i, p, e) ==
  LET row == [parent |-> p, entity |-> e, dirty |-> FALSE, path |-> <<>>]
      T1 == [x \in DOMAIN T \cup {i} |-> IF x = i THEN row ELSE T[x]]
  IN  MarkDirty(Repath(T1, i), {p})

\* DELETE FROM vfs; the rows below go by cascade
Remove(T, i) ==
  MarkDirty([x \in DOMAIN T \ Subtree(T, i) |-> T[x]], {T[i].parent})

\* UPDATE vfs SET parent
Reparent(T, i, p) ==
  IF T[i].parent = p THEN T
  ELSE MarkDirty(Repath([T EXCEPT ![i].parent = p], i), {p, T[i].parent})

\* Mutant of SetEntity: is_dirty is not reset.
SetEntityStillDirty(T, i, e) ==
  LET T1 == [T EXCEPT ![i].entity = e]
      T2 == IF e.name = T[i].entity.name THEN T1 ELSE Repath(T1, i)
  IN  IF e = T[i].entity THEN T2 ELSE MarkDirty(T2, {T[i].parent})

\* UPDATE vfs SET name, entity_id, entity_rev, is_dirty = 0
SetEntity(T, i, e) ==
  LET T1 == [T EXCEPT ![i].entity = e, ![i].dirty = FALSE]
      T2 == IF e.name = T[i].entity.name THEN T1 ELSE Repath(T1, i)
  IN  IF e = T[i].entity THEN T2 ELSE MarkDirty(T2, {T[i].parent})

----------------------------------------------------------------------------
(* The transaction. *)

RootRow(e) == [parent |-> Nobody, entity |-> e, dirty |-> FALSE, path |-> <<>>]

Init ==
  LET e == Directory(Root, "ROOT", {}) IN
    /\ vfs = [i \in {Root} |-> RootRow(e)]
    /\ head = e
    /\ saved = [vfs |-> vfs, head |-> head]
    /\ txn = "none"
    /\ held = [c \in Clients |-> Nobody]
    /\ remote = e

\* Entity rows there are: those a row or the head commit refers to, directly or not.
Known == UNION {Closure(vfs[i].entity) : i \in DOMAIN vfs} \cup Closure(head)

\* Ids are random: a new inode's is not one anybody has seen.
Fresh(i) ==
  /\ i \notin DOMAIN vfs
  /\ \A e \in Closure(remote) \cup Known : e.id # i
  /\ \A c \in Clients : held[c] # Nobody => held[c].id # i

Write(T) ==
  /\ txn = "none"
  /\ txn' = "write"
  /\ vfs' = T
  /\ UNCHANGED <<head, saved, remote>>

Create(i, p, e) ==
  /\ Fresh(i)
  /\ p \in DOMAIN vfs \cap Dirs
  /\ NameIsFree(vfs, p, e.name)
  /\ Write(Insert(vfs, i, p, e))
  /\ UNCHANGED held

CreateFile == \E i \in Files, p \in Dirs, n \in Names, b \in Bodies : Create(i, p, File(i, n, b))
CreateDir == \E i \in Dirs, p \in Dirs, n \in Names : Create(i, p, Directory(i, n, {}))

Delete(i) ==
  /\ i \in DOMAIN vfs \ {Root}
  /\ Write(Remove(vfs, i))
  /\ UNCHANGED held

\* An inode moves neither into itself nor below itself (vfs_prevent_loops_on_update).
NoLoop(T, i, p) == p # i /\ (T[i].parent = p \/ i \notin Ancestors(T, p))

Mv(i, p) ==
  /\ i \in DOMAIN vfs \ {Root}
  /\ p \in DOMAIN vfs \cap Dirs
  /\ NoLoop(vfs, i, p)
  /\ vfs[i].parent = p \/ NameIsFree(vfs, p, vfs[i].entity.name)
  /\ Write(Reparent(vfs, i, p))
  /\ UNCHANGED held

\* A reader's transaction, beside whatever the writer does.  The callers look a name up or
\* open a file, and so never have the root.
Read(c, i) ==
  /\ i \in DOMAIN saved.vfs \ {Root}
  /\ held' = [held EXCEPT ![c] = saved.vfs[i].entity]
  /\ UNCHANGED <<vfs, head, saved, txn, remote>>

\* Vfs::update by an inode read earlier, in which the caller has set the name or (fsync) the
\* content; what it had read of the rest is written with it.
Changed(e) ==
  {[e EXCEPT !.name = n] : n \in Names \ {e.name}}
    \cup (IF e.id \in Files THEN {[e EXCEPT !.body = b] : b \in Bodies} ELSE {})

Update(c) ==
  /\ held[c] # Nobody /\ held[c].id \in DOMAIN vfs
  /\ held[c].entries \subseteq Known
  /\ LET i == held[c].id
         siblings == Children(vfs, vfs[i].parent) \ {i}
     IN  \E e \in Changed(held[c]) :
           /\ \A x \in siblings : vfs[x].entity.name # e.name
           /\ Write(SetEntity(vfs, i, e))
           /\ held' = [held EXCEPT ![c] = Nobody]

\* Mutant of Unfold: the rebuild stops at the root's own children.
UnfoldTop(root) ==
  LET All == {root} \cup root.entries
      Of(i) == CHOOSE e \in All : e.id = i
      T == [i \in {e.id : e \in All} |->
              [parent |-> IF i = Root THEN Nobody ELSE Root, entity |-> Of(i),
               dirty |-> Of(i).entries # {}, path |-> <<>>]]
  IN  Repath(T, Root)

\* The rows of the tree below a root entity; each row inserted marks its parent.
Unfold(root) ==
  LET All == Closure(root)
      Of(i) == CHOOSE e \in All : e.id = i
      Above(i) == IF i = Root THEN Nobody ELSE (CHOOSE e \in All : Of(i) \in e.entries).id
      T == [i \in {e.id : e \in All} |->
              [parent |-> Above(i), entity |-> Of(i), dirty |-> Of(i).entries # {}, path |-> <<>>]]
  IN  Repath(T, Root)

\* Every id once, else a row is refused.
IdsDiffer(root) == \A d, e \in Closure(root) : d.id = e.id => d = e

\* set_config names another commit for the branch: the head moves and, as the commit's root is
\* not the root there is, the tree is rebuilt.
Pull ==
  /\ txn = "none"
  /\ remote # head
  /\ IdsDiffer(remote)
  /\ txn' = "pull"
  /\ head' = remote
  /\ vfs' = Unfold(remote)
  /\ UNCHANGED <<saved, held, remote>>

\* A push has brought the remote to the head.
Publish ==
  /\ Cardinality(Closure(saved.head)) <= MaxPublished
  /\ remote' = saved.head
  /\ remote' # remote
  /\ UNCHANGED <<vfs, head, saved, txn, held>>

\* One turn of process_dirty_inodes: a dirty directory with no dirty child.
ProcessDirtyInode(i) ==
  /\ txn # "none"
  /\ i \in DOMAIN vfs \cap Dirs
  /\ vfs[i].dirty
  /\ \A x \in Children(vfs, i) : ~vfs[x].dirty
  /\ LET entries == {vfs[x].entity : x \in Children(vfs, i)}
     IN  vfs' = SetEntity(vfs, i, [vfs[i].entity EXCEPT !.entries = entries])
  /\ UNCHANGED <<head, saved, txn, held, remote>>

\* Mutant of Ready: a single pass over the leaves, the root is left for the next transaction.
ReadyButRoot == \A i \in DOMAIN vfs \ {Root} : ~vfs[i].dirty

\* The query finds nothing: no dirty inode is without a dirty child.
Ready == \A i \in DOMAIN vfs : vfs[i].dirty => \E x \in Children(vfs, i) : vfs[x].dirty

\* A client that may not update by what is out of date reads again.
StillCurrent(e) == e # Nobody /\ e.id \in DOMAIN vfs /\ e = vfs[e.id].entity

Commit ==
  /\ txn # "none"
  /\ Ready
  /\ head' = vfs[Root].entity
  /\ saved' = [vfs |-> vfs, head |-> head']
  /\ txn' = "none"
  /\ held' = [c \in Clients |-> IF StaleUpdates \/ StillCurrent(held[c]) THEN held[c] ELSE Nobody]
  /\ UNCHANGED <<vfs, remote>>

\* The transaction fails, its caller is gone, or the process dies.
Rollback ==
  /\ txn # "none"
  /\ vfs' = saved.vfs
  /\ head' = saved.head
  /\ txn' = "none"
  /\ UNCHANGED <<saved, held, remote>>

Next ==
  \/ CreateFile \/ CreateDir
  \/ \E i \in Inodes : Delete(i) \/ ProcessDirtyInode(i)
  \/ \E i \in Inodes, p \in Dirs : Mv(i, p)
  \/ \E c \in Clients, i \in Inodes : Read(c, i)
  \/ \E c \in Clients : Update(c)
  \/ Pull \/ Publish \/ Commit \/ Rollback

Spec == Init /\ [][Next]_vars

\* A transaction's task is not starved: there is one writer and it awaits the database only.
FairSpec ==
  /\ Spec
  /\ WF_vars(\E i \in Inodes : ProcessDirtyInode(i))
  /\ WF_vars(Commit)

----------------------------------------------------------------------------
(* Properties. *)

\* The shape of the state, between transactions and within one; a file is never dirty, so
\* process_dirty_inode's DirtyFile error does not arise.
TypeOK ==
  /\ Root \in DOMAIN vfs /\ DOMAIN vfs \subseteq Inodes
  /\ \A i \in DOMAIN vfs :
       /\ vfs[i].parent \in IF i = Root THEN {Nobody} ELSE DOMAIN vfs \cap Dirs
       /\ vfs[i].entity.id = i /\ (i # Root => vfs[i].entity.name \in Names)
       /\ vfs[i].dirty \in IF i \in Files THEN {FALSE} ELSE BOOLEAN
  /\ txn \in {"none", "write", "pull"}
  /\ txn = "none" => saved = [vfs |-> vfs, head |-> head]

Lists(i) == vfs[i].entity.entries = {vfs[x].entity : x \in Children(vfs, i)}

\* What the triggers are for: a directory that does not list its children as they are is
\* dirty, and so is everything above whatever is dirty.
StaleIsDirty ==
  \A i \in DOMAIN vfs \cap Dirs :
    /\ Lists(i) \/ vfs[i].dirty
    /\ vfs[i].dirty /\ i # Root => vfs[vfs[i].parent].dirty

\* Every change is in the commit: the head's root entity, unfolded, is the tree, row by row.
TreeIsCommitted ==
  txn = "none" =>
    /\ \A i \in DOMAIN vfs : ~vfs[i].dirty
    /\ {vfs[i].entity : i \in DOMAIN vfs} = Closure(head)
    /\ \A i \in DOMAIN vfs \ {Root} : vfs[i].entity \in vfs[vfs[i].parent].entity.entries

\* The path column, by which inodes are looked up, is the names on the way from the root.
PathsFollowNames == \A i \in DOMAIN vfs : vfs[i].path = Chain(vfs, i)

\* A pulled tree, every directory of it written anew, is still the commit that was pulled.
PulledAsCommitted == [][Commit /\ txn = "pull" => head' = head]_vars

\* Writing dirty directories comes to an end.
TransactionsEnd == txn # "none" ~> txn = "none"
=============================================================================
