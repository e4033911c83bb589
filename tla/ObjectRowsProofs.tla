--------------------------- MODULE ObjectRowsProofs ---------------------------
(***************************************************************************)
(* Proofs about ObjectRows, for any contents, batches and windows, whatever *)
(* failed before and whatever others upload: why the data of a row is      *)
(* dropped only for an object that has it, why what is seen has a row, and *)
(* why one pull is enough.  Closures are least sets; the recursion of      *)
(* Depth needs an induction, over the sizes of closures (NatSet).          *)
(***************************************************************************)
EXTENDS ObjectRows, WellFoundedInduction, FiniteSetTheorems, TLAPS

\* The states of the row of x when the remote has R, of which O are registered.
RowOf(x, R, O) == {Missing, Local} \cup {Synced(o) : o \in {p \in R \cap O : p.of = x}}

RowsOK == rows = [x \in Content |-> rows[x]] /\ \A x \in Content : rows[x] \in RowOf(x, remote, objects)

\* What the uploader has given back: for each item an object that has it.
Paired(items, up, R) ==
  /\ DOMAIN items = DOMAIN up
  /\ \A i \in DOMAIN items : up[i] \in R /\ up[i].of = items[i]

PushOK ==
  task.phase = "push" =>
    /\ task = [phase |-> "push", queue |-> task.queue, items |-> task.items, up |-> task.up]
    /\ Paired(task.items, task.up, remote)

PullOK ==
  task.phase = "pull" =>
    task = [phase |-> "pull", listed |-> task.listed, todo |-> task.todo, depth |-> task.depth]

IInv == RowsOK /\ PushOK /\ PullOK

LEMMA States ==
  /\ Missing.row = "none" /\ Local.row = "L" /\ Missing # Local
  /\ \A o : Synced(o).row = "S" /\ Synced(o).object = o /\ Synced(o) # Local /\ Synced(o) # Missing
BY DEF Missing, Local, Synced

\* The remote and the registered objects only grow.
LEMMA MoreIsRight ==
  ASSUME NEW x, NEW R, NEW O, NEW S, NEW P, R \subseteq S, O \subseteq P
  PROVE  RowOf(x, R, O) \subseteq RowOf(x, S, P)
BY DEF RowOf

\* A collection turns rows to none, no others to synced.
LEMMA KeptIsRight ==
  ASSUME NEW r, NEW h, NEW queue, NEW R, NEW O, \A x \in Content : r[x] \in RowOf(x, R, O)
  PROVE  /\ DOMAIN Kept(r, h, queue) = Content
         /\ Kept(r, h, queue) = [x \in Content |-> Kept(r, h, queue)[x]]
         /\ \A x \in Content : Kept(r, h, queue)[x] \in RowOf(x, R, O)
<1> DEFINE needed == Closures(h \cup queue \cup {x \in Content : r[x].row = "S"})
           k == [x \in Content |-> IF r[x] = Local /\ x \notin needed THEN Missing ELSE r[x]]
<1>1. Kept(r, h, queue) = k
  BY DEF Kept
<1> HIDE DEF needed
<1>2. \A x \in Content : k[x] = Missing \/ k[x] = r[x]
  OBVIOUS
<1>3. \A x \in Content : Missing \in RowOf(x, R, O)
  BY DEF RowOf
<1>4. DOMAIN k = Content /\ k = [x \in Content |-> k[x]]
  OBVIOUS
<1> HIDE DEF k
<1> QED BY <1>1, <1>2, <1>3, <1>4

\* Steps that leave the task alone, and only add to the remote.
LEMMA TaskStays ==
  ASSUME PushOK, PullOK, task' = task, remote \subseteq remote'
  PROVE  PushOK' /\ PullOK'
BY DEF PushOK, PullOK, Paired

\* Steps after which no batch is in hand.
LEMMA NoBatch ==
  ASSUME task'.phase \notin {"push", "pull"}
  PROVE  PushOK' /\ PullOK'
BY DEF PushOK, PullOK

LEMMA InitInv == Init => IInv
<1> SUFFICES ASSUME Init PROVE IInv
  OBVIOUS
<1>1. RowsOK
  BY DEF Init, RowsOK, RowOf
<1>2. task.phase = "rest"
  BY DEF Init, Resting
<1> QED BY <1>1, <1>2 DEF IInv, PushOK, PullOK

\* Writes and moved heads.
LEMMA HeadsInv ==
  ASSUME IInv, NEW m, Write(m) \/ MoveHead(m)
  PROVE  IInv'
<1>1. UNCHANGED <<remote, objects, task>>
  BY DEF Write, MoveHead
<1>2. CASE MoveHead(m)
  <2>1. rows' = Kept(rows, m, Queue)
    BY <1>2 DEF MoveHead
  <2> QED BY <2>1, <1>1, KeptIsRight, TaskStays DEF IInv, RowsOK
<1>3. CASE Write(m)
  <2> DEFINE r == [x \in Content |-> IF x \in Closure[m] /\ ~HasRow(x) THEN Local ELSE rows[x]]
  <2>1. rows' = Kept(r, {m}, Queue)
    BY <1>3 DEF Write
  <2>2. \A x \in Content : r[x] \in RowOf(x, remote, objects)
    BY DEF IInv, RowsOK, RowOf
  <2> HIDE DEF r
  <2> QED BY <2>1, <2>2, <1>1, KeptIsRight, TaskStays DEF IInv, RowsOK
<1> QED BY <1>2, <1>3

\* Uploads by others, and what is left of a failed batch.
LEMMA RemoteGrows ==
  ASSUME IInv, UNCHANGED <<rows, objects, task>>, remote \subseteq remote'
  PROVE  IInv'
<1>1. RowsOK'
  BY MoreIsRight DEF IInv, RowsOK
<1> QED BY <1>1, TaskStays DEF IInv

LEMMA NewObjectHas == \A x : NewObject(x).of = x
BY DEF NewObject

LEMMA UploadInv ==
  ASSUME IInv, NEW batch, Upload(batch)
  PROVE  IInv'
<1> DEFINE items == SetToSeq(batch)
           up == Uploaded(items)
           t == [phase |-> "push", queue |-> task.queue, items |-> items, up |-> up]
<1>1. /\ task.phase = "push" /\ UNCHANGED <<rows, objects>>
      /\ task' = [task EXCEPT !.items = items, !.up = up]
      /\ remote' = remote \cup ToSet(up)
  BY DEF Upload
<1> HIDE DEF items
<1>2. up = [i \in DOMAIN items |-> NewObject(items[i])]
  BY DEF Uploaded
<1>3. DOMAIN up = DOMAIN items /\ \A i \in DOMAIN items : up[i].of = items[i]
  BY <1>2, NewObjectHas
<1> HIDE DEF up
<1>4. Paired(items, up, remote')
  BY <1>1, <1>3 DEF Paired, ToSet
<1>5. task' = t
  <2>1. task = [phase |-> "push", queue |-> task.queue, items |-> task.items, up |-> task.up]
    BY <1>1 DEF IInv, PushOK
  <2> DEFINE q == task.queue
             i == task.items
             u == task.up
             s == [phase |-> "push", queue |-> q, items |-> i, up |-> u]
  <2>2. task' = [s EXCEPT !.items = items, !.up = up]
    BY <1>1, <2>1
  <2> HIDE DEF q, i, u
  <2>3. task' = [phase |-> "push", queue |-> q, items |-> items, up |-> up]
    BY <2>2
  <2> QED BY <2>3 DEF q
<1>6. PushOK' /\ PullOK'
  BY <1>4, <1>5 DEF PushOK, PullOK
<1>7. RowsOK'
  BY <1>1, MoreIsRight DEF IInv, RowsOK
<1> QED BY <1>6, <1>7 DEF IInv

\* The rows of a batch get its objects, pair by pair.
LEMMA ProcessInv ==
  ASSUME IInv, Process
  PROVE  IInv'
<1> DEFINE items == task.items
           up == task.up
           at(x) == CHOOSE i \in DOMAIN items : items[i] = x
           queue == task.queue \ ToSet(items)
           r == [x \in Content |-> IF x \in ToSet(items) THEN Synced(up[at(x)]) ELSE rows[x]]
<1>1. /\ task.phase = "push" /\ UNCHANGED remote
      /\ rows' = Kept(r, heads, queue)
      /\ objects' = objects \cup ToSet(up)
      /\ task' = [task EXCEPT !.queue = queue, !.items = <<>>, !.up = <<>>]
  BY DEF Process
<1>2. Paired(items, up, remote)
  BY <1>1 DEF IInv, PushOK
<1>3. ASSUME NEW x \in Content PROVE r[x] \in RowOf(x, remote', objects')
  <2>1. CASE x \in ToSet(items)
    <3>1. at(x) \in DOMAIN items /\ items[at(x)] = x
      BY <2>1 DEF ToSet
    <3>2. up[at(x)] \in remote /\ up[at(x)].of = x /\ up[at(x)] \in ToSet(up)
      BY <3>1, <1>2 DEF Paired, ToSet
    <3>3. r[x] = Synced(up[at(x)])
      BY <2>1
    <3> HIDE DEF at, up, r
    <3> QED BY <1>1, <3>2, <3>3 DEF RowOf
  <2>2. CASE x \notin ToSet(items)
    <3>1. r[x] = rows[x] /\ rows[x] \in RowOf(x, remote, objects)
      BY <2>2 DEF IInv, RowsOK
    <3>2. RowOf(x, remote, objects) \subseteq RowOf(x, remote', objects')
      BY <1>1, MoreIsRight
    <3> QED BY <3>1, <3>2
  <2> QED BY <2>1, <2>2
<1>4. task'.phase = "push" /\ task' = [phase |-> "push", queue |-> queue, items |-> <<>>, up |-> <<>>]
  <2>1. task = [phase |-> "push", queue |-> task.queue, items |-> task.items, up |-> task.up]
    BY <1>1 DEF IInv, PushOK
  <2> DEFINE q == task.queue
             s == [phase |-> "push", queue |-> q, items |-> items, up |-> up]
  <2>2. task' = [s EXCEPT !.queue = queue, !.items = <<>>, !.up = <<>>]
    BY <1>1, <2>1
  <2> HIDE DEF q, items, up, queue
  <2> QED BY <2>2
<1> HIDE DEF items, up, at, queue, r
<1>5. RowsOK'
  BY <1>1, <1>3, KeptIsRight DEF RowsOK
<1>6. PushOK' /\ PullOK'
  BY <1>4 DEF PushOK, PullOK, Paired
<1> QED BY <1>5, <1>6 DEF IInv

\* A push begins with nothing uploaded.
LEMMA StartPushInv ==
  ASSUME IInv, StartPush
  PROVE  IInv'
<1>1. UNCHANGED <<rows, remote, objects>>
  BY DEF StartPush
<1>2. RowsOK'
  BY <1>1 DEF IInv, RowsOK
<1>3. CASE Pushable = {}
  BY <1>2, <1>3, NoBatch DEF StartPush, IInv
<1>4. CASE Pushable # {}
  <2> DEFINE P == Pushable
  <2>1. task' = [phase |-> "push", queue |-> P, items |-> <<>>, up |-> <<>>]
    BY <1>4 DEF StartPush
  <2> HIDE DEF P
  <2>2. PushOK' /\ PullOK'
    BY <2>1 DEF PushOK, PullOK, Paired
  <2> QED BY <1>2, <2>2 DEF IInv
<1> QED BY <1>3, <1>4

LEMMA RestInv ==
  ASSUME IInv, EndPush \/ EndPull \/ GiveUp
  PROVE  IInv'
<1>1. UNCHANGED <<remote, objects>> /\ task'.phase \notin {"push", "pull"}
  BY DEF EndPush, EndPull, GiveUp, Resting
<1>2. RowsOK'
  <2>1. CASE EndPush \/ EndPull
    BY <2>1 DEF EndPush, EndPull, IInv, RowsOK
  <2>2. CASE GiveUp
    BY <1>1, <2>2, KeptIsRight DEF GiveUp, IInv, RowsOK
  <2> QED BY <2>1, <2>2
<1> QED BY <1>1, <1>2, NoBatch DEF IInv

LEMMA StartPullInv ==
  ASSUME IInv, StartPull
  PROVE  IInv'
<1> DEFINE L == {o.of : o \in remote}
           D == Depth({x \in L : Kind[x] = "dir"})
<1>1. UNCHANGED <<rows, remote, objects>>
      /\ task' = [phase |-> "pull", listed |-> L, todo |-> remote, depth |-> D]
  BY DEF StartPull
<1> HIDE DEF L, D
<1>2. PushOK' /\ PullOK'
  BY <1>1 DEF PushOK, PullOK
<1> QED BY <1>1, <1>2 DEF IInv, RowsOK

\* An object comes off the listing; only Register gives a row to its own content.
LEMMA PullInv ==
  ASSUME IInv, NEW o, o \in remote, Seen(o) \/ Register(o) \/ Refused(o) \/ DownloadFails(o)
  PROVE  IInv'
<1>1. /\ task.phase = "pull" /\ UNCHANGED remote
      /\ task' = [task EXCEPT !.todo = @ \ {o}]
  BY DEF Seen, Register, Refused, DownloadFails, InWork, Done
<1>2. task'.phase = "pull" /\ PullOK'
  <2> DEFINE l == task.listed
             d == task.depth
             x == task.todo
             s == [phase |-> "pull", listed |-> l, todo |-> x, depth |-> d]
             n == x \ {o}
  <2>1. task = s
    BY <1>1 DEF IInv, PullOK
  <2>2. task' = [s EXCEPT !.todo = n]
    BY <1>1, <2>1
  <2> HIDE DEF l, d, x, n
  <2>3. task' = [phase |-> "pull", listed |-> l, todo |-> n, depth |-> d]
    BY <2>2
  <2> QED BY <2>3 DEF PullOK
<1>3. PushOK'
  BY <1>2 DEF PushOK
<1>4. RowsOK'
  <2>1. CASE Register(o)
    <3>1. objects' = objects \cup {o}
      BY <2>1 DEF Register
    <3>2. ASSUME NEW x \in Content PROVE rows'[x] \in RowOf(x, remote', objects')
      <4>1. rows'[x] = rows[x] \/ (x = o.of /\ rows'[x] = Synced(o))
        BY <2>1 DEF Register, IInv, RowsOK
      <4>2. rows[x] \in RowOf(x, remote', objects')
        BY <1>1, <3>1, MoreIsRight DEF IInv, RowsOK
      <4>3. x = o.of => Synced(o) \in RowOf(x, remote', objects')
        BY <1>1, <3>1 DEF RowOf
      <4> QED BY <4>1, <4>2, <4>3
    <3>3. rows' = [x \in Content |-> rows'[x]]
      BY <2>1 DEF Register, IInv, RowsOK
    <3> QED BY <3>2, <3>3 DEF RowsOK
  <2>2. CASE ~Register(o)
    BY <1>1, <2>2 DEF Seen, Refused, DownloadFails, IInv, RowsOK
  <2> QED BY <2>1, <2>2
<1> QED BY <1>2, <1>3, <1>4 DEF IInv

LEMMA StepInv == IInv /\ [Next]_vars => IInv'
<1> SUFFICES ASSUME IInv, [Next]_vars PROVE IInv'
  OBVIOUS
<1>1. ASSUME NEW m, Write(m) \/ MoveHead(m) PROVE IInv'
  BY <1>1, HeadsInv
<1>2. ASSUME NEW x, OthersUpload(x) \/ UploadFails(x) PROVE IInv'
  BY <1>2, RemoteGrows DEF OthersUpload, UploadFails
<1>3. CASE Sync
  BY <1>3, StartPushInv, UploadInv, ProcessInv, RestInv, StartPullInv, PullInv DEF Sync, Pull
<1>4. ASSUME NEW o \in remote, DownloadFails(o) PROVE IInv'
  BY <1>4, PullInv
<1>5. CASE GiveUp
  BY <1>5, RestInv
<1>6. CASE UNCHANGED vars
  BY <1>6, RemoteGrows DEF vars
<1> QED BY <1>1, <1>2, <1>3, <1>4, <1>5, <1>6 DEF Next

\* A synced row names a registered object on the remote that has its content: the objects an upload
\* gives back are paired with the items they were made of (push.rs:183), and a pull gives an
\* object only to its own content.
THEOREM SyncedHasItsObject == Spec => []SyncedIsItself
<1>1. IInv => SyncedIsItself
  BY States DEF IInv, RowsOK, RowOf, SyncedIsItself
<1> QED BY <1>1, InitInv, StepInv, PTL DEF Spec

----------------------------------------------------------------------------
(* Naturals and sequences. *)

\* Induction on the naturals, for a set: what is missing would have a least element.
LEMMA NatSet ==
  ASSUME NEW S \in SUBSET Nat, 0 \in S, \A n \in S : n + 1 \in S
  PROVE  S = Nat
<1> DEFINE R == OpToRel(<, Nat)
           U == Nat \ S
<1>1. IsWellFoundedOn(R, Nat)
  BY NatLessThanWellFounded
<1>2. ASSUME U # {} PROVE FALSE
  <2> HIDE DEF R
  <2>1. PICK x \in U : \A y \in U : ~ (<<y, x>> \in R)
    BY <1>1, <1>2, WFMin DEF U
  <2>2. x - 1 \in Nat /\ x - 1 \in U
    BY DEF U
  <2>3. <<x - 1, x>> \in R
    BY <2>2 DEF R, OpToRel, U
  <2> QED  BY <2>1, <2>2, <2>3
<1> QED  BY <1>2 DEF U

\* What is bounded has a greatest element: its least bound.
LEMMA HasGreatest ==
  ASSUME NEW S \in SUBSET Nat, S # {}, NEW b \in Nat, \A n \in S : n <= b
  PROVE  \E m \in S : \A n \in S : n <= m
<1> DEFINE R == OpToRel(<, Nat)
           U == {k \in Nat : \A n \in S : n <= k}
<1>1. IsWellFoundedOn(R, Nat)
  BY NatLessThanWellFounded
<1>2. U # {}
  BY DEF U
<1>3. PICK x \in U : \A y \in U : ~ (<<y, x>> \in R)
  <2> HIDE DEF R
  <2> QED  BY <1>1, <1>2, WFMin DEF U
<1>4. ASSUME x \notin S PROVE FALSE
  <2>0. PICK s \in S : s <= x /\ s # x
    BY <1>4 DEF U
  <2>1. \A n \in S : n <= x - 1
    BY <1>4 DEF U
  <2>2. x - 1 \in Nat /\ x - 1 \in U
    BY <2>0, <2>1 DEF U
  <2>3. <<x - 1, x>> \in R
    BY <2>2 DEF R, OpToRel, U
  <2> QED  BY <1>3, <2>2, <2>3
<1> QED  BY <1>4 DEF U

\* A sequence of a finite set has its members and no others.
LEMMA SeqOfSet ==
  ASSUME NEW S, IsFiniteSet(S)
  PROVE  ToSet(SetToSeq(S)) \subseteq S /\ IsFiniteSet(DOMAIN SetToSeq(S))
<1> DEFINE n == Cardinality(S)
<1>1. n \in Nat /\ ExistsBijection(1 .. n, S)
  BY FS_CardinalityType
<1>2. \E f \in [1 .. n -> S] : IsInjective(f)
  BY <1>1 DEF ExistsBijection, Bijection, Injection
<1>3. SetToSeq(S) \in [1 .. n -> S]
  BY <1>2 DEF SetToSeq
<1>4. IsFiniteSet(1 .. n)
  BY <1>1, FS_Interval
<1> QED  BY <1>3, <1>4 DEF ToSet

----------------------------------------------------------------------------
(* What contents refer to. *)

\* A closure has the content and all that its members refer to.
LEMMA ClosureClosed ==
  ASSUME NEW x \in Content
  PROVE  /\ x \in Closure[x] /\ Closure[x] \subseteq Content
         /\ \A y \in Closure[x] : Refs[y] \subseteq Closure[x]
<1>1. Closure[x] = {y \in Content : \A S \in SUBSET Content : x \in S /\ (\A z \in S : Refs[z] \subseteq S) => y \in S}
  BY DEF Closure
<1>2. \A y \in Content : Refs[y] \subseteq Content
  BY RowsAssumption
<1>3. ASSUME NEW y \in Closure[x], NEW z \in Refs[y] PROVE z \in Closure[x]
  <2>1. y \in Content /\ z \in Content
    BY <1>1, <1>2
  <2>2. ASSUME NEW S \in SUBSET Content, x \in S, \A w \in S : Refs[w] \subseteq S PROVE z \in S
    BY <1>1, <2>2
  <2> QED  BY <1>1, <2>1, <2>2
<1> QED  BY <1>1, <1>3

\* It is the least such set.
LEMMA ClosureLeast ==
  ASSUME NEW x \in Content, NEW S \in SUBSET Content, x \in S, \A y \in S : Refs[y] \subseteq S
  PROVE  Closure[x] \subseteq S
BY DEF Closure

\* What is referred to has a smaller closure.
LEMMA ClosureOfRef ==
  ASSUME NEW x \in Content, NEW y \in Refs[x]
  PROVE  y \in Content /\ Closure[y] \subseteq Closure[x] /\ x \notin Closure[y]
<1>1. y \in Content
  BY RowsAssumption
<1>2. y \in Closure[x]
  BY ClosureClosed
<1>3. Closure[y] \subseteq Closure[x]
  BY <1>1, <1>2, ClosureClosed, ClosureLeast
<1>4. x \notin Closure[y]
  BY RefsAssumption DEF Closures
<1> QED  BY <1>1, <1>3, <1>4

\* Closures are closed.
LEMMA ClosuresClosed ==
  ASSUME NEW X \in SUBSET Content
  PROVE  X \subseteq Closures(X) /\ \A y \in Closures(X) : Refs[y] \subseteq Closures(X)
<1>1. \A x \in X : x \in Closure[x] /\ \A y \in Closure[x] : Refs[y] \subseteq Closure[x]
  BY ClosureClosed
<1> QED  BY <1>1 DEF Closures

\* There is less below a reference: with each step down the closures shrink.
Rank(x) == Cardinality(Closure[x])

LEMMA RefsRankLess ==
  ASSUME NEW x \in Content
  PROVE  Rank(x) \in Nat /\ \A y \in Refs[x] : Rank(y) \in Nat /\ Rank(y) < Rank(x)
<1>1. ASSUME NEW y \in Content PROVE IsFiniteSet(Closure[y]) /\ Rank(y) \in Nat
  <2>1. Closure[y] \in SUBSET Content
    BY ClosureClosed
  <2>2. IsFiniteSet(Closure[y])
    BY <2>1, FS_Subset, RefsAssumption
  <2> QED  BY <2>2, FS_CardinalityType DEF Rank
<1>2. ASSUME NEW y \in Refs[x] PROVE Rank(y) \in Nat /\ Rank(y) < Rank(x)
  <2>1. y \in Content /\ Closure[y] \in SUBSET Closure[x] /\ Closure[y] # Closure[x]
    BY ClosureOfRef, ClosureClosed
  <2>2. Cardinality(Closure[y]) <= Cardinality(Closure[x]) /\ Cardinality(Closure[x]) # Cardinality(Closure[y])
    BY <1>1, <2>1, FS_Subset
  <2> QED  BY <1>1, <2>1, <2>2 DEF Rank
<1> QED  BY <1>1, <1>2

----------------------------------------------------------------------------
(* Rows have the rows they refer to. *)

Whole(r) == \A x \in Content : r[x] # Missing => \A y \in Refs[x] : r[y] # Missing

\* A collection keeps rows whole, and what is synced or queued.
LEMMA KeptIsWhole ==
  ASSUME NEW r, \A x \in Content : r[x] = Missing \/ r[x] = Local \/ r[x].row = "S", Whole(r),
         NEW h \in SUBSET Content, NEW queue \in SUBSET Content
  PROVE  LET k == Kept(r, h, queue)
         IN  /\ Whole(k) /\ \A x \in Content : r[x].row = "S" => k[x] = r[x]
             /\ \A x \in queue : r[x] # Missing => k[x] # Missing
<1> DEFINE X == h \cup queue \cup {x \in Content : r[x].row = "S"}
           needed == Closures(X)
           k == Kept(r, h, queue)
<1>1. \A x \in Content : k[x] = IF r[x] = Local /\ x \notin needed THEN Missing ELSE r[x]
  BY DEF Kept
<1>2. X \subseteq needed /\ \A y \in needed : Refs[y] \subseteq needed
  BY ClosuresClosed
<1> HIDE DEF needed, k
<1>3. \A x \in Content : r[x].row = "S" => k[x] = r[x]
  BY <1>1, <1>2
<1>4. \A x \in queue : r[x] # Missing => k[x] # Missing
  BY <1>1, <1>2
<1>5. Whole(k)
  <2> SUFFICES ASSUME NEW x \in Content, k[x] # Missing, NEW y \in Refs[x] PROVE k[y] # Missing
    BY DEF Whole
  <2>1. y \in Content /\ r[x] # Missing /\ k[x] = r[x]
    BY RowsAssumption, <1>1
  <2>2. r[y] # Missing
    BY <2>1 DEF Whole
  <2>3. x \in needed
    BY <1>1, <1>2, <2>1, States
  <2>4. y \in needed
    BY <1>2, <2>3
  <2> QED  BY <1>1, <2>1, <2>2, <2>4
<1> QED  BY <1>3, <1>4, <1>5 DEF k

----------------------------------------------------------------------------
(* What is seen has a row. *)

\* The remote has finitely many objects, each of a content.
RemoteInv == IsFiniteSet(remote) /\ \A o \in remote : o.of \in Content

\* What counts as seen has a synced row.
ObjectsInv == \A o \in objects : o.of \in Content /\ rows[o.of].row = "S"

\* What is queued has a row, and the items in hand are queued still.
QueueInv ==
  task.phase = "push" =>
    /\ task.queue \subseteq Content /\ ToSet(task.items) \subseteq task.queue
    /\ \A x \in task.queue : rows[x] # Missing

\* The invariant: rows are whole.
SeenInv == IInv /\ heads \subseteq Content /\ RemoteInv /\ ObjectsInv /\ Whole(rows) /\ QueueInv

\* A row is missing, local or synced.
LEMMA RowIsOne ==
  ASSUME RowsOK
  PROVE  \A x \in Content : rows[x] = Missing \/ rows[x] = Local \/ rows[x].row = "S"
BY States DEF RowsOK, RowOf

\* The push queue keeps rows there are.
LEMMA QueueIsContent == SeenInv => Queue \in SUBSET Content /\ \A x \in Queue : rows[x] # Missing
BY DEF SeenInv, QueueInv, Queue

\* Nothing is seen at first.
LEMMA SeenInit == Init => SeenInv
<1> SUFFICES ASSUME Init PROVE SeenInv
  OBVIOUS
<1>1. IInv
  BY InitInv
<1>2. heads \subseteq Content /\ RemoteInv
  BY FS_EmptySet DEF Init, RemoteInv
<1>3. ObjectsInv /\ Whole(rows)
  BY DEF Init, ObjectsInv, Whole
<1>4. QueueInv
  BY DEF Init, Resting, QueueInv
<1> QED  BY <1>1, <1>2, <1>3, <1>4 DEF SeenInv

\* What a collection leaves: all that is synced, queued, or needed by what is left.
LEMMA CollectSeen ==
  ASSUME SeenInv, NEW r, \A x \in Content : r[x] = Missing \/ r[x] = Local \/ r[x].row = "S", Whole(r),
         \A x \in Content : rows[x].row = "S" => r[x].row = "S",
         \A x \in Content : rows[x] # Missing => r[x] # Missing,
         NEW h \in SUBSET Content, NEW queue \in SUBSET Queue, rows' = Kept(r, h, queue)
  PROVE  /\ Whole(rows)' /\ \A x \in Content : rows[x].row = "S" => rows'[x].row = "S"
         /\ \A x \in queue : rows'[x] # Missing
<1>1. Queue \in SUBSET Content /\ \A x \in Queue : rows[x] # Missing
  BY QueueIsContent
<1>2. queue \in SUBSET Content
  BY <1>1
<1>3. /\ Whole(Kept(r, h, queue)) /\ \A x \in Content : r[x].row = "S" => Kept(r, h, queue)[x] = r[x]
      /\ \A x \in queue : r[x] # Missing => Kept(r, h, queue)[x] # Missing
  BY <1>2, KeptIsWhole
<1> QED  BY <1>1, <1>2, <1>3 DEF Whole

\* A write makes the rows of all its commit refers to.
LEMMA WriteSeen ==
  ASSUME SeenInv, NEW m \in Own, Write(m)
  PROVE  SeenInv'
<1> DEFINE r == [x \in Content |-> IF x \in Closure[m] /\ ~HasRow(x) THEN Local ELSE rows[x]]
<1>1. /\ rows' = Kept(r, {m}, Queue) /\ heads' = {m} /\ UNCHANGED <<remote, objects, task>>
      /\ m \in Content
  BY RowsAssumption DEF Write
<1>2. \A x \in Content : r[x] = IF x \in Closure[m] /\ rows[x] = Missing THEN Local ELSE rows[x]
  BY DEF HasRow
<1>3. \A x \in Content : rows[x] = Missing \/ rows[x] = Local \/ rows[x].row = "S"
  BY RowIsOne DEF SeenInv, IInv
<1> HIDE DEF r
<1>4. Whole(r)
  <2>1. ASSUME NEW x \in Content, r[x] # Missing, NEW y \in Refs[x] PROVE r[y] # Missing
    <3>1. y \in Content
      BY <2>1, RowsAssumption
    <3>2. CASE x \in Closure[m]
      <4>1. y \in Closure[m]
        BY <1>1, <2>1, <3>2, ClosureClosed
      <4> QED  BY <1>2, <3>1, <4>1, States
    <3>3. CASE x \notin Closure[m]
      <4>1. rows[x] # Missing
        BY <1>2, <2>1, <3>3
      <4>2. rows[y] # Missing
        BY <4>1 DEF SeenInv, Whole
      <4> QED  BY <1>2, <3>1, <4>2
    <3> QED  BY <3>2, <3>3
  <2> QED  BY <2>1 DEF Whole
<1>5. /\ \A x \in Content : r[x] = Missing \/ r[x] = Local \/ r[x].row = "S"
      /\ \A x \in Content : rows[x].row = "S" => r[x].row = "S"
      /\ \A x \in Content : rows[x] # Missing => r[x] # Missing
  BY <1>2, <1>3, States
<1>6. /\ Whole(rows)' /\ \A x \in Content : rows[x].row = "S" => rows'[x].row = "S"
      /\ \A x \in Queue : rows'[x] # Missing
  <2> DEFINE h == {m}
  <2>1. h \in SUBSET Content /\ Queue \in SUBSET Queue /\ rows' = Kept(r, h, Queue)
    BY <1>1
  <2> HIDE DEF h
  <2> QED  BY <1>4, <1>5, <2>1, CollectSeen
<1>7. IInv'
  BY HeadsInv DEF SeenInv
<1>8. ObjectsInv' /\ QueueInv' /\ RemoteInv'
  BY <1>1, <1>6 DEF SeenInv, ObjectsInv, QueueInv, Queue, RemoteInv
<1> QED  BY <1>1, <1>6, <1>7, <1>8 DEF SeenInv

\* A moved head leaves rows, and with each those it refers to.
LEMMA MoveHeadSeen ==
  ASSUME SeenInv, NEW h \in SUBSET Content, MoveHead(h)
  PROVE  SeenInv'
<1>1. rows' = Kept(rows, h, Queue) /\ heads' = h /\ UNCHANGED <<remote, objects, task>>
  BY DEF MoveHead
<1>2. \A x \in Content : rows[x] = Missing \/ rows[x] = Local \/ rows[x].row = "S"
  BY RowIsOne DEF SeenInv, IInv
<1>3. /\ Whole(rows)' /\ \A x \in Content : rows[x].row = "S" => rows'[x].row = "S"
      /\ \A x \in Queue : rows'[x] # Missing
  <2>1. Whole(rows) /\ Queue \in SUBSET Queue
    BY DEF SeenInv
  <2> QED  BY <1>1, <1>2, <2>1, CollectSeen
<1>4. IInv'
  BY HeadsInv DEF SeenInv
<1>5. ObjectsInv' /\ QueueInv' /\ RemoteInv'
  BY <1>1, <1>3 DEF SeenInv, ObjectsInv, QueueInv, Queue, RemoteInv
<1> QED  BY <1>1, <1>3, <1>4, <1>5 DEF SeenInv

\* So does a push that is given up.
LEMMA GiveUpSeen ==
  ASSUME SeenInv, GiveUp
  PROVE  SeenInv'
<1>1. rows' = Kept(rows, heads, {}) /\ task'.phase = "rest" /\ UNCHANGED <<remote, objects, heads>>
  BY DEF GiveUp, Resting
<1>2. \A x \in Content : rows[x] = Missing \/ rows[x] = Local \/ rows[x].row = "S"
  BY RowIsOne DEF SeenInv, IInv
<1>3. /\ Whole(rows)' /\ \A x \in Content : rows[x].row = "S" => rows'[x].row = "S"
  <2>1. {} \in SUBSET Queue /\ heads \in SUBSET Content
    BY DEF SeenInv
  <2> QED  BY <1>1, <1>2, <2>1, CollectSeen DEF SeenInv
<1>4. IInv'
  BY RestInv DEF SeenInv
<1>5. ObjectsInv' /\ QueueInv' /\ RemoteInv'
  BY <1>1, <1>3 DEF SeenInv, ObjectsInv, QueueInv, RemoteInv
<1> QED  BY <1>1, <1>3, <1>4, <1>5 DEF SeenInv

\* The remote gets finitely many objects at a time.
LEMMA ObjectsOfSet ==
  ASSUME NEW S, IsFiniteSet(S), S \subseteq Content
  PROVE  /\ IsFiniteSet({NewObject(x) : x \in S}) /\ \A o \in {NewObject(x) : x \in S} : o.of \in Content
<1> DEFINE T == {NewObject(x) : x \in S}
           f == [x \in S |-> NewObject(x)]
<1>1. f \in Surjection(S, T)
  BY DEF Surjection
<1>2. IsFiniteSet(T)
  <2> HIDE DEF f, T
  <2> QED  BY <1>1, FS_Surjection
<1> QED  BY <1>2, NewObjectHas

\* More objects on the remote change nothing here.
LEMMA RemoteGrowsSeen ==
  ASSUME SeenInv, UNCHANGED <<rows, objects, heads, task>>, NEW S, IsFiniteSet(S), \A o \in S : o.of \in Content,
         remote' = remote \cup S
  PROVE  SeenInv'
<1>1. IInv'
  BY RemoteGrows DEF SeenInv
<1>2. RemoteInv'
  BY FS_Union DEF SeenInv, RemoteInv
<1> QED  BY <1>1, <1>2 DEF SeenInv, ObjectsInv, QueueInv, Whole

\* Uploads by others and what is left of a failed batch are only objects more.
LEMMA OthersSeen ==
  ASSUME SeenInv, (\E x \in Content : OthersUpload(x)) \/ (\E batch \in SUBSET Queue : UploadFails(batch))
  PROVE  SeenInv'
<1>1. ASSUME NEW x \in Content, OthersUpload(x) PROVE SeenInv'
  <2> DEFINE S == {[of |-> x, n |-> 0]}
  <2>1. IsFiniteSet(S) /\ \A o \in S : o.of \in Content
    <3>1. [of |-> x, n |-> 0].of = x
      OBVIOUS
    <3>2. \A o \in S : o.of = x
      BY <3>1
    <3> HIDE DEF S
    <3>3. IsFiniteSet(S)
      BY FS_Singleton DEF S
    <3> QED  BY <3>2, <3>3
  <2>2. UNCHANGED <<rows, objects, heads, task>> /\ remote' = remote \cup S
    BY <1>1 DEF OthersUpload
  <2> HIDE DEF S
  <2> QED  BY <2>1, <2>2, RemoteGrowsSeen
<1>2. ASSUME NEW batch \in SUBSET Queue, UploadFails(batch) PROVE SeenInv'
  <2>1. PICK part \in SUBSET batch : remote' = remote \cup {NewObject(x) : x \in part}
    BY <1>2 DEF UploadFails
  <2>2. part \in SUBSET Content
    BY QueueIsContent
  <2>3. IsFiniteSet(part)
    BY <2>2, FS_Subset, RefsAssumption
  <2> DEFINE S == {NewObject(x) : x \in part}
  <2>4. IsFiniteSet(S) /\ \A o \in S : o.of \in Content
    BY <2>2, <2>3, ObjectsOfSet
  <2>5. UNCHANGED <<rows, objects, heads, task>> /\ remote' = remote \cup S
    BY <1>2, <2>1 DEF UploadFails
  <2> HIDE DEF S
  <2> QED  BY <2>4, <2>5, RemoteGrowsSeen
<1> QED  BY <1>1, <1>2

\* A batch becomes objects.
LEMMA UploadSeen ==
  ASSUME SeenInv, NEW batch \in SUBSET Queue, Upload(batch)
  PROVE  SeenInv'
<1> DEFINE items == SetToSeq(batch)
           up == Uploaded(items)
<1>1. /\ task.phase = "push" /\ UNCHANGED <<rows, objects, heads>>
      /\ task' = [task EXCEPT !.items = items, !.up = up]
      /\ remote' = remote \cup ToSet(up)
  BY DEF Upload
<1>2. batch \in SUBSET Content /\ IsFiniteSet(batch)
  <2>1. batch \in SUBSET Content
    BY QueueIsContent
  <2> QED  BY <2>1, FS_Subset, RefsAssumption
<1>3. ToSet(items) \subseteq batch /\ IsFiniteSet(DOMAIN items)
  BY <1>2, SeqOfSet
<1> HIDE DEF items
<1>4. ToSet(up) = {NewObject(x) : x \in ToSet(items)}
  BY DEF Uploaded, ToSet
<1>5. IsFiniteSet(ToSet(up)) /\ \A o \in ToSet(up) : o.of \in Content
  <2>1. ToSet(items) \subseteq Content
    BY <1>2, <1>3
  <2>2. IsFiniteSet(ToSet(items))
    BY <1>2, <1>3, FS_Subset
  <2> HIDE DEF up
  <2> QED  BY <1>4, <2>1, <2>2, ObjectsOfSet
<1> HIDE DEF up
<1>6. RemoteInv'
  BY <1>1, <1>5, FS_Union DEF SeenInv, RemoteInv
<1>7. QueueInv'
  <2>1. task = [phase |-> "push", queue |-> task.queue, items |-> task.items, up |-> task.up]
    BY <1>1 DEF SeenInv, IInv, PushOK
  <2>2. task'.queue = task.queue /\ task'.items = items
    BY <1>1, <2>1
  <2>3. Queue = task.queue
    BY <1>1 DEF Queue
  <2> QED  BY <1>1, <1>3, <2>2, <2>3 DEF SeenInv, QueueInv
<1>8. IInv'
  BY UploadInv DEF SeenInv
<1> QED  BY <1>1, <1>6, <1>7, <1>8 DEF SeenInv, ObjectsInv, Whole

\* What was queued is not collected before it is synced, so that its objects are those of rows.
LEMMA ProcessSeen ==
  ASSUME SeenInv, Process
  PROVE  SeenInv'
<1> DEFINE items == task.items
           up == task.up
           at(x) == CHOOSE i \in DOMAIN items : items[i] = x
           queue == task.queue \ ToSet(items)
           r == [x \in Content |-> IF x \in ToSet(items) THEN Synced(up[at(x)]) ELSE rows[x]]
<1>1. /\ task.phase = "push" /\ UNCHANGED <<remote, heads>>
      /\ rows' = Kept(r, heads, queue)
      /\ objects' = objects \cup ToSet(up)
      /\ task' = [task EXCEPT !.queue = queue, !.items = <<>>, !.up = <<>>]
  BY DEF Process
<1>2. /\ task = [phase |-> "push", queue |-> task.queue, items |-> items, up |-> up]
      /\ DOMAIN items = DOMAIN up /\ \A i \in DOMAIN items : up[i].of = items[i]
      /\ task.queue \subseteq Content /\ ToSet(items) \subseteq task.queue
      /\ \A x \in task.queue : rows[x] # Missing
  BY <1>1 DEF SeenInv, IInv, PushOK, Paired, QueueInv
<1>3. \A x \in Content : IF x \in ToSet(items) THEN r[x].row = "S" ELSE r[x] = rows[x]
  BY States
<1>4. \A x \in Content : rows[x] = Missing \/ rows[x] = Local \/ rows[x].row = "S"
  BY RowIsOne DEF SeenInv, IInv
<1>5. task'.queue = queue /\ task'.items = <<>> /\ task'.phase = "push"
  BY <1>1, <1>2
<1> HIDE DEF r
<1>6. \A x \in Content : r[x] # Missing <=> rows[x] # Missing
  BY <1>2, <1>3, States
<1>7. /\ \A x \in Content : r[x] = Missing \/ r[x] = Local \/ r[x].row = "S"
      /\ \A x \in Content : rows[x].row = "S" => r[x].row = "S"
  BY <1>3, <1>4
<1>8. Whole(r)
  BY RowsAssumption, <1>6 DEF SeenInv, Whole
<1>9. queue \in SUBSET Queue /\ heads \in SUBSET Content
  BY <1>1 DEF SeenInv, Queue
<1>10. /\ Whole(rows)' /\ \A x \in Content : rows[x].row = "S" => rows'[x].row = "S"
       /\ \A x \in queue : rows'[x] # Missing
  <2> HIDE DEF queue
  <2>1. \A x \in Content : rows[x] # Missing => r[x] # Missing
    BY <1>6
  <2> QED  BY <1>1, <1>7, <1>8, <1>9, <2>1, CollectSeen
<1>11. ASSUME NEW o \in ToSet(up) PROVE o.of \in Content /\ rows'[o.of].row = "S"
  <2>1. PICK i \in DOMAIN items : o = up[i]
    BY <1>2 DEF ToSet
  <2>2. o.of = items[i] /\ items[i] \in ToSet(items) /\ items[i] \in Content
    BY <1>2, <2>1 DEF ToSet
  <2>3. r[o.of].row = "S"
    BY <1>3, <2>2
  <2>4. Kept(r, heads, queue)[o.of] = r[o.of]
    <3>1. queue \in SUBSET Content
      BY <1>2
    <3> HIDE DEF queue
    <3>2. \A x \in Content : r[x].row = "S" => Kept(r, heads, queue)[x] = r[x]
      BY <1>7, <1>8, <1>9, <3>1, KeptIsWhole
    <3> QED  BY <2>2, <2>3, <3>2
  <2> QED  BY <1>1, <2>2, <2>3, <2>4
<1>12. ObjectsInv'
  BY <1>1, <1>10, <1>11 DEF SeenInv, ObjectsInv
<1>13. QueueInv'
  BY <1>2, <1>5, <1>10 DEF QueueInv, ToSet
<1>14. IInv'
  BY ProcessInv DEF SeenInv
<1> QED  BY <1>1, <1>10, <1>12, <1>13, <1>14 DEF SeenInv, RemoteInv

\* What is queued is local.
LEMMA StartPushSeen ==
  ASSUME SeenInv, StartPush
  PROVE  SeenInv'
<1>1. UNCHANGED <<rows, remote, objects, heads>>
  BY DEF StartPush
<1>2. IInv'
  BY StartPushInv DEF SeenInv
<1>3. QueueInv'
  <2> DEFINE P == Pushable
  <2>1. P \subseteq Content /\ \A x \in P : rows[x] # Missing
    BY States DEF Pushable
  <2>2. task'.phase = "push" => task' = [phase |-> "push", queue |-> P, items |-> <<>>, up |-> <<>>]
    BY DEF StartPush
  <2> HIDE DEF P
  <2> QED  BY <1>1, <2>1, <2>2 DEF QueueInv, ToSet
<1> QED  BY <1>1, <1>2, <1>3 DEF SeenInv, RemoteInv, ObjectsInv, Whole

\* Where one phase follows another the rows stay.
LEMMA RestSeen ==
  ASSUME SeenInv, EndPush \/ StartPull \/ EndPull
  PROVE  SeenInv'
<1>1. UNCHANGED <<rows, remote, objects, heads>> /\ task'.phase # "push"
  BY DEF EndPush, StartPull, EndPull, Resting
<1>2. IInv'
  BY RestInv, StartPullInv DEF SeenInv
<1> QED  BY <1>1, <1>2 DEF SeenInv, RemoteInv, ObjectsInv, Whole, QueueInv

\* A pulled object makes a row only where all it refers to has one, and never unmakes one.
LEMMA PullRows ==
  ASSUME SeenInv, NEW o \in remote, Register(o)
  PROVE  /\ rows'[o.of].row = "S" /\ \A x \in Content : x # o.of => rows'[x] = rows[x]
         /\ \A x \in Content : rows[x] # Missing => rows'[x] # Missing
         /\ \A x \in Content : rows[x].row = "S" => rows'[x].row = "S"
         /\ Whole(rows')
<1>1. rows' = (IF SyncedStays(o.of) THEN rows ELSE [rows EXCEPT ![o.of] = Synced(o)]) /\ Registrable(o.of)
  BY DEF Register
<1>2. o.of \in Content /\ DOMAIN rows = Content
  BY DEF SeenInv, RemoteInv, IInv, RowsOK
<1>3. rows'[o.of].row = "S" /\ \A x \in Content : x # o.of => rows'[x] = rows[x]
  <2>1. CASE SyncedStays(o.of)
    BY <1>1, <2>1 DEF SyncedStays
  <2>2. CASE ~SyncedStays(o.of)
    BY <1>1, <1>2, <2>2, States
  <2> QED  BY <2>1, <2>2
<1>4. /\ \A x \in Content : rows[x] # Missing => rows'[x] # Missing
      /\ \A x \in Content : rows[x].row = "S" => rows'[x].row = "S"
  BY <1>3, States
<1>5. \A y \in Refs[o.of] : rows[y] # Missing
  BY <1>1, <1>2 DEF Registrable, RefsHaveRows, HasRow, SeenInv, Whole
<1>6. Whole(rows')
  <2> SUFFICES ASSUME NEW x \in Content, rows'[x] # Missing, NEW y \in Refs[x] PROVE rows'[y] # Missing
    BY DEF Whole
  <2>1. y \in Content
    BY RowsAssumption
  <2>2. rows[y] # Missing
    BY <1>3, <1>5 DEF SeenInv, Whole
  <2> QED  BY <1>4, <2>1, <2>2
<1> QED  BY <1>3, <1>4, <1>6

\* What the pull does with an object.
LEMMA PullSeen ==
  ASSUME SeenInv, NEW o \in remote, Seen(o) \/ Register(o) \/ Refused(o) \/ DownloadFails(o)
  PROVE  SeenInv'
<1>1. /\ UNCHANGED <<remote, heads>> /\ task.phase = "pull" /\ task'.phase # "push"
  <2>1. /\ UNCHANGED <<remote, heads>> /\ task.phase = "pull" /\ task' = [task EXCEPT !.todo = @ \ {o}]
    BY DEF Seen, Register, Refused, DownloadFails, InWork, Done
  <2>2. task = [phase |-> "pull", listed |-> task.listed, todo |-> task.todo, depth |-> task.depth]
    BY <2>1 DEF SeenInv, IInv, PullOK
  <2> QED  BY <2>1, <2>2
<1>2. IInv'
  BY PullInv DEF SeenInv
<1>3. QueueInv' /\ RemoteInv' /\ heads' \subseteq Content
  BY <1>1 DEF SeenInv, QueueInv, RemoteInv
<1>4. CASE Register(o)
  <2>1. objects' = objects \cup {o} /\ o.of \in Content
    BY <1>4 DEF Register, SeenInv, RemoteInv
  <2>2. ObjectsInv' /\ Whole(rows)'
    BY <1>4, <2>1, PullRows DEF SeenInv, ObjectsInv
  <2> QED  BY <1>2, <1>3, <2>2 DEF SeenInv
<1>5. CASE ~Register(o)
  <2>1. UNCHANGED <<rows, objects>>
    BY <1>5 DEF Seen, Refused, DownloadFails
  <2>2. ObjectsInv' /\ Whole(rows)'
    BY <2>1 DEF SeenInv, ObjectsInv, Whole
  <2> QED  BY <1>2, <1>3, <2>2 DEF SeenInv
<1> QED  BY <1>4, <1>5

\* Every step keeps it.
LEMMA SeenStep == SeenInv /\ [Next]_vars => SeenInv'
<1> SUFFICES ASSUME SeenInv, [Next]_vars PROVE SeenInv'
  OBVIOUS
<1>1. ASSUME NEW m \in Own, Write(m) PROVE SeenInv'
  BY <1>1, WriteSeen
<1>2. ASSUME NEW h \in SUBSET {x \in Content : Kind[x] = "commit"}, MoveHead(h) PROVE SeenInv'
  <2>1. h \in SUBSET Content
    OBVIOUS
  <2> QED  BY <1>2, <2>1, MoveHeadSeen
<1>3. CASE (\E x \in Content : OthersUpload(x)) \/ (\E batch \in SUBSET Queue : UploadFails(batch))
  BY <1>3, OthersSeen
<1>4. CASE Sync
  BY <1>4, StartPushSeen, UploadSeen, ProcessSeen, RestSeen, PullSeen DEF Sync, Pull
<1>5. ASSUME NEW o \in remote, DownloadFails(o) PROVE SeenInv'
  BY <1>5, PullSeen
<1>6. CASE GiveUp
  BY <1>6, GiveUpSeen
<1>7. CASE UNCHANGED vars
  <2>1. IInv'
    BY <1>7, StepInv DEF SeenInv
  <2> QED  BY <1>7, <2>1 DEF vars, SeenInv, RemoteInv, ObjectsInv, QueueInv, Whole
<1> QED  BY <1>1, <1>2, <1>3, <1>4, <1>5, <1>6, <1>7 DEF Next

\* An object that counts as seen has given its content a row, and rows have the rows they refer to
\* (pull.rs:95, the foreign keys): what a pull skips is there.
THEOREM SeenHasRow == Spec => []SeenIsRegistered
<1>1. SeenInv => SeenIsRegistered
  BY States DEF SeenInv, ObjectsInv, Whole, SeenIsRegistered, HasRow, RefsHaveRows
<1> QED  BY <1>1, SeenInit, SeenStep, PTL DEF Spec

----------------------------------------------------------------------------
(* The depths of directories. *)

\* The body of Depth: the greatest of the depths below, plus one.
Greatest(below) == IF below = {} THEN 0 ELSE CHOOSE m \in below : \A n \in below : n <= m

\* The depths one above those of the references.
Below(depth, dirs, d) == {depth[c] + 1 : c \in Refs[d] \cap dirs}

\* The directories that have less than n below them.
Ranked(dirs, n) == {d \in dirs : Rank(d) < n}

\* The recursion has an answer for the directories of each rank.
LEMMA DepthsToRank ==
  ASSUME NEW dirs \in SUBSET Content, NEW n \in Nat
  PROVE  \E f : f = [d \in Ranked(dirs, n) |-> Greatest(Below(f, dirs, d))]
<1> DEFINE S == {k \in Nat : \E f : f = [d \in Ranked(dirs, k) |-> Greatest(Below(f, dirs, d))]}
<1>1. 0 \in S
  <2>1. Ranked(dirs, 0) = {}
    BY RefsRankLess DEF Ranked
  <2> DEFINE f == [d \in {} |-> 0]
  <2>2. f = [d \in Ranked(dirs, 0) |-> Greatest(Below(f, dirs, d))]
    BY <2>1
  <2> QED  BY <2>2
<1>2. ASSUME NEW k \in S PROVE k + 1 \in S
  <2> DEFINE m == k + 1
             D == Ranked(dirs, k)
             E == Ranked(dirs, m)
  <2>1. PICK f : f = [d \in D |-> Greatest(Below(f, dirs, d))]
    BY DEF S
  <2> DEFINE g == [d \in E |-> Greatest(Below(f, dirs, d))]
  <2>2. D \subseteq E
    BY RefsRankLess DEF Ranked
  <2>3. ASSUME NEW d \in E PROVE Refs[d] \cap dirs \subseteq D
    <3>1. \A c \in Refs[d] : Rank(c) \in Nat /\ Rank(d) \in Nat /\ Rank(c) < Rank(d)
      BY RefsRankLess DEF Ranked
    <3> QED  BY <3>1 DEF Ranked
  <2> HIDE DEF D, E
  <2>4. \A d \in D : g[d] = f[d]
    BY <2>1, <2>2
  <2> HIDE DEF g
  <2>5. \A d \in E : Below(g, dirs, d) = Below(f, dirs, d)
    BY <2>3, <2>4 DEF Below
  <2>6. g = [d \in E |-> Greatest(Below(g, dirs, d))]
    BY <2>5 DEF g
  <2> QED  BY <2>6 DEF E, S
<1> HIDE DEF S
<1>3. S = Nat
  <2>1. S \in SUBSET Nat
    BY DEF S
  <2> QED  BY <1>1, <1>2, <2>1, NatSet
<1> QED  BY <1>3 DEF S

\* So Depth is what its equation says.
LEMMA DepthsAre ==
  ASSUME NEW dirs \in SUBSET Content
  PROVE  \A d \in dirs : Depth(dirs)[d] = Greatest(Below(Depth(dirs), dirs, d))
<1> DEFINE Good(f) == f = [d \in dirs |-> Greatest(Below(f, dirs, d))]
           n == Cardinality(Content) + 1
           depth == CHOOSE f : Good(f)
<1>1. n \in Nat /\ Ranked(dirs, n) = dirs
  <2>1. ASSUME NEW d \in dirs PROVE Rank(d) \in Nat /\ Rank(d) <= Cardinality(Content)
    <3>1. Closure[d] \in SUBSET Content
      BY ClosureClosed
    <3> QED  BY <3>1, FS_Subset, FS_CardinalityType, RefsAssumption DEF Rank
  <2>2. Cardinality(Content) \in Nat
    BY FS_CardinalityType, RefsAssumption
  <2> QED  BY <2>1, <2>2 DEF Ranked
<1>2. \E f : Good(f)
  BY <1>1, DepthsToRank
<1>3. Good(depth)
  BY <1>2
<1>4. Depth(dirs) = [d \in dirs |-> depth[d]]
  BY DEF Depth, Greatest, Below
<1>5. depth = [d \in dirs |-> depth[d]]
  BY <1>3
<1>6. Depth(dirs) = depth
  BY <1>4, <1>5
<1> QED  BY <1>3, <1>6

\* Below a directory directories are less deep.
LEMMA DepthsFall ==
  ASSUME NEW dirs \in SUBSET Content, NEW d \in dirs, NEW c \in Refs[d] \cap dirs
  PROVE  Depth(dirs)[c] \in Nat /\ Depth(dirs)[d] \in Nat /\ Depth(dirs)[c] < Depth(dirs)[d]
<1> DEFINE depth == Depth(dirs)
<1>1. \A x \in dirs : depth[x] = Greatest(Below(depth, dirs, x))
  BY DepthsAre
<1> HIDE DEF depth
<1> DEFINE Low(x) == depth[x] \in Nat /\ depth[x] <= Rank(x)
           S == {n \in Nat : \A x \in dirs : Rank(x) < n => Low(x)}
<1>2. ASSUME NEW x \in dirs, \A y \in Refs[x] \cap dirs : Low(y)
      PROVE  Low(x) /\ \A y \in Refs[x] \cap dirs : depth[y] < depth[x]
  <2> DEFINE B == Below(depth, dirs, x)
  <2>1. Rank(x) \in Nat /\ \A y \in Refs[x] : Rank(y) \in Nat /\ Rank(y) < Rank(x)
    BY RefsRankLess
  <2>2. B \in SUBSET Nat /\ \A b \in B : b <= Rank(x)
    BY <1>2, <2>1 DEF Below
  <2>3. \A y \in Refs[x] \cap dirs : depth[y] + 1 \in B
    BY DEF Below
  <2>4. depth[x] = Greatest(B)
    BY <1>1
  <2> HIDE DEF B
  <2>5. CASE B = {}
    <3>1. depth[x] = 0
      BY <2>4, <2>5 DEF Greatest
    <3>2. Refs[x] \cap dirs = {}
      BY <2>3, <2>5
    <3> QED  BY <2>1, <3>1, <3>2
  <2>6. CASE B # {}
    <3>1. \E m \in B : \A b \in B : b <= m
      BY <2>1, <2>2, <2>6, HasGreatest
    <3>2. depth[x] \in B /\ \A b \in B : b <= depth[x]
      BY <2>4, <2>6, <3>1 DEF Greatest
    <3>3. Low(x)
      BY <2>1, <2>2, <3>2
    <3>4. ASSUME NEW y \in Refs[x] \cap dirs PROVE depth[y] < depth[x]
      <4>1. depth[y] + 1 <= depth[x] /\ depth[y] \in Nat /\ depth[x] \in Nat
        BY <1>2, <2>2, <2>3, <3>2
      <4> QED  BY <4>1
    <3> QED  BY <3>3, <3>4
  <2> QED  BY <2>5, <2>6
<1>3. 0 \in S
  BY RefsRankLess
<1>4. ASSUME NEW n \in S PROVE n + 1 \in S
  <2> SUFFICES ASSUME NEW x \in dirs, Rank(x) < n + 1 PROVE Low(x)
    OBVIOUS
  <2>1. \A y \in Refs[x] : Rank(y) \in Nat /\ Rank(x) \in Nat /\ Rank(y) < Rank(x)
    BY RefsRankLess
  <2>2. \A y \in Refs[x] \cap dirs : Rank(y) < n
    BY <2>1
  <2>3. \A y \in Refs[x] \cap dirs : Low(y)
    BY <2>2
  <2> HIDE DEF Low
  <2> QED  BY <1>2, <2>3
<1>5. \A x \in dirs : Low(x)
  <2> HIDE DEF Low
  <2>1. S = Nat
    <3>1. S \in SUBSET Nat
      OBVIOUS
    <3> HIDE DEF S
    <3> QED  BY <1>3, <1>4, <3>1, NatSet
  <2>2. ASSUME NEW x \in dirs PROVE Low(x)
    <3>1. Rank(x) \in Nat
      BY RefsRankLess
    <3>2. Rank(x) + 1 \in S /\ Rank(x) < Rank(x) + 1
      BY <2>1, <3>1
    <3> QED  BY <3>2
  <2> QED  BY <2>2
<1>6. \A y \in Refs[d] \cap dirs : depth[y] < depth[d]
  <2>1. \A y \in Refs[d] \cap dirs : Low(y)
    BY <1>5
  <2> HIDE DEF Low
  <2> QED  BY <1>2, <2>1
<1>7. depth[c] \in Nat /\ depth[d] \in Nat /\ depth[c] < depth[d]
  BY <1>5, <1>6
<1> QED  BY <1>7 DEF depth

----------------------------------------------------------------------------
(* A pull of one object at a time. *)

\* What was whole when the pull began, and of which no object is to come, is synced.
DoneIsSynced ==
  \A x \in task.listed :
    (Closure[x] \subseteq task.listed /\ \A o \in task.todo : o.of # x) => rows[x].row = "S"

\* With a window of one, and no failure so far.
Unhindered == conf.window = 1 /\ fails = 0

\* The listed directories, which Depth is about.
Dirs == {x \in task.listed : Kind[x] = "dir"}

\* The invariant of a pull.
WholeInv ==
  /\ fails \in Nat
  /\ task.phase = "pull" =>
       /\ task.listed \subseteq Content /\ task.todo \subseteq remote
       /\ task.depth = Depth(Dirs)
       /\ Unhindered => DoneIsSynced

\* No pull at first.
LEMMA WholeInit == Init => WholeInv
BY DEF Init, Resting, WholeInv

\* A reference comes before what has it.
LEMMA RefIsBefore ==
  ASSUME WholeInv, task.phase = "pull", NEW x \in task.listed, NEW y \in Refs[x] \cap task.listed
  PROVE  Before(y, x)
<1>1. x \in Content /\ y \in Content
  BY DEF WholeInv
<1>2. <<Kind[x], Kind[y]>> \in
       {<<"blob", "chunk">>, <<"file", "blob">>, <<"dir", "file">>, <<"dir", "dir">>, <<"commit", "dir">>}
  BY <1>1, RefsAssumption
<1>3. \/ Kind[x] = "blob" /\ Kind[y] = "chunk"
      \/ Kind[x] = "file" /\ Kind[y] = "blob"
      \/ Kind[x] = "dir" /\ Kind[y] = "file"
      \/ Kind[x] = "dir" /\ Kind[y] = "dir"
      \/ Kind[x] = "commit" /\ Kind[y] = "dir"
  BY <1>2
<1>4. \A z \in Content :
        /\ Kind[z] = "chunk" => Group(z) = 1
        /\ Kind[z] = "blob" => Group(z) = 2
        /\ Kind[z] = "file" => Group(z) = 3
        /\ Kind[z] = "dir" => Group(z) = 3
        /\ Kind[z] = "commit" => Group(z) = 4
  BY DEF Group
<1>5. CASE Kind[x] = "dir" /\ Kind[y] = "dir"
  <2>1. Dirs \in SUBSET Content /\ x \in Dirs /\ y \in Refs[x] \cap Dirs
    BY <1>5 DEF WholeInv, Dirs
  <2>2. Depth(Dirs)[y] < Depth(Dirs)[x]
    BY <2>1, DepthsFall
  <2> QED  BY <1>1, <1>4, <1>5, <2>2 DEF Before, WholeInv
<1>6. CASE Kind[x] = "dir" /\ Kind[y] = "file"
  BY <1>1, <1>4, <1>6 DEF Before
<1>7. CASE Kind[x] # "dir"
  <2>1. Group(y) < Group(x)
    BY <1>1, <1>3, <1>4, <1>7
  <2> QED  BY <2>1 DEF Before
<1> QED  BY <1>3, <1>5, <1>6, <1>7

\* With a window of one nothing that comes before is to be done.
LEMMA NoneBefore ==
  ASSUME SeenInv, WholeInv, conf.window = 1, NEW o, InWork(o), NEW p \in task.todo
  PROVE  ~Before(p.of, o.of)
<1> DEFINE B == {q \in task.todo : Before(q.of, o.of)}
<1>1. IsFiniteSet(remote) /\ task.todo \subseteq remote /\ Cardinality(B) < 1
  BY DEF SeenInv, RemoteInv, WholeInv, InWork
<1>2. IsFiniteSet(B) /\ Cardinality(B) \in Nat
  <2>1. B \in SUBSET remote
    BY <1>1
  <2> HIDE DEF B
  <2> QED  BY <1>1, <2>1, FS_Subset, FS_CardinalityType
<1>3. B = {}
  <2> HIDE DEF B
  <2>1. Cardinality(B) = 0
    BY <1>1, <1>2
  <2> QED  BY <1>2, <2>1, FS_EmptySet
<1> QED  BY <1>3

\* The object in hand is registered, or was: all it refers to is synced, for that came before.
LEMMA PullWhole ==
  ASSUME SeenInv, WholeInv, NEW o \in remote, Seen(o) \/ Register(o) \/ Refused(o) \/ DownloadFails(o)
  PROVE  WholeInv'
<1>1. /\ task.phase = "pull" /\ InWork(o) /\ o \in task.todo /\ o.of \in Content
      /\ UNCHANGED <<conf, remote>>
      /\ task' = [task EXCEPT !.todo = @ \ {o}]
  BY DEF Seen, Register, Refused, DownloadFails, InWork, Done, SeenInv, RemoteInv
<1>2. /\ task'.phase = "pull" /\ task'.listed = task.listed /\ task'.todo = task.todo \ {o}
      /\ task'.depth = task.depth
  <2>1. task = [phase |-> "pull", listed |-> task.listed, todo |-> task.todo, depth |-> task.depth]
    BY <1>1 DEF SeenInv, IInv, PullOK
  <2> QED  BY <1>1, <2>1
<1>3. fails' \in Nat /\ (Unhindered' => Unhindered /\ ~DownloadFails(o))
  BY <1>1 DEF Seen, Register, Refused, DownloadFails, Fails, Unhindered, WholeInv
<1>4. \A x \in Content : rows[x].row = "S" => rows'[x].row = "S"
  BY PullRows DEF Seen, Register, Refused, DownloadFails
<1>5. ASSUME Unhindered' PROVE DoneIsSynced'
  <2> SUFFICES ASSUME NEW x \in task.listed, Closure[x] \subseteq task.listed,
                      \A p \in task.todo \ {o} : p.of # x
               PROVE  rows'[x].row = "S"
    BY <1>2 DEF DoneIsSynced
  <2>1. Unhindered /\ DoneIsSynced /\ x \in Content /\ task.listed \subseteq Content
    BY <1>1, <1>3, <1>5 DEF WholeInv
  <2>2. CASE o.of # x
    <3>1. rows[x].row = "S"
      BY <2>1, <2>2 DEF DoneIsSynced
    <3> QED  BY <1>4, <2>1, <3>1
  <2>3. CASE o.of = x
    <3>1. CASE Seen(o)
      BY <1>4, <2>1, <2>3, <3>1 DEF Seen, SeenInv, ObjectsInv
    <3>2. CASE Register(o)
      BY <2>3, <3>2, PullRows
    <3>3. CASE Refused(o)
      <4>1. ASSUME NEW y \in Refs[x] PROVE HasRow(y)
        <5>1. y \in Content /\ Closure[y] \subseteq Closure[x]
          BY <2>1, ClosureOfRef
        <5>2. y \in Closure[y]
          BY <5>1, ClosureClosed
        <5>3. y \in task.listed /\ Closure[y] \subseteq task.listed
          BY <5>1, <5>2
        <5>4. Before(y, x)
          BY <1>1, <5>3, RefIsBefore
        <5>5. \A p \in task.todo : p.of # y
          BY <1>1, <2>1, <2>3, <5>4, NoneBefore DEF Unhindered
        <5>6. rows[y].row = "S"
          BY <2>1, <5>3, <5>5 DEF DoneIsSynced
        <5> QED  BY <5>6, States DEF HasRow
      <4>2. RefsHaveRows(x)
        BY <4>1 DEF RefsHaveRows
      <4>3. SyncedAborts(x)
        BY <2>3, <3>3, <4>2 DEF Refused, Registrable
      <4> QED  BY <1>4, <2>1, <4>3 DEF SyncedAborts
    <3> QED  BY <1>3, <1>5, <3>1, <3>2, <3>3
  <2> QED  BY <2>2, <2>3
<1>6. Dirs' = Dirs
  BY <1>2 DEF Dirs
<1> QED  BY <1>1, <1>2, <1>3, <1>5, <1>6 DEF WholeInv

\* A pull begins with everything to be done.
LEMMA StartPullWhole ==
  ASSUME SeenInv, WholeInv, StartPull
  PROVE  WholeInv'
<1> DEFINE L == {o.of : o \in remote}
           D == Depth({x \in L : Kind[x] = "dir"})
<1>1. /\ UNCHANGED <<conf, remote, fails>>
      /\ task' = [phase |-> "pull", listed |-> L, todo |-> remote, depth |-> D]
  BY DEF StartPull
<1>2. task'.listed = L /\ task'.todo = remote /\ task'.depth = D
  <2> HIDE DEF L, D
  <2> QED  BY <1>1
<1>3. L \subseteq Content
  BY DEF SeenInv, RemoteInv
<1>4. task'.depth = Depth(Dirs')
  BY <1>2 DEF Dirs
<1>5. DoneIsSynced'
  <2>1. \A x \in L : \E o \in remote : o.of = x
    OBVIOUS
  <2> HIDE DEF L
  <2> QED  BY <1>2, <2>1 DEF DoneIsSynced
<1> HIDE DEF L, D
<1> QED  BY <1>1, <1>2, <1>3, <1>4, <1>5 DEF WholeInv

\* Writes and moved heads leave synced rows.
LEMMA HeadsWhole ==
  ASSUME SeenInv, WholeInv, NEW m, Write(m) \/ MoveHead(m)
  PROVE  WholeInv'
<1>1. UNCHANGED <<conf, remote, task, fails>>
  BY DEF Write, MoveHead
<1>2. \A x \in Content : rows[x].row = "S" => rows'[x].row = "S"
  <2>1. CASE Write(m)
    <3> DEFINE r == [x \in Content |-> IF x \in Closure[m] /\ ~HasRow(x) THEN Local ELSE rows[x]]
    <3>1. rows' = Kept(r, {m}, Queue)
      BY <2>1 DEF Write
    <3>2. \A x \in Content : rows[x].row = "S" => r[x] = rows[x] /\ r[x] # Local
      BY States DEF HasRow
    <3> HIDE DEF r
    <3> QED  BY <3>1, <3>2 DEF Kept
  <2>2. CASE MoveHead(m)
    <3>1. rows' = Kept(rows, m, Queue)
      BY <2>2 DEF MoveHead
    <3> QED  BY <3>1, States DEF Kept
  <2> QED  BY <2>1, <2>2
<1>3. Dirs' = Dirs
  BY <1>1 DEF Dirs
<1> QED  BY <1>1, <1>2, <1>3 DEF WholeInv, DoneIsSynced, Unhindered

\* Others only add to the remote, which the pull has listed before.
LEMMA OthersWhole ==
  ASSUME WholeInv, NEW x, OthersUpload(x)
  PROVE  WholeInv'
<1>1. UNCHANGED <<conf, rows, task, fails>> /\ remote \subseteq remote'
  BY DEF OthersUpload
<1>2. Dirs' = Dirs
  BY <1>1 DEF Dirs
<1> QED  BY <1>1, <1>2 DEF WholeInv, DoneIsSynced, Unhindered

\* Outside of a pull nothing is asked.
LEMMA NoPullWhole ==
  ASSUME WholeInv, fails' \in Nat, task'.phase # "pull"
  PROVE  WholeInv'
BY DEF WholeInv

\* The phases of a push.
LEMMA PushWhole ==
  ASSUME SeenInv, WholeInv,
         \/ StartPush \/ EndPush \/ EndPull \/ GiveUp \/ Process
         \/ \E batch \in SUBSET Queue : Upload(batch) \/ UploadFails(batch)
  PROVE  WholeInv'
<1>1. fails' \in Nat
  <2>1. fails' = fails \/ fails' = fails + 1
    BY DEF StartPush, EndPush, EndPull, GiveUp, Process, Upload, UploadFails, Fails
  <2> QED  BY <2>1 DEF WholeInv
<1>2. CASE StartPush \/ EndPush \/ EndPull \/ GiveUp
  <2>1. task'.phase # "pull"
    BY <1>2 DEF StartPush, EndPush, EndPull, GiveUp, Resting
  <2> QED  BY <1>1, <2>1, NoPullWhole
<1>3. CASE Process \/ \E batch \in SUBSET Queue : Upload(batch) \/ UploadFails(batch)
  <2>1. task.phase = "push"
    BY <1>3 DEF Process, Upload, UploadFails
  <2>2. task = [phase |-> "push", queue |-> task.queue, items |-> task.items, up |-> task.up]
    BY <2>1 DEF SeenInv, IInv, PushOK
  <2>3. task'.phase = "push"
    <3>1. CASE Process
      <4>1. \E queue : task' = [task EXCEPT !.queue = queue, !.items = <<>>, !.up = <<>>]
        BY <3>1 DEF Process
      <4> QED  BY <2>2, <4>1
    <3>2. ASSUME NEW batch, Upload(batch) PROVE task'.phase = "push"
      <4>1. \E items, up : task' = [task EXCEPT !.items = items, !.up = up]
        BY <3>2 DEF Upload
      <4> QED  BY <2>2, <4>1
    <3>3. ASSUME NEW batch, UploadFails(batch) PROVE task'.phase = "push"
      BY <2>1, <3>3 DEF UploadFails
    <3> QED  BY <1>3, <3>1, <3>2, <3>3
  <2> QED  BY <1>1, <2>3, NoPullWhole
<1> QED  BY <1>2, <1>3

\* Every step keeps it.
LEMMA WholeStep == SeenInv /\ WholeInv /\ [Next]_vars => WholeInv'
<1> SUFFICES ASSUME SeenInv, WholeInv, [Next]_vars PROVE WholeInv'
  OBVIOUS
<1>1. ASSUME NEW m, Write(m) \/ MoveHead(m) PROVE WholeInv'
  BY <1>1, HeadsWhole
<1>2. ASSUME NEW x, OthersUpload(x) PROVE WholeInv'
  BY <1>2, OthersWhole
<1>3. CASE Sync
  <2>1. CASE StartPull
    BY <2>1, StartPullWhole
  <2>2. CASE Pull
    BY <2>2, PullWhole DEF Pull
  <2>3. CASE StartPush \/ EndPush \/ EndPull \/ Process \/ \E batch \in SUBSET Queue : Upload(batch)
    BY <2>3, PushWhole
  <2> QED  BY <1>3, <2>1, <2>2, <2>3 DEF Sync
<1>4. ASSUME NEW o \in remote, DownloadFails(o) PROVE WholeInv'
  BY <1>4, PullWhole
<1>5. CASE GiveUp \/ \E batch \in SUBSET Queue : UploadFails(batch)
  BY <1>5, PushWhole
<1>6. CASE UNCHANGED vars
  <2>1. UNCHANGED <<conf, remote, rows, task, fails>>
    BY <1>6 DEF vars
  <2>2. Dirs' = Dirs
    BY <2>1 DEF Dirs
  <2> QED  BY <2>1, <2>2 DEF WholeInv, DoneIsSynced, Unhindered
<1> QED  BY <1>1, <1>2, <1>3, <1>4, <1>5, <1>6 DEF Next

\* A pull of one object at a time that nothing fails ends with a row for everything that was whole
\* when it began: the order of the kinds and the depths of directories (entity.rs:745) are enough.
THEOREM PullIsEnough == Spec => []OnePullIsEnough
<1>1. WholeInv => OnePullIsEnough
  BY States DEF WholeInv, DoneIsSynced, Unhindered, OnePullIsEnough, HasRow
<1> QED  BY <1>1, SeenInit, SeenStep, WholeInit, WholeStep, PTL DEF Spec
=============================================================================
