-------------------------- MODULE RemoteObjectsProofs --------------------------
(***************************************************************************)
(* Why nobody ever finds a part of a volume without what was to be there   *)
(* before it, for any clients, batches and pages, wherever uploads break   *)
(* off and processes end; and why a client knows what is there, however    *)
(* its listing, its events, its uploads and deletes and those of others    *)
(* overlap.                                                                *)
(***************************************************************************)
EXTENDS RemoteObjects, WellFoundedInduction, TLAPS

USE RemoteAssumption

There == DOMAIN remote

\* todo is what follows the k-th object of batch b, and those before are on the remote.
Rests(todo, b, k, D) ==
  /\ todo \in Seq(Object) /\ k \in Nat /\ Len(todo) + k = Len(b)
  /\ \A i \in 1 .. Len(todo) : todo[i] = b[k + i]
  /\ \A j \in 1 .. k : b[j] \in D

Uploading(r, D) ==
  /\ \E b \in Batches, k \in Nat : Rests(r.todo, b, k, D)

IInv ==
  /\ req = [c \in Client |-> req[c]]
  /\ \A c \in Client : req[c].op = "upload" => Uploading(req[c], There)
  /\ WholeVolumes

\* The remote only gains objects, deleted ones included.
LEMMA MoreIsThere ==
  ASSUME NEW r, NEW D, NEW E, D \subseteq E, Uploading(r, D)
  PROVE  Uploading(r, E)
BY DEF Uploading, Rests

LEMMA ObjectsOfBatches ==
  ASSUME NEW b \in Batches
  PROVE  b \in Seq(Object) /\ DOMAIN b = 1 .. Len(b) /\ Len(b) \in Nat
<1>1. b \in Seq(ToSet(b))
  OBVIOUS
<1>2. DOMAIN b = 1 .. Len(b) /\ Len(b) \in Nat
  BY <1>1
<1>3. \A i \in DOMAIN b : b[i] \in Object
  BY DEF Object, ToSet
<1>4. b \in [1 .. Len(b) -> Object]
  BY <1>1, <1>2, <1>3
<1> QED BY <1>2, <1>4

LEMMA InitInv == Init => IInv
BY DEF Init, IInv, Rest, WholeVolumes

\* A step of c that brings no object to the remote.
LEMMA NothingNew ==
  ASSUME IInv, NEW c \in Client, NEW r, req' = [req EXCEPT ![c] = r], There' = There,
         r.op = "upload" => Uploading(r, There)
  PROVE  IInv'
<1>1. \A d \in Client : req'[d].op = "upload" => Uploading(req'[d], There')
  BY DEF IInv
<1>2. req' = [d \in Client |-> req'[d]]
  BY DEF IInv
<1>3. WholeVolumes'
  BY DEF IInv, WholeVolumes, There
<1> QED BY <1>1, <1>2, <1>3 DEF IInv

\* An upload begins with all of a batch to do.
LEMMA StartUploadInv ==
  ASSUME IInv, NEW c \in Client, NEW b \in Batches, StartUpload(c, b)
  PROVE  IInv'
<1>1. req' = [req EXCEPT ![c] = Batch(b, <<>>)] /\ There' = There
  BY DEF StartUpload, There
<1>2. b \in Seq(Object)
  BY ObjectsOfBatches
<1>3. Rests(b, b, 0, There)
  BY <1>2, ObjectsOfBatches DEF Rests
<1>4. Uploading(Batch(b, <<>>), There)
  BY <1>3 DEF Batch, Uploading
<1> QED BY <1>1, <1>4, NothingNew

\* The next object is the first of the batch that is not there: it completes no part of
\* another batch.
LEMMA UploadNextInv ==
  ASSUME IInv, NEW c \in Client, UploadNext(c)
  PROVE  IInv'
<1> DEFINE r == req[c]
           o == Head(r.todo)
           n == Batch(Tail(r.todo), Append(r.done, o))
<1>1. /\ r.op = "upload" /\ r.todo # <<>> /\ Changed(o, FALSE)
      /\ req' = [req EXCEPT ![c] = n]
  BY DEF UploadNext, Doing
<1>3. PICK b \in Batches, k \in Nat : Rests(r.todo, b, k, There)
  BY <1>1 DEF IInv, Uploading
<1>4. There' = There \cup {o}
  BY <1>1 DEF Changed, There
<1>5. k + 1 \in DOMAIN b /\ o = b[k + 1] /\ b \in Seq(Object)
  <2>1. b \in Seq(Object) /\ DOMAIN b = 1 .. Len(b) /\ Len(b) \in Nat
    BY ObjectsOfBatches
  <2>2. r.todo \in Seq(Object) /\ Len(r.todo) \in Nat \ {0} /\ o = r.todo[1]
    BY <1>1, <1>3 DEF Rests
  <2>3. k \in Nat /\ Len(r.todo) + k = Len(b) /\ r.todo[1] = b[k + 1]
    BY <1>3, <2>2 DEF Rests
  <2>4. k + 1 \in 1 .. Len(b)
    <3> DEFINE m == Len(b)
               l == Len(r.todo)
    <3>1. m \in Nat /\ l \in Nat \ {0} /\ k \in Nat /\ l + k = m
      BY <2>1, <2>2, <2>3
    <3> HIDE DEF m, l
    <3>2. k + 1 \in 1 .. m
      BY <3>1
    <3> QED BY <3>2 DEF m
  <2> HIDE DEF o, r
  <2> QED BY <2>1, <2>2, <2>3, <2>4
<1>6. Rests(Tail(r.todo), b, k + 1, There')
  <2>1. Tail(r.todo) \in Seq(Object) /\ Len(Tail(r.todo)) = Len(r.todo) - 1
        /\ \A i \in 1 .. Len(Tail(r.todo)) : Tail(r.todo)[i] = r.todo[i + 1]
    BY <1>1, <1>3 DEF Rests
  <2>2. \A j \in 1 .. k + 1 : b[j] \in There'
    BY <1>3, <1>4, <1>5 DEF Rests
  <2>3. \A i \in 1 .. Len(Tail(r.todo)) : Tail(r.todo)[i] = b[k + 1 + i]
    <3>1. k \in Nat /\ Len(r.todo) \in Nat /\ \A i \in 1 .. Len(r.todo) : r.todo[i] = b[k + i]
      BY <1>3 DEF Rests
    <3>2. ASSUME NEW i \in 1 .. Len(Tail(r.todo)) PROVE Tail(r.todo)[i] = b[k + 1 + i]
      <4>1. Tail(r.todo)[i] = r.todo[i + 1] /\ i + 1 \in 1 .. Len(r.todo)
        BY <2>1, <3>1
      <4>2. r.todo[i + 1] = b[k + (i + 1)] /\ k + (i + 1) = k + 1 + i
        BY <3>1, <4>1
      <4> QED BY <4>1, <4>2
    <3> QED BY <3>2
  <2>4. k + 1 \in Nat /\ Len(Tail(r.todo)) + (k + 1) = Len(b)
    <3> DEFINE l == Len(r.todo)
               m == Len(Tail(r.todo))
               z == Len(b)
    <3>1. l \in Nat /\ m = l - 1 /\ k \in Nat /\ l + k = z
      BY <1>1, <1>3, <2>1 DEF Rests
    <3> HIDE DEF l, m, z
    <3>2. k + 1 \in Nat /\ m + (k + 1) = z
      BY <3>1
    <3> QED BY <3>2 DEF m, z
  <2> DEFINE u == Tail(r.todo)
  <2>5. /\ u \in Seq(Object) /\ \A i \in 1 .. Len(u) : u[i] = b[k + 1 + i]
        /\ k + 1 \in Nat /\ Len(u) + (k + 1) = Len(b)
    BY <2>1, <2>3, <2>4
  <2> HIDE DEF u, o, n
  <2>6. Rests(u, b, k + 1, There')
    BY <2>2, <2>5 DEF Rests
  <2> QED BY <2>6 DEF u
<1>7. WholeVolumes'
  <2>1. ASSUME NEW d \in Batches, NEW i \in DOMAIN d, d[i] \in There', NEW j \in 1 .. i
        PROVE  d[j] \in There'
    <3>1. CASE d[i] \in There
      BY <2>1, <3>1, <1>4 DEF IInv, WholeVolumes, There
    <3>2. CASE d[i] = o
      <4>1. d = b
        BY <1>5, <3>2 DEF ToSet
      <4>2. i = k + 1
        BY <1>5, <3>2, <4>1 DEF IsInjective
      <4> QED BY <1>6, <4>1, <4>2 DEF Rests
    <3> QED BY <2>1, <1>4, <3>1, <3>2
  <2> QED BY <2>1 DEF WholeVolumes, There
<1>9. Uploading(n, There')
  BY <1>6 DEF Uploading, Batch
<1> HIDE DEF n, o
<1>10. \A d \in Client : req'[d].op = "upload" => Uploading(req'[d], There')
  BY <1>1, <1>4, <1>9, MoreIsThere DEF IInv
<1>11. req' = [d \in Client |-> req'[d]]
  BY <1>1 DEF IInv
<1> QED BY <1>7, <1>10, <1>11 DEF IInv

\* The client comes to know an uploaded object; what is left to do stays.
LEMMA UploadedInv ==
  ASSUME IInv, NEW c \in Client, Uploaded(c)
  PROVE  IInv'
<1> DEFINE r == req[c]
           n == Batch(r.todo, Tail(r.done))
<1>1. r.op = "upload" /\ There' = There
  BY DEF Uploaded, Doing, There
<1>2. \/ req' = [req EXCEPT ![c] = Rest]
      \/ req' = [req EXCEPT ![c] = n]
  BY DEF Uploaded
<1>3. Uploading(n, There)
  BY <1>1 DEF IInv, Uploading, Batch
<1>4. Rest.op # "upload"
  BY DEF Rest
<1> HIDE DEF r, n
<1> QED BY <1>1, <1>2, <1>3, <1>4, NothingNew

\* Deletes change objects that are there.
LEMMA DeleteInv ==
  ASSUME IInv, NEW c \in Client, NEW o, Delete(c, o)
  PROVE  IInv'
<1>1. There' = There
  BY DEF Delete, Changed, Present, There
<1>2. req' = [req EXCEPT ![c] = [op |-> "forget", id |-> o]]
  BY DEF Delete
<1>3. [op |-> "forget", id |-> o].op # "upload"
  OBVIOUS
<1> QED BY <1>1, <1>2, <1>3, NothingNew

LEMMA RestInv ==
  ASSUME IInv, NEW c \in Client, req' = [req EXCEPT ![c] = Rest], UNCHANGED remote
  PROVE  IInv'
<1>1. There' = There /\ Rest.op # "upload"
  BY DEF There, Rest
<1> QED BY <1>1, NothingNew

LEMMA OtherInv ==
  ASSUME IInv, UNCHANGED <<req, remote>>
  PROVE  IInv'
BY DEF IInv, There, WholeVolumes

LEMMA StepInv == IInv /\ [Next]_vars => IInv'
<1> SUFFICES ASSUME IInv, [Next]_vars PROVE IInv'
  OBVIOUS
<1>1. CASE UNCHANGED vars
  BY <1>1, OtherInv DEF vars
<1>2. ASSUME NEW c \in Client, StartStep(c) PROVE IInv'
  BY <1>2, OtherInv DEF StartStep, Start, HistoryPage, HistoryEvent, HistoryEnd, ListOne, ListMore, ListEnd, Started
<1>3. ASSUME NEW c \in Client, Poll(c) \/ Fetch(c) \/ FetchFails(c) \/ Event(c) PROVE IInv'
  BY <1>3, OtherInv DEF Poll, Fetch, FetchFails, Event
<1>4. ASSUME NEW c \in Client, Stop(c) PROVE IInv'
  BY <1>4, RestInv DEF Stop
<1>5. ASSUME NEW c \in Client, RequestStep(c) PROVE IInv'
  BY <1>5, UploadNextInv, UploadedInv, RestInv DEF RequestStep, UploadFails, DeleteFails, Forget
<1> QED BY <1>1, <1>2, <1>3, <1>4, <1>5, StartUploadInv, DeleteInv DEF Next

\* A creation that fails in part, or whose process dies, leaves the first objects of its batch and
\* never a config without its commit, nor a commit without its root (vfs/mod.rs:697).
THEOREM NoConfigAlone == Spec => []WholeVolumes
<1>1. IInv => WholeVolumes
  BY DEF IInv
<1> QED BY <1>1, InitInv, StepInv, PTL DEF Spec

-----------------------------------------------------------------------------
(* What is known. *)

Live(R) == {o \in DOMAIN R : ~R[o].deleted}

\* R after the n-th change.
RemoteOK(R, n) ==
  /\ n \in Nat
  /\ \A o \in DOMAIN R : R[o].at \in 1 .. n
  /\ \A o, x \in DOMAIN R : R[o].at = R[x].at => o = x

After(R, n, o, deleted) ==
  [x \in DOMAIN R \cup {o} |-> IF x = o THEN [at |-> n + 1, deleted |-> deleted] ELSE R[x]]

\* Who has handled the events up to cursor knows k; m are its own.
Knows(R, k, m, cursor) ==
  /\ \A o \in Live(R) \ k : R[o].at > cursor
  /\ \A o \in k \ Live(R) : R[o].at > cursor \/ o \in m

\* An event tells an object's last change, or there is a newer one.
IsEvent(R, e) ==
  /\ e.id \in DOMAIN R
  /\ e.at \in Nat
  /\ R[e.id].at > e.at \/ (R[e.id].at = e.at /\ R[e.id].deleted = e.deleted)

\* page is what is to come between cursor and from.
Upcoming(R, page, cursor, from) ==
  /\ cursor \in Nat /\ from \in Nat /\ cursor <= from
  /\ \E S : page \in Seq(S)
  /\ \A i \in DOMAIN page : IsEvent(R, page[i]) /\ cursor < page[i].at /\ page[i].at <= from
  /\ \A i, j \in DOMAIN page : i < j => page[i].at < page[j].at
  /\ \A o \in DOMAIN R : cursor < R[o].at /\ R[o].at <= from =>
       \E i \in DOMAIN page : page[i].id = o /\ page[i].at = R[o].at

\* The history up to cursor, as listed.
Listed(R, n, l, cursor) ==
  /\ l = Listing(l.from, l.page, l.active, l.places, l.deleted)
  /\ l.from <= n /\ Upcoming(R, l.page, cursor, l.from)
  /\ DOMAIN l.active \subseteq DOMAIN R /\ Knows(R, DOMAIN l.active, {}, cursor)
  /\ l.places \in Nat /\ l.deleted \in 0 .. cursor
  /\ \A o \in DOMAIN l.active : l.active[o].at \in 0 .. cursor /\ l.active[o].place \in Nat /\ l.active[o].place < l.places

StartOK(R, n, f, l) ==
  /\ l.phase = "history" => f /\ \E cursor \in Nat : Listed(R, n, l, cursor)
  /\ l.phase = "list" => ~f /\ l.active \subseteq DOMAIN R

LoopOK(R, n, f, l, k, m) ==
  /\ l.phase = "poll" => f /\ l.cursor \in 0 .. n /\ Knows(R, k, m, l.cursor)
  /\ l.phase = "events" => /\ f /\ l = Following(l.cursor, l.from, l.page) /\ l.from <= n
                           /\ Upcoming(R, l.page, l.cursor, l.from) /\ Knows(R, k, m, l.cursor)
  /\ l.phase = "none" => ~f /\ m \subseteq k
  /\ l.phase \notin {"poll", "events", "none"} => m = {}

ReqOK(R, f, m, r) ==
  /\ r.op = "forget" => r.id \notin m /\ (f => r.id \in DOMAIN R \ Live(R))
  /\ r.op = "upload" => r.done \in Seq(DOMAIN R)

ClientOK(R, n, f, l, k, m, r) ==
  /\ k \subseteq DOMAIN R
  /\ StartOK(R, n, f, l)
  /\ LoopOK(R, n, f, l, k, m)
  /\ ReqOK(R, f, m, r)

KInv ==
  /\ feeds \in BOOLEAN
  /\ RemoteOK(remote, changes)
  /\ loop = [c \in Client |-> loop[c]] /\ known = [c \in Client |-> known[c]]
  /\ req = [c \in Client |-> req[c]] /\ mine = [c \in Client |-> mine[c]]
  /\ \A c \in Client : ClientOK(remote, changes, feeds, loop[c], known[c], mine[c], req[c])

-----------------------------------------------------------------------------

\* The next event in turn: what it tells is known then, up to it.
LEMMA EventKnows ==
  ASSUME NEW R, NEW n, RemoteOK(R, n), NEW k, k \subseteq DOMAIN R, NEW m, NEW page, NEW cursor, NEW from,
         Upcoming(R, page, cursor, from), Knows(R, k, m, cursor), page # <<>>,
         NEW j, j = IF Head(page).deleted THEN k \ {Head(page).id} ELSE k \cup {Head(page).id}
  PROVE  /\ Upcoming(R, Tail(page), Head(page).at, from)
         /\ Knows(R, j, m, Head(page).at) /\ j \subseteq DOMAIN R
<1> DEFINE e == Head(page)
           t == Tail(page)
<1>1. PICK S : page \in Seq(S)
  BY DEF Upcoming
<1>2. /\ 1 \in DOMAIN page /\ e = page[1] /\ t \in Seq(S)
      /\ \A i \in DOMAIN t : i \in Nat /\ i + 1 \in DOMAIN page /\ t[i] = page[i + 1] /\ 1 < i + 1
      /\ \A i \in DOMAIN page : i # 1 => i - 1 \in DOMAIN t /\ t[i - 1] = page[i]
      /\ \A i \in DOMAIN t : i \in Nat
  BY <1>1
<1> HIDE DEF e, t
<1>3. IsEvent(R, e) /\ cursor < e.at /\ e.at <= from /\ e.at \in Nat /\ from \in Nat /\ cursor \in Nat
  BY <1>2 DEF Upcoming, IsEvent
<1>4. \A o \in DOMAIN R : cursor < R[o].at /\ R[o].at <= e.at => o = e.id
  <2> SUFFICES ASSUME NEW o \in DOMAIN R, cursor < R[o].at, R[o].at <= e.at PROVE o = e.id
    OBVIOUS
  <2>1. R[o].at \in Nat
    BY DEF RemoteOK
  <2>2. PICK i \in DOMAIN page : page[i].id = o /\ page[i].at = R[o].at
    BY <1>3, <2>1 DEF Upcoming
  <2>3. CASE i = 1
    BY <1>2, <2>2, <2>3
  <2>4. CASE i # 1
    <3>1. 1 < i
      BY <1>1, <2>4
    <3>2. e.at < page[i].at
      BY <1>2, <3>1 DEF Upcoming
    <3> QED BY <1>3, <2>1, <2>2, <3>2
  <2> QED BY <2>3, <2>4
<1>5. \A o \in DOMAIN R : R[o].at \in Nat
  BY DEF RemoteOK
<1>6. Knows(R, j, m, e.at)
  <2>1. ASSUME NEW o \in Live(R) \ j PROVE R[o].at > e.at
    <3>1. o \in DOMAIN R /\ ~R[o].deleted
      BY DEF Live
    <3>2. CASE o = e.id
      <4>1. e.deleted
        BY <3>2 DEF e
      <4> QED BY <1>3, <3>1, <3>2, <4>1 DEF IsEvent
    <3>3. CASE o # e.id
      <4>1. o \notin k
        BY <3>3 DEF e
      <4>2. R[o].at > cursor
        BY <4>1 DEF Knows
      <4> QED BY <1>3, <1>4, <1>5, <3>1, <3>3, <4>2
    <3> QED BY <3>2, <3>3
  <2>2. ASSUME NEW o \in j \ Live(R) PROVE R[o].at > e.at \/ o \in m
    <3>1. CASE o = e.id
      <4>1. ~e.deleted
        BY <3>1 DEF e
      <4>2. o \in DOMAIN R /\ R[o].deleted
        BY <1>3, <3>1 DEF IsEvent, Live
      <4> QED BY <1>3, <3>1, <4>1, <4>2 DEF IsEvent
    <3>2. CASE o # e.id
      <4>1. o \in k
        BY <3>2 DEF e
      <4>2. R[o].at > cursor \/ o \in m
        BY <4>1 DEF Knows
      <4> QED BY <1>3, <1>4, <1>5, <3>2, <4>1, <4>2
    <3> QED BY <3>1, <3>2
  <2> QED BY <2>1, <2>2 DEF Knows
<1>7. Upcoming(R, t, e.at, from)
  <2>1. \A i \in DOMAIN t : IsEvent(R, t[i]) /\ e.at < t[i].at /\ t[i].at <= from
    BY <1>2 DEF Upcoming
  <2>2. ASSUME NEW i \in DOMAIN t, NEW h \in DOMAIN t, i < h PROVE t[i].at < t[h].at
    <3>1. i + 1 < h + 1
      BY <1>2, <2>2
    <3> QED BY <1>2, <3>1 DEF Upcoming
  <2>3. ASSUME NEW o \in DOMAIN R, e.at < R[o].at, R[o].at <= from
        PROVE  \E i \in DOMAIN t : t[i].id = o /\ t[i].at = R[o].at
    <3>1. cursor < R[o].at
      BY <1>3, <1>5, <2>3
    <3>2. PICK i \in DOMAIN page : page[i].id = o /\ page[i].at = R[o].at
      BY <2>3, <3>1 DEF Upcoming
    <3>3. i # 1
      BY <1>2, <1>3, <1>5, <2>3, <3>2
    <3> QED BY <1>2, <3>2, <3>3
  <2> QED BY <1>2, <1>3, <2>1, <2>2, <2>3 DEF Upcoming
<1>8. j \subseteq DOMAIN R
  BY <1>3 DEF IsEvent, e
<1> QED BY <1>6, <1>7, <1>8 DEF e, t

\* The next page begins where the last one ended.
LEMMA PageComes ==
  ASSUME RemoteOK(remote, changes), NEW cursor, NEW from, Upcoming(remote, <<>>, cursor, from),
         NEW page \in EventsAfter(from), page # <<>>
  PROVE  Last(page).at <= changes /\ Upcoming(remote, page, cursor, Last(page).at)
<1> DEFINE due == {EventOf(o) : o \in {x \in DOMAIN remote : remote[x].at > from}}
           h == Last(page).at
<1>1. /\ page \in SeqOf(due, Page)
      /\ \A i, j \in DOMAIN page : i < j => page[i].at < page[j].at
      /\ \A e \in due \ Range(page) : Len(page) = Page /\ \A i \in DOMAIN page : page[i].at < e.at
  BY DEF EventsAfter, BoundedSeq
<1>2. \A e \in due : /\ e.id \in DOMAIN remote /\ e.at = remote[e.id].at /\ e.deleted = remote[e.id].deleted
                     /\ e.at \in Nat /\ e.at > from /\ e.at <= changes
  BY DEF EventOf, RemoteOK
<1>3. \A o \in DOMAIN remote : remote[o].at > from => EventOf(o) \in due /\ EventOf(o).id = o /\ EventOf(o).at = remote[o].at
  BY DEF EventOf
<1> HIDE DEF due
<1>4. PICK n \in 0 .. Page : page \in [1 .. n -> due]
  BY <1>1 DEF SeqOf
<1>5. n \in Nat \ {0} /\ page \in Seq(due) /\ Len(page) = n /\ DOMAIN page = 1 .. n
  <2>1. n \in Nat
    BY <1>4
  <2>2. page \in Seq(due) /\ Len(page) = n /\ DOMAIN page = 1 .. n
    BY <1>4, <2>1
  <2>3. n # 0
    BY <2>2
  <2> QED BY <2>1, <2>2, <2>3
<1>6. Last(page) = page[n] /\ n \in DOMAIN page /\ page[n] \in due
  BY <1>4, <1>5 DEF Last
<1>7. \A i \in DOMAIN page : page[i] \in due
  BY <1>4
<1>8. h \in Nat /\ h > from /\ h <= changes /\ h = page[n].at
  BY <1>2, <1>6
<1> HIDE DEF h
<1>9. cursor \in Nat /\ from \in Nat /\ cursor <= from /\ \A o \in DOMAIN remote : ~(cursor < remote[o].at /\ remote[o].at <= from)
  BY DEF Upcoming
<1>10. \A i \in DOMAIN page : IsEvent(remote, page[i]) /\ cursor < page[i].at /\ page[i].at <= h
  <2> SUFFICES ASSUME NEW i \in DOMAIN page PROVE IsEvent(remote, page[i]) /\ cursor < page[i].at /\ page[i].at <= h
    OBVIOUS
  <2>1. IsEvent(remote, page[i]) /\ page[i].at \in Nat /\ page[i].at > from
    BY <1>2, <1>7 DEF IsEvent
  <2>2. CASE i = n
    BY <1>8, <1>9, <2>1, <2>2
  <2>3. CASE i # n
    <3>1. i < n
      BY <1>5, <2>3
    <3>2. page[i].at < page[n].at
      BY <1>1, <1>6, <3>1
    <3> QED BY <1>8, <1>9, <2>1, <3>2
  <2> QED BY <2>2, <2>3
<1>11. ASSUME NEW o \in DOMAIN remote, cursor < remote[o].at, remote[o].at <= h
       PROVE  \E i \in DOMAIN page : page[i].id = o /\ page[i].at = remote[o].at
  <2>1. remote[o].at \in Nat
    BY DEF RemoteOK
  <2>2. remote[o].at > from
    BY <1>9, <1>11, <2>1
  <2>3. EventOf(o) \in due /\ EventOf(o).id = o /\ EventOf(o).at = remote[o].at
    BY <1>3, <2>2
  <2>4. EventOf(o) \in Range(page)
    <3>1. ASSUME EventOf(o) \notin Range(page) PROVE FALSE
      <4>1. page[n].at < EventOf(o).at
        BY <1>1, <1>6, <2>3, <3>1
      <4> QED BY <1>8, <1>11, <2>1, <2>3, <4>1
    <3> QED BY <3>1
  <2>5. PICK i \in DOMAIN page : page[i] = EventOf(o)
    BY <2>4 DEF Range
  <2> QED BY <2>3, <2>5
<1> QED BY <1>1, <1>5, <1>8, <1>9, <1>10, <1>11 DEF Upcoming, h

\* No events behind from: nothing was changed since.
LEMMA NothingComes ==
  ASSUME RemoteOK(remote, changes), NEW from \in Nat, <<>> \in EventsAfter(from)
  PROVE  \A o \in DOMAIN remote : remote[o].at <= from
<1> SUFFICES ASSUME NEW o \in DOMAIN remote, ~(remote[o].at <= from) PROVE FALSE
  OBVIOUS
<1> DEFINE due == {EventOf(x) : x \in {y \in DOMAIN remote : remote[y].at > from}}
<1>1. remote[o].at > from
  BY DEF RemoteOK
<1>2. EventOf(o) \in due
  BY <1>1
<1>3. \A e \in due \ Range(<<>>) : Len(<<>>) = Page
  BY DEF EventsAfter
<1> HIDE DEF due
<1>4. Range(<<>>) = {}
  BY DEF Range
<1>5. Page # 0 /\ Len(<<>>) = 0
  BY RemoteAssumption
<1> QED BY <1>2, <1>3, <1>4, <1>5

\* The next change is later than all that is handled or on its way.
NewChange(R, n, Q, o) ==
  /\ RemoteOK(R, n) /\ RemoteOK(Q, n + 1) /\ DOMAIN Q = DOMAIN R \cup {o} /\ Q[o].at = n + 1
  /\ \A x \in DOMAIN R : Q[x].at >= R[x].at /\ (x # o => Q[x] = R[x])

LEMMA ChangeIsNew ==
  ASSUME NEW R, NEW n, RemoteOK(R, n), NEW o, NEW d, NEW Q, Q = After(R, n, o, d)
  PROVE  NewChange(R, n, Q, o) /\ Q[o].deleted = d
<1>1. /\ DOMAIN Q = DOMAIN R \cup {o} /\ Q[o].at = n + 1 /\ Q[o].deleted = d
      /\ \A x \in DOMAIN R : x # o => Q[x] = R[x]
  BY DEF After
<1>2. n \in Nat /\ \A x \in DOMAIN R : R[x].at \in Nat /\ R[x].at <= n /\ R[x].at >= 1
  BY DEF RemoteOK
<1>3. \A x \in DOMAIN Q : Q[x].at \in 1 .. n + 1
  BY <1>1, <1>2
<1>4. ASSUME NEW x \in DOMAIN Q, NEW y \in DOMAIN Q, Q[x].at = Q[y].at PROVE x = y
  <2>1. \A z \in DOMAIN Q : z # o => z \in DOMAIN R /\ Q[z].at = R[z].at /\ Q[z].at # n + 1
    BY <1>1, <1>2
  <2> QED BY <1>1, <1>4, <2>1 DEF RemoteOK
<1>5. \A x \in DOMAIN R : Q[x].at >= R[x].at
  BY <1>1, <1>2
<1> QED BY <1>1, <1>2, <1>3, <1>4, <1>5 DEF RemoteOK, NewChange

LEMMA ChangeKnows ==
  ASSUME NEW R, NEW n, NEW o, NEW Q, NewChange(R, n, Q, o),
         NEW k, k \subseteq DOMAIN R, NEW m, NEW j, m \ {o} \subseteq j, NEW cursor \in 0 .. n, Knows(R, k, m, cursor)
  PROVE  Knows(Q, k, j, cursor)
<1>1. /\ DOMAIN Q = DOMAIN R \cup {o} /\ Q[o].at = n + 1 /\ n \in Nat
      /\ \A x \in DOMAIN R : x # o => Q[x] = R[x]
  BY DEF NewChange, RemoteOK
<1>2. Q[o].at > cursor
  BY <1>1
<1>3. \A x : x # o => (x \in Live(Q) <=> x \in Live(R))
  BY <1>1 DEF Live
<1>4. ASSUME NEW x \in Live(Q) \ k PROVE Q[x].at > cursor
  <2>1. CASE x = o
    BY <1>2, <2>1
  <2>2. CASE x # o
    BY <1>1, <1>3, <2>2 DEF Knows, Live
  <2> QED BY <2>1, <2>2
<1>5. ASSUME NEW x \in k \ Live(Q) PROVE Q[x].at > cursor \/ x \in j
  <2>1. CASE x = o
    BY <1>2, <2>1
  <2>2. CASE x # o
    <3>1. R[x].at > cursor \/ x \in m
      BY <1>3, <2>2 DEF Knows
    <3> QED BY <1>1, <2>2, <3>1
  <2> QED BY <2>1, <2>2
<1> QED BY <1>4, <1>5 DEF Knows

LEMMA ChangeComes ==
  ASSUME NEW R, NEW n, NEW o, NEW Q, NewChange(R, n, Q, o),
         NEW page, NEW cursor, NEW from \in 0 .. n, Upcoming(R, page, cursor, from)
  PROVE  Upcoming(Q, page, cursor, from)
<1>1. /\ DOMAIN Q = DOMAIN R \cup {o} /\ Q[o].at = n + 1 /\ n \in Nat
      /\ \A x \in DOMAIN R : x # o => Q[x] = R[x]
  BY DEF NewChange, RemoteOK
<1>2. ASSUME NEW i \in DOMAIN page PROVE IsEvent(Q, page[i])
  <2>1. IsEvent(R, page[i]) /\ page[i].at <= from
    BY DEF Upcoming
  <2>2. CASE page[i].id = o
    BY <1>1, <2>1, <2>2 DEF IsEvent
  <2>3. CASE page[i].id # o
    BY <1>1, <2>1, <2>3 DEF IsEvent
  <2> QED BY <2>2, <2>3
<1>3. ASSUME NEW x \in DOMAIN Q, cursor < Q[x].at, Q[x].at <= from
      PROVE  \E i \in DOMAIN page : page[i].id = x /\ page[i].at = Q[x].at
  <2>1. x # o
    BY <1>1, <1>3
  <2> QED BY <1>1, <1>3, <2>1 DEF Upcoming
<1> QED BY <1>2, <1>3 DEF Upcoming

\* What others change leaves a client as it was, behind.
LEMMA ChangeKeeps ==
  ASSUME NEW R, NEW n, NEW o, NEW Q, NewChange(R, n, Q, o), NEW f, NEW l, NEW k, NEW m, NEW r,
         ClientOK(R, n, f, l, k, m, r), f => (o \in DOMAIN R => Q[o].deleted)
  PROVE  ClientOK(Q, n + 1, f, l, k, m, r)
<1>1. /\ DOMAIN Q = DOMAIN R \cup {o} /\ Q[o].at = n + 1 /\ n \in Nat
      /\ \A x \in DOMAIN R : x # o => Q[x] = R[x]
  BY DEF NewChange, RemoteOK
<1>2. k \subseteq DOMAIN Q
  BY <1>1 DEF ClientOK
<1>3. StartOK(Q, n + 1, f, l)
  <2>1. ASSUME l.phase = "history" PROVE f /\ \E cursor \in Nat : Listed(Q, n + 1, l, cursor)
    <3>1. f /\ \E cursor \in Nat : Listed(R, n, l, cursor)
      BY <2>1 DEF ClientOK, StartOK
    <3>2. PICK cursor \in Nat : Listed(R, n, l, cursor)
      BY <3>1
    <3>3. cursor \in 0 .. n /\ l.from \in 0 .. n
      BY <1>1, <3>2 DEF Listed, Upcoming
    <3>4. Upcoming(Q, l.page, cursor, l.from)
      BY <3>2, <3>3, ChangeComes DEF Listed
    <3>5. Knows(Q, DOMAIN l.active, {}, cursor)
      BY <3>2, <3>3, ChangeKnows DEF Listed
    <3>6. Listed(Q, n + 1, l, cursor)
      BY <1>1, <3>2, <3>3, <3>4, <3>5 DEF Listed
    <3> QED BY <3>1, <3>6
  <2>2. ASSUME l.phase = "list" PROVE ~f /\ l.active \subseteq DOMAIN Q
    BY <1>1, <2>2 DEF ClientOK, StartOK
  <2> QED BY <2>1, <2>2 DEF StartOK
<1>4. LoopOK(Q, n + 1, f, l, k, m)
  <2>1. ASSUME l.phase = "poll" PROVE f /\ l.cursor \in 0 .. n + 1 /\ Knows(Q, k, m, l.cursor)
    <3>1. f /\ l.cursor \in 0 .. n /\ Knows(R, k, m, l.cursor) /\ k \subseteq DOMAIN R
      BY <2>1 DEF ClientOK, LoopOK
    <3> QED BY <1>1, <3>1, ChangeKnows
  <2>2. ASSUME l.phase = "events"
        PROVE  /\ f /\ l = Following(l.cursor, l.from, l.page) /\ l.from <= n + 1
               /\ Upcoming(Q, l.page, l.cursor, l.from) /\ Knows(Q, k, m, l.cursor)
    <3>1. /\ f /\ l = Following(l.cursor, l.from, l.page) /\ l.from <= n /\ k \subseteq DOMAIN R
          /\ Upcoming(R, l.page, l.cursor, l.from) /\ Knows(R, k, m, l.cursor)
      BY <2>2 DEF ClientOK, LoopOK
    <3>2. l.cursor \in 0 .. n /\ l.from \in 0 .. n
      BY <1>1, <3>1 DEF Upcoming
    <3>3. Upcoming(Q, l.page, l.cursor, l.from)
      BY <3>1, <3>2, ChangeComes
    <3>4. Knows(Q, k, m, l.cursor)
      BY <3>1, <3>2, ChangeKnows
    <3> QED BY <1>1, <3>1, <3>2, <3>3, <3>4
  <2> QED BY <2>1, <2>2 DEF ClientOK, LoopOK
<1>5. ReqOK(Q, f, m, r)
  <2>1. ASSUME r.op = "upload" PROVE r.done \in Seq(DOMAIN Q)
    <3>1. r.done \in Seq(DOMAIN R)
      BY <2>1 DEF ClientOK, ReqOK
    <3> QED BY <1>1, <3>1
  <2>2. ASSUME r.op = "forget" PROVE r.id \notin m /\ (f => r.id \in DOMAIN Q \ Live(Q))
    <3>1. r.id \notin m /\ (f => r.id \in DOMAIN R \ Live(R))
      BY <2>2 DEF ClientOK, ReqOK
    <3>2. ASSUME f PROVE r.id \in DOMAIN Q \ Live(Q)
      BY <1>1, <3>1, <3>2 DEF Live
    <3> QED BY <3>1, <3>2
  <2> QED BY <2>1, <2>2 DEF ReqOK
<1> QED BY <1>2, <1>3, <1>4, <1>5 DEF ClientOK

-----------------------------------------------------------------------------
(* Steps. *)

LEMMA SameAsBefore ==
  ASSUME KInv, NEW c \in Client
  PROVE  /\ loop = [loop EXCEPT ![c] = loop[c]] /\ known = [known EXCEPT ![c] = known[c]]
         /\ mine = [mine EXCEPT ![c] = mine[c]] /\ req = [req EXCEPT ![c] = req[c]]
         /\ ClientOK(remote, changes, feeds, loop[c], known[c], mine[c], req[c])
         /\ RemoteOK(remote, changes)
BY DEF KInv

\* A step of c that leaves the remote alone.
LEMMA OneClient ==
  ASSUME KInv, NEW c \in Client, NEW l, NEW k, NEW m, NEW r, ClientOK(remote, changes, feeds, l, k, m, r),
         loop' = [loop EXCEPT ![c] = l], known' = [known EXCEPT ![c] = k],
         mine' = [mine EXCEPT ![c] = m], req' = [req EXCEPT ![c] = r],
         feeds' = feeds, remote' = remote, changes' = changes
  PROVE  KInv'
<1>1. /\ loop' = [d \in Client |-> loop'[d]] /\ known' = [d \in Client |-> known'[d]]
      /\ mine' = [d \in Client |-> mine'[d]] /\ req' = [d \in Client |-> req'[d]]
  BY DEF KInv
<1>2. /\ loop'[c] = l /\ known'[c] = k /\ mine'[c] = m /\ req'[c] = r
      /\ \A d \in Client \ {c} : loop'[d] = loop[d] /\ known'[d] = known[d] /\ mine'[d] = mine[d] /\ req'[d] = req[d]
  BY DEF KInv
<1>3. ASSUME NEW d \in Client PROVE ClientOK(remote', changes', feeds', loop'[d], known'[d], mine'[d], req'[d])
  <2>1. CASE d = c
    BY <1>2, <2>1
  <2>2. CASE d # c
    BY <1>2, <2>2 DEF KInv
  <2> QED BY <2>1, <2>2
<1>4. feeds' \in BOOLEAN /\ RemoteOK(remote', changes')
  BY DEF KInv
<1> QED BY <1>1, <1>3, <1>4 DEF KInv

\* A step of c that changes an object.
LEMMA OneChange ==
  ASSUME KInv, NEW c \in Client, NEW o, NEW m, NEW r, NewChange(remote, changes, remote', o), changes' = changes + 1,
         feeds => (o \in DOMAIN remote => remote'[o].deleted),
         ClientOK(remote', changes', feeds, loop[c], known[c], m, r),
         mine' = [mine EXCEPT ![c] = m], req' = [req EXCEPT ![c] = r],
         feeds' = feeds, loop' = loop, known' = known
  PROVE  KInv'
<1>1. /\ loop' = [d \in Client |-> loop'[d]] /\ known' = [d \in Client |-> known'[d]]
      /\ mine' = [d \in Client |-> mine'[d]] /\ req' = [d \in Client |-> req'[d]]
  BY DEF KInv
<1>2. /\ mine'[c] = m /\ req'[c] = r
      /\ \A d \in Client \ {c} : mine'[d] = mine[d] /\ req'[d] = req[d]
  BY DEF KInv
<1>3. ASSUME NEW d \in Client PROVE ClientOK(remote', changes', feeds', loop'[d], known'[d], mine'[d], req'[d])
  <2>1. CASE d = c
    BY <1>2, <2>1
  <2>2. CASE d # c
    <3>1. ClientOK(remote, changes, feeds, loop[d], known[d], mine[d], req[d])
      BY DEF KInv
    <3>2. ClientOK(remote', changes + 1, feeds, loop[d], known[d], mine[d], req[d])
      BY <3>1, ChangeKeeps
    <3> QED BY <1>2, <2>2, <3>2
  <2> QED BY <2>1, <2>2
<1>4. feeds' \in BOOLEAN /\ RemoteOK(remote', changes')
  BY DEF KInv, NewChange
<1> QED BY <1>1, <1>3, <1>4 DEF KInv

\* Who starts has not worked on anything since.
LEMMA StartStepKeeps ==
  ASSUME KInv, NEW c \in Client, NEW l, loop' = [loop EXCEPT ![c] = l],
         loop[c].phase \notin {"poll", "events", "none"}, l.phase \notin {"poll", "events", "none"},
         StartOK(remote, changes, feeds, l),
         UNCHANGED <<feeds, remote, changes, known, req, mine>>
  PROVE  KInv'
<1> DEFINE k == known[c]
           m == mine[c]
           r == req[c]
<1>1. ClientOK(remote, changes, feeds, loop[c], k, m, r)
  BY DEF KInv
<1>2. /\ known' = [known EXCEPT ![c] = k] /\ mine' = [mine EXCEPT ![c] = m] /\ req' = [req EXCEPT ![c] = r]
  BY SameAsBefore
<1> HIDE DEF k, m, r
<1>3. m = {}
  BY <1>1 DEF ClientOK, LoopOK
<1>4. LoopOK(remote, changes, feeds, l, k, m)
  BY <1>3 DEF LoopOK
<1>5. ClientOK(remote, changes, feeds, l, k, m, r)
  BY <1>1, <1>4 DEF ClientOK
<1> QED BY <1>2, <1>5, OneClient

LEMMA EmptyHistory ==
  ASSUME NEW R, NEW n, RemoteOK(R, n)
  PROVE  Listed(R, n, Listing(0, <<>>, [o \in {} |-> {}], 0, 0), 0)
<1> DEFINE l == Listing(0, <<>>, [o \in {} |-> {}], 0, 0)
<1>1. l.from = 0 /\ l.page = <<>> /\ l.active = [o \in {} |-> {}] /\ l.places = 0 /\ l.deleted = 0
  BY DEF Listing
<1>2. DOMAIN l.active = {}
  BY <1>1
<1>3. l = Listing(l.from, l.page, l.active, l.places, l.deleted)
  BY <1>1
<1> HIDE DEF l
<1>4. n \in Nat /\ \A o \in DOMAIN R : R[o].at \in Nat /\ R[o].at > 0
  BY DEF RemoteOK
<1>5. Upcoming(R, <<>>, 0, 0)
  <2>1. <<>> \in Seq({}) /\ DOMAIN <<>> = {}
    OBVIOUS
  <2> QED BY <1>4, <2>1 DEF Upcoming
<1>6. Knows(R, {}, {}, 0)
  BY <1>4 DEF Knows, Live
<1>7. Listed(R, n, l, 0)
  BY <1>1, <1>2, <1>3, <1>4, <1>5, <1>6 DEF Listed
<1> QED BY <1>7 DEF l

LEMMA StartKeeps ==
  ASSUME KInv, NEW c \in Client, Start(c)
  PROVE  KInv'
<1>1. loop[c].phase = "off" /\ UNCHANGED <<feeds, remote, changes, known, req, mine>>
  BY DEF Start, Off
<1>2. RemoteOK(remote, changes)
  BY DEF KInv
<1>3. CASE feeds
  <2> DEFINE l == Listing(0, <<>>, [o \in {} |-> {}], 0, 0)
  <2>1. loop' = [loop EXCEPT ![c] = l]
    BY <1>3 DEF Start
  <2>2. l.phase = "history" /\ Listed(remote, changes, l, 0)
    BY <1>2, EmptyHistory DEF Listing
  <2> HIDE DEF l
  <2>3. StartOK(remote, changes, feeds, l)
    BY <1>3, <2>2 DEF StartOK
  <2> QED BY <1>1, <2>1, <2>2, <2>3, StartStepKeeps
<1>4. CASE ~feeds
  <2> DEFINE l == Names(Present, {})
  <2>1. loop' = [loop EXCEPT ![c] = l]
    BY <1>4 DEF Start
  <2>2. l.phase = "list" /\ l.active = {}
    BY DEF Names
  <2> HIDE DEF l
  <2>3. StartOK(remote, changes, feeds, l)
    BY <1>4, <2>2 DEF StartOK
  <2> QED BY <1>1, <2>1, <2>2, <2>3, StartStepKeeps
<1> QED BY <1>3, <1>4 DEF KInv

LEMMA ListOneKeeps ==
  ASSUME KInv, NEW c \in Client, ListOne(c)
  PROVE  KInv'
<1>1. loop[c].phase = "list" /\ UNCHANGED <<feeds, remote, changes, known, req, mine>>
  BY DEF ListOne
<1>2. ~feeds /\ loop[c].active \subseteq DOMAIN remote
  BY <1>1 DEF KInv, ClientOK, StartOK
<1>3. PICK o \in loop[c].todo :
        loop' = [loop EXCEPT ![c] = IF o \in Present THEN Names(@.todo \ {o}, @.active \cup {o}) ELSE Off]
  BY DEF ListOne
<1>4. CASE o \in Present
  <2> DEFINE l == Names(loop[c].todo \ {o}, loop[c].active \cup {o})
  <2>1. loop' = [loop EXCEPT ![c] = l]
    BY <1>3, <1>4
  <2>2. l.phase = "list" /\ l.active \subseteq loop[c].active \cup {o}
    BY DEF Names
  <2> HIDE DEF l
  <2>3. StartOK(remote, changes, feeds, l)
    BY <1>2, <1>4, <2>2 DEF StartOK, Present
  <2> QED BY <1>1, <2>1, <2>2, <2>3, StartStepKeeps
<1>5. CASE o \notin Present
  <2>1. loop' = [loop EXCEPT ![c] = Off]
    BY <1>3, <1>5
  <2>2. Off.phase = "off" /\ StartOK(remote, changes, feeds, Off)
    BY DEF Off, StartOK
  <2> QED BY <1>1, <2>1, <2>2, StartStepKeeps
<1> QED BY <1>4, <1>5

LEMMA ListMoreKeeps ==
  ASSUME KInv, NEW c \in Client, ListMore(c)
  PROVE  KInv'
<1>1. loop[c].phase = "list" /\ UNCHANGED <<feeds, remote, changes, known, req, mine>>
  BY DEF ListMore
<1>2. ~feeds /\ loop[c].active \subseteq DOMAIN remote
  BY <1>1 DEF KInv, ClientOK, StartOK
<1>3. PICK o : loop' = [loop EXCEPT ![c] = Names(@.todo \cup {o}, @.active)]
  BY DEF ListMore
<1> DEFINE l == Names(loop[c].todo \cup {o}, loop[c].active)
<1>4. loop' = [loop EXCEPT ![c] = l]
  BY <1>3
<1>5. l.phase = "list" /\ l.active = loop[c].active
  BY DEF Names
<1> HIDE DEF l
<1>6. StartOK(remote, changes, feeds, l)
  BY <1>2, <1>5 DEF StartOK
<1> QED BY <1>1, <1>4, <1>5, <1>6, StartStepKeeps

\* The start is over.
LEMMA StartedKeeps ==
  ASSUME KInv, NEW c \in Client, loop[c].phase \notin {"poll", "events", "none"},
         NEW k, NEW l, Started(c, k, l), k \subseteq DOMAIN remote, l.phase \in {"poll", "none"},
         LoopOK(remote, changes, feeds, l, k, {})
  PROVE  KInv'
<1> DEFINE m == mine[c]
           r == req[c]
<1>1. ClientOK(remote, changes, feeds, loop[c], known[c], m, r)
  BY DEF KInv
<1>2. mine' = [mine EXCEPT ![c] = m] /\ req' = [req EXCEPT ![c] = r]
  BY SameAsBefore DEF Started
<1> HIDE DEF m, r
<1>3. m = {}
  BY <1>1 DEF ClientOK, LoopOK
<1>4. StartOK(remote, changes, feeds, l)
  BY DEF StartOK
<1>5. ClientOK(remote, changes, feeds, l, k, m, r)
  BY <1>1, <1>3, <1>4 DEF ClientOK
<1> QED BY <1>2, <1>5, OneClient DEF Started

LEMMA ListEndKeeps ==
  ASSUME KInv, NEW c \in Client, ListEnd(c)
  PROVE  KInv'
<1> DEFINE l == [phase |-> "none"]
           k == loop[c].active
<1>1. loop[c].phase = "list" /\ Started(c, k, l)
  BY DEF ListEnd
<1>2. ~feeds /\ k \subseteq DOMAIN remote
  BY <1>1 DEF KInv, ClientOK, StartOK
<1>3. l.phase = "none"
  OBVIOUS
<1> HIDE DEF l, k
<1>4. LoopOK(remote, changes, feeds, l, k, {})
  BY <1>2, <1>3 DEF LoopOK
<1> QED BY <1>1, <1>2, <1>3, <1>4, StartedKeeps

\* What a client in its history has, up to a cursor.
LEMMA HistoryIs ==
  ASSUME KInv, NEW c \in Client, loop[c].phase = "history"
  PROVE  /\ feeds /\ RemoteOK(remote, changes)
         /\ \E cursor \in Nat : Listed(remote, changes, loop[c], cursor)
BY DEF KInv, ClientOK, StartOK

LEMMA HistoryPageKeeps ==
  ASSUME KInv, NEW c \in Client, HistoryPage(c)
  PROVE  KInv'
<1> DEFINE s == loop[c]
<1>1. s.phase = "history" /\ s.page = <<>> /\ UNCHANGED <<feeds, remote, changes, known, req, mine>>
  BY DEF HistoryPage
<1>2. PICK page \in EventsAfter(s.from) \ {<<>>} :
        loop' = [loop EXCEPT ![c] = Listing(Last(page).at, page, @.active, @.places, @.deleted)]
  BY DEF HistoryPage
<1> DEFINE l == Listing(Last(page).at, page, s.active, s.places, s.deleted)
<1>3. loop' = [loop EXCEPT ![c] = l]
  BY <1>2
<1>4. feeds /\ RemoteOK(remote, changes) /\ \E cursor \in Nat : Listed(remote, changes, s, cursor)
  BY <1>1, HistoryIs
<1> HIDE DEF s
<1>5. PICK cursor \in Nat : Listed(remote, changes, s, cursor)
  BY <1>4
<1>6. Last(page).at <= changes /\ Upcoming(remote, page, cursor, Last(page).at)
  BY <1>1, <1>2, <1>4, <1>5, PageComes DEF Listed
<1>7. /\ l.phase = "history" /\ l.from = Last(page).at /\ l.page = page /\ l.active = s.active /\ l.places = s.places
      /\ l.deleted = s.deleted
  BY DEF Listing
<1>8. l = Listing(l.from, l.page, l.active, l.places, l.deleted)
  BY <1>7
<1> HIDE DEF l
<1>9. Listed(remote, changes, l, cursor)
  BY <1>5, <1>6, <1>7, <1>8 DEF Listed
<1>10. StartOK(remote, changes, feeds, l)
  BY <1>4, <1>7, <1>9 DEF StartOK
<1> QED BY <1>1, <1>3, <1>7, <1>10, StartStepKeeps DEF s

LEMMA ListingIs ==
  ASSUME NEW from, NEW page, NEW active, NEW places, NEW deleted, NEW l, l = Listing(from, page, active, places, deleted)
  PROVE  /\ l.phase = "history" /\ l.from = from /\ l.page = page /\ l.active = active /\ l.places = places /\ l.deleted = deleted
         /\ l = Listing(l.from, l.page, l.active, l.places, l.deleted)
BY DEF Listing

\* An event in the list.
LEMMA EventListed ==
  ASSUME NEW R, NEW n, RemoteOK(R, n), NEW s, NEW cursor \in Nat, Listed(R, n, s, cursor), s.page # <<>>,
         NEW e, e = Head(s.page), NEW l, l = WithEvent(s, e)
  PROVE  l.phase = "history" /\ e.at \in Nat /\ Listed(R, n, l, e.at)
<1>1. e.at \in Nat /\ cursor < e.at
  <2>1. PICK S : s.page \in Seq(S)
    BY DEF Listed, Upcoming
  <2>2. 1 \in DOMAIN s.page /\ e = s.page[1]
    BY <2>1
  <2> QED BY <2>2 DEF Listed, Upcoming, IsEvent
<1> DEFINE k == DOMAIN s.active
           j == IF e.deleted THEN k \ {e.id} ELSE k \cup {e.id}
<1>2. Upcoming(R, Tail(s.page), e.at, s.from) /\ Knows(R, j, {}, e.at) /\ j \subseteq DOMAIN R
  <2>1. /\ Upcoming(R, s.page, cursor, s.from) /\ Knows(R, k, {}, cursor) /\ k \subseteq DOMAIN R
    BY DEF Listed
  <2>2. j = IF Head(s.page).deleted THEN k \ {Head(s.page).id} ELSE k \cup {Head(s.page).id}
    OBVIOUS
  <2> HIDE DEF j, k
  <2> QED BY <2>1, <2>2, EventKnows
<1>3. /\ s.places \in Nat /\ s.deleted \in 0 .. cursor /\ s.from <= n
      /\ \A o \in k : s.active[o].at \in 0 .. cursor /\ s.active[o].place \in Nat /\ s.active[o].place < s.places
  BY DEF Listed
<1>4. CASE e.deleted
  <2> DEFINE a == [o \in k \ {e.id} |-> s.active[o]]
  <2>1. l = Listing(s.from, Tail(s.page), a, s.places, e.at)
    BY <1>4 DEF WithEvent
  <2>2. DOMAIN a = j /\ \A o \in DOMAIN a : o \in k /\ a[o] = s.active[o]
    BY <1>4
  <2> HIDE DEF a, k, j
  <2>3. \A o \in DOMAIN a : a[o].at \in 0 .. e.at /\ a[o].place \in Nat /\ a[o].place < s.places
    BY <1>1, <1>3, <2>2
  <2>4. /\ l.phase = "history" /\ l.from = s.from /\ l.page = Tail(s.page) /\ l.active = a /\ l.places = s.places /\ l.deleted = e.at
        /\ l = Listing(l.from, l.page, l.active, l.places, l.deleted)
    <3> DEFINE q == Tail(s.page)
               d == e.at
    <3>1. l = Listing(s.from, q, a, s.places, d)
      BY <2>1
    <3> HIDE DEF q, d
    <3> QED BY <3>1, ListingIs DEF q, d
  <2>5. l.from <= n /\ Upcoming(R, l.page, e.at, l.from)
    BY <1>2, <1>3, <2>4
  <2>6. DOMAIN l.active \subseteq DOMAIN R /\ Knows(R, DOMAIN l.active, {}, e.at)
    BY <1>2, <2>2, <2>4
  <2>7. l.places \in Nat /\ l.deleted \in 0 .. e.at
    BY <1>1, <1>3, <2>4
  <2>8. \A o \in DOMAIN l.active : l.active[o].at \in 0 .. e.at /\ l.active[o].place \in Nat /\ l.active[o].place < l.places
    BY <2>3, <2>4
  <2>9. Listed(R, n, l, e.at)
    BY <2>4, <2>5, <2>6, <2>7, <2>8 DEF Listed
  <2> QED BY <1>1, <2>4, <2>9
<1>5. CASE ~e.deleted
  <2> DEFINE place == IF e.id \in k THEN s.active[e.id].place ELSE s.places
             a == [o \in k \cup {e.id} |-> IF o = e.id THEN [at |-> e.at, place |-> place] ELSE s.active[o]]
             p == s.places + 1
  <2>1. l = Listing(s.from, Tail(s.page), a, p, s.deleted)
    BY <1>5 DEF WithEvent
  <2>2. /\ DOMAIN a = j /\ \A o \in DOMAIN a : o # e.id => o \in k /\ a[o] = s.active[o]
        /\ a[e.id].at = e.at /\ a[e.id].place = place
    BY <1>5
  <2>3. place \in Nat /\ place < p /\ p \in Nat /\ s.places < p
    BY <1>3
  <2> HIDE DEF a, k, j, place, p
  <2>4. \A o \in DOMAIN a : a[o].at \in 0 .. e.at /\ a[o].place \in Nat /\ a[o].place < p
    <3> SUFFICES ASSUME NEW o \in DOMAIN a PROVE a[o].at \in 0 .. e.at /\ a[o].place \in Nat /\ a[o].place < p
      OBVIOUS
    <3>1. CASE o = e.id
      BY <1>1, <2>2, <2>3, <3>1
    <3>2. CASE o # e.id
      BY <1>1, <1>3, <2>2, <2>3, <3>2
    <3> QED BY <3>1, <3>2
  <2>5. /\ l.phase = "history" /\ l.from = s.from /\ l.page = Tail(s.page) /\ l.active = a /\ l.places = p /\ l.deleted = s.deleted
        /\ l = Listing(l.from, l.page, l.active, l.places, l.deleted)
    <3> DEFINE q == Tail(s.page)
    <3>1. l = Listing(s.from, q, a, p, s.deleted)
      BY <2>1
    <3> HIDE DEF q
    <3> QED BY <3>1, ListingIs DEF q
  <2>6. s.deleted \in 0 .. e.at
    BY <1>1, <1>3
  <2>7. l.from <= n /\ Upcoming(R, l.page, e.at, l.from)
    BY <1>2, <1>3, <2>5
  <2>8. DOMAIN l.active \subseteq DOMAIN R /\ Knows(R, DOMAIN l.active, {}, e.at)
    BY <1>2, <2>2, <2>5
  <2>9. l.places \in Nat /\ l.deleted \in 0 .. e.at
    BY <2>3, <2>5, <2>6
  <2>10. \A o \in DOMAIN l.active : l.active[o].at \in 0 .. e.at /\ l.active[o].place \in Nat /\ l.active[o].place < l.places
    BY <2>4, <2>5
  <2>11. Listed(R, n, l, e.at)
    BY <2>5, <2>7, <2>8, <2>9, <2>10 DEF Listed
  <2> QED BY <1>1, <2>5, <2>11
<1> QED BY <1>4, <1>5

LEMMA HistoryEventKeeps ==
  ASSUME KInv, NEW c \in Client, HistoryEvent(c)
  PROVE  KInv'
<1> DEFINE s == loop[c]
           l == WithEvent(s, Head(s.page))
<1>1. s.phase = "history" /\ s.page # <<>> /\ UNCHANGED <<feeds, remote, changes, known, req, mine>>
  BY DEF HistoryEvent
<1>2. loop' = [loop EXCEPT ![c] = l]
  BY DEF HistoryEvent
<1>3. feeds /\ RemoteOK(remote, changes) /\ \E cursor \in Nat : Listed(remote, changes, s, cursor)
  BY <1>1, HistoryIs
<1> HIDE DEF s
<1>4. PICK cursor \in Nat : Listed(remote, changes, s, cursor)
  BY <1>3
<1> DEFINE e == Head(s.page)
<1>5. l = WithEvent(s, e)
  OBVIOUS
<1> HIDE DEF l
<1>6. l.phase = "history" /\ e.at \in Nat /\ Listed(remote, changes, l, e.at)
  BY <1>1, <1>3, <1>4, <1>5, EventListed
<1> HIDE DEF e
<1>7. StartOK(remote, changes, feeds, l)
  BY <1>3, <1>6 DEF StartOK
<1> QED BY <1>1, <1>2, <1>6, <1>7, StartStepKeeps DEF s

\* A set of naturals has a least one.
LEMMA LeastNatural ==
  ASSUME NEW S \in SUBSET Nat, S # {}
  PROVE  \E s \in S : \A t \in S : s <= t
<1> DEFINE R == OpToRel(<, Nat)
<1>1. IsWellFoundedOn(R, Nat)
  BY NatLessThanWellFounded
<1> HIDE DEF R
<1>2. PICK s \in S : \A t \in S : ~ (<<t, s>> \in R)
  BY <1>1, WFMin
<1>3. \A t \in S : t < s => <<t, s>> \in R
  BY DEF R, OpToRel
<1>4. \A t \in S : t \in Nat /\ (t < s \/ s <= t)
  OBVIOUS
<1> QED BY <1>2, <1>3, <1>4

\* Among what is listed one came last.
LEMMA LastListed ==
  ASSUME NEW R, NEW n, NEW s, NEW cursor \in Nat, Listed(R, n, s, cursor)
  PROVE  ListCursor(s) \in 0 .. cursor
<1> DEFINE k == DOMAIN s.active
           z == CHOOSE o \in k : \A x \in k : s.active[x].place <= s.active[o].place
           S == {s.places - s.active[o].place : o \in k}
<1>1. /\ s.places \in Nat /\ s.deleted \in 0 .. cursor
      /\ \A o \in k : s.active[o].at \in 0 .. cursor /\ s.active[o].place \in Nat /\ s.active[o].place < s.places
  BY DEF Listed
<1>2. ASSUME k # {} PROVE z \in k
  <2>1. S \in SUBSET Nat /\ S # {}
    BY <1>1, <1>2
  <2>2. PICK v \in S : \A t \in S : v <= t
    <3> HIDE DEF S
    <3> QED BY <2>1, LeastNatural
  <2>3. PICK o \in k : v = s.places - s.active[o].place
    BY <2>2
  <2>4. ASSUME NEW x \in k PROVE s.active[x].place <= s.active[o].place
    <3>1. v <= s.places - s.active[x].place
      BY <2>2
    <3> QED BY <1>1, <2>3, <3>1
  <2> HIDE DEF k
  <2> QED BY <2>3, <2>4
<1> DEFINE a == IF k = {} THEN 0 ELSE s.active[z].at
<1>3. ListCursor(s) = IF a < s.deleted THEN s.deleted ELSE a
  BY DEF ListCursor
<1>4. a \in 0 .. cursor
  <2> HIDE DEF z, k
  <2> QED BY <1>1, <1>2
<1> HIDE DEF a
<1> QED BY <1>1, <1>3, <1>4

\* At its end the history tells what is there.
LEMMA HistoryEndKeeps ==
  ASSUME KInv, NEW c \in Client, HistoryEnd(c)
  PROVE  KInv'
<1> DEFINE s == loop[c]
           u == ListCursor(s)
           l == [phase |-> "poll", cursor |-> u]
           k == DOMAIN s.active
<1>1. s.phase = "history" /\ s.page = <<>> /\ <<>> \in EventsAfter(s.from) /\ Started(c, k, l)
  BY DEF HistoryEnd
<1>2. feeds /\ RemoteOK(remote, changes) /\ \E cursor \in Nat : Listed(remote, changes, s, cursor)
  BY <1>1, HistoryIs
<1> HIDE DEF s
<1>3. PICK cursor \in Nat : Listed(remote, changes, s, cursor)
  BY <1>2
<1>4. /\ s.from \in Nat /\ s.from <= changes /\ cursor <= s.from /\ k \subseteq DOMAIN remote
      /\ \A o \in DOMAIN remote : ~(cursor < remote[o].at /\ remote[o].at <= s.from)
  BY <1>1, <1>3 DEF Listed, Upcoming
<1>5. \A o \in DOMAIN remote : remote[o].at \in Nat /\ ~(remote[o].at > cursor)
  <2>1. \A o \in DOMAIN remote : remote[o].at <= s.from
    BY <1>1, <1>2, <1>4, NothingComes
  <2> QED BY <1>2, <1>4, <2>1 DEF RemoteOK
<1>6. Live(remote) = k
  BY <1>3, <1>4, <1>5 DEF Listed, Knows, Live
<1>7. u \in 0 .. changes
  <2>1. u \in 0 .. cursor
    BY <1>3, LastListed
  <2> QED BY <1>2, <1>4, <2>1 DEF RemoteOK
<1>8. l.phase = "poll" /\ l.cursor = u
  OBVIOUS
<1> HIDE DEF u, l, k
<1>9. Knows(remote, k, {}, u)
  BY <1>6 DEF Knows
<1>10. LoopOK(remote, changes, feeds, l, k, {})
  BY <1>2, <1>7, <1>8, <1>9 DEF LoopOK
<1> QED BY <1>1, <1>4, <1>8, <1>10, StartedKeeps DEF s, k

\* A step of c's event loop.
LEMMA LoopStepKeeps ==
  ASSUME KInv, NEW c \in Client, NEW l, NEW k, loop' = [loop EXCEPT ![c] = l], known' = [known EXCEPT ![c] = k],
         k \subseteq DOMAIN remote, l.phase \in {"poll", "events"}, LoopOK(remote, changes, feeds, l, k, mine[c]),
         UNCHANGED <<feeds, remote, changes, req, mine>>
  PROVE  KInv'
<1> DEFINE m == mine[c]
           r == req[c]
<1>1. ClientOK(remote, changes, feeds, loop[c], known[c], m, r)
  BY DEF KInv
<1>2. mine' = [mine EXCEPT ![c] = m] /\ req' = [req EXCEPT ![c] = r]
  BY SameAsBefore
<1>3. StartOK(remote, changes, feeds, l)
  BY DEF StartOK
<1>4. LoopOK(remote, changes, feeds, l, k, m)
  OBVIOUS
<1> HIDE DEF m, r
<1>5. ClientOK(remote, changes, feeds, l, k, m, r)
  BY <1>1, <1>3, <1>4 DEF ClientOK
<1> QED BY <1>2, <1>5, OneClient

LEMMA PollKeeps ==
  ASSUME KInv, NEW c \in Client, Poll(c)
  PROVE  KInv'
<1> DEFINE s == loop[c]
           l == Following(s.cursor, s.cursor, <<>>)
           k == known[c]
<1>1. s.phase = "poll" /\ UNCHANGED <<feeds, remote, changes, req, mine>> /\ known' = known
  BY DEF Poll
<1>2. loop' = [loop EXCEPT ![c] = l]
  BY DEF Poll
<1>3. known' = [known EXCEPT ![c] = k]
  BY <1>1, SameAsBefore
<1>4. /\ feeds /\ s.cursor \in 0 .. changes /\ Knows(remote, k, mine[c], s.cursor) /\ k \subseteq DOMAIN remote
      /\ RemoteOK(remote, changes)
  BY <1>1 DEF KInv, ClientOK, LoopOK
<1> HIDE DEF s, k
<1>5. /\ l.phase = "events" /\ l.cursor = s.cursor /\ l.from = s.cursor /\ l.page = <<>>
      /\ l = Following(l.cursor, l.from, l.page)
  BY DEF Following
<1>6. Upcoming(remote, <<>>, s.cursor, s.cursor)
  <2>1. <<>> \in Seq({}) /\ DOMAIN <<>> = {}
    OBVIOUS
  <2>2. \A o \in DOMAIN remote : remote[o].at \in Nat
    BY <1>4 DEF RemoteOK
  <2> QED BY <1>4, <2>1, <2>2 DEF Upcoming
<1> HIDE DEF l
<1>7. LoopOK(remote, changes, feeds, l, k, mine[c])
  BY <1>4, <1>5, <1>6 DEF LoopOK, RemoteOK
<1> QED BY <1>1, <1>2, <1>3, <1>4, <1>5, <1>7, LoopStepKeeps

\* What a client has that follows the events.
LEMMA FollowerIs ==
  ASSUME KInv, NEW c \in Client, loop[c].phase = "events"
  PROVE  /\ feeds /\ RemoteOK(remote, changes) /\ known[c] \subseteq DOMAIN remote
         /\ loop[c] = Following(loop[c].cursor, loop[c].from, loop[c].page) /\ loop[c].from <= changes
         /\ Upcoming(remote, loop[c].page, loop[c].cursor, loop[c].from)
         /\ Knows(remote, known[c], mine[c], loop[c].cursor)
BY DEF KInv, ClientOK, LoopOK

LEMMA ToPollKeeps ==
  ASSUME KInv, NEW c \in Client, loop[c].phase = "events", ToPoll(c),
         UNCHANGED <<feeds, remote, changes, known, req, mine>>
  PROVE  KInv'
<1> DEFINE s == loop[c]
           l == [phase |-> "poll", cursor |-> s.cursor]
           k == known[c]
<1>1. loop' = [loop EXCEPT ![c] = l]
  BY DEF ToPoll
<1>2. known' = [known EXCEPT ![c] = k]
  BY SameAsBefore
<1>3. /\ feeds /\ Knows(remote, k, mine[c], s.cursor) /\ k \subseteq DOMAIN remote /\ RemoteOK(remote, changes)
      /\ Upcoming(remote, s.page, s.cursor, s.from) /\ s.from <= changes
  BY FollowerIs
<1> HIDE DEF s, k
<1>4. s.cursor \in 0 .. changes
  BY <1>3 DEF Upcoming, RemoteOK
<1>5. l.phase = "poll" /\ l.cursor = s.cursor
  OBVIOUS
<1> HIDE DEF l
<1>6. LoopOK(remote, changes, feeds, l, k, mine[c])
  BY <1>3, <1>4, <1>5 DEF LoopOK
<1> QED BY <1>1, <1>2, <1>3, <1>5, <1>6, LoopStepKeeps

LEMMA FetchKeeps ==
  ASSUME KInv, NEW c \in Client, Fetch(c)
  PROVE  KInv'
<1> DEFINE s == loop[c]
           k == known[c]
<1>1. s.phase = "events" /\ s.page = <<>> /\ UNCHANGED <<feeds, remote, changes, known, req, mine>>
  BY DEF Fetch
<1>2. PICK page \in EventsAfter(s.from) :
        \/ page = <<>> /\ ToPoll(c)
        \/ page # <<>> /\ loop' = [loop EXCEPT ![c] = Following(@.cursor, Last(page).at, page)]
  BY DEF Fetch
<1>3. CASE ToPoll(c)
  BY <1>1, <1>3, ToPollKeeps
<1>4. CASE page # <<>> /\ loop' = [loop EXCEPT ![c] = Following(@.cursor, Last(page).at, page)]
  <2> DEFINE l == Following(s.cursor, Last(page).at, page)
  <2>1. loop' = [loop EXCEPT ![c] = l]
    BY <1>4
  <2>2. known' = [known EXCEPT ![c] = k]
    BY <1>1, SameAsBefore
  <2>3. /\ feeds /\ Knows(remote, k, mine[c], s.cursor) /\ k \subseteq DOMAIN remote /\ RemoteOK(remote, changes)
        /\ Upcoming(remote, s.page, s.cursor, s.from) /\ s.from <= changes
    BY <1>1, FollowerIs
  <2> HIDE DEF s, k
  <2>4. Last(page).at <= changes /\ Upcoming(remote, page, s.cursor, Last(page).at)
    BY <1>1, <1>4, <2>3, PageComes
  <2>5. /\ l.phase = "events" /\ l.cursor = s.cursor /\ l.from = Last(page).at /\ l.page = page
        /\ l = Following(l.cursor, l.from, l.page)
    BY DEF Following
  <2> HIDE DEF l
  <2>6. LoopOK(remote, changes, feeds, l, k, mine[c])
    BY <2>3, <2>4, <2>5 DEF LoopOK
  <2> QED BY <1>1, <2>1, <2>2, <2>3, <2>5, <2>6, LoopStepKeeps
<1> QED BY <1>2, <1>3, <1>4

LEMMA EventKeeps ==
  ASSUME KInv, NEW c \in Client, Event(c)
  PROVE  KInv'
<1> DEFINE s == loop[c]
           k == known[c]
           e == Head(s.page)
           t == Tail(s.page)
           l == Following(e.at, s.from, t)
           j == IF e.deleted THEN k \ {e.id} ELSE k \cup {e.id}
<1>1. s.phase = "events" /\ s.page # <<>> /\ UNCHANGED <<feeds, remote, changes, req, mine>>
  BY DEF Event
<1>2. loop' = [loop EXCEPT ![c] = l] /\ known' = [known EXCEPT ![c] = j]
  BY DEF Event
<1>3. /\ feeds /\ Knows(remote, k, mine[c], s.cursor) /\ k \subseteq DOMAIN remote /\ RemoteOK(remote, changes)
      /\ Upcoming(remote, s.page, s.cursor, s.from) /\ s.from <= changes
  BY <1>1, FollowerIs
<1>4. j = IF Head(s.page).deleted THEN k \ {Head(s.page).id} ELSE k \cup {Head(s.page).id}
  OBVIOUS
<1> HIDE DEF s, k, j
<1>5. Upcoming(remote, t, e.at, s.from) /\ Knows(remote, j, mine[c], e.at) /\ j \subseteq DOMAIN remote
  BY <1>1, <1>3, <1>4, EventKnows
<1>6. /\ l.phase = "events" /\ l.cursor = e.at /\ l.from = s.from /\ l.page = t
      /\ l = Following(l.cursor, l.from, l.page)
  BY DEF Following
<1> HIDE DEF l, e, t
<1>7. LoopOK(remote, changes, feeds, l, j, mine[c])
  BY <1>3, <1>5, <1>6 DEF LoopOK
<1> QED BY <1>1, <1>2, <1>5, <1>6, <1>7, LoopStepKeeps

LEMMA StopKeeps ==
  ASSUME KInv, NEW c \in Client, Stop(c)
  PROVE  KInv'
<1>1. /\ loop' = [loop EXCEPT ![c] = Off] /\ known' = [known EXCEPT ![c] = {}]
      /\ req' = [req EXCEPT ![c] = Rest] /\ mine' = [mine EXCEPT ![c] = {}]
      /\ UNCHANGED <<feeds, remote, changes>>
  BY DEF Stop
<1>2. Off.phase = "off" /\ Rest.op = "none"
  BY DEF Off, Rest
<1>3. ClientOK(remote, changes, feeds, Off, {}, {}, Rest)
  BY <1>2 DEF ClientOK, StartOK, LoopOK, ReqOK
<1> QED BY <1>1, <1>3, OneClient

\* A step of c's request that leaves the remote and what c has uploaded alone, and loses
\* nothing that is there or its own.
LEMMA RequestKeeps ==
  ASSUME KInv, NEW c \in Client, NEW k, NEW m, NEW r,
         loop' = loop, known' = [known EXCEPT ![c] = k], mine' = [mine EXCEPT ![c] = m], req' = [req EXCEPT ![c] = r],
         k \subseteq DOMAIN remote, ReqOK(remote, feeds, m, r), LoopOK(remote, changes, feeds, loop[c], k, m),
         UNCHANGED <<feeds, remote, changes>>
  PROVE  KInv'
<1> DEFINE l == loop[c]
<1>1. ClientOK(remote, changes, feeds, l, known[c], mine[c], req[c]) /\ loop' = [loop EXCEPT ![c] = l]
  BY SameAsBefore
<1>2. LoopOK(remote, changes, feeds, l, k, m)
  OBVIOUS
<1> HIDE DEF l
<1>3. ClientOK(remote, changes, feeds, l, k, m, r)
  BY <1>1, <1>2 DEF ClientOK
<1> QED BY <1>1, <1>3, OneClient

\* A request that begins or is given up.
LEMMA TurnKeeps ==
  ASSUME KInv, NEW c \in Client, NEW r, req' = [req EXCEPT ![c] = r], ReqOK(remote, feeds, mine[c], r),
         UNCHANGED <<feeds, remote, changes, loop, known, mine>>
  PROVE  KInv'
<1> DEFINE k == known[c]
           m == mine[c]
<1>1. known' = [known EXCEPT ![c] = k] /\ mine' = [mine EXCEPT ![c] = m] /\ ClientOK(remote, changes, feeds, loop[c], k, m, req[c])
  BY SameAsBefore
<1>2. ReqOK(remote, feeds, m, r)
  OBVIOUS
<1> HIDE DEF k, m
<1> QED BY <1>1, <1>2, RequestKeeps DEF ClientOK

LEMMA RestKeeps ==
  ASSUME KInv, NEW c \in Client, req' = [req EXCEPT ![c] = Rest], UNCHANGED <<feeds, remote, changes, loop, known, mine>>
  PROVE  KInv'
<1>1. ReqOK(remote, feeds, mine[c], Rest)
  BY DEF Rest, ReqOK
<1> HIDE DEF Rest
<1> QED BY <1>1, TurnKeeps

LEMMA StartUploadKeeps ==
  ASSUME KInv, NEW c \in Client, NEW b, StartUpload(c, b)
  PROVE  KInv'
<1> DEFINE r == Batch(b, <<>>)
<1>1. req' = [req EXCEPT ![c] = r] /\ UNCHANGED <<feeds, remote, changes, loop, known, mine>>
  BY DEF StartUpload
<1>2. r.op = "upload" /\ r.done = <<>>
  BY DEF Batch
<1> HIDE DEF r
<1>3. ReqOK(remote, feeds, mine[c], r)
  BY <1>2 DEF ReqOK
<1> QED BY <1>1, <1>3, TurnKeeps

\* Who knows more of what is its own knows enough.
LEMMA LearnsOwn ==
  ASSUME NEW R, NEW n, NEW f, NEW l, NEW k, NEW m, NEW o, LoopOK(R, n, f, l, k, m), l.phase \in {"poll", "events", "none"}
  PROVE  LoopOK(R, n, f, l, k \cup {o}, m \cup {o})
<1>1. \A cursor : Knows(R, k, m, cursor) => Knows(R, k \cup {o}, m \cup {o}, cursor)
  BY DEF Knows
<1> QED BY <1>1 DEF LoopOK

\* Who learns what is there, or is to be told that it is gone, knows enough.
LEMMA LearnsFound ==
  ASSUME NEW R, NEW n, NEW f, NEW l, NEW k, NEW m, NEW o, LoopOK(R, n, f, l, k, m), l.phase \in {"poll", "events", "none"},
         f, o \in DOMAIN R, o \in Live(R) \/ R[o].at > l.cursor
  PROVE  LoopOK(R, n, f, l, k \cup {o}, m)
<1>1. Knows(R, k, m, l.cursor) => Knows(R, k \cup {o}, m, l.cursor)
  BY DEF Knows
<1> QED BY <1>1 DEF LoopOK

LEMMA HeadAndTail ==
  ASSUME NEW S, NEW s \in Seq(S), s # <<>>
  PROVE  Head(s) \in S /\ Tail(s) \in Seq(S)
OBVIOUS

LEMMA UploadedKeeps ==
  ASSUME KInv, NEW c \in Client, Uploaded(c)
  PROVE  KInv'
<1> DEFINE q == req[c]
           o == Head(q.done)
           k == known[c]
           m == mine[c]
           w == feeds => Overtaken(c, o)
           u == IF w THEN m \cup {o} ELSE m
<1>1. /\ q.op = "upload" /\ q.done # <<>> /\ loop[c].phase \in {"poll", "events", "none"}
      /\ UNCHANGED <<feeds, remote, changes, loop>>
      /\ known' = [known EXCEPT ![c] = k \cup {o}] /\ mine' = [mine EXCEPT ![c] = u]
  BY DEF Uploaded, Doing, Running
<1>2. /\ ClientOK(remote, changes, feeds, loop[c], k, m, q) /\ k \subseteq DOMAIN remote
      /\ LoopOK(remote, changes, feeds, loop[c], k, m) /\ q.done \in Seq(DOMAIN remote)
  BY <1>1 DEF KInv, ClientOK, ReqOK
<1>3. o \in DOMAIN remote /\ Tail(q.done) \in Seq(DOMAIN remote)
  BY <1>1, <1>2, HeadAndTail
<1>4. \/ req' = [req EXCEPT ![c] = Rest]
      \/ req' = [req EXCEPT ![c] = Batch(q.todo, Tail(q.done))]
  BY DEF Uploaded
<1> HIDE DEF q, k, m, o
<1> DEFINE j == k \cup {o}
<1>5. LoopOK(remote, changes, feeds, loop[c], j, u) /\ j \subseteq DOMAIN remote
  <2>1. CASE w
    BY <1>1, <1>2, <1>3, <2>1, LearnsOwn
  <2>2. CASE ~w
    <3>1. feeds /\ (o \in Live(remote) \/ ~(remote[o].at <= loop[c].cursor))
      BY <1>3, <2>2 DEF Overtaken, Present, Live
    <3>2. loop[c].phase \in {"poll", "events"} /\ remote[o].at \in Nat /\ loop[c].cursor \in Nat
      BY <1>1, <1>2, <1>3, <3>1 DEF LoopOK, KInv, RemoteOK, Upcoming
    <3>3. o \in Live(remote) \/ remote[o].at > loop[c].cursor
      BY <3>1, <3>2
    <3>4. LoopOK(remote, changes, feeds, loop[c], j, m)
      BY <1>1, <1>2, <1>3, <3>1, <3>3, LearnsFound
    <3> QED BY <1>2, <1>3, <2>2, <3>4
  <2> QED BY <2>1, <2>2
<1>6. ReqOK(remote, feeds, u, Rest)
  BY DEF Rest, ReqOK
<1>7. ReqOK(remote, feeds, u, Batch(q.todo, Tail(q.done)))
  BY <1>3 DEF Batch, ReqOK
<1>8. known' = [known EXCEPT ![c] = j] /\ mine' = [mine EXCEPT ![c] = u]
  BY <1>1
<1> HIDE DEF j, u
<1>9. CASE req' = [req EXCEPT ![c] = Rest]
  <2> HIDE DEF Rest
  <2> QED BY <1>1, <1>5, <1>6, <1>8, <1>9, RequestKeeps
<1>10. CASE req' = [req EXCEPT ![c] = Batch(q.todo, Tail(q.done))]
  <2> DEFINE r == Batch(q.todo, Tail(q.done))
  <2>1. req' = [req EXCEPT ![c] = r] /\ ReqOK(remote, feeds, u, r)
    BY <1>7, <1>10
  <2> HIDE DEF r
  <2> QED BY <1>1, <1>5, <1>8, <2>1, RequestKeeps
<1> QED BY <1>4, <1>9, <1>10

\* What is forgotten is gone, and was taken from what is its own.
LEMMA ForgetKeeps ==
  ASSUME KInv, NEW c \in Client, Forget(c)
  PROVE  KInv'
<1> DEFINE o == req[c].id
           k == known[c]
           m == mine[c]
           j == k \ {o}
<1>1. /\ req[c].op = "forget" /\ loop[c].phase \in {"poll", "events", "none"}
      /\ UNCHANGED <<feeds, remote, changes, loop, mine>>
      /\ known' = [known EXCEPT ![c] = j] /\ req' = [req EXCEPT ![c] = Rest]
  BY DEF Forget, Doing, Running
<1>2. /\ k \subseteq DOMAIN remote /\ LoopOK(remote, changes, feeds, loop[c], k, m)
      /\ o \notin m /\ (feeds => o \notin Live(remote))
  BY <1>1 DEF KInv, ClientOK, ReqOK
<1>3. mine' = [mine EXCEPT ![c] = m]
  BY <1>1, SameAsBefore
<1> HIDE DEF o, k, m
<1>4. feeds => \A cursor : Knows(remote, k, m, cursor) => Knows(remote, j, m, cursor)
  BY <1>2 DEF Knows
<1>5. LoopOK(remote, changes, feeds, loop[c], j, m)
  BY <1>2, <1>4 DEF LoopOK
<1>6. ReqOK(remote, feeds, m, Rest)
  BY DEF Rest, ReqOK
<1>7. j \subseteq DOMAIN remote
  BY <1>2
<1> HIDE DEF j, Rest
<1> QED BY <1>1, <1>3, <1>5, <1>6, <1>7, RequestKeeps

\* What c has pinned is on the remote, and its event is still to come for everybody.
LEMMA UploadNextKeeps ==
  ASSUME KInv, NEW c \in Client, UploadNext(c)
  PROVE  KInv'
<1> DEFINE o == Head(req[c].todo)
           done == req[c].done
           r == Batch(Tail(req[c].todo), Append(done, o))
           m == mine[c]
           k == known[c]
           l == loop[c]
           Q == remote'
           n == changes'
<1>1. /\ req[c].op = "upload" /\ IsNew(o) /\ changes' = changes + 1 /\ remote' = After(remote, changes, o, FALSE)
      /\ req' = [req EXCEPT ![c] = r] /\ UNCHANGED <<feeds, known, loop, mine>>
  BY DEF UploadNext, Doing, Changed, After
<1>2. /\ ClientOK(remote, changes, feeds, l, k, m, req[c]) /\ mine' = [mine EXCEPT ![c] = m]
      /\ RemoteOK(remote, changes) /\ feeds \in BOOLEAN
  BY <1>1, SameAsBefore DEF KInv
<1>3. done \in Seq(DOMAIN remote)
  BY <1>1, <1>2 DEF ClientOK, ReqOK
<1>4. NewChange(remote, changes, remote', o)
  BY <1>1, <1>2, ChangeIsNew
<1>5. feeds => o \notin DOMAIN remote
  BY <1>1 DEF IsNew
<1>6. r.op = "upload" /\ r.done = Append(done, o)
  BY DEF Batch
<1>7. n = changes + 1
  BY <1>1
<1> HIDE DEF o, done, r, m, k, l
<1>8. ClientOK(Q, changes + 1, feeds, l, k, m, req[c])
  BY <1>2, <1>4, <1>5, ChangeKeeps
<1>9. Append(done, o) \in Seq(DOMAIN Q)
  BY <1>3, <1>4 DEF NewChange
<1>10. ReqOK(Q, feeds, m, r)
  BY <1>6, <1>9 DEF ReqOK
<1>11. ClientOK(Q, n, feeds, l, k, m, r)
  BY <1>7, <1>8, <1>10 DEF ClientOK
<1> QED BY <1>1, <1>2, <1>4, <1>5, <1>11, OneChange DEF l, k

\* What c deletes is no longer its own; its event is still to come for everybody.
LEMMA DeleteKeeps ==
  ASSUME KInv, NEW c \in Client, NEW o, Delete(c, o)
  PROVE  KInv'
<1> DEFINE r == [op |-> "forget", id |-> o]
           m == mine[c]
           j == m \ {o}
           k == known[c]
           l == loop[c]
           Q == remote'
           n == changes'
<1>1. /\ l.phase \in {"poll", "events", "none"} /\ o \in k /\ changes' = changes + 1
      /\ remote' = After(remote, changes, o, TRUE)
      /\ req' = [req EXCEPT ![c] = r] /\ mine' = [mine EXCEPT ![c] = j] /\ UNCHANGED <<feeds, known, loop>>
  BY DEF Delete, Doing, Running, Changed, After
<1>2. /\ ClientOK(remote, changes, feeds, l, k, m, req[c]) /\ RemoteOK(remote, changes) /\ feeds \in BOOLEAN
  BY DEF KInv
<1>3. NewChange(remote, changes, remote', o) /\ remote'[o].deleted
  <2>1. NewChange(remote, changes, remote', o)
    BY <1>1, <1>2, ChangeIsNew
  <2>2. remote'[o] = [at |-> changes + 1, deleted |-> TRUE]
    BY <1>1 DEF After
  <2> QED BY <2>1, <2>2
<1>4. r.op = "forget" /\ r.id = o
  OBVIOUS
<1>5. n = changes + 1 /\ j = m \ {o} /\ j \subseteq m
  BY <1>1
<1> HIDE DEF r, m, j, k, l
<1>6. ClientOK(Q, changes + 1, feeds, l, k, m, req[c])
  BY <1>2, <1>3, ChangeKeeps
<1>7. ReqOK(Q, feeds, j, r)
  BY <1>3, <1>4, <1>5 DEF ReqOK, NewChange, Live
<1>8. LoopOK(Q, n, feeds, l, k, j)
  <2>1. \A cursor \in 0 .. changes : Knows(remote, k, m, cursor) => Knows(Q, k, j, cursor)
    BY <1>2, <1>3, <1>5, ChangeKnows DEF ClientOK
  <2>2. /\ l.phase = "poll" => feeds /\ l.cursor \in 0 .. n /\ Knows(Q, k, j, l.cursor)
        /\ l.phase = "none" => ~feeds /\ j \subseteq k
    BY <1>1, <1>2, <1>5, <1>6, <2>1 DEF ClientOK, LoopOK
  <2>3. ASSUME l.phase = "events" PROVE l.cursor \in 0 .. changes /\ Knows(remote, k, m, l.cursor)
    BY <1>2, <2>3 DEF ClientOK, LoopOK, Upcoming, RemoteOK
  <2>4. l.phase = "events" => /\ feeds /\ l = Following(l.cursor, l.from, l.page) /\ l.from <= n
                              /\ Upcoming(Q, l.page, l.cursor, l.from)
    BY <1>5, <1>6 DEF ClientOK, LoopOK
  <2> QED BY <1>1, <2>1, <2>2, <2>3, <2>4 DEF LoopOK
<1>9. ClientOK(Q, n, feeds, l, k, j, r)
  BY <1>5, <1>6, <1>7, <1>8 DEF ClientOK
<1> QED BY <1>1, <1>3, <1>9, OneChange DEF l, k

LEMMA InitKnows == Init => KInv
<1> SUFFICES ASSUME Init PROVE KInv
  OBVIOUS
<1>1. RemoteOK(remote, changes)
  BY DEF Init, RemoteOK
<1>2. Off.phase = "off" /\ Rest.op = "none"
  BY DEF Off, Rest
<1> HIDE DEF Off, Rest
<1>3. ClientOK(remote, changes, feeds, Off, {}, {}, Rest)
  BY <1>2 DEF ClientOK, StartOK, LoopOK, ReqOK
<1>4. ASSUME NEW c \in Client PROVE ClientOK(remote, changes, feeds, loop[c], known[c], mine[c], req[c])
  BY <1>3 DEF Init
<1> QED BY <1>1, <1>4 DEF KInv, Init

LEMMA StepKnows == KInv /\ [Next]_vars => KInv'
<1> SUFFICES ASSUME KInv, [Next]_vars PROVE KInv'
  OBVIOUS
<1>1. CASE UNCHANGED vars
  BY <1>1 DEF vars, KInv
<1>2. ASSUME NEW c \in Client, StartStep(c) PROVE KInv'
  BY <1>2, StartKeeps, HistoryPageKeeps, HistoryEventKeeps, HistoryEndKeeps, ListOneKeeps, ListMoreKeeps, ListEndKeeps DEF StartStep
<1>3. ASSUME NEW c \in Client, Poll(c) \/ Fetch(c) \/ FetchFails(c) \/ Event(c) PROVE KInv'
  BY <1>3, PollKeeps, FetchKeeps, ToPollKeeps, EventKeeps DEF FetchFails
<1>4. ASSUME NEW c \in Client, RequestStep(c) PROVE KInv'
  BY <1>4, UploadNextKeeps, UploadedKeeps, ForgetKeeps, RestKeeps DEF RequestStep, UploadFails, DeleteFails
<1> QED BY <1>1, <1>2, <1>3, <1>4, StopKeeps, StartUploadKeeps, DeleteKeeps DEF Next

\* However listing, events, uploads and deletes overlap, a running client with events knows what is
\* there and only that, but for changes its cursor has still before it; without events it knows its
\* own (lib.rs:237, indexd/object.rs:280).
THEOREM KnowsWhatIsThere == Spec => []KnownIsRight
<1>1. KInv => KnownIsRight
  <2> SUFFICES ASSUME KInv, NEW c \in Client, Running(c)
               PROVE  IF feeds
                      THEN /\ \A o \in Present \ known[c] : remote[o].at > loop[c].cursor
                           /\ \A o \in known[c] \ Present : remote[o].at > loop[c].cursor \/ o \in mine[c]
                      ELSE mine[c] \cap Present \subseteq known[c]
    BY DEF KnownIsRight
  <2>1. LoopOK(remote, changes, feeds, loop[c], known[c], mine[c]) /\ loop[c].phase \in {"poll", "events", "none"}
    BY DEF KInv, ClientOK, Running
  <2>2. Present = Live(remote)
    BY DEF Present, Live
  <2> QED BY <2>1, <2>2 DEF LoopOK, Knows
<1> QED BY <1>1, InitKnows, StepKnows, PTL DEF Spec
=============================================================================
