---------------------------- MODULE RemoteObjects ----------------------------
(***************************************************************************)
(* What a client knows of the objects on the remote.  RemoteStorage lists  *)
(* them once when it starts; from then on its own uploads and deletes and, *)
(* where the backend has them (feeds), the events of an event loop change  *)
(* the set of known ids.  A listing goes through the known ids and asks    *)
(* the metadata cache for each, and the backend when the cache has not it. *)
(*                                                                         *)
(* An object is its id; it is never changed once it is uploaded, and where *)
(* there are events its id is never used again.  What is known may be      *)
(* cached or not, so a known object that is gone may still be listed; a    *)
(* listing and a scan change nothing.                                      *)
(***************************************************************************)
EXTENDS Naturals, Sequences, FiniteSets, SequencesExt

CONSTANTS
  Client,       \* processes that use the remote
  Batches,      \* what is uploaded at once, a sequence of objects
  Page,         \* events a request for them returns (100)
  MaxChanges,   \* bound: uploads and deletes
  MaxStops      \* bound: crashes and ends of clients

ASSUME RemoteAssumption ==
  /\ \A b \in Batches : b \in Seq(ToSet(b)) \ {<<>>} /\ IsInjective(b)
  /\ \A b, d \in Batches : b # d => ToSet(b) \cap ToSet(d) = {}
  /\ Page \in Nat \ {0} /\ MaxChanges \in Nat /\ MaxStops \in Nat

Object == UNION {ToSet(b) : b \in Batches}

VARIABLES
  feeds,    \* does the backend have events (indexd)?
  remote,   \* object -> [at, deleted], its last change
  changes,  \* number of changes so far
  stops,    \* number of stops so far
  known,    \* client -> known_object_ids
  loop,     \* client -> its start, then its event loop
  req,      \* client -> the request it works on
  mine      \* client -> its own uploads since its start, not deleted by it: with events those only
            \* whose deletion by another it had seen before the upload was done

vars == <<feeds, remote, changes, stops, known, loop, req, mine>>

----------------------------------------------------------------------------
(* The backend. *)

Present == {o \in DOMAIN remote : ~remote[o].deleted}

Changed(o, deleted) ==
  /\ changes < MaxChanges
  /\ changes' = changes + 1
  /\ remote' = [x \in DOMAIN remote \cup {o} |->
                  IF x = o THEN [at |-> changes + 1, deleted |-> deleted] ELSE remote[x]]

EventOf(o) == [id |-> o, at |-> remote[o].at, deleted |-> remote[o].deleted]

\* The next events after a cursor (one page): each object's last change only, oldest first.
EventsAfter(at) ==
  LET due == {EventOf(o) : o \in {x \in DOMAIN remote : remote[x].at > at}}
  IN  {page \in BoundedSeq(due, Page) :
         /\ \A i, j \in DOMAIN page : i < j => page[i].at < page[j].at
         /\ \A e \in due \ Range(page) : Len(page) = Page /\ \A i \in DOMAIN page : page[i].at < e.at}

----------------------------------------------------------------------------
(* RemoteStorage::new. *)

Off == [phase |-> "off"]

Running(c) == loop[c].phase \in {"poll", "events", "none"}

Rest == [op |-> "none"]

\* Other backends list names, each of which is asked for.
Names(todo, active) == [phase |-> "list", todo |-> todo, active |-> active]

\* The list of a backend with events is what is left of their history: active has the objects, each with its last
\* event and the place of its first one in the order of insertion.
Listing(from, page, active, places, deleted) ==
  [phase |-> "history", from |-> from, page |-> page, active |-> active, places |-> places, deleted |-> deleted]

Start(c) ==
  /\ loop[c] = Off
  /\ loop' = [loop EXCEPT ![c] =
       IF feeds THEN Listing(0, <<>>, [o \in {} |-> {}], 0, 0)
       ELSE Names(Present, {})]
  /\ UNCHANGED <<feeds, remote, changes, stops, known, req, mine>>

\* Mutant of WithEvent: a delete moves the cursor only.
WithEventKept(s, e) ==
  IF e.deleted THEN Listing(s.from, Tail(s.page), s.active, s.places, e.at)
  ELSE LET place == IF e.id \in DOMAIN s.active THEN s.active[e.id].place ELSE s.places
       IN  Listing(s.from, Tail(s.page), [o \in DOMAIN s.active \cup {e.id} |->
             IF o = e.id THEN [at |-> e.at, place |-> place] ELSE s.active[o]], s.places + 1, s.deleted)

\* What is inserted again keeps its place.
WithEvent(s, e) ==
  IF e.deleted
  THEN Listing(s.from, Tail(s.page), [o \in DOMAIN s.active \ {e.id} |-> s.active[o]], s.places, e.at)
  ELSE LET place == IF e.id \in DOMAIN s.active THEN s.active[e.id].place ELSE s.places
       IN  Listing(s.from, Tail(s.page), [o \in DOMAIN s.active \cup {e.id} |->
             IF o = e.id THEN [at |-> e.at, place |-> place] ELSE s.active[o]], s.places + 1, s.deleted)

HistoryPage(c) ==
  /\ loop[c].phase = "history" /\ loop[c].page = <<>>
  /\ \E page \in EventsAfter(loop[c].from) \ {<<>>} :
       loop' = [loop EXCEPT ![c] = Listing(Last(page).at, page, @.active, @.places, @.deleted)]
  /\ UNCHANGED <<feeds, remote, changes, stops, known, req, mine>>

HistoryEvent(c) ==
  /\ loop[c].phase = "history" /\ loop[c].page # <<>>
  /\ loop' = [loop EXCEPT ![c] = WithEvent(@, Head(@.page))]
  /\ UNCHANGED <<feeds, remote, changes, stops, known, req, mine>>

\* The events go on behind the last active object or the last delete, whichever is later.
ListCursor(s) ==
  LET last == CHOOSE o \in DOMAIN s.active : \A x \in DOMAIN s.active : s.active[x].place <= s.active[o].place
      active == IF DOMAIN s.active = {} THEN 0 ELSE s.active[last].at
  IN  IF active < s.deleted THEN s.deleted ELSE active

Started(c, objects, l) ==
  /\ known' = [known EXCEPT ![c] = objects]
  /\ loop' = [loop EXCEPT ![c] = l]
  /\ UNCHANGED <<feeds, remote, changes, stops, req, mine>>

HistoryEnd(c) ==
  /\ loop[c].phase = "history" /\ loop[c].page = <<>>
  /\ <<>> \in EventsAfter(loop[c].from)
  /\ Started(c, DOMAIN loop[c].active, [phase |-> "poll", cursor |-> ListCursor(loop[c])])

\* An object that is gone when it is asked for fails the start.
ListOne(c) ==
  /\ loop[c].phase = "list"
  /\ \E o \in loop[c].todo :
       loop' = [loop EXCEPT ![c] = IF o \in Present THEN Names(@.todo \ {o}, @.active \cup {o}) ELSE Off]
  /\ UNCHANGED <<feeds, remote, changes, stops, known, req, mine>>

\* A later page has what has come meanwhile.
ListMore(c) ==
  /\ loop[c].phase = "list"
  /\ \E o \in Present \ (loop[c].todo \cup loop[c].active) : loop' = [loop EXCEPT ![c] = Names(@.todo \cup {o}, @.active)]
  /\ UNCHANGED <<feeds, remote, changes, stops, known, req, mine>>

ListEnd(c) ==
  /\ loop[c].phase = "list" /\ loop[c].todo = {}
  /\ Started(c, loop[c].active, [phase |-> "none"])

\* The process ends, or its start fails; what is cached on disk may stay.
Stop(c) ==
  /\ loop[c] # Off
  /\ stops < MaxStops
  /\ stops' = stops + 1
  /\ loop' = [loop EXCEPT ![c] = Off]
  /\ known' = [known EXCEPT ![c] = {}]
  /\ req' = [req EXCEPT ![c] = Rest]
  /\ mine' = [mine EXCEPT ![c] = {}]
  /\ UNCHANGED <<feeds, remote, changes>>

----------------------------------------------------------------------------
(* object_event_loop *)

\* A stream of events from the cursor on.
Following(cursor, from, page) == [phase |-> "events", cursor |-> cursor, from |-> from, page |-> page]

Poll(c) ==
  /\ loop[c].phase = "poll"
  /\ loop' = [loop EXCEPT ![c] = Following(@.cursor, @.cursor, <<>>)]
  /\ UNCHANGED <<feeds, remote, changes, stops, known, req, mine>>

ToPoll(c) == loop' = [loop EXCEPT ![c] = [phase |-> "poll", cursor |-> @.cursor]]

Fetch(c) ==
  /\ loop[c].phase = "events" /\ loop[c].page = <<>>
  /\ \E page \in EventsAfter(loop[c].from) :
       \/ page = <<>> /\ ToPoll(c)
       \/ page # <<>> /\ loop' = [loop EXCEPT ![c] = Following(@.cursor, Last(page).at, page)]
  /\ UNCHANGED <<feeds, remote, changes, stops, known, req, mine>>

\* Mutant of FetchFails: an error ends the loop.
FetchFailsForGood(c) ==
  /\ loop[c].phase = "events" /\ loop[c].page = <<>>
  /\ loop' = [loop EXCEPT ![c] = [phase |-> "ended"]]
  /\ UNCHANGED <<feeds, remote, changes, stops, known, req, mine>>

FetchFails(c) ==
  /\ loop[c].phase = "events" /\ loop[c].page = <<>>
  /\ ToPoll(c)
  /\ UNCHANGED <<feeds, remote, changes, stops, known, req, mine>>

Event(c) ==
  /\ loop[c].phase = "events" /\ loop[c].page # <<>>
  /\ LET e == Head(loop[c].page) IN
       /\ IF e.deleted
          THEN known' = [known EXCEPT ![c] = @ \ {e.id}]
          ELSE known' = [known EXCEPT ![c] = @ \cup {e.id}]
       /\ loop' = [loop EXCEPT ![c] = Following(e.at, @.from, Tail(@.page))]
  /\ UNCHANGED <<feeds, remote, changes, stops, req, mine>>

----------------------------------------------------------------------------
(* Uploads. *)

Doing(c, op) == Running(c) /\ req[c].op = op

Batch(todo, done) == [op |-> "upload", todo |-> todo, done |-> done]

StartUpload(c, b) ==
  /\ Doing(c, "none")
  /\ req' = [req EXCEPT ![c] = Batch(b, <<>>)]
  /\ UNCHANGED <<feeds, remote, changes, stops, known, loop, mine>>

IsNew(o) == IF feeds THEN o \notin DOMAIN remote ELSE o \notin Present

\* Mutant of UploadNext: in any order.
UploadAny(c) ==
  /\ Doing(c, "upload")
  /\ \E o \in ToSet(req[c].todo) :
       /\ IsNew(o) /\ Changed(o, FALSE)
       /\ req' = [req EXCEPT ![c] = Batch(SelectSeq(@.todo, LAMBDA x : x # o), Append(@.done, o))]
  /\ UNCHANGED <<feeds, stops, known, loop, mine>>

\* A packed batch is pinned one by one, in order; without packing a batch is one upload after
\* the other.
UploadNext(c) ==
  /\ Doing(c, "upload")
  /\ req[c].todo # <<>>
  /\ LET o == Head(req[c].todo) IN
       /\ IsNew(o) /\ Changed(o, FALSE)
       /\ req' = [req EXCEPT ![c] = Batch(Tail(@.todo), Append(@.done, o))]
  /\ UNCHANGED <<feeds, stops, known, loop, mine>>

\* What was pinned by then stays, and is not known.
UploadFails(c) ==
  /\ Doing(c, "upload")
  /\ req' = [req EXCEPT ![c] = Rest]
  /\ UNCHANGED <<feeds, remote, changes, stops, known, loop, mine>>

\* Another client has deleted it, and the events behind the cursor have said so.
Overtaken(c, o) == o \notin Present /\ remote[o].at <= loop[c].cursor

\* One of the uploaded is cached and known: of a packed batch when all are pinned.
Uploaded(c) ==
  /\ Doing(c, "upload") /\ req[c].done # <<>>
  /\ feeds => req[c].todo = <<>>
  /\ LET o == Head(req[c].done) IN
       /\ known' = [known EXCEPT ![c] = @ \cup {o}]
       /\ mine' = [mine EXCEPT ![c] = IF feeds => Overtaken(c, o) THEN @ \cup {o} ELSE @]
       /\ req' = [req EXCEPT ![c] = IF @.todo = <<>> /\ Len(@.done) = 1 THEN Rest ELSE Batch(@.todo, Tail(@.done))]
  /\ UNCHANGED <<feeds, remote, changes, stops, loop>>

----------------------------------------------------------------------------
(* Deletes, of one object that is known or of all that are listed, one by one (delete_fs). *)

\* The backend deletes it; what others have deleted meanwhile is an error, which changes nothing.
Delete(c, o) ==
  /\ Doing(c, "none")
  /\ o \in known[c] \cap Present
  /\ Changed(o, TRUE)
  /\ req' = [req EXCEPT ![c] = [op |-> "forget", id |-> o]]
  /\ mine' = [mine EXCEPT ![c] = @ \ {o}]
  /\ UNCHANGED <<feeds, stops, known, loop>>

\* It is deleted, and the pruning of its slabs fails.
DeleteFails(c) ==
  /\ Doing(c, "forget")
  /\ req' = [req EXCEPT ![c] = Rest]
  /\ UNCHANGED <<feeds, remote, changes, stops, known, loop, mine>>

Forget(c) ==
  /\ Doing(c, "forget")
  /\ known' = [known EXCEPT ![c] = @ \ {req[c].id}]
  /\ req' = [req EXCEPT ![c] = Rest]
  /\ UNCHANGED <<feeds, remote, changes, stops, loop, mine>>

----------------------------------------------------------------------------

Init ==
  /\ feeds \in BOOLEAN
  /\ remote = [o \in {} |-> {}]
  /\ changes = 0 /\ stops = 0
  /\ known = [c \in Client |-> {}]
  /\ loop = [c \in Client |-> Off]
  /\ req = [c \in Client |-> Rest]
  /\ mine = [c \in Client |-> {}]

StartStep(c) == Start(c) \/ HistoryPage(c) \/ HistoryEvent(c) \/ HistoryEnd(c) \/ ListOne(c) \/ ListMore(c) \/ ListEnd(c)

RequestStep(c) == UploadNext(c) \/ UploadFails(c) \/ Uploaded(c) \/ DeleteFails(c) \/ Forget(c)

Next ==
  \E c \in Client :
    \/ StartStep(c) \/ Stop(c)
    \/ Poll(c) \/ Fetch(c) \/ FetchFails(c) \/ Event(c)
    \/ \E b \in Batches : StartUpload(c, b)
    \/ \E o \in Object : Delete(c, o)
    \/ RequestStep(c)

Spec == Init /\ [][Next]_vars

\* A client starts again, its loop polls on, and not every request for events fails.
FairSpec ==
  /\ Spec
  /\ \A c \in Client :
       /\ WF_vars(StartStep(c)) /\ WF_vars(Poll(c)) /\ SF_vars(Fetch(c)) /\ WF_vars(Event(c))
       /\ WF_vars(RequestStep(c))

----------------------------------------------------------------------------
(* Properties. *)

\* However the listing at the start, the events, and the client's own uploads and deletes
\* overlap: a client knows what is there and only that, but for changes whose event its cursor
\* has still before it (lib.rs:237, indexd/object.rs:280).  Known objects that are gone for good are
\* only those of its own that another client deleted, and whose delete it saw, before the upload
\* was done (upload.rs:152).  Without events it knows at least its own.
KnownIsRight ==
  \A c \in Client : Running(c) =>
    IF feeds
    THEN /\ \A o \in Present \ known[c] : remote[o].at > loop[c].cursor
         /\ \A o \in known[c] \ Present : remote[o].at > loop[c].cursor \/ o \in mine[c]
    ELSE mine[c] \cap Present \subseteq known[c]

\* Once nothing changes any more, every client comes to know all that is there, through failed
\* requests for events and restarts (README.md:17, "to stay in sync with remote storage").
FollowsRemote == feeds => <>[](\A c \in Client : Running(c) /\ Present \subseteq known[c])

\* Nobody ever finds a config whose commit and root were not uploaded before it: a creation that
\* fails in part leaves parts, never a volume without them (vfs/mod.rs:697).
WholeVolumes ==
  \A b \in Batches : \A i \in DOMAIN b : b[i] \in DOMAIN remote =>
    \A j \in 1 .. i : b[j] \in DOMAIN remote

=============================================================================
