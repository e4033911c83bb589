---------------------------- MODULE ChunkedReader ----------------------------
(***************************************************************************)
(* Readers of one remote object (janus-io/src/chunk/reader.rs) over the    *)
(* chunk cache they share (janus-io/src/cache/chunk.rs).  The object is cut*)
(* into chunks of ChunkSize bytes, the last one shorter; a chunk is fetched*)
(* by one reader at a time, the others that want it wait for that fetch,   *)
(* and a reader keeps the download it fetched from for the chunk after it. *)
(*                                                                         *)
(* Byte k of the object is the number k, so a byte that turns up in the    *)
(* wrong place shows.  The disk cache behind the memory cache holds what   *)
(* was loaded, too; an eviction here is from both.  A download starts where*)
(* open was asked to, as the object stores of the code do; the mock of its *)
(* tests starts at the front whatever it is asked (object.rs:397).         *)
(*                                                                         *)
(* Next to the code's state runs skewed, a history variable: whether a     *)
(* fetch has ever begun in the middle of its chunk.                        *)
(***************************************************************************)
EXTENDS Integers, FiniteSets

CONSTANTS Reader, ChunkSize, Size

ASSUME SizeAssumption == ChunkSize \in Nat \ {0} /\ Size \in Nat \ {0}

VARIABLES
  cache,    \* cache[k]: what is cached for chunk k: {} or {<<its bytes>>}
  reader,   \* reader[r]: the state of a reader
  skewed

vars == <<cache, reader, skewed>>

Pos == 0 .. Size

Index == 0 .. (Size - 1) \div ChunkSize

\* calc_range
ChunkAt(p) == p \div ChunkSize

First(k) == k * ChunkSize

ChunkLen(k) == IF Size - First(k) < ChunkSize THEN Size - First(k) ELSE ChunkSize

\* n bytes of the object from position p on
Bytes(p, n) == [i \in 0 .. n - 1 |-> p + i]

\* at is where the fetch will start to read, download the position of the
\* download kept from the last fetch (Size if there is none to go on with).
Fresh == [phase |-> "idle", pos |-> 0, chunk |-> 0, data |-> Bytes(0, 0), at |-> 0,
          download |-> Size]

Init ==
  /\ cache = [k \in Index |-> {}]
  /\ reader = [r \in Reader |-> Fresh]
  /\ skewed = FALSE

\* No retrieval is under way: another call on the reader would first wait for
\* it and, if it is not the chunk it needs, start over.
AtRest(r) == reader[r].phase \in {"idle", "ready"}

\* Mutant of HasChunkFor: any chunk will do.
HasSomeChunk(r, p) == reader[r].phase = "ready"

HasChunkFor(r, p) == reader[r].phase = "ready" /\ reader[r].chunk = ChunkAt(p)

\* retrieve_chunk
Retrieve(r, p) ==
  LET reuse == reader[r].download = p
  IN  reader' = [reader EXCEPT ![r] =
        [Fresh EXCEPT !.phase = "asking", !.pos = p, !.chunk = ChunkAt(p),
                      !.at = IF reuse THEN reader[r].download ELSE p]]

(***************************************************************************)
(* poll_read and poll_seek.                                                *)
(***************************************************************************)
SeekToEnd(r) ==
  /\ AtRest(r)
  /\ reader' = [reader EXCEPT ![r].phase = "idle", ![r].pos = Size]
  /\ UNCHANGED <<cache, skewed>>

Seek(r) ==
  /\ AtRest(r)
  /\ \E p \in 0 .. Size - 1 :
       IF HasChunkFor(r, p)
       THEN reader' = [reader EXCEPT ![r].pos = p]
       ELSE Retrieve(r, p)
  /\ UNCHANGED <<cache, skewed>>

Read(r) ==
  /\ AtRest(r) /\ reader[r].pos < Size
  /\ LET p == reader[r].pos
         k == ChunkAt(p)
     IN  IF HasChunkFor(r, p)
         THEN \E n \in 1 .. First(k) + ChunkLen(k) - p :
                reader' = [reader EXCEPT ![r].pos = p + n]
         ELSE Retrieve(r, p)
  /\ UNCHANGED <<cache, skewed>>

(***************************************************************************)
(* get_chunk.                                                              *)
(***************************************************************************)
Loading(k) == \E r \in Reader : reader[r].phase = "loading" /\ reader[r].chunk = k

WaitsFor(u, r) == reader[u].phase = "waiting" /\ reader[u].chunk = reader[r].chunk

Ready(x, d, download) ==
  [x EXCEPT !.phase = "ready", !.data = d, !.download = download]

Hit(r) ==
  /\ reader[r].phase = "asking"
  /\ \E d \in cache[reader[r].chunk] :
       reader' = [reader EXCEPT ![r] = Ready(@, d, Size)]
  /\ UNCHANGED <<cache, skewed>>

Miss(r) ==
  /\ reader[r].phase = "asking" /\ cache[reader[r].chunk] = {}
  /\ IF Loading(reader[r].chunk)
     THEN reader' = [reader EXCEPT ![r].phase = "waiting"] /\ UNCHANGED skewed
     ELSE /\ reader' = [reader EXCEPT ![r].phase = "loading"]
          /\ skewed' = (skewed \/ reader[r].at # First(reader[r].chunk))
  /\ UNCHANGED cache

\* The whole chunk has been read from the download, if it is that long, and
\* the readers that waited for it have it too.
Load(r) ==
  LET k == reader[r].chunk
      end == reader[r].at + ChunkLen(k)
      d == Bytes(reader[r].at, ChunkLen(k))
  IN  /\ reader[r].phase = "loading" /\ end <= Size
      /\ cache' = [cache EXCEPT ![k] = {d}]
      /\ reader' = [u \in Reader |->
           CASE u = r          -> Ready(reader[u], d, end)
             [] WaitsFor(u, r) -> Ready(reader[u], d, Size)
             [] OTHER          -> reader[u]]
      /\ UNCHANGED skewed

\* The download breaks off, or is too short: an error for all of them.
LoadFails(r) ==
  /\ reader[r].phase = "loading"
  /\ reader' = [u \in Reader |->
       IF u = r \/ WaitsFor(u, r) THEN [reader[u] EXCEPT !.phase = "idle"] ELSE reader[u]]
  /\ UNCHANGED <<cache, skewed>>

\* The reader is dropped, and another one opened; one that waited for its
\* fetch will fetch instead.
Reopen(r) ==
  /\ reader' = [u \in Reader |->
       CASE u = r -> Fresh
         [] reader[r].phase = "loading" /\ WaitsFor(u, r) -> [reader[u] EXCEPT !.phase = "asking"]
         [] OTHER -> reader[u]]
  /\ UNCHANGED <<cache, skewed>>

Evict(k) ==
  /\ cache[k] # {}
  /\ cache' = [cache EXCEPT ![k] = {}]
  /\ UNCHANGED <<reader, skewed>>

ReaderStep(r) ==
  \/ SeekToEnd(r) \/ Seek(r) \/ Read(r)
  \/ Hit(r) \/ Miss(r) \/ Load(r) \/ LoadFails(r) \/ Reopen(r)

Next == (\E r \in Reader : ReaderStep(r)) \/ (\E k \in Index : Evict(k))

Spec == Init /\ [][Next]_vars

-----------------------------------------------------------------------------
\* What a reader returns at its position are the object's bytes from there
\* on, wherever callers have gone (reader.rs:177-193; the test at lib.rs:469).
\* The code does not keep this.
ReadersGetTheObject ==
  \A r \in Reader :
    (reader[r].pos < Size /\ HasChunkFor(r, reader[r].pos)) =>
      LET p == reader[r].pos
          k == ChunkAt(p)
      IN  \A i \in p - First(k) .. ChunkLen(k) - 1 : reader[r].data[i] = First(k) + i

\* They are, for all readers that share the cache, until one of them fetches a
\* chunk that nobody has from its middle, after a seek there: whatever is read,
\* fetched by one for all, kept to go on with, given up and evicted, and
\* wherever in what is cached or on its way they seek (reader.rs:97-117).
ReadsAreTheObject == ~skewed => ReadersGetTheObject
=============================================================================
