----------------------------- MODULE ClientProofs -----------------------------
(***************************************************************************)
(* What a client reads and changes of the remote, for objects, chunks,     *)
(* readers, releases, versions, volumes and processes in any number.       *)
(*                                                                         *)
(* Chunks: a reader that wants a chunk stands at the chunk's start, so     *)
(* what it fetches, for itself and for those that wait, is that chunk.     *)
(*                                                                         *)
(* Metadata: no entry of another release is ever read from the disk, and   *)
(* no cache has an older version than the last one known, but one that was *)
(* read before.                                                            *)
(*                                                                         *)
(* Commands: a command that has missed nothing adds its change to all      *)
(* those before it.                                                        *)
(***************************************************************************)
EXTENDS ChunkedReader, ObjectCaches, Commands, TLAPS

-----------------------------------------------------------------------------
(* Chunks. *)

USE SizeAssumption

\* Chunks do not overlap, and every position is in one.
LEMMA MulMono ==
  ASSUME NEW a \in Int, NEW b \in Int, a < b
  PROVE  a * ChunkSize + ChunkSize <= b * ChunkSize
<1> DEFINE n == ChunkSize
<1>1. n \in Nat /\ b - a - 1 \in Nat
  OBVIOUS
<1> HIDE DEF n
<1>2. (b - a - 1) * n >= 0
  BY <1>1
<1>3. (b - a - 1) * n = b * n - a * n - n
  BY <1>1
<1>4. a * n \in Int /\ b * n \in Int
  BY <1>1
<1>5. a * n + n <= b * n
  BY <1>1, <1>2, <1>3, <1>4
<1> QED BY <1>5 DEF n

\* Every position is in a chunk.
LEMMA PositionsInChunks ==
  ASSUME NEW p \in Nat
  PROVE  /\ ChunkAt(p) \in Nat /\ First(ChunkAt(p)) \in Nat
         /\ First(ChunkAt(p)) <= p /\ p < First(ChunkAt(p)) + ChunkSize
         /\ p % ChunkSize = 0 => First(ChunkAt(p)) = p
<1>1. p \div ChunkSize \in Nat /\ p = ChunkSize * (p \div ChunkSize) + (p % ChunkSize)
      /\ p % ChunkSize \in 0 .. ChunkSize - 1
  OBVIOUS
<1>2. (p \div ChunkSize) * ChunkSize = ChunkSize * (p \div ChunkSize)
  BY <1>1
<1> DEFINE q == (p \div ChunkSize) * ChunkSize
           m == p % ChunkSize
<1>3. q \in Nat
  BY <1>1
<1>4. p = q + m /\ m \in 0 .. ChunkSize - 1
  BY <1>1, <1>2
<1> HIDE DEF q, m
<1>5. q <= p /\ p < q + ChunkSize /\ (m = 0 => q = p)
  BY <1>3, <1>4
<1> QED BY <1>1, <1>3, <1>5 DEF ChunkAt, First, q, m

\* There is one such chunk only.
LEMMA ChunkIs ==
  ASSUME NEW p \in Nat, NEW k \in Nat, First(k) <= p, p < First(k) + ChunkSize
  PROVE  ChunkAt(p) = k
<1> DEFINE j == ChunkAt(p)
<1>1. j \in Nat /\ First(j) <= p /\ p < First(j) + ChunkSize
  BY PositionsInChunks
<1>2. First(j) \in Nat /\ First(k) \in Nat
  BY <1>1 DEF First
<1> HIDE DEF j
<1>3. ~(j < k)
  <2>1. j < k => First(j) + ChunkSize <= First(k)
    BY <1>1, MulMono DEF First
  <2> QED BY <1>1, <1>2, <2>1
<1>4. ~(k < j)
  <2>1. k < j => First(k) + ChunkSize <= First(j)
    BY <1>1, MulMono DEF First
  <2> QED BY <1>1, <1>2, <2>1
<1> QED BY <1>1, <1>3, <1>4 DEF j

\* Chunk k of the object.
Whole(k) == Bytes(First(k), ChunkLen(k))

\* Where chunk k ends the next begins, or the object ends.
End(k) == First(k) + ChunkLen(k)

\* p is where its chunk begins.
Aligned(p) == First(ChunkAt(p)) = p

\* A byte of the object is in a chunk of the object.
LEMMA LastChunk ==
  ASSUME NEW p \in Nat, p < Size
  PROVE  ChunkAt(p) \in Index
<1> DEFINE l == ChunkAt(Size - 1)
           k == ChunkAt(p)
<1>1. Size - 1 \in Nat /\ p <= Size - 1
  OBVIOUS
<1>2. l \in Nat /\ First(l) \in Nat /\ Size - 1 < First(l) + ChunkSize
  BY <1>1, PositionsInChunks
<1>3. k \in Nat /\ First(k) \in Nat /\ First(k) <= p
  BY PositionsInChunks
<1> HIDE DEF l, k
<1>4. ~(l < k)
  <2>1. l < k => First(l) + ChunkSize <= First(k)
    BY <1>2, <1>3, MulMono DEF First
  <2> QED BY <1>1, <1>2, <1>3, <2>1
<1>5. k \in 0 .. l
  BY <1>2, <1>3, <1>4
<1> QED BY <1>5 DEF k, l, ChunkAt, Index

\* A chunk that begins in the object ends there, and the next begins where it ends.
LEMMA ChunkBounds ==
  ASSUME NEW k \in Nat, First(k) < Size
  PROVE  /\ First(k) \in Nat /\ ChunkLen(k) \in Nat \ {0} /\ End(k) \in Nat /\ First(k) < End(k) /\ End(k) <= Size
         /\ ChunkAt(First(k)) = k /\ Aligned(First(k))
         /\ \A p \in Nat : First(k) <= p /\ p < End(k) => ChunkAt(p) = k
         /\ End(k) < Size => Aligned(End(k)) /\ ChunkAt(End(k)) # k
<1>1. First(k) \in Nat
  BY DEF First
<1>2. /\ ChunkLen(k) \in Nat \ {0} /\ ChunkLen(k) <= ChunkSize
      /\ First(k) + ChunkLen(k) <= Size
      /\ First(k) + ChunkLen(k) < Size => ChunkLen(k) = ChunkSize
  BY <1>1 DEF ChunkLen
<1>3. /\ End(k) \in Nat /\ First(k) < End(k) /\ End(k) <= Size /\ End(k) <= First(k) + ChunkSize
      /\ End(k) < Size => End(k) = First(k) + ChunkSize
  BY <1>1, <1>2 DEF End
<1>4. \A p \in Nat : First(k) <= p /\ p < End(k) => ChunkAt(p) = k
  <2> TAKE p \in Nat
  <2>1. p < End(k) => p < First(k) + ChunkSize
    BY <1>1, <1>3
  <2> QED BY <2>1, ChunkIs
<1>5. ChunkAt(First(k)) = k
  BY <1>1, <1>3, <1>4
<1>6. ASSUME End(k) < Size PROVE Aligned(End(k)) /\ ChunkAt(End(k)) # k
  <2>1. End(k) = First(k) + ChunkSize
    BY <1>3, <1>6
  <2>2. First(k + 1) = First(k) + ChunkSize
    <3> DEFINE n == ChunkSize
    <3>1. n \in Nat
      OBVIOUS
    <3> HIDE DEF n
    <3>2. (k + 1) * n = k * n + n
      BY <3>1
    <3> QED BY <3>2 DEF n, First
  <2>3. ChunkAt(End(k)) = k + 1
    <3>1. First(k + 1) <= End(k) /\ End(k) < First(k + 1) + ChunkSize /\ k + 1 \in Nat
      BY <1>3, <2>1, <2>2
    <3> QED BY <1>3, <3>1, ChunkIs
  <2> QED BY <2>1, <2>2, <2>3 DEF Aligned
<1> QED BY <1>1, <1>2, <1>3, <1>4, <1>5, <1>6 DEF Aligned

\* A position in the object is within its chunk.
LEMMA InItsChunk ==
  ASSUME NEW p \in Nat, p < Size
  PROVE  /\ ChunkAt(p) \in Nat /\ First(ChunkAt(p)) < Size
         /\ First(ChunkAt(p)) <= p /\ p <= End(ChunkAt(p))
<1> DEFINE f == First(ChunkAt(p))
<1>1. ChunkAt(p) \in Nat /\ f \in Nat /\ f <= p /\ p < f + ChunkSize
  BY PositionsInChunks
<1>2. End(ChunkAt(p)) = IF Size - f < ChunkSize THEN f + (Size - f) ELSE f + ChunkSize
  BY DEF End, ChunkLen
<1> HIDE DEF f
<1>3. f < Size /\ p <= End(ChunkAt(p))
  BY <1>1, <1>2, SizeAssumption
<1> QED BY <1>1, <1>3 DEF f

\* A reader's chunk is the object's, and it fetches none but from its start.
ReaderOK(x) ==
  /\ x \in [phase : {"idle", "asking", "waiting", "loading", "ready"}, pos : Pos, chunk : Nat,
            data : {x.data}, at : Nat, download : Nat]
  /\ x.phase \in {"asking", "waiting", "loading"} =>
       x.pos < Size /\ x.at = x.pos /\ x.chunk = ChunkAt(x.pos)
  /\ x.phase = "loading" => Aligned(x.pos)
  /\ x.phase = "ready" =>
       /\ x.data = Whole(x.chunk) /\ First(x.chunk) < Size
       /\ First(x.chunk) <= x.pos /\ x.pos <= End(x.chunk)

\* What is inductive of readers and their cache.
ReaderInv ==
  /\ cache \in [Index -> {{}} \cup {{Whole(k)} : k \in Index}]
  /\ \A k \in Index : cache[k] \subseteq {Whole(k)}
  /\ reader = [r \in Reader |-> reader[r]]
  /\ \A r \in Reader : ReaderOK(reader[r])

\* One reader moves.
LEMMA OneReaderMoves ==
  ASSUME ReaderInv, cache' = cache, NEW r \in Reader, NEW x, ReaderOK(x), reader' = [reader EXCEPT ![r] = x]
  PROVE  ReaderInv'
<1>1. \A u \in Reader : reader'[u] = IF u = r THEN x ELSE reader[u]
  BY DEF ReaderInv
<1> QED BY <1>1 DEF ReaderInv

\* A chunk is wanted from the place asked for, whether a download is at hand or not.
LEMMA RetrieveKeeps ==
  ASSUME ReaderInv, cache' = cache, NEW r \in Reader, NEW p \in Nat, p < Size, Retrieve(r, p)
  PROVE  ReaderInv'
<1> DEFINE x == [phase |-> "asking", pos |-> p, chunk |-> ChunkAt(p), data |-> Bytes(0, 0),
                 at |-> p, download |-> Size]
<1>1. reader' = [reader EXCEPT ![r] = x]
  <2> DEFINE a == IF reader[r].download = p THEN reader[r].download ELSE p
             y == [Fresh EXCEPT !.phase = "asking", !.pos = p, !.chunk = ChunkAt(p), !.at = a]
  <2>1. reader' = [reader EXCEPT ![r] = y]
    BY DEF Retrieve
  <2>2. a = p
    OBVIOUS
  <2> HIDE DEF a
  <2>3. y = [phase |-> "asking", pos |-> p, chunk |-> ChunkAt(p), data |-> Bytes(0, 0),
             at |-> a, download |-> Size]
    <3> DEFINE f == Fresh
               R(h, q, k, at) == [phase : {h}, pos : {q}, chunk : {k}, data : {Bytes(0, 0)}, at : {at}, download : {Size}]
    <3>1. f \in R("idle", 0, 0, 0)
      BY DEF Fresh
    <3> HIDE DEF f
    <3>2. [f EXCEPT !.phase = "asking", !.pos = p, !.chunk = ChunkAt(p), !.at = a] \in R("asking", p, ChunkAt(p), a)
      BY <3>1
    <3>3. y \in R("asking", p, ChunkAt(p), a)
      BY <3>2 DEF f
    <3> HIDE DEF y
    <3> QED BY <3>3
  <2> HIDE DEF y
  <2> QED BY <2>1, <2>2, <2>3
<1>2. p \in Pos /\ ChunkAt(p) \in Nat
  BY PositionsInChunks DEF Pos
<1>3. ReaderOK(x)
  BY <1>2 DEF ReaderOK
<1> HIDE DEF x
<1> QED BY <1>1, <1>3, OneReaderMoves

\* What changes of a reader.
LEMMA MovedReader ==
  ASSUME NEW x, ReaderOK(x), NEW p \in Pos, NEW h \in {"idle", "asking", "waiting", "loading", "ready"}
  PROVE  LET y == [x EXCEPT !.phase = h, !.pos = p]
         IN  /\ y \in [phase : {h}, pos : {p}, chunk : {x.chunk}, data : {x.data}, at : {x.at}, download : {x.download}]
             /\ y \in [phase : {"idle", "asking", "waiting", "loading", "ready"}, pos : Pos, chunk : Nat,
                       data : {y.data}, at : Nat, download : Nat]
             /\ y.phase = h /\ y.pos = p /\ y.chunk = x.chunk /\ y.data = x.data /\ y.at = x.at
BY DEF ReaderOK

\* At the end nothing is needed.
LEMMA SeekToEndKeeps ==
  ASSUME ReaderInv, NEW r \in Reader, SeekToEnd(r)
  PROVE  ReaderInv'
<1> DEFINE y == [reader[r] EXCEPT !.phase = "idle", !.pos = Size]
<1>1. ReaderOK(reader[r]) /\ Size \in Pos
  BY DEF ReaderInv, Pos
<1>2. ReaderOK(y)
  BY <1>1, MovedReader DEF ReaderOK
<1>3. reader' = [reader EXCEPT ![r] = y] /\ cache' = cache
  BY DEF SeekToEnd, ReaderInv
<1> HIDE DEF y
<1> QED BY <1>2, <1>3, OneReaderMoves

\* A reader that has the chunk moves within it.
LEMMA WithinKeeps ==
  ASSUME ReaderInv, NEW r \in Reader, reader[r].phase = "ready", NEW p \in Pos,
         First(reader[r].chunk) <= p, p <= End(reader[r].chunk),
         reader' = [reader EXCEPT ![r].pos = p], cache' = cache
  PROVE  ReaderInv'
<1> DEFINE y == [reader[r] EXCEPT !.phase = "ready", !.pos = p]
<1>1. ReaderOK(reader[r])
  BY DEF ReaderInv
<1>2. ReaderOK(y)
  BY <1>1, MovedReader DEF ReaderOK
<1>3. y = [reader[r] EXCEPT !.pos = p]
  BY <1>1 DEF ReaderOK
<1>4. reader' = [reader EXCEPT ![r] = y]
  BY <1>3 DEF ReaderInv
<1> HIDE DEF y
<1> QED BY <1>2, <1>4, OneReaderMoves

\* Seeking, in the chunk the reader has or elsewhere.
LEMMA SeekKeeps ==
  ASSUME ReaderInv, NEW r \in Reader, Seek(r)
  PROVE  ReaderInv'
<1>1. PICK p \in 0 .. Size - 1 : IF HasChunkFor(r, p)
                                THEN reader' = [reader EXCEPT ![r].pos = p]
                                ELSE Retrieve(r, p)
  BY DEF Seek
<1>2. cache' = cache /\ p \in Nat /\ p < Size /\ p \in Pos
  BY DEF Seek, Pos
<1>3. CASE HasChunkFor(r, p)
  <2>1. reader[r].phase = "ready" /\ reader[r].chunk = ChunkAt(p) /\ reader' = [reader EXCEPT ![r].pos = p]
    BY <1>1, <1>3 DEF HasChunkFor
  <2>2. First(ChunkAt(p)) <= p /\ p <= End(ChunkAt(p))
    BY <1>2, InItsChunk
  <2> QED BY <1>2, <2>1, <2>2, WithinKeeps
<1>4. CASE ~HasChunkFor(r, p)
  BY <1>1, <1>2, <1>4, RetrieveKeeps
<1> QED BY <1>3, <1>4

\* Reading what is there, or wanting the next chunk.
LEMMA ReadKeeps ==
  ASSUME ReaderInv, NEW r \in Reader, Read(r)
  PROVE  ReaderInv'
<1> DEFINE p == reader[r].pos
<1>1. AtRest(r) /\ p < Size /\ cache' = cache /\ ReaderOK(reader[r]) /\ p \in Nat
  BY DEF Read, ReaderInv, ReaderOK, Pos
<1>2. CASE HasChunkFor(r, p)
  <2> DEFINE k == ChunkAt(p)
  <2>1. PICK n \in 1 .. First(k) + ChunkLen(k) - p : reader' = [reader EXCEPT ![r].pos = p + n]
    BY <1>2 DEF Read
  <2>2. reader[r].phase = "ready" /\ reader[r].chunk = k
    BY <1>2 DEF HasChunkFor
  <2>3. k \in Nat /\ First(k) < Size /\ First(k) <= p
    BY <1>1, <2>2 DEF ReaderOK
  <2> HIDE DEF k, p
  <2>4. First(k) \in Nat /\ ChunkLen(k) \in Nat /\ End(k) <= Size /\ End(k) = First(k) + ChunkLen(k)
    BY <2>3, ChunkBounds DEF End
  <2>5. p + n \in Pos /\ First(k) <= p + n /\ p + n <= End(k)
    BY <1>1, <2>3, <2>4 DEF Pos
  <2> QED BY <1>1, <2>1, <2>2, <2>5, WithinKeeps
<1>3. CASE ~HasChunkFor(r, p)
  <2>1. Retrieve(r, p)
    BY <1>3 DEF Read
  <2> QED BY <1>1, <2>1, RetrieveKeeps
<1> QED BY <1>2, <1>3

\* A reader that wants a chunk may go on wanting it, give up, get it, or fetch it from its start.
LEMMA WantingReader ==
  ASSUME NEW x, ReaderOK(x), x.phase \in {"asking", "waiting", "loading"}
  PROVE  /\ x.chunk \in Index
         /\ x.at = First(x.chunk) <=> Aligned(x.pos)
         /\ \A h \in {"idle", "asking", "waiting", "loading"} :
              (h = "loading" => Aligned(x.pos)) => ReaderOK([x EXCEPT !.phase = h])
         /\ \A n \in Nat : ReaderOK(Ready(x, Whole(x.chunk), n))
<1>1. /\ x.pos \in Nat /\ x.pos \in Pos /\ x.pos < Size /\ x.at = x.pos
      /\ x.chunk = ChunkAt(x.pos) /\ x.chunk \in Nat
  BY DEF ReaderOK, Pos
<1>2. x.chunk \in Index /\ (x.at = First(x.chunk) <=> Aligned(x.pos))
  BY <1>1, LastChunk DEF Aligned
<1>3. ASSUME NEW h \in {"idle", "asking", "waiting", "loading"}, h = "loading" => Aligned(x.pos)
      PROVE  ReaderOK([x EXCEPT !.phase = h])
  <2> DEFINE y == [x EXCEPT !.phase = h]
  <2>1. /\ y \in [phase : {"idle", "asking", "waiting", "loading", "ready"}, pos : Pos, chunk : Nat,
                  data : {y.data}, at : Nat, download : Nat]
        /\ y.phase = h /\ y.pos = x.pos /\ y.chunk = x.chunk /\ y.at = x.at
    BY DEF ReaderOK
  <2> HIDE DEF y
  <2>2. ReaderOK(y)
    BY <1>1, <1>3, <2>1 DEF ReaderOK
  <2> QED BY <2>2 DEF y
<1>4. ASSUME NEW n \in Nat PROVE ReaderOK(Ready(x, Whole(x.chunk), n))
  <2> DEFINE d == Whole(x.chunk)
             y == Ready(x, d, n)
  <2> HIDE DEF d
  <2>1. /\ y \in [phase : {"idle", "asking", "waiting", "loading", "ready"}, pos : Pos, chunk : Nat,
                  data : {y.data}, at : Nat, download : Nat]
        /\ y.phase = "ready" /\ y.pos = x.pos /\ y.chunk = x.chunk /\ y.data = d
    BY DEF ReaderOK, Ready
  <2> HIDE DEF y
  <2>2. First(x.chunk) < Size /\ First(x.chunk) <= x.pos /\ x.pos <= End(x.chunk)
    BY <1>1, InItsChunk
  <2>3. ReaderOK(y)
    BY <2>1, <2>2 DEF ReaderOK, d
  <2> QED BY <2>3 DEF y, d
<1> QED BY <1>2, <1>3, <1>4

\* What is cached is the chunk.
LEMMA HitKeeps ==
  ASSUME ReaderInv, NEW r \in Reader, Hit(r)
  PROVE  ReaderInv'
<1> DEFINE x == reader[r]
<1>1. ReaderOK(x) /\ x.phase = "asking" /\ cache' = cache
  BY DEF ReaderInv, Hit
<1>2. PICK d \in cache[x.chunk] : reader' = [reader EXCEPT ![r] = Ready(x, d, Size)]
  BY DEF Hit
<1>3. d = Whole(x.chunk) /\ ReaderOK(Ready(x, d, Size))
  BY <1>1, WantingReader DEF ReaderInv
<1> HIDE DEF x
<1> QED BY <1>1, <1>2, <1>3, OneReaderMoves

\* A reader waits or fetches.
LEMMA MissKeeps ==
  ASSUME ReaderInv, ~skewed', NEW r \in Reader, Miss(r)
  PROVE  ReaderInv'
<1> DEFINE h == IF Loading(reader[r].chunk) THEN "waiting" ELSE "loading"
           y == [reader[r] EXCEPT !.phase = h]
<1>1. ReaderOK(reader[r]) /\ reader[r].phase = "asking" /\ cache' = cache
  BY DEF ReaderInv, Miss
<1>2. reader' = [reader EXCEPT ![r] = y]
  BY DEF Miss, ReaderInv
<1>3. /\ h \in {"idle", "asking", "waiting", "loading"}
      /\ h = "loading" => reader[r].at = First(reader[r].chunk)
  BY DEF Miss
<1> HIDE DEF h
<1>4. ReaderOK(y)
  BY <1>1, <1>3, WantingReader
<1> HIDE DEF y
<1> QED BY <1>1, <1>2, <1>4, OneReaderMoves

\* The fetch ends for all who wanted the chunk.
LEMMA LoadKeeps ==
  ASSUME ReaderInv, NEW r \in Reader, Load(r)
  PROVE  ReaderInv'
<1> DEFINE k == reader[r].chunk
           d == Bytes(reader[r].at, ChunkLen(k))
           end == reader[r].at + ChunkLen(k)
<1>1. /\ reader[r].phase = "loading" /\ ReaderOK(reader[r])
      /\ cache' = [cache EXCEPT ![k] = {d}]
      /\ reader' = [u \in Reader |->
           CASE u = r          -> Ready(reader[u], d, end)
             [] WaitsFor(u, r) -> Ready(reader[u], d, Size)
             [] OTHER          -> reader[u]]
  BY DEF Load, ReaderInv
<1>2. k \in Index /\ reader[r].at = First(k) /\ d = Whole(k)
  <2>1. Aligned(reader[r].pos)
    BY <1>1 DEF ReaderOK
  <2>2. k \in Index /\ reader[r].at = First(k)
    BY <1>1, <2>1, WantingReader
  <2> QED BY <2>2 DEF Whole
<1>3. end \in Nat
  <2>1. k \in Nat /\ reader[r].at < Size
    BY <1>1 DEF ReaderOK
  <2> QED BY <1>2, <2>1, ChunkBounds DEF End
<1> HIDE DEF end, d
<1>4. ASSUME NEW u \in Reader PROVE ReaderOK(reader'[u])
  <2>1. ReaderOK(reader[u])
    BY DEF ReaderInv
  <2>2. CASE u = r
    <3>1. reader'[r] = Ready(reader[r], d, end)
      BY <1>1 DEF WaitsFor
    <3>2. ReaderOK(Ready(reader[r], d, end))
      BY <1>1, <1>2, <1>3, WantingReader
    <3> QED BY <2>2, <3>1, <3>2
  <2>3. CASE u # r /\ WaitsFor(u, r)
    <3>1. reader'[u] = Ready(reader[u], Whole(reader[u].chunk), Size) /\ reader[u].phase = "waiting"
      BY <1>1, <1>2, <2>3 DEF WaitsFor
    <3> QED BY <2>1, <3>1, WantingReader
  <2>4. CASE u # r /\ ~WaitsFor(u, r)
    BY <1>1, <2>1, <2>4
  <2> QED BY <2>2, <2>3, <2>4
<1>5. reader' = [u \in Reader |-> reader'[u]]
  BY <1>1
<1>6. /\ cache' \in [Index -> {{}} \cup {{Whole(j)} : j \in Index}]
      /\ \A j \in Index : cache'[j] \subseteq {Whole(j)}
  BY <1>1, <1>2 DEF ReaderInv
<1> QED BY <1>4, <1>5, <1>6 DEF ReaderInv

\* Or fails for them.
LEMMA LoadFailsKeeps ==
  ASSUME ReaderInv, NEW r \in Reader, LoadFails(r)
  PROVE  ReaderInv'
<1>1. /\ reader[r].phase = "loading" /\ cache' = cache
      /\ reader' = [u \in Reader |->
           IF u = r \/ WaitsFor(u, r) THEN [reader[u] EXCEPT !.phase = "idle"] ELSE reader[u]]
  BY DEF LoadFails
<1>2. ASSUME NEW u \in Reader PROVE ReaderOK(reader'[u])
  <2>1. ReaderOK(reader[u])
    BY DEF ReaderInv
  <2>2. CASE u = r \/ WaitsFor(u, r)
    <3>1. reader'[u] = [reader[u] EXCEPT !.phase = "idle"] /\ reader[u].phase \in {"waiting", "loading"}
      BY <1>1, <2>2 DEF WaitsFor
    <3>2. ReaderOK([reader[u] EXCEPT !.phase = "idle"])
      BY <2>1, <3>1, WantingReader
    <3> QED BY <3>1, <3>2
  <2>3. CASE ~(u = r \/ WaitsFor(u, r))
    BY <1>1, <2>1, <2>3
  <2> QED BY <2>2, <2>3
<1>3. reader' = [u \in Reader |-> reader'[u]]
  BY <1>1
<1> QED BY <1>1, <1>2, <1>3 DEF ReaderInv

\* A reader starts at the start.
LEMMA FreshReader == ReaderOK(Fresh)
<1>1. Fresh.phase = "idle" /\ Fresh.pos = 0 /\ Fresh.chunk = 0
  BY DEF Fresh
<1>2. Fresh \in [phase : {"idle"}, pos : Pos, chunk : Nat, data : {Fresh.data}, at : Nat, download : Nat]
  BY DEF Fresh, Pos
<1> QED BY <1>1, <1>2 DEF ReaderOK

\* A reader is dropped.
LEMMA ReopenKeeps ==
  ASSUME ReaderInv, NEW r \in Reader, Reopen(r)
  PROVE  ReaderInv'
<1>1. /\ cache' = cache
      /\ reader' = [u \in Reader |->
           CASE u = r -> Fresh
             [] reader[r].phase = "loading" /\ WaitsFor(u, r) -> [reader[u] EXCEPT !.phase = "asking"]
             [] OTHER -> reader[u]]
  BY DEF Reopen
<1>2. ASSUME NEW u \in Reader PROVE ReaderOK(reader'[u])
  <2>1. ReaderOK(reader[u])
    BY DEF ReaderInv
  <2>2. CASE u = r
    <3>1. reader'[r] = Fresh
      BY <1>1 DEF WaitsFor
    <3> QED BY <2>2, <3>1, FreshReader
  <2>3. CASE u # r /\ reader[r].phase = "loading" /\ WaitsFor(u, r)
    <3>1. reader'[u] = [reader[u] EXCEPT !.phase = "asking"] /\ reader[u].phase = "waiting"
      BY <1>1, <2>3 DEF WaitsFor
    <3> QED BY <2>1, <3>1, WantingReader
  <2>4. CASE u # r /\ ~(reader[r].phase = "loading" /\ WaitsFor(u, r))
    BY <1>1, <2>1, <2>4
  <2> QED BY <2>2, <2>3, <2>4
<1>3. reader' = [u \in Reader |-> reader'[u]]
  BY <1>1
<1> QED BY <1>1, <1>2, <1>3 DEF ReaderInv

\* All the steps of readers, and evictions, that do not skew.
LEMMA ReaderStepKeeps ==
  ASSUME ReaderInv, ~skewed', [Next]_vars
  PROVE  ReaderInv'
<1>1. CASE \E k \in Index : Evict(k)
  <2>1. PICK k \in Index : cache' = [cache EXCEPT ![k] = {}]
    BY <1>1 DEF Evict
  <2>2. reader' = reader
    BY <1>1 DEF Evict
  <2>3. /\ cache' \in [Index -> {{}} \cup {{Whole(j)} : j \in Index}]
        /\ \A j \in Index : cache'[j] \subseteq {Whole(j)}
    BY <2>1 DEF ReaderInv
  <2> QED BY <2>2, <2>3 DEF ReaderInv
<1>2. CASE UNCHANGED vars
  BY <1>2 DEF vars, ReaderInv
<1> QED BY <1>1, <1>2, SeekToEndKeeps, SeekKeeps, ReadKeeps, HitKeeps, MissKeeps, LoadKeeps, LoadFailsKeeps, ReopenKeeps
        DEF Next, ReaderStep

\* What is skewed stays so.
LEMMA SkewedStays ==
  ASSUME [Next]_vars, skewed
  PROVE  skewed'
<1>1. ASSUME NEW r \in Reader, Miss(r) PROVE skewed'
  BY <1>1 DEF Miss
<1>2. CASE UNCHANGED skewed
  BY <1>2
<1>3. CASE \E r \in Reader : Miss(r)
  BY <1>1, <1>3
<1>4. (\E r \in Reader : Miss(r)) \/ UNCHANGED skewed
  BY DEF Next, ReaderStep, vars, SeekToEnd, Seek, Read, Hit, Load, LoadFails, Reopen, Evict
<1> QED BY <1>2, <1>3, <1>4

\* A reader returns the object's bytes from its position on, whatever others read, fetch,
\* give up and evict, until one fetches a chunk nobody has from its middle (reader.rs:177-193).
THEOREM ReadersReadTheObject == Spec => []ReadsAreTheObject
<1>1. Init => ReaderInv
  <2> SUFFICES ASSUME Init PROVE ReaderInv
    OBVIOUS
  <2>1. cache = [k \in Index |-> {}] /\ reader = [r \in Reader |-> Fresh]
    BY DEF Init
  <2> QED BY <2>1, FreshReader DEF ReaderInv
<1>2. (~skewed => ReaderInv) /\ [Next]_vars => (~skewed => ReaderInv)'
  <2> SUFFICES ASSUME ~skewed => ReaderInv, [Next]_vars, ~skewed' PROVE ReaderInv'
    OBVIOUS
  <2>1. ~skewed
    BY SkewedStays
  <2> QED BY <2>1, ReaderStepKeeps
<1>3. ReaderInv => ReadersGetTheObject
  <2> SUFFICES ASSUME ReaderInv, NEW r \in Reader, reader[r].pos < Size, HasChunkFor(r, reader[r].pos)
               PROVE  LET p == reader[r].pos
                          k == ChunkAt(p)
                      IN  \A i \in p - First(k) .. ChunkLen(k) - 1 : reader[r].data[i] = First(k) + i
    BY DEF ReadersGetTheObject
  <2> DEFINE p == reader[r].pos
             k == ChunkAt(p)
  <2>1. /\ reader[r].data = Whole(k) /\ k \in Nat /\ First(k) < Size
        /\ First(k) <= p /\ p \in Nat
    BY DEF ReaderInv, ReaderOK, HasChunkFor, Pos
  <2>2. First(k) \in Nat /\ ChunkLen(k) \in Nat
    BY <2>1, ChunkBounds
  <2> HIDE DEF p, k
  <2>3. ASSUME NEW i \in p - First(k) .. ChunkLen(k) - 1 PROVE reader[r].data[i] = First(k) + i
    <3>1. i \in 0 .. ChunkLen(k) - 1
      BY <2>1, <2>2
    <3> QED BY <2>1, <3>1 DEF Whole, Bytes
  <2> QED BY <2>3 DEF p, k
<1>4. (~skewed => ReaderInv) => ReadsAreTheObject
  BY <1>3 DEF ReadsAreTheObject
<1> QED BY <1>1, <1>2, <1>4, PTL DEF Spec

-----------------------------------------------------------------------------
(* Metadata. *)

Phases == {"off", "opened", "clearing", "naming", "listing", "running"}

ProcessOK == process \in [phase : Phases, release : Release, starts : Nat, backed : BOOLEAN]

Marked(V, r) == [version : V, by : {r}, broken : BOOLEAN]

EntriesOK == \A e \in disk : e \in Marked({e.version}, e.by)

\* Only a running process looks objects up or changes its caches.
Quiet ==
  process.phase # "running" =>
    lookup.phase = "idle" /\ \A w \in Writer : writer[w].phase = "idle"

\* Whatever is on disk is of the release the context file names, even while no process
\* runs and while one of another release is about to clear it.
NamedByFile == \A e \in disk : file = {e.by}

OnlyWhenBacked == ~process.backed => disk = {}

ClearedBeforeNaming == process.phase = "naming" => disk = {}

FileIsOurs == process.backed /\ process.phase \in {"listing", "running"} => file = {process.release}

IInv ==
  /\ ProcessOK /\ EntriesOK /\ Quiet
  /\ NamedByFile /\ OnlyWhenBacked /\ ClearedBeforeNaming /\ FileIsOurs

USE DEF Phases

\* What is put on disk is marked with the release of the process, and nothing is put there
\* without a disk cache (cache/metadata.rs, L2MetadataCache).
LEMMA OnDiskIsOurs ==
  ASSUME NEW V, NEW e \in OnDisk(V)
  PROVE  /\ process.backed
         /\ e.by = process.release
         /\ e \in Marked({e.version}, e.by)
<1>1. process.backed
  BY DEF OnDisk
<1>2. PICK v \in V : e = [version |-> v, by |-> process.release, broken |-> FALSE]
  BY <1>1 DEF OnDisk, Entry
<1>3. e.version = v /\ e.by = process.release
  BY <1>2
<1>4. e \in Marked({v}, process.release)
  BY <1>2 DEF Marked
<1> QED BY <1>1, <1>3, <1>4

\* A broken entry is still of its release.
LEMMA BrokenEntry ==
  ASSUME NEW e, e \in Marked({e.version}, e.by)
  PROVE  LET b == [e EXCEPT !.broken = TRUE]
         IN b \in Marked({b.version}, b.by) /\ b.by = e.by
BY DEF Marked

\* In a process that lists or runs, putting entries on disk keeps the invariant.
LEMMA PuttingKeepsOrder ==
  ASSUME IInv, process' = process \/ (process.phase = "listing" /\ process' = [process EXCEPT !.phase = "running"]),
         process.phase \in {"listing", "running"}, UNCHANGED file, NEW V, disk' = OnDisk(V)
  PROVE  EntriesOK' /\ NamedByFile' /\ OnlyWhenBacked' /\ ClearedBeforeNaming' /\ FileIsOurs'
<1>1. /\ process'.backed = process.backed /\ process'.release = process.release
      /\ process'.phase \in {"listing", "running"}
  BY DEF IInv, ProcessOK
<1>2. EntriesOK'
  BY OnDiskIsOurs DEF EntriesOK
<1>3. NamedByFile'
  BY OnDiskIsOurs DEF NamedByFile, IInv, FileIsOurs
<1>4. OnlyWhenBacked'
  BY <1>1, OnDiskIsOurs DEF OnlyWhenBacked
<1>5. ClearedBeforeNaming' /\ FileIsOurs'
  BY <1>1 DEF ClearedBeforeNaming, FileIsOurs, IInv
<1> QED BY <1>2, <1>3, <1>4, <1>5

\* A step that leaves the disk, the file and the process alone keeps the invariant, if only
\* a running process takes it.
LEMMA ElsewhereKeepsOrder ==
  ASSUME IInv, UNCHANGED <<disk, file, process>>,
         process.phase = "running" \/ UNCHANGED <<lookup, writer>>
  PROVE  IInv'
BY DEF IInv, ProcessOK, EntriesOK, Quiet, NamedByFile, OnlyWhenBacked, ClearedBeforeNaming, FileIsOurs

\* Taking entries off the disk keeps the invariant too.
LEMMA RemovingKeepsOrder ==
  ASSUME IInv, disk' = {}, UNCHANGED <<file, process>>,
         process.phase = "running" \/ UNCHANGED <<lookup, writer>>
  PROVE  IInv'
BY DEF IInv, ProcessOK, EntriesOK, Quiet, NamedByFile, OnlyWhenBacked, ClearedBeforeNaming, FileIsOurs

LEMMA InitIsOrdered == ObjectsInit => IInv
BY DEF ObjectsInit, IInv, ProcessOK, EntriesOK, Quiet, NamedByFile, OnlyWhenBacked, ClearedBeforeNaming, FileIsOurs, Idle

\* The start and the end of a process, wherever they fall.
LEMMA StartingKeepsOrder ==
  ASSUME IInv, Open \/ CheckContext \/ ClearEntries \/ WriteContext \/ ListAtStart \/ Die
  PROVE  IInv'
<1> USE DEF IInv, ProcessOK
<1>1. CASE Open
  <2>1. PICK r \in Release :
          process' = [process EXCEPT !.phase = IF process.backed THEN "opened" ELSE "listing",
                                     !.release = r, !.starts = @ + 1]
    BY <1>1 DEF Open
  <2>2. process' \in [phase : {"opened", "listing"}, release : Release, starts : Nat, backed : BOOLEAN]
        /\ process'.backed = process.backed
        /\ (process'.phase = "listing" => ~process.backed)
    <3>1. process.starts + 1 \in Nat
      OBVIOUS
    <3> DEFINE p == IF process.backed THEN "opened" ELSE "listing"
    <3>2. process' = [phase |-> p, release |-> r, starts |-> process.starts + 1, backed |-> process.backed]
      BY <2>1
    <3> QED BY <3>1, <3>2
  <2>3. UNCHANGED <<disk, file, lookup, writer>> /\ process.phase = "off"
    BY <1>1 DEF Open
  <2> QED BY <2>2, <2>3 DEF EntriesOK, Quiet, NamedByFile, OnlyWhenBacked, ClearedBeforeNaming, FileIsOurs
<1>2. CASE CheckContext
  BY <1>2 DEF CheckContext, Phase, Compatible, EntriesOK, Quiet, NamedByFile, OnlyWhenBacked, ClearedBeforeNaming, FileIsOurs
<1>3. CASE ClearEntries
  BY <1>3 DEF ClearEntries, Phase, EntriesOK, Quiet, NamedByFile, OnlyWhenBacked, ClearedBeforeNaming, FileIsOurs
<1>4. CASE WriteContext
  BY <1>4 DEF WriteContext, Phase, EntriesOK, Quiet, NamedByFile, OnlyWhenBacked, ClearedBeforeNaming, FileIsOurs
<1>5. CASE ListAtStart
  <2>1. ProcessOK' /\ Quiet'
    BY <1>5 DEF ListAtStart, Phase, Quiet
  <2>2. CASE remote = 0
    BY <1>5, <2>1, <2>2 DEF ListAtStart, Phase, EntriesOK, NamedByFile, OnlyWhenBacked, ClearedBeforeNaming, FileIsOurs
  <2>3. CASE remote # 0
    BY <1>5, <2>1, <2>3, PuttingKeepsOrder DEF ListAtStart, Phase
  <2> QED BY <2>2, <2>3
<1>6. CASE Die
  BY <1>6 DEF Die, Phase, Idle, EntriesOK, Quiet, NamedByFile, OnlyWhenBacked, ClearedBeforeNaming, FileIsOurs
<1> QED BY <1>1, <1>2, <1>3, <1>4, <1>5, <1>6

\* A lookup, at each of its steps.
LEMMA LookingUpKeepsOrder ==
  ASSUME IInv, MissObject \/ ReadDisk \/ AskBackend \/ FillDisk \/ FillMemory
  PROVE  IInv'
<1>1. process.phase = "running" /\ UNCHANGED <<file, process, writer>>
  BY DEF MissObject, Running, ReadDisk, AskBackend, FillDisk, FillMemory, IInv, Quiet
<1>2. CASE MissObject \/ AskBackend \/ FillMemory
  BY <1>1, <1>2, ElsewhereKeepsOrder DEF MissObject, AskBackend, FillMemory
<1>3. CASE ReadDisk
  <2>1. UNCHANGED disk \/ disk' = {}
    BY <1>3 DEF ReadDisk
  <2> QED BY <1>1, <2>1, ElsewhereKeepsOrder, RemovingKeepsOrder
<1>4. CASE FillDisk
  <2>1. disk' = OnDisk({lookup.version})
    BY <1>4 DEF FillDisk
  <2>2. ProcessOK' /\ Quiet'
    BY <1>1 DEF IInv, ProcessOK, Quiet
  <2> QED BY <1>1, <2>1, <2>2, PuttingKeepsOrder DEF IInv
<1> QED BY <1>2, <1>3, <1>4

\* An update or a delete, made here or told by the event loop.
LEMMA ChangingKeepsOrder ==
  ASSUME IInv, NEW w \in Writer, ChangeCaches(w)
  PROVE  IInv'
<1>1. process.phase = "running" /\ UNCHANGED <<file, process>>
  BY DEF ChangeCaches, FirstHalf, SecondHalf, IInv, Quiet
<1>2. CASE SetDisk(w)
  <2>1. disk' = OnDisk(Versions(writer[w].version))
    BY <1>2 DEF SetDisk
  <2>2. ProcessOK' /\ Quiet'
    BY <1>1 DEF IInv, ProcessOK, Quiet
  <2> QED BY <1>1, <2>1, <2>2, PuttingKeepsOrder DEF IInv
<1>3. CASE SetMemory(w)
  BY <1>1, <1>3, ElsewhereKeepsOrder DEF SetMemory
<1> QED BY <1>2, <1>3 DEF ChangeCaches

LEMMA StepKeepsOrder == IInv /\ [ObjectsNext]_cacheVars => IInv'
<1> SUFFICES ASSUME IInv, [ObjectsNext]_cacheVars PROVE IInv'
  OBVIOUS
<1>1. CASE Open \/ CheckContext \/ ClearEntries \/ WriteContext \/ ListAtStart \/ Die
  BY <1>1, StartingKeepsOrder
<1>2. CASE MissObject \/ ReadDisk \/ AskBackend \/ FillDisk \/ FillMemory
  BY <1>2, LookingUpKeepsOrder
<1>3. CASE TakeEvent \/ OwnChange
  BY <1>3, ElsewhereKeepsOrder DEF TakeEvent, OwnChange, Running
<1>4. CASE OthersChange \/ EvictMemory
  BY <1>4, ElsewhereKeepsOrder DEF OthersChange, EvictMemory
<1>5. CASE \E w \in Writer : ChangeCaches(w)
  BY <1>5, ChangingKeepsOrder
<1>6. CASE EvictDisk
  BY <1>6, RemovingKeepsOrder DEF EvictDisk
<1>7. CASE Break
  <2>1. PICK e \in disk : disk' = {[e EXCEPT !.broken = TRUE]}
    BY <1>7 DEF Break
  <2>2. UNCHANGED <<file, process, lookup, writer>>
    BY <1>7 DEF Break
  <2>3. LET b == [e EXCEPT !.broken = TRUE]
        IN b \in Marked({b.version}, b.by) /\ b.by = e.by
    BY BrokenEntry DEF IInv, EntriesOK
  <2>4. disk # {}
    OBVIOUS
  <2>5. EntriesOK' /\ NamedByFile'
    BY <2>1, <2>2, <2>3 DEF IInv, EntriesOK, NamedByFile
  <2> QED BY <2>2, <2>4, <2>5 DEF IInv, ProcessOK, Quiet, OnlyWhenBacked, ClearedBeforeNaming, FileIsOurs
<1>8. CASE UNCHANGED cacheVars
  BY <1>8, ElsewhereKeepsOrder DEF cacheVars
<1> QED BY <1>1, <1>2, <1>3, <1>4, <1>5, <1>6, <1>7, <1>8 DEF ObjectsNext

LEMMA OrderMeansOurs == IInv => EntriesAreOurs
<1> SUFFICES ASSUME IInv, process.phase \in {"listing", "running"}, NEW e \in disk
             PROVE  e.by = process.release
  BY DEF EntriesAreOurs
<1>1. file = {e.by} /\ process.backed
  BY DEF IInv, NamedByFile, OnlyWhenBacked, ProcessOK
<1>2. file = {process.release}
  BY <1>1 DEF IInv, FileIsOurs
<1> QED BY <1>1, <1>2

\* No entry of another release is ever read, for every set of releases and every number of
\* starts and crashes (disk_cache.rs:50).
THEOREM ReadsOnlyItsOwn == ObjectsSpec => []EntriesAreOurs
<1>1. ObjectsSpec => []IInv
  BY InitIsOrdered, StepKeepsOrder, PTL DEF ObjectsSpec
<1> QED BY <1>1, OrderMeansOurs, PTL

USE MaxVersionAssumption

\* What the objects are that go through the caches.
LookupOK ==
  lookup \in [phase : {"idle"}] \cup [phase : {"disk", "backend"}, old : BOOLEAN]
             \cup [phase : {"fill", "found"}, version : {lookup.version}, old : BOOLEAN]

WriterOK ==
  writer \in [Writer -> [phase : {"idle"}]
                        \cup [phase : {"first", "second"}, version : Nat, old : BOOLEAN]]

\* A version the object has or had, and will not have again.
Past(v) == v \in Nat /\ (remote # 0 => v # 0 /\ v <= remote)

PastOnly ==
  /\ remote \in Nat /\ late \in BOOLEAN
  /\ told = Unheard \/ Past(told)
  /\ \A w \in Writer : writer[w].phase # "idle" => Past(writer[w].version)
  /\ process.phase # "running" => told = Unheard

\* The disk and whoever reads it have the version that counts, or none.
DiskIsCurrent ==
  /\ \A e \in disk : e.version \in Versions(remote)
  /\ lookup.phase \in {"fill", "found"} /\ ~lookup.old => lookup.version \in Versions(remote)

\* A writer halfway through the last change; an older change that ends meanwhile is late.
Halfway(w) ==
  writer[w].phase = "second" /\ ~writer[w].old /\ writer[w].version = remote /\ ~late

HalfIsCurrent ==
  \A w \in Writer : Halfway(w) =>
    DiskIsCurrent /\ \A u \in Writer \ {w} : writer[u].phase = "second" => writer[u].old

\* The last change has been through both caches and no other is halfway.
Settled == Running /\ told = remote /\ ~late /\ \A w \in Writer : writer[w].phase # "second"

SettledIsCurrent == Settled => DiskIsCurrent /\ memory \subseteq Versions(remote)

\* What is inductive of the values cached.
ValuesInv ==
  LookupOK /\ WriterOK /\ Quiet /\ PastOnly /\ HalfIsCurrent /\ SettledIsCurrent

\* A step that is neither a change nor one of its halves.
LEMMA BesideKeepsValues ==
  ASSUME ValuesInv, UNCHANGED <<remote, told, writer, process>>, LookupOK', Quiet', late' \in BOOLEAN,
         late => late',
         ~late' /\ DiskIsCurrent => DiskIsCurrent',
         ~late' /\ DiskIsCurrent /\ memory \subseteq Versions(remote) => memory' \subseteq Versions(remote)
  PROVE  ValuesInv'
<1>1. WriterOK' /\ PastOnly'
  BY DEF ValuesInv, WriterOK, PastOnly, Past
<1>2. HalfIsCurrent'
  BY DEF ValuesInv, HalfIsCurrent, Halfway
<1>3. SettledIsCurrent'
  BY DEF ValuesInv, SettledIsCurrent, Settled, Running
<1> QED BY <1>1, <1>2, <1>3 DEF ValuesInv

\* A retrieval reads what is current where that is on disk, and from the backend always.
LEMMA LookupKeepsValues ==
  ASSUME ValuesInv, MissObject \/ ReadDisk \/ AskBackend \/ FillDisk \/ FillMemory
  PROVE  ValuesInv'
<1>1. process.phase = "running" /\ UNCHANGED <<remote, told, writer, process>>
  BY DEF MissObject, Running, ReadDisk, AskBackend, FillDisk, FillMemory, ValuesInv, Quiet
<1>2. Quiet' /\ LookupOK /\ remote \in Nat /\ late \in BOOLEAN
  BY <1>1 DEF Quiet, ValuesInv, PastOnly
<1>3. CASE MissObject
  <2>1. lookup' \in [phase : {"disk", "backend"}, old : BOOLEAN] /\ UNCHANGED <<memory, disk, late>>
    BY <1>3 DEF MissObject
  <2> QED BY <1>1, <1>2, <2>1, BesideKeepsValues DEF LookupOK, DiskIsCurrent
<1>4. CASE ReadDisk
  <2>1. UNCHANGED <<memory, late>> /\ lookup \in [phase : {"disk"}, old : BOOLEAN]
    BY <1>2, <1>4 DEF ReadDisk, LookupOK
  <2>2. CASE disk' = disk /\ lookup' = [lookup EXCEPT !.phase = "backend"]
    <3>1. lookup' \in [phase : {"backend"}, old : BOOLEAN]
      BY <2>1, <2>2
    <3> QED BY <1>1, <1>2, <2>1, <2>2, <3>1, BesideKeepsValues DEF LookupOK, DiskIsCurrent
  <2>3. CASE disk' = {} /\ lookup' = Idle
    BY <1>1, <1>2, <2>1, <2>3, BesideKeepsValues DEF LookupOK, DiskIsCurrent, Idle
  <2>4. CASE \E e \in disk : disk' = disk /\ Found(e.version, "found")
    <3>1. PICK e \in disk : lookup' = [phase |-> "found", version |-> e.version, old |-> FALSE]
      BY <2>4 DEF Found
    <3>2. lookup'.version = e.version
      BY <3>1
    <3>3. LookupOK'
      BY <3>1, <3>2 DEF LookupOK
    <3>4. DiskIsCurrent => DiskIsCurrent'
      BY <1>1, <2>4, <3>1 DEF DiskIsCurrent, Versions
    <3> QED BY <1>1, <1>2, <2>1, <3>3, <3>4, BesideKeepsValues
  <2> QED BY <1>4, <2>2, <2>3, <2>4 DEF ReadDisk
<1>5. CASE AskBackend
  <2>1. UNCHANGED <<memory, disk, late>>
    BY <1>5 DEF AskBackend
  <2>2. CASE lookup' = Idle
    BY <1>1, <1>2, <2>1, <2>2, BesideKeepsValues DEF LookupOK, DiskIsCurrent, Idle
  <2>3. CASE remote # 0 /\ Found(remote, "fill")
    <3>1. lookup' = [phase |-> "fill", version |-> remote, old |-> FALSE]
      BY <2>3 DEF Found
    <3>2. LookupOK'
      BY <1>2, <3>1 DEF LookupOK
    <3>3. DiskIsCurrent => DiskIsCurrent'
      BY <1>1, <2>1, <2>3, <3>1 DEF DiskIsCurrent, Versions
    <3> QED BY <1>1, <1>2, <2>1, <3>2, <3>3, BesideKeepsValues
  <2> QED BY <1>5, <2>2, <2>3 DEF AskBackend
<1>6. CASE FillDisk
  <2>1. /\ lookup \in [phase : {"fill"}, version : {lookup.version}, old : BOOLEAN]
        /\ disk' = OnDisk({lookup.version}) /\ lookup' = [lookup EXCEPT !.phase = "found"]
        /\ late' = (late \/ lookup.old) /\ memory' = memory
    BY <1>2, <1>6 DEF FillDisk, LookupOK
  <2>2. /\ lookup' \in [phase : {"found"}, version : {lookup.version}, old : BOOLEAN]
        /\ lookup'.version = lookup.version /\ lookup'.old = lookup.old
    BY <2>1
  <2>3. \A e \in disk' : e.version = lookup.version
    BY <2>1 DEF OnDisk, Entry
  <2>4. ~late' /\ DiskIsCurrent => DiskIsCurrent'
    BY <1>1, <2>1, <2>2, <2>3 DEF DiskIsCurrent, Versions
  <2> QED BY <1>1, <1>2, <2>1, <2>2, <2>4, BesideKeepsValues DEF LookupOK
<1>7. CASE FillMemory
  <2>1. /\ lookup \in [phase : {"found"}, version : {lookup.version}, old : BOOLEAN]
        /\ memory' = {lookup.version} /\ lookup' = Idle
        /\ late' = (late \/ lookup.old) /\ disk' = disk
    BY <1>2, <1>7 DEF FillMemory, LookupOK
  <2>2. LookupOK' /\ lookup'.phase = "idle"
    BY <2>1 DEF LookupOK, Idle
  <2>3. ~late' /\ DiskIsCurrent => DiskIsCurrent'
    BY <1>1, <2>1, <2>2 DEF DiskIsCurrent, Versions
  <2>4. ~late' /\ DiskIsCurrent => memory' \subseteq Versions(remote)
    BY <2>1 DEF DiskIsCurrent
  <2>5. late' \in BOOLEAN
    BY <1>2, <2>1
  <2> QED BY <1>1, <1>2, <2>1, <2>2, <2>3, <2>4, <2>5, BesideKeepsValues
<1> QED BY <1>3, <1>4, <1>5, <1>6, <1>7

\* Somebody changes the object: nothing known here is the last version any more.
LEMMA RemoteChangeKeepsValues ==
  ASSUME ValuesInv, Change, UNCHANGED <<memory, disk, file, process, lookup, told, late>>,
         \/ UNCHANGED writer
         \/ /\ Running /\ writer["request"] = Idle
            /\ writer' = [writer EXCEPT !["request"] = [phase |-> "first", version |-> remote', old |-> FALSE]]
  PROVE  ValuesInv'
<1>1. /\ remote \in Nat /\ remote' \in Nat /\ remote # 0 /\ remote' # remote
      /\ remote' # Unheard /\ (remote' # 0 => remote' = remote + 1)
  BY DEF Change, Unheard, ValuesInv, PastOnly
<1>2. \A v : Past(v) => Past(v)' /\ v # remote'
  BY <1>1 DEF Past
<1>3. \A w \in Writer : \/ writer'[w] = writer[w]
                         \/ /\ writer'[w].phase = "first" /\ writer'[w].version = remote' /\ Running
                            /\ writer[w].phase = "idle"
  BY DEF ValuesInv, WriterOK, Writer, Idle
<1>4. WriterOK'
  <2>1. [phase |-> "first", version |-> remote', old |-> FALSE] \in [phase : {"first", "second"}, version : Nat, old : BOOLEAN]
    BY <1>1
  <2> QED BY <2>1 DEF ValuesInv, WriterOK
<1>5. PastOnly'
  BY <1>1, <1>2, <1>3 DEF ValuesInv, PastOnly, Past
<1>6. HalfIsCurrent' /\ SettledIsCurrent'
  BY <1>1, <1>2, <1>3 DEF ValuesInv, PastOnly, HalfIsCurrent, Halfway, SettledIsCurrent, Settled
<1>7. LookupOK' /\ Quiet'
  BY <1>3 DEF ValuesInv, LookupOK, Quiet, Running
<1> QED BY <1>4, <1>5, <1>6, <1>7 DEF ValuesInv

\* The event loop takes up what has changed.
LEMMA TakeEventKeepsValues ==
  ASSUME ValuesInv, TakeEvent
  PROVE  ValuesInv'
<1>1. /\ Running /\ writer["loop"] = Idle
      /\ writer' = [writer EXCEPT !["loop"] = [phase |-> "first", version |-> remote, old |-> FALSE]]
      /\ UNCHANGED <<remote, memory, disk, process, lookup, told, late>>
  BY DEF TakeEvent, Busy
<1>2. \A w \in Writer : \/ writer'[w] = writer[w]
                         \/ /\ writer'[w].phase = "first" /\ writer'[w].version = remote
                            /\ writer[w].phase = "idle"
  BY <1>1 DEF ValuesInv, WriterOK, Writer, Idle
<1>3. WriterOK'
  <2>1. [phase |-> "first", version |-> remote, old |-> FALSE] \in [phase : {"first", "second"}, version : Nat, old : BOOLEAN]
    BY DEF ValuesInv, PastOnly
  <2> QED BY <1>1, <2>1 DEF ValuesInv, WriterOK
<1>4. PastOnly'
  BY <1>1, <1>2 DEF ValuesInv, PastOnly, Past
<1>5. HalfIsCurrent' /\ SettledIsCurrent'
  BY <1>1, <1>2 DEF ValuesInv, HalfIsCurrent, Halfway, SettledIsCurrent, Settled, DiskIsCurrent, Running
<1>6. LookupOK' /\ Quiet'
  BY <1>1 DEF ValuesInv, LookupOK, Quiet, Running
<1> QED BY <1>3, <1>4, <1>5, <1>6 DEF ValuesInv

\* Marking what has been read as out of date.
LEMMA OutdatedIs ==
  ASSUME NEW x, NEW V, NEW P, "idle" \notin P, "disk" \notin P, "backend" \notin P,
         x \in [phase : {"idle"}] \cup [phase : {"disk", "backend"}, old : BOOLEAN]
              \cup [phase : P, version : V, old : BOOLEAN]
  PROVE  /\ Outdated(x).phase = x.phase
         /\ x.phase \in P => /\ Outdated(x) \in [phase : {x.phase}, version : {x.version}, old : {TRUE}]
                             /\ Outdated(x).version = x.version
                             /\ Outdated(x).old
         /\ x.phase \notin P => Outdated(x) = x
<1>1. CASE x \in [phase : P, version : V, old : BOOLEAN]
  <2>1. x.phase \in P /\ Outdated(x) = [x EXCEPT !.old = TRUE]
    BY <1>1 DEF Outdated
  <2> QED BY <1>1, <2>1
<1>2. CASE x \in [phase : {"idle"}] \cup [phase : {"disk", "backend"}, old : BOOLEAN]
  BY <1>2 DEF Outdated
<1> QED BY <1>1, <1>2

\* The first half of a change puts it on disk and outdates all that was read or taken up.
LEMMA FirstHalfKeepsValues ==
  ASSUME ValuesInv, NEW w \in Writer, FirstHalf(w), SetDisk(w)
  PROVE  ValuesInv'
<1>1. /\ writer[w].phase = "first" /\ late' = writer[w].old
      /\ UNCHANGED <<remote, file, process, told, memory>>
      /\ disk' = OnDisk(Versions(writer[w].version))
      /\ lookup' = Outdated(lookup)
      /\ writer' = [u \in Writer |-> IF u = w THEN [writer[u] EXCEPT !.phase = "second"] ELSE Outdated(writer[u])]
  BY DEF FirstHalf, SetDisk, Outdate
<1> DEFINE W == [phase : {"first", "second"}, version : Nat, old : BOOLEAN]
<1>2. \A u \in Writer : writer[u] \in [phase : {"idle"}] \cup W
  BY DEF ValuesInv, WriterOK
<1>3. /\ writer'[w] \in W /\ writer'[w].phase = "second"
      /\ writer'[w].version = writer[w].version /\ writer'[w].old = writer[w].old
  <2>1. writer[w] \in W /\ writer'[w] = [writer[w] EXCEPT !.phase = "second"]
    BY <1>1, <1>2
  <2> QED BY <2>1
<1>4. ASSUME NEW u \in Writer, u # w
      PROVE  /\ writer'[u] \in [phase : {"idle"}] \cup W
             /\ writer'[u].phase = writer[u].phase
             /\ writer'[u].phase # "idle" => writer'[u].old /\ writer'[u].version = writer[u].version
  <2>1. writer'[u] = Outdated(writer[u]) /\ writer[u] \in [phase : {"idle"}] \cup W
    BY <1>1, <1>2, <1>4
  <2> DEFINE x == writer[u]
  <2>2. x \in [phase : {"idle"}] \cup [phase : {"disk", "backend"}, old : BOOLEAN] \cup W
    BY <2>1
  <2>3. x.phase = "idle" \/ (x.phase \in {"first", "second"} /\ x.version \in Nat)
    BY <2>1
  <2> HIDE DEF x
  <2>4. /\ Outdated(x).phase = x.phase
        /\ x.phase \in {"first", "second"} => /\ Outdated(x) \in [phase : {x.phase}, version : {x.version}, old : {TRUE}]
                                              /\ Outdated(x).version = x.version
                                              /\ Outdated(x).old
        /\ x.phase \notin {"first", "second"} => Outdated(x) = x
    BY <2>2, OutdatedIs
  <2>5. Outdated(x) \in [phase : {"idle"}] \cup W
    <3>1. CASE x.phase = "idle"
      BY <2>1, <2>4, <3>1 DEF x
    <3>2. CASE x.phase \in {"first", "second"}
      BY <2>3, <2>4, <3>2
    <3> QED BY <2>3, <3>1, <3>2
  <2> QED BY <2>1, <2>3, <2>4, <2>5 DEF x
<1> HIDE DEF W
<1>5. WriterOK'
  <2>1. writer' = [u \in Writer |-> writer'[u]] /\ \A u \in Writer : writer'[u] \in [phase : {"idle"}] \cup W
    BY <1>1, <1>3, <1>4
  <2> QED BY <2>1 DEF WriterOK, W
<1>6. /\ LookupOK' /\ lookup'.phase = lookup.phase
      /\ lookup'.phase \in {"fill", "found"} => lookup'.old
  <2> DEFINE P == {"fill", "found"}
             V == {lookup.version}
  <2>1. lookup \in [phase : {"idle"}] \cup [phase : {"disk", "backend"}, old : BOOLEAN]
                   \cup [phase : P, version : V, old : BOOLEAN]
    BY DEF ValuesInv, LookupOK
  <2>2. "idle" \notin P /\ "disk" \notin P /\ "backend" \notin P
    OBVIOUS
  <2> HIDE DEF P, V
  <2>3. /\ lookup'.phase = lookup.phase
        /\ lookup.phase \in P => /\ lookup' \in [phase : {lookup.phase}, version : {lookup.version}, old : {TRUE}]
                                 /\ lookup'.version = lookup.version
                                 /\ lookup'.old
        /\ lookup.phase \notin P => lookup' = lookup
    BY <1>1, <2>1, <2>2, OutdatedIs
  <2>4. LookupOK'
    BY <2>1, <2>3 DEF LookupOK, P
  <2> QED BY <2>3, <2>4 DEF P
<1>7. PastOnly'
  BY <1>1, <1>2, <1>3, <1>4 DEF ValuesInv, PastOnly, Past, W
<1>8. Quiet'
  BY <1>1, <1>4 DEF ValuesInv, Quiet
<1>9. HalfIsCurrent'
  <2>1. \A e \in disk' : e.version \in Versions(writer[w].version)
    BY <1>1 DEF OnDisk, Entry
  <2> QED BY <1>1, <1>3, <1>4, <1>6, <2>1 DEF HalfIsCurrent, Halfway, DiskIsCurrent
<1>10. SettledIsCurrent'
  BY <1>3 DEF SettledIsCurrent, Settled
<1> QED BY <1>5, <1>6, <1>7, <1>8, <1>9, <1>10 DEF ValuesInv

\* The second half puts it in memory; if it is the last change and nothing was late, both have it.
LEMMA SecondHalfKeepsValues ==
  ASSUME ValuesInv, NEW w \in Writer, SecondHalf(w), SetMemory(w)
  PROVE  ValuesInv'
<1>1. /\ writer[w].phase = "second" /\ late' = (late \/ writer[w].old) /\ told' = writer[w].version
      /\ writer' = [writer EXCEPT ![w] = Idle] /\ memory' = Versions(writer[w].version)
      /\ UNCHANGED <<remote, file, process, lookup, disk>>
  BY DEF SecondHalf, SetMemory
<1>2. writer[w].old \in BOOLEAN /\ writer \in [Writer -> [phase : {"idle"}]
                        \cup [phase : {"first", "second"}, version : Nat, old : BOOLEAN]]
  BY <1>1 DEF ValuesInv, WriterOK
<1>3. Idle.phase = "idle" /\ Idle \in [phase : {"idle"}]
  BY DEF Idle
<1>4. WriterOK'
  BY <1>1, <1>2, <1>3 DEF WriterOK
<1>5. process.phase = "running"
  BY <1>1 DEF ValuesInv, Quiet
<1>6. PastOnly' /\ Quiet' /\ LookupOK'
  BY <1>1, <1>2, <1>3, <1>5 DEF ValuesInv, PastOnly, Past, Quiet, LookupOK
<1>7. HalfIsCurrent'
  BY <1>1, <1>2, <1>3 DEF ValuesInv, PastOnly, HalfIsCurrent, Halfway, DiskIsCurrent
<1>8. SettledIsCurrent'
  BY <1>1, <1>2, <1>3 DEF ValuesInv, PastOnly, HalfIsCurrent, Halfway, SettledIsCurrent, Settled, DiskIsCurrent
<1> QED BY <1>4, <1>6, <1>7, <1>8 DEF ValuesInv

\* A process starts knowing nothing, or the listing, and ends knowing nothing.
LEMMA ProcessKeepsValues ==
  ASSUME ValuesInv, ProcessOK, Open \/ CheckContext \/ ClearEntries \/ WriteContext \/ ListAtStart \/ Die
  PROVE  ValuesInv'
<1>1. CASE Open \/ CheckContext \/ ClearEntries \/ WriteContext
  <2>1. process.phase # "running" /\ process'.phase # "running" /\ UNCHANGED <<remote, lookup, writer, told, late>>
    BY <1>1 DEF Open, CheckContext, ClearEntries, WriteContext, Phase, ProcessOK
  <2>2. \A w \in Writer : writer[w].phase = "idle"
    BY <2>1 DEF ValuesInv, Quiet
  <2> QED BY <2>1, <2>2 DEF ValuesInv, LookupOK, WriterOK, Quiet, PastOnly, Past, HalfIsCurrent, Halfway,
             SettledIsCurrent, Settled, Running
<1>2. CASE ListAtStart
  <2>1. /\ process.phase # "running" /\ UNCHANGED <<remote, lookup, writer, late>>
        /\ IF remote = 0 THEN told' = told
           ELSE memory' = {remote} /\ disk' = OnDisk({remote}) /\ told' = remote
    BY <1>2 DEF ListAtStart
  <2>2. lookup.phase = "idle" /\ \A w \in Writer : writer[w].phase = "idle"
    BY <2>1 DEF ValuesInv, Quiet
  <2>3. process'.phase = "running"
    BY <1>2 DEF ListAtStart, Phase, ProcessOK
  <2>4. LookupOK' /\ WriterOK' /\ Quiet' /\ PastOnly'
    BY <2>1, <2>3 DEF ValuesInv, LookupOK, WriterOK, Quiet, PastOnly, Past
  <2>5. HalfIsCurrent'
    BY <2>1, <2>2 DEF HalfIsCurrent, Halfway
  <2>6. SettledIsCurrent'
    <3>1. CASE remote = 0
      BY <2>1, <3>1 DEF SettledIsCurrent, Settled, ValuesInv, PastOnly, Unheard
    <3>2. CASE remote # 0
      BY <2>1, <2>2, <3>2 DEF SettledIsCurrent, DiskIsCurrent, OnDisk, Entry, Versions
    <3> QED BY <3>1, <3>2
  <2> QED BY <2>4, <2>5, <2>6 DEF ValuesInv
<1>3. CASE Die
  <2>1. /\ process'.phase = "off" /\ remote' = remote /\ lookup' = Idle /\ told' = Unheard /\ late' = FALSE
        /\ writer' = [w \in Writer |-> Idle]
    BY <1>3 DEF Die, Phase, ProcessOK
  <2>2. Idle \in [phase : {"idle"}] /\ Idle.phase = "idle"
    BY DEF Idle
  <2> QED BY <2>1, <2>2 DEF ValuesInv, LookupOK, WriterOK, Quiet, PastOnly, HalfIsCurrent, Halfway,
             SettledIsCurrent, Settled, Running
<1> QED BY <1>1, <1>2, <1>3

\* Every step keeps both caches as current as they have to be.
LEMMA StepKeepsValues == IInv /\ ValuesInv /\ [ObjectsNext]_cacheVars => ValuesInv'
<1> SUFFICES ASSUME IInv, ValuesInv, [ObjectsNext]_cacheVars PROVE ValuesInv'
  OBVIOUS
<1>1. CASE Open \/ CheckContext \/ ClearEntries \/ WriteContext \/ ListAtStart \/ Die
  BY <1>1, ProcessKeepsValues DEF IInv
<1>2. CASE MissObject \/ ReadDisk \/ AskBackend \/ FillDisk \/ FillMemory
  BY <1>2, LookupKeepsValues
<1>3. CASE TakeEvent
  BY <1>3, TakeEventKeepsValues
<1>4. CASE OwnChange \/ OthersChange
  BY <1>4, RemoteChangeKeepsValues DEF OwnChange, OthersChange, Busy
<1>5. CASE \E w \in Writer : ChangeCaches(w)
  BY <1>5, FirstHalfKeepsValues, SecondHalfKeepsValues DEF ChangeCaches
<1>6. CASE EvictMemory \/ EvictDisk \/ Break \/ UNCHANGED cacheVars
  <2>1. UNCHANGED <<remote, told, writer, process, lookup, late>> /\ (memory' = memory \/ memory' = {})
    BY <1>6 DEF EvictMemory, EvictDisk, Break, cacheVars
  <2>2. \A e \in disk' : \E d \in disk : e.version = d.version
    <3>1. CASE Break
      <4>1. PICK d \in disk : disk' = {[d EXCEPT !.broken = TRUE]}
        BY <3>1 DEF Break
      <4>2. d \in Marked({d.version}, d.by)
        BY DEF IInv, EntriesOK
      <4>3. [d EXCEPT !.broken = TRUE].version = d.version
        BY <4>2 DEF Marked
      <4> QED BY <4>1, <4>3
    <3> QED BY <1>6, <3>1 DEF EvictMemory, EvictDisk, cacheVars
  <2>3. LookupOK' /\ Quiet' /\ late' \in BOOLEAN
    BY <2>1 DEF ValuesInv, LookupOK, Quiet, PastOnly
  <2>4. DiskIsCurrent => DiskIsCurrent'
    BY <2>1, <2>2 DEF DiskIsCurrent
  <2> QED BY <2>1, <2>3, <2>4, BesideKeepsValues
<1> QED BY <1>1, <1>2, <1>3, <1>4, <1>5, <1>6 DEF ObjectsNext

\* Before the first start nothing is cached in memory, and nothing is known.
LEMMA InitHasValues == ObjectsInit => ValuesInv
<1> SUFFICES ASSUME ObjectsInit PROVE ValuesInv
  OBVIOUS
<1>1. /\ process.phase = "off" /\ remote = 1 /\ lookup = [phase |-> "idle"] /\ told = Unheard /\ late = FALSE
      /\ writer = [w \in Writer |-> [phase |-> "idle"]]
  BY DEF ObjectsInit, Idle
<1>2. LookupOK /\ WriterOK /\ Quiet /\ PastOnly
  BY <1>1 DEF LookupOK, WriterOK, Quiet, PastOnly
<1>3. HalfIsCurrent /\ SettledIsCurrent
  BY <1>1 DEF HalfIsCurrent, Halfway, SettledIsCurrent, Settled, Running
<1> QED BY <1>2, <1>3 DEF ValuesInv

\* Once a change is known, neither cache has an older version but one that had been read
\* before it, for any number of versions, starts and crashes (metadata.rs:149).
THEOREM StaleOnlyIfLate == ObjectsSpec => []OnlyLateValuesAreStale
<1>1. ObjectsSpec => [](IInv /\ ValuesInv)
  BY InitIsOrdered, InitHasValues, StepKeepsOrder, StepKeepsValues, PTL DEF ObjectsSpec
<1>2. IInv /\ ValuesInv => OnlyLateValuesAreStale
  <2> SUFFICES ASSUME ValuesInv, Running, told = remote, ~late, \A w \in Writer : ~Busy(w)
               PROVE  memory \subseteq Versions(remote) /\ \A e \in disk : e.version = remote
    BY DEF OnlyLateValuesAreStale
  <2>1. Settled
    BY DEF Settled, Busy, Idle
  <2>2. memory \subseteq Versions(remote) /\ \A e \in disk : e.version \in Versions(remote)
    BY <2>1 DEF ValuesInv, SettledIsCurrent, DiskIsCurrent
  <2> QED BY <2>2 DEF Versions
<1> QED BY <1>1, <1>2, PTL

-----------------------------------------------------------------------------
(* Commands. *)

USE CommandsAssumption

\* What is on the remote.
Object ==
  [kind : {"config"}, volume : Volume, heads : SUBSET HeadName, time : Nat]
  \cup [kind : {"commit"}, volume : Volume]

\* A command's arguments, and its state at work, before and after, and when it has deleted.
Args == [op : {"create_head", "delete_head", "serve", "delete_volume", "create_volume", "scan"},
         volume : Volume, head : HeadName]

Fields(h, b) ==
  [phase : h, args : Args, known : SUBSET Object, behind : b, broken : BOOLEAN,
   make : SUBSET Object, todo : SUBSET Object, gone : {0, 1}]

Active == Fields({"ask", "look", "yes", "upload", "show", "delete"}, BOOLEAN)

Inactive == [phase : {"off", "serving", "over"}]

Reported == [phase : {"deleted"}, volume : Volume, behind : BOOLEAN, all : BOOLEAN]

\* The config of a command that has missed nothing, in a store S of volumes with heads H,
\* those in R changed by somebody who had: it is the newest, and adds his change to what counts.
Continues(k, a, S, H, R) ==
  /\ \A x \in Configs(S, k.volume) : x.time < k.time
  /\ k.volume \notin R => k.heads = Changed(a, H[k.volume])

\* A command, when the remote is S, with H and R as above, and the time t: one that looks, asks
\* or has been answered knows all there is unless it has something to hear; what it uploads
\* then continues the volume, what it deletes then is all of the volume.
CommandOK(x, S, H, R, t) ==
  \/ x \in Inactive
  \/ x \in Reported /\ (~x.behind /\ x.all => Deletable(S, x.volume) = {})
  \/ /\ x \in Active
     /\ \A o \in x.known \cup x.make : o.kind = "config" => o.volume \in DOMAIN H
     /\ x.phase \in {"look", "ask", "yes"} /\ ~x.behind => x.known = S
     /\ x.phase = "upload" =>
          /\ \A k \in x.make : k.kind = "config" /\ k.time <= t
          /\ ~x.behind /\ ~x.broken => \A k \in x.make : Continues(k, x.args, S, H, R)
     /\ x.phase = "delete" =>
          /\ x.args.volume \in R
          /\ \A o \in x.todo : o.volume = x.args.volume
          /\ ~x.behind => Deletable(S, x.args.volume) \subseteq x.todo

\* ChangesAddUp
AddsUp(S, H, R) ==
  \A v \in DOMAIN H \ R :
    /\ \A k \in Newest(S, v) : k.heads = H[v]
    /\ H[v] # {} => Configs(S, v) # {}

\* The remote has configs of volumes that were made, none from the future.
RemoteOK(S, H, R, t) ==
  /\ S \subseteq Object /\ t \in Nat /\ DOMAIN H \subseteq Volume
  /\ \A o \in S : o.kind = "config" => o.volume \in DOMAIN H /\ o.time <= t
  /\ AddsUp(S, H, R)

\* What is inductive of the commands.
CommandsInv ==
  /\ RemoteOK(store, heads, raced, clock)
  /\ command = [c \in Command |-> command[c]]
  /\ \A c \in Command : CommandOK(command[c], store, heads, raced, clock)

\* Time goes by, other volumes are changed.
LEMMA CommandsWait ==
  ASSUME NEW x, NEW S, NEW H, NEW R, NEW t \in Nat, CommandOK(x, S, H, R, t),
         NEW Q, R \subseteq Q, NEW u \in Nat, t <= u
  PROVE  CommandOK(x, S, H, Q, u)
<1>1. CASE x \in Inactive
  BY <1>1 DEF CommandOK
<1>2. CASE x \in Reported
  BY <1>2 DEF CommandOK, Reported, Active, Fields, Inactive
<1>3. CASE x \in Active
  <2>1. x \notin Inactive /\ x \notin Reported
    BY <1>3 DEF Reported, Active, Fields, Inactive
  <2>2. ASSUME x.phase = "upload" PROVE \A k \in x.make : k.kind = "config" /\ k.time <= u
    <3> TAKE k \in x.make
    <3>1. k.kind = "config" /\ k \in Object /\ k.time <= t
      BY <1>3, <2>1, <2>2 DEF CommandOK, Active, Fields
    <3>2. k.time \in Nat
      BY <3>1 DEF Object
    <3> QED BY <3>1, <3>2
  <2>3. ASSUME NEW k, NEW a, Continues(k, a, S, H, R) PROVE Continues(k, a, S, H, Q)
    BY <2>3 DEF Continues
  <2> QED BY <1>3, <2>1, <2>2, <2>3 DEF CommandOK
<1> QED BY <1>1, <1>2, <1>3 DEF CommandOK

\* A command that has missed something.
LEMMA CommandsMiss ==
  ASSUME NEW f, NEW c \in Command, NEW d \in Command, d # c,
         NEW S, NEW H, NEW R, NEW t \in Nat, CommandOK(f[d], S, H, R, t),
         NEW Z, NEW G, DOMAIN H \subseteq DOMAIN G, NEW Q, R \subseteq Q, NEW u \in Nat, t <= u
  PROVE  CommandOK(Behind(f, c)[d], Z, G, Q, u)
<1> DEFINE x == f[d]
           y == Behind(f, c)[d]
<1>1. y = IF "behind" \in DOMAIN x THEN [x EXCEPT !.behind = TRUE] ELSE x
  BY DEF Behind
<1>2. CASE x \in Inactive
  <2>1. y = x
    BY <1>1, <1>2 DEF Inactive
  <2> QED BY <1>2, <2>1 DEF CommandOK
<1>3. CASE x \in Reported
  <2>1. y \in Reported /\ y.behind
    BY <1>1, <1>3 DEF Reported
  <2> QED BY <2>1 DEF CommandOK
<1>4. CASE x \in Active
  <2>1. x \notin Inactive /\ x \notin Reported
    BY <1>4 DEF Reported, Active, Fields, Inactive
  <2>2. /\ y \in Active /\ y.behind /\ y.phase = x.phase /\ y.args = x.args /\ y.known = x.known
        /\ y.make = x.make /\ y.todo = x.todo
    BY <1>1, <1>4 DEF Active, Fields
  <2> HIDE DEF x, y
  <2>3. ASSUME x.phase = "upload" PROVE \A k \in x.make : k.kind = "config" /\ k.time <= u
    <3> TAKE k \in x.make
    <3>1. k.kind = "config" /\ k \in Object /\ k.time <= t
      BY <1>4, <2>1, <2>3 DEF CommandOK, Active, Fields, x
    <3>2. k.time \in Nat
      BY <3>1 DEF Object
    <3> QED BY <3>1, <3>2
  <2>4. CommandOK(x, S, H, R, t)
    BY DEF x
  <2>5. CommandOK(y, Z, G, Q, u)
    BY <2>1, <2>2, <2>3, <2>4 DEF CommandOK
  <2> QED BY <2>5 DEF y
<1> QED BY <1>2, <1>3, <1>4 DEF CommandOK

\* One command goes on; the remote stays as it is.
LEMMA OneGoesOn ==
  ASSUME CommandsInv, NEW c \in Command, NEW x, command' = [command EXCEPT ![c] = x],
         UNCHANGED <<store, heads>>, raced \subseteq raced', clock' \in Nat, clock <= clock',
         CommandOK(x, store, heads, raced', clock')
  PROVE  CommandsInv'
<1>1. RemoteOK(store', heads', raced', clock')
  <2>1. \A o \in store : o.kind = "config" => o.time \in Nat
    BY DEF CommandsInv, RemoteOK, Object
  <2>2. AddsUp(store, heads, raced')
    BY DEF CommandsInv, RemoteOK, AddsUp
  <2> QED BY <2>1, <2>2 DEF CommandsInv, RemoteOK
<1>2. ASSUME NEW d \in Command PROVE CommandOK(command'[d], store', heads', raced', clock')
  <2>1. CASE d = c
    BY <2>1 DEF CommandsInv
  <2>2. CASE d # c
    <3>1. CommandOK(command[d], store, heads, raced, clock) /\ clock \in Nat /\ command'[d] = command[d]
      BY <2>2 DEF CommandsInv, RemoteOK
    <3> QED BY <3>1, CommandsWait
  <2> QED BY <2>1, <2>2
<1> QED BY <1>1, <1>2 DEF CommandsInv

\* One command changes the remote; the others have something to hear.
LEMMA OneChanges ==
  ASSUME CommandsInv, NEW c \in Command, NEW x, command' = [Behind(command, c) EXCEPT ![c] = x],
         DOMAIN heads \subseteq DOMAIN heads', raced \subseteq raced', clock' \in Nat, clock <= clock',
         RemoteOK(store', heads', raced', clock'),
         CommandOK(x, store', heads', raced', clock')
  PROVE  CommandsInv'
<1>1. ASSUME NEW d \in Command PROVE CommandOK(command'[d], store', heads', raced', clock')
  <2>1. CASE d = c
    BY <2>1 DEF Behind
  <2>2. CASE d # c
    <3>1. CommandOK(command[d], store, heads, raced, clock) /\ clock \in Nat
      BY DEF CommandsInv, RemoteOK
    <3>2. command'[d] = Behind(command, c)[d]
      BY <2>2 DEF Behind
    <3> QED BY <2>2, <3>1, <3>2, CommandsMiss
  <2> QED BY <2>1, <2>2
<1>2. command' = [d \in Command |-> command'[d]]
  BY DEF Behind
<1> QED BY <1>1, <1>2 DEF CommandsInv

\* What is known of a command that is at work.
AtWork(x) ==
  /\ x \in Active
  /\ \A o \in x.known \cup x.make : o.kind = "config" => o.volume \in DOMAIN heads
  /\ x.phase \in {"look", "ask", "yes"} /\ ~x.behind => x.known = store

\* The invariant of a command at work.
LEMMA WorkingCommand ==
  ASSUME CommandsInv, NEW c \in Command, command[c].phase \in {"ask", "look", "yes", "upload", "show", "delete"}
  PROVE  /\ command[c] \in Active /\ AtWork(command[c])
         /\ CommandOK(command[c], store, heads, raced, clock)
         /\ command[c].phase = "upload" =>
              /\ \A k \in command[c].make : k.kind = "config" /\ k.time <= clock
              /\ ~command[c].behind /\ ~command[c].broken =>
                   \A k \in command[c].make : Continues(k, command[c].args, store, heads, raced)
         /\ command[c].phase = "delete" =>
              /\ command[c].args.volume \in raced
              /\ \A o \in command[c].todo : o.volume = command[c].args.volume
              /\ ~command[c].behind => Deletable(store, command[c].args.volume) \subseteq command[c].todo
<1>1. CommandOK(command[c], store, heads, raced, clock)
  BY DEF CommandsInv
<1>2. command[c] \notin Inactive /\ command[c] \notin Reported
  BY DEF Inactive, Reported
<1> QED BY <1>1, <1>2 DEF CommandOK, AtWork

\* One command goes on, and nothing else changes.
LEMMA OneThinks ==
  ASSUME CommandsInv, NEW c \in Command, NEW x, command' = [command EXCEPT ![c] = x],
         UNCHANGED <<store, heads, raced, clock>>, CommandOK(x, store, heads, raced, clock)
  PROVE  CommandsInv'
<1>1. clock \in Nat /\ clock <= clock' /\ raced \subseteq raced'
  BY DEF CommandsInv, RemoteOK
<1> QED BY <1>1, OneGoesOn

\* Nothing is asked of a command that is over, ...
LEMMA OverOK ==
  ASSUME NEW S, NEW H, NEW R, NEW t
  PROVE  CommandOK(Over, S, H, R, t)
<1>1. Over \in Inactive
  BY DEF Over, Inactive
<1> QED BY <1>1 DEF CommandOK

\* ... so any may end.
LEMMA EndsKeeps ==
  ASSUME CommandsInv, NEW c \in Command, Ends(c), UNCHANGED <<store, heads, raced, clock>>
  PROVE  CommandsInv'
BY OneThinks, OverOK DEF Ends

\* A command starts with all there is.
LEMMA StartKeeps ==
  ASSUME CommandsInv, NEW c \in Command, StartCommand(c)
  PROVE  CommandsInv'
<1>1. PICK r \in Request : command' = [command EXCEPT ![c] = Knowing(r)]
  BY DEF StartCommand
<1>2. UNCHANGED <<store, heads, raced, clock>> /\ clock \in Nat /\ store \subseteq Object
  BY DEF StartCommand, CommandsInv, RemoteOK
<1> DEFINE x == Knowing(r)
           p == IF r.op \in {"create_head", "delete_head", "create_volume"} THEN "ask" ELSE "look"
<1>3. r \in Args
  BY DEF Request, Args
<1>4. x = [phase |-> p, args |-> r, known |-> store, behind |-> FALSE, broken |-> FALSE, make |-> {}, todo |-> {}, gone |-> 0]
  BY DEF Knowing
<1>5. p \in {"ask", "look"}
  OBVIOUS
<1> HIDE DEF x, p
<1>6. x \in Active /\ x.phase \in {"ask", "look"} /\ x.known = store /\ x.make = {}
  BY <1>2, <1>3, <1>4, <1>5 DEF Active, Fields
<1>7. CommandOK(x, store, heads, raced, clock)
  BY <1>2, <1>6 DEF CommandOK, CommandsInv, RemoteOK
<1>8. command' = [command EXCEPT ![c] = x]
  BY <1>1 DEF x
<1> QED BY <1>2, <1>7, <1>8, OneThinks

\* Looking and asking change nothing.
LEMMA ToKeeps ==
  ASSUME CommandsInv, NEW c \in Command, command[c].phase \in {"look", "ask"},
         NEW p \in {"ask", "yes"}, To(c, p), UNCHANGED <<store, heads, raced, clock>>
  PROVE  CommandsInv'
<1> DEFINE x == [command[c] EXCEPT !.phase = p]
<1>1. command[c] \in Active /\ AtWork(command[c])
  BY WorkingCommand
<1>2. /\ x \in Active /\ x.phase = p /\ x.known = command[c].known /\ x.make = command[c].make
      /\ x.behind = command[c].behind
  BY <1>1 DEF Active, Fields
<1>3. command' = [command EXCEPT ![c] = x]
  BY DEF To, CommandsInv
<1> HIDE DEF x
<1>4. CommandOK(x, store, heads, raced, clock)
  BY <1>1, <1>2 DEF CommandOK, AtWork
<1> QED BY <1>3, <1>4, OneThinks

\* The volume is mounted.
LEMMA ServingKeeps ==
  ASSUME CommandsInv, NEW c \in Command, command' = [command EXCEPT ![c] = Serving],
         UNCHANGED <<store, heads, raced, clock>>
  PROVE  CommandsInv'
<1>1. CommandOK(Serving, store, heads, raced, clock)
  BY DEF Serving, Inactive, CommandOK
<1> QED BY <1>1, OneThinks

\* What has been heard is all there is.
LEMMA HearKeeps ==
  ASSUME CommandsInv, NEW c \in Command, Hear(c)
  PROVE  CommandsInv'
<1> DEFINE f == command[c]
<1>1. UNCHANGED <<store, heads, raced, clock>> /\ store \subseteq Object /\ clock \in Nat
  BY DEF Hear, CommandsInv, RemoteOK
<1>2. f.phase \in {"ask", "look", "yes", "upload", "show", "delete"}
  <2>1. f.phase \notin {"off", "serving", "over", "deleted"} /\ CommandOK(f, store, heads, raced, clock)
    BY DEF Hear, Runs, CommandsInv
  <2> HIDE DEF f
  <2> QED BY <2>1 DEF CommandOK, Inactive, Reported, Active, Fields
<1>3. PICK T \in {{}, Deletable(store \ command[c].known, command[c].args.volume)} :
        command' = [command EXCEPT ![c].known = store,
                                   ![c].behind = IF command[c].phase \in {"look", "ask", "yes"} THEN FALSE ELSE @,
                                   ![c].todo = IF In(c, "delete") THEN (@ \cap store) \cup T ELSE @]
  BY DEF Hear
<1> DEFINE b == IF f.phase \in {"look", "ask", "yes"} THEN FALSE ELSE f.behind
           d == IF f.phase = "delete" THEN (f.todo \cap store) \cup T ELSE f.todo
           x == [f EXCEPT !.known = store, !.behind = b, !.todo = d]
<1>4. f \in Active
  BY <1>2, WorkingCommand
<1>5. command' = [command EXCEPT ![c] = x]
  BY <1>3 DEF CommandsInv, In
<1>6. T \subseteq Deletable(store, f.args.volume)
  BY DEF Deletable
<1>7. b \in BOOLEAN /\ d \in SUBSET Object
  BY <1>1, <1>4, <1>6 DEF Active, Fields, Deletable
<1> HIDE DEF f, b, d
<1>8. /\ x \in Active /\ x.known = store /\ x.behind = b /\ x.todo = d /\ x.phase = f.phase
      /\ x.args = f.args /\ x.make = f.make /\ x.broken = f.broken
  BY <1>1, <1>4, <1>7 DEF Active, Fields
<1> HIDE DEF x
<1>9. \A o \in store \cup f.make : o.kind = "config" => o.volume \in DOMAIN heads
  BY <1>2, WorkingCommand DEF AtWork, CommandsInv, RemoteOK, f
<1>10. ASSUME x.phase = "upload"
       PROVE  /\ \A k \in x.make : k.kind = "config" /\ k.time <= clock
              /\ ~x.behind /\ ~x.broken => \A k \in x.make : Continues(k, x.args, store, heads, raced)
  <2>1. b = f.behind
    BY <1>8, <1>10 DEF b
  <2> QED BY <1>2, <1>8, <1>10, <2>1, WorkingCommand DEF f
<1>11. ASSUME x.phase = "delete"
       PROVE  /\ x.args.volume \in raced
              /\ \A o \in x.todo : o.volume = x.args.volume
              /\ ~x.behind => Deletable(store, x.args.volume) \subseteq x.todo
  <2>1. b = f.behind /\ d = (f.todo \cap store) \cup T
    BY <1>8, <1>11 DEF b, d
  <2>2. /\ f.args.volume \in raced
        /\ \A o \in f.todo : o.volume = f.args.volume
        /\ ~f.behind => Deletable(store, f.args.volume) \subseteq f.todo
    BY <1>2, <1>8, <1>11, WorkingCommand DEF f
  <2> QED BY <1>6, <1>8, <2>1, <2>2 DEF Deletable
<1>12. CommandOK(x, store, heads, raced, clock)
  BY <1>8, <1>9, <1>10, <1>11 DEF CommandOK
<1> QED BY <1>1, <1>5, <1>12, OneThinks

\* The fields of a config.
LEMMA ConfigIs ==
  ASSUME NEW v, NEW H, NEW t
  PROVE  /\ Config(v, H, t).kind = "config" /\ Config(v, H, t).volume = v
         /\ Config(v, H, t).heads = H /\ Config(v, H, t).time = t
         /\ v \in Volume /\ H \in SUBSET HeadName /\ t \in Nat => Config(v, H, t) \in Object
BY DEF Config, Object

\* The config that is remade from what counts is newer than all there are, and has the change.
LEMMA RemadeIs ==
  ASSUME CommandsInv, NEW L \in SUBSET Object, \A o \in L : o.kind = "config" => o.volume \in DOMAIN heads,
         NEW a \in Args, a.op \in {"create_head", "delete_head"}, NEW k \in Newest(L, a.volume),
         NEW m \in Remade(k, a)
  PROVE  /\ m \in Object /\ m.kind = "config" /\ m.time = clock + 1 /\ m.volume \in DOMAIN heads
         /\ L = store => Continues(m, a, store, heads, raced)
<1>1. /\ k \in L /\ k.kind = "config" /\ k.volume = a.volume /\ k.volume \in Volume
      /\ k.heads \in SUBSET HeadName /\ a.head \in HeadName /\ clock \in Nat
  BY DEF Newest, Configs, Object, CommandsInv, RemoteOK, Args
<1>2. m = Config(k.volume, Changed(a, k.heads), clock + 1) /\ Changed(a, k.heads) \in SUBSET HeadName
  <2>1. CASE a.op = "create_head"
    BY <1>1, <2>1 DEF Remade, WithHead, Changed
  <2>2. CASE a.op = "delete_head"
    BY <1>1, <2>2 DEF Remade, WithoutHead, Changed
  <2> QED BY <2>1, <2>2
<1>3. /\ m \in Object /\ m.kind = "config" /\ m.time = clock + 1
      /\ m.volume = k.volume /\ m.heads = Changed(a, k.heads)
  BY <1>1, <1>2, ConfigIs
<1>4. ASSUME L = store PROVE Continues(m, a, store, heads, raced)
  <2>1. ASSUME NEW x \in Configs(store, m.volume) PROVE x.time < m.time
    <3>1. x.time \in Nat /\ x.time <= clock
      BY DEF Configs, Object, CommandsInv, RemoteOK
    <3> QED BY <1>1, <1>3, <3>1
  <2>2. ASSUME m.volume \notin raced PROVE m.heads = Changed(a, heads[m.volume])
    <3>1. k.volume \in DOMAIN heads \ raced /\ k \in Newest(store, k.volume)
      BY <1>1, <1>3, <1>4, <2>2
    <3>2. k.heads = heads[k.volume]
      BY <3>1 DEF CommandsInv, RemoteOK, AddsUp
    <3> QED BY <1>3, <3>2
  <2> QED BY <2>1, <2>2 DEF Continues
<1> QED BY <1>1, <1>3, <1>4

\* A head is created or deleted in a copy of what counts.
LEMMA PrepareKeeps ==
  ASSUME CommandsInv, NEW c \in Command, In(c, "yes"),
         command[c].args.op \in {"create_head", "delete_head"}, Prepare(c)
  PROVE  CommandsInv'
<1> DEFINE f == command[c]
           a == f.args
<1>1. /\ f \in Active /\ f.phase = "yes" /\ a \in Args /\ clock \in Nat
      /\ \A o \in f.known : o.kind = "config" => o.volume \in DOMAIN heads
      /\ ~f.behind => f.known = store
  BY WorkingCommand DEF In, AtWork, Active, Fields, CommandsInv, RemoteOK
<1>2. PICK L \in SUBSET f.known :
        LET made == UNION {Remade(k, command[c].args) : k \in Newest(L, command[c].args.volume)}
        IN  \/ /\ made # {}
               /\ clock' = clock + 1
               /\ command' = [command EXCEPT ![c].phase = "upload", ![c].make = made,
                                             ![c].broken = @ \/ L # command[c].known]
            \/ (made = {} \/ ~Loads(L)) /\ Ends(c) /\ UNCHANGED clock
  BY DEF Prepare
<1> DEFINE made == UNION {Remade(k, a) : k \in Newest(L, a.volume)}
<1>3. UNCHANGED <<store, heads, raced>>
  BY DEF Prepare
<1>4. CASE Ends(c) /\ UNCHANGED clock
  BY <1>3, <1>4, EndsKeeps
<1>5. CASE /\ clock' = clock + 1
           /\ command' = [command EXCEPT ![c].phase = "upload", ![c].make = made,
                                         ![c].broken = @ \/ L # f.known]
  <2>1. L \in SUBSET Object /\ \A o \in L : o.kind = "config" => o.volume \in DOMAIN heads
    BY <1>1 DEF Active, Fields
  <2>2. ASSUME NEW m \in made
        PROVE  /\ m \in Object /\ m.kind = "config" /\ m.time = clock + 1 /\ m.volume \in DOMAIN heads
               /\ L = store => Continues(m, a, store, heads, raced)
    <3>1. PICK k \in Newest(L, a.volume) : m \in Remade(k, a)
      OBVIOUS
    <3>2. a.op \in {"create_head", "delete_head"}
      OBVIOUS
    <3> HIDE DEF a, made
    <3> QED BY <1>1, <2>1, <3>1, <3>2, RemadeIs
  <2> DEFINE b == (f.broken \/ L # f.known)
             x == [f EXCEPT !.phase = "upload", !.make = made, !.broken = b]
  <2>3. command' = [command EXCEPT ![c] = x]
    BY <1>5 DEF CommandsInv
  <2>4. b \in BOOLEAN /\ made \in SUBSET Object
    BY <1>1, <2>2 DEF Active, Fields
  <2> HIDE DEF made, b
  <2>5. /\ x \in Active /\ x.phase = "upload" /\ x.make = made /\ x.broken = b
        /\ x.known = f.known /\ x.args = a /\ x.behind = f.behind
    BY <1>1, <2>4 DEF Active, Fields
  <2> HIDE DEF x
  <2>6. \A k \in made : k.kind = "config" /\ k.time <= clock + 1
    BY <1>1, <2>2
  <2>7. ~f.behind /\ ~b => L = store
    BY <1>1 DEF b
  <2>8. CommandOK(x, store, heads, raced, clock + 1)
    BY <1>1, <2>2, <2>5, <2>6, <2>7 DEF CommandOK
  <2>9. clock + 1 \in Nat /\ clock <= clock + 1
    BY <1>1
  <2> QED BY <1>3, <1>5, <2>3, <2>8, <2>9, OneGoesOn
<1> QED BY <1>2, <1>4, <1>5

\* A volume begins without a config.
LEMMA CreateVolumeKeeps ==
  ASSUME CommandsInv, NEW c \in Command, CreateVolume(c)
  PROVE  CommandsInv'
<1> DEFINE f == command[c]
<1>1. PICK v \in Volume \ DOMAIN heads :
       /\ store' = store \cup {RootCommit(v)}
       /\ heads' = [x \in DOMAIN heads \cup {v} |-> IF x = v THEN {} ELSE heads[x]]
       /\ command' = [Behind(command, c) EXCEPT ![c].phase = "upload", ![c].make = {Config(v, {Main}, clock + 1)},
                                                ![c].known = @ \cup {RootCommit(v)}]
  BY DEF CreateVolume
<1>2. clock' = clock + 1 /\ clock \in Nat /\ raced' = raced
  BY DEF CreateVolume, CommandsInv, RemoteOK
<1>3. /\ f \in Active /\ f.args.op = "create_volume"
      /\ \A o \in f.known : o.kind = "config" => o.volume \in DOMAIN heads
  BY WorkingCommand DEF CreateVolume, Changer, In, AtWork
<1> DEFINE m == Config(v, {Main}, clock + 1)
           K == f.known \cup {RootCommit(v)}
           x == [f EXCEPT !.phase = "upload", !.make = {m}, !.known = K]
<1>4. RootCommit(v).kind = "commit" /\ RootCommit(v) \in Object
  BY DEF RootCommit, Object
<1>5. m \in Object /\ m.kind = "config" /\ m.volume = v /\ m.heads = {Main} /\ m.time = clock + 1
  BY <1>2, ConfigIs
<1>6. K \in SUBSET Object
  BY <1>3, <1>4 DEF Active, Fields
<1>7. command' = [Behind(command, c) EXCEPT ![c] = x]
  <2>1. Behind(command, c)[c] = f
    BY DEF Behind
  <2> QED BY <1>1, <2>1 DEF Behind
<1> HIDE DEF m, K
<1>8. /\ x \in Active /\ x.phase = "upload" /\ x.make = {m} /\ x.known = K /\ x.args = f.args
  BY <1>3, <1>5, <1>6 DEF Active, Fields
<1> HIDE DEF x
<1>9. DOMAIN heads' = DOMAIN heads \cup {v} /\ heads'[v] = {} /\ \A u \in DOMAIN heads : heads'[u] = heads[u]
  BY <1>1
<1>10. \A u : Configs(store', u) = Configs(store, u) /\ Newest(store', u) = Newest(store, u)
  BY <1>1, <1>4 DEF Configs, Newest
<1>11. Configs(store, v) = {}
  BY DEF Configs, CommandsInv, RemoteOK
<1>12. RemoteOK(store', heads', raced', clock')
  <2>1. AddsUp(store', heads', raced')
    BY <1>2, <1>9, <1>10, <1>11 DEF AddsUp, CommandsInv, RemoteOK, Newest
  <2>2. \A o \in store : o.kind = "config" => o.time \in Nat /\ o.time <= clock /\ o.volume \in DOMAIN heads
    BY DEF CommandsInv, RemoteOK, Object
  <2>3. \A o \in store' : o.kind = "config" => o.volume \in DOMAIN heads' /\ o.time <= clock'
    BY <1>1, <1>2, <1>4, <1>9, <2>2
  <2>4. store' \subseteq Object /\ clock' \in Nat /\ DOMAIN heads' \subseteq Volume
    <3>1. store \subseteq Object /\ DOMAIN heads \subseteq Volume
      BY DEF CommandsInv, RemoteOK
    <3>2. store' \subseteq Object
      BY <1>1, <1>4, <3>1
    <3>3. DOMAIN heads' \subseteq Volume
      BY <1>9, <3>1
    <3> QED BY <1>2, <3>2, <3>3
  <2> QED BY <2>1, <2>3, <2>4 DEF RemoteOK
<1>13. Changed(f.args, heads'[v]) = {Main}
  BY <1>3 DEF Changed
<1>14. Continues(m, f.args, store', heads', raced')
  BY <1>5, <1>10, <1>11, <1>13 DEF Continues
<1>15. \A o \in x.known \cup x.make : o.kind = "config" => o.volume \in DOMAIN heads'
  BY <1>3, <1>4, <1>5, <1>8, <1>9 DEF K
<1>16. CommandOK(x, store', heads', raced', clock')
  BY <1>2, <1>5, <1>8, <1>14, <1>15 DEF CommandOK
<1>17. DOMAIN heads \subseteq DOMAIN heads' /\ clock' \in Nat /\ clock <= clock' /\ raced \subseteq raced'
  BY <1>2, <1>9
<1> QED BY <1>7, <1>12, <1>16, <1>17, OneChanges

\* A config that is newer than all others of its volume is the one that counts.
LEMMA UploadAddsUp ==
  ASSUME CommandsInv, NEW k \in Object, k.kind = "config", k.volume \in DOMAIN heads, k.time <= clock,
         NEW a, NEW Q, raced \subseteq Q,
         k.volume \in Q \/ Continues(k, a, store, heads, raced),
         NEW G, G = [heads EXCEPT ![k.volume] = Changed(a, @)]
  PROVE  RemoteOK(store \cup {k}, G, Q, clock)
<1> DEFINE S == store \cup {k}
<1>1. AddsUp(S, G, Q)
  <2> SUFFICES ASSUME NEW v \in DOMAIN heads \ Q
               PROVE  /\ \A n \in Newest(S, v) : n.heads = G[v]
                      /\ G[v] # {} => Configs(S, v) # {}
    BY DEF AddsUp
  <2>1. /\ \A n \in Newest(store, v) : n.heads = heads[v]
        /\ heads[v] # {} => Configs(store, v) # {}
    BY DEF CommandsInv, RemoteOK, AddsUp
  <2>2. CASE v # k.volume
    <3>1. Configs(S, v) = Configs(store, v) /\ Newest(S, v) = Newest(store, v) /\ G[v] = heads[v]
      BY <2>2 DEF Configs, Newest
    <3> QED BY <2>1, <3>1
  <2>3. CASE v = k.volume
    <3>1. /\ \A x \in Configs(store, v) : x.time < k.time /\ x.time \in Nat /\ k.time \in Nat
          /\ k.heads = Changed(a, heads[v])
      BY <2>3 DEF Continues, Configs, CommandsInv, RemoteOK, Object
    <3>2. Configs(S, v) = Configs(store, v) \cup {k}
      BY <2>3 DEF Configs
    <3>3. \A n \in Newest(S, v) : n = k
      <4> TAKE n \in Newest(S, v)
      <4>1. n \in Configs(S, v) /\ k.time <= n.time
        BY <3>2 DEF Newest
      <4> QED BY <3>1, <3>2, <4>1
    <3>4. G[v] = Changed(a, heads[v])
      BY <2>3
    <3> QED BY <3>1, <3>2, <3>3, <3>4
  <2> QED BY <2>2, <2>3
<1> QED BY <1>1 DEF CommandsInv, RemoteOK

\* The config arrives.
LEMMA UploadKeeps ==
  ASSUME CommandsInv, NEW c \in Command, Upload(c)
  PROVE  CommandsInv'
<1> DEFINE f == command[c]
<1>1. PICK k \in f.make :
       /\ store' = store \cup {k}
       /\ heads' = [heads EXCEPT ![k.volume] = Changed(command[c].args, @)]
       /\ raced' = IF command[c].behind \/ command[c].broken THEN raced \cup {k.volume} ELSE raced
       /\ \/ command' = [Behind(command, c) EXCEPT ![c] = Over]
          \/ /\ command[c].args.op = "create_volume"
             /\ command' = [Behind(command, c) EXCEPT ![c].phase = "show", ![c].known = @ \cup {k}]
  BY DEF Upload
<1>2. clock' = clock /\ clock \in Nat
  BY DEF Upload, CommandsInv, RemoteOK
<1>3. /\ f \in Active /\ f.phase = "upload" /\ k.kind = "config" /\ k.time <= clock /\ k \in Object
      /\ \A o \in f.known \cup f.make : o.kind = "config" => o.volume \in DOMAIN heads
      /\ ~f.behind /\ ~f.broken => Continues(k, f.args, store, heads, raced)
  BY WorkingCommand DEF Upload, In, AtWork, Active, Fields
<1>4. raced \subseteq raced' /\ (k.volume \in raced' \/ Continues(k, f.args, store, heads, raced))
  BY <1>1, <1>3
<1>5. DOMAIN heads' = DOMAIN heads
  BY <1>1
<1>6. RemoteOK(store', heads', raced', clock')
  <2>1. k.volume \in DOMAIN heads
    BY <1>3
  <2>2. RemoteOK(store \cup {k}, heads', raced', clock)
    BY <1>1, <1>3, <1>4, <2>1, UploadAddsUp
  <2> QED BY <1>1, <1>2, <2>2
<1>7. CASE command' = [Behind(command, c) EXCEPT ![c] = Over]
  <2>1. CommandOK(Over, store', heads', raced', clock')
    BY OverOK
  <2>2. clock' \in Nat /\ clock <= clock' /\ DOMAIN heads \subseteq DOMAIN heads'
    BY <1>2, <1>5
  <2> QED BY <1>4, <1>6, <1>7, <2>1, <2>2, OneChanges
<1>8. CASE command' = [Behind(command, c) EXCEPT ![c].phase = "show", ![c].known = @ \cup {k}]
  <2> DEFINE K == f.known \cup {k}
             x == [f EXCEPT !.phase = "show", !.known = K]
  <2>1. Behind(command, c)[c] = f
    BY DEF Behind
  <2>2. command' = [Behind(command, c) EXCEPT ![c] = x]
    BY <1>8, <2>1 DEF Behind
  <2>3. K \in SUBSET Object
    BY <1>3 DEF Active, Fields
  <2> HIDE DEF K
  <2>4. x \in Active /\ x.phase = "show" /\ x.known = K /\ x.make = f.make
    BY <1>3, <2>3 DEF Active, Fields
  <2> HIDE DEF x
  <2>5. \A o \in x.known \cup x.make : o.kind = "config" => o.volume \in DOMAIN heads'
    BY <1>3, <1>5, <2>4 DEF K
  <2>6. CommandOK(x, store', heads', raced', clock')
    BY <2>4, <2>5 DEF CommandOK
  <2>7. clock' \in Nat /\ clock <= clock' /\ DOMAIN heads \subseteq DOMAIN heads'
    BY <1>2, <1>5
  <2> QED BY <1>4, <1>6, <2>2, <2>6, <2>7, OneChanges
<1> QED BY <1>1, <1>7, <1>8

\* What is known of the volume is to go, ...
LEMMA DeleteVolumeKeeps ==
  ASSUME CommandsInv, NEW c \in Command, DeleteVolume(c)
  PROVE  CommandsInv'
<1> DEFINE f == command[c]
           T == Deletable(f.known, f.args.volume)
           x == [f EXCEPT !.phase = "delete", !.todo = T]
<1>1. /\ raced' = raced \cup {f.args.volume} /\ UNCHANGED <<store, clock, heads>>
      /\ command' = [command EXCEPT ![c] = x]
  BY DEF DeleteVolume, CommandsInv
<1>2. f \in Active /\ AtWork(f) /\ f.phase = "yes"
  BY WorkingCommand DEF DeleteVolume, Changer, In
<1>3. T \in SUBSET Object /\ (~f.behind => T = Deletable(store, f.args.volume))
  BY <1>2 DEF Active, Fields, Deletable, AtWork
<1>4. \A o \in T : o.volume = f.args.volume
  BY DEF Deletable
<1> HIDE DEF T
<1>5. /\ x \in Active /\ x.phase = "delete" /\ x.todo = T /\ x.args = f.args /\ x.known = f.known
      /\ x.make = f.make /\ x.behind = f.behind
  BY <1>2, <1>3 DEF Active, Fields
<1> HIDE DEF x
<1>6. CommandOK(x, store, heads, raced', clock')
  BY <1>1, <1>2, <1>3, <1>4, <1>5 DEF CommandOK, AtWork
<1>7. raced \subseteq raced' /\ clock' \in Nat /\ clock <= clock'
  BY <1>1 DEF CommandsInv, RemoteOK
<1> QED BY <1>1, <1>6, <1>7, OneGoesOn

\* ... object by object, ...
LEMMA DeleteObjectKeeps ==
  ASSUME CommandsInv, NEW c \in Command, DeleteObject(c)
  PROVE  CommandsInv'
<1> DEFINE f == command[c]
<1>1. UNCHANGED <<clock, heads, raced>> /\ clock \in Nat
  BY DEF DeleteObject, CommandsInv, RemoteOK
<1>2. PICK o \in f.todo :
        \/ /\ o \in store
           /\ store' = store \ {o}
           /\ command' = [Behind(command, c) EXCEPT ![c].todo = @ \ {o}, ![c].known = @ \ {o}, ![c].gone = 1]
        \/ Ends(c) /\ UNCHANGED store
  BY DEF DeleteObject
<1>3. CASE Ends(c) /\ UNCHANGED store
  BY <1>1, <1>3, EndsKeeps
<1>4. CASE /\ store' = store \ {o}
           /\ command' = [Behind(command, c) EXCEPT ![c].todo = @ \ {o}, ![c].known = @ \ {o}, ![c].gone = 1]
  <2> DEFINE T == f.todo \ {o}
             K == f.known \ {o}
             x == [f EXCEPT !.todo = T, !.known = K, !.gone = 1]
  <2>1. /\ f \in Active /\ AtWork(f) /\ f.phase = "delete" /\ f.args.volume \in raced /\ o.volume = f.args.volume
        /\ \A p \in f.todo : p.volume = f.args.volume
        /\ ~f.behind => Deletable(store, f.args.volume) \subseteq f.todo
    BY WorkingCommand DEF DeleteObject, In
  <2>2. T \in SUBSET Object /\ K \in SUBSET Object
    BY <2>1 DEF Active, Fields
  <2>3. command' = [Behind(command, c) EXCEPT ![c] = x]
    <3>1. Behind(command, c)[c] = f
      BY DEF Behind
    <3> QED BY <1>4, <3>1 DEF Behind
  <2> HIDE DEF T, K
  <2>4. /\ x \in Active /\ x.phase = "delete" /\ x.todo = T /\ x.args = f.args /\ x.known = K
        /\ x.make = f.make /\ x.behind = f.behind
    BY <2>1, <2>2 DEF Active, Fields
  <2> HIDE DEF x
  <2>5. RemoteOK(store', heads', raced', clock')
    <3>1. ASSUME NEW v \in DOMAIN heads \ raced
          PROVE  Configs(store', v) = Configs(store, v) /\ Newest(store', v) = Newest(store, v)
      <4>1. o.volume # v
        BY <2>1
      <4> QED BY <1>4, <4>1 DEF Configs, Newest
    <3>2. AddsUp(store', heads', raced')
      BY <1>1, <3>1 DEF AddsUp, CommandsInv, RemoteOK
    <3> QED BY <1>1, <1>4, <3>2 DEF CommandsInv, RemoteOK
  <2>6. \A p \in x.known \cup x.make : p.kind = "config" => p.volume \in DOMAIN heads'
    BY <1>1, <2>1, <2>4 DEF AtWork, K
  <2>7. \A p \in x.todo : p.volume = x.args.volume
    BY <2>1, <2>4 DEF T
  <2>8. ~x.behind => Deletable(store', x.args.volume) \subseteq x.todo
    BY <1>4, <2>1, <2>4 DEF T, Deletable
  <2>9. CommandOK(x, store', heads', raced', clock')
    BY <1>1, <2>1, <2>4, <2>6, <2>7, <2>8 DEF CommandOK
  <2>10. raced \subseteq raced' /\ clock' \in Nat /\ clock <= clock' /\ DOMAIN heads \subseteq DOMAIN heads'
    BY <1>1
  <2> QED BY <2>3, <2>5, <2>9, <2>10, OneChanges
<1> QED BY <1>2, <1>3, <1>4

\* ... and is reported gone.
LEMMA EndDeleteKeeps ==
  ASSUME CommandsInv, NEW c \in Command, EndDelete(c)
  PROVE  CommandsInv'
<1> DEFINE f == command[c]
           v == f.args.volume
           x == [phase |-> "deleted", volume |-> v, behind |-> f.behind, all |-> (f.todo = {})]
<1>1. UNCHANGED <<store, clock, heads, raced>>
  BY DEF EndDelete
<1>2. Ends(c) \/ command' = [command EXCEPT ![c] = [phase |-> "deleted", volume |-> @.args.volume, behind |-> @.behind,
                                                    all |-> @.todo = {}]]
  BY DEF EndDelete
<1>3. CASE Ends(c)
  BY <1>1, <1>3, EndsKeeps
<1>4. CASE command' = [command EXCEPT ![c] = x]
  <2>1. f \in Active /\ (~f.behind => Deletable(store, v) \subseteq f.todo)
    BY WorkingCommand DEF EndDelete, In
  <2>2. v \in Volume /\ f.behind \in BOOLEAN
    BY <2>1 DEF Active, Fields, Args
  <2>3. x \in Reported /\ x.behind = f.behind /\ x.volume = v /\ (x.all => f.todo = {})
    BY <2>2 DEF Reported
  <2> HIDE DEF x
  <2>4. CommandOK(x, store, heads, raced, clock)
    BY <2>1, <2>3 DEF CommandOK
  <2> QED BY <1>1, <1>4, <2>4, OneThinks
<1> QED BY <1>2, <1>3, <1>4

\* Every step of a command.
LEMMA CommandsKeep ==
  ASSUME CommandsInv, [CommandsNext]_commandVars
  PROVE  CommandsInv'
<1>1. CASE UNCHANGED commandVars
  BY <1>1 DEF commandVars, CommandsInv
<1>2. ASSUME NEW c \in Command,
             \/ Unconnected(c) \/ Scan(c) \/ ServeNfs(c) \/ Signal(c) \/ ShowVolume(c) \/ Answer(c)
             \/ UploadFails(c) \/ ShowCreated(c)
      PROVE  CommandsInv'
  <2>1. UNCHANGED <<store, heads, raced, clock>>
    BY <1>2 DEF Unconnected, Scan, ServeNfs, Signal, ShowVolume, Answer, UploadFails, ShowCreated
  <2>2. \/ Ends(c)
        \/ command' = [command EXCEPT ![c] = Serving]
        \/ command[c].phase \in {"look", "ask"} /\ (To(c, "ask") \/ To(c, "yes"))
    BY <1>2 DEF Unconnected, Scan, ServeNfs, Signal, ShowVolume, Answer, UploadFails, ShowCreated, In
  <2> QED BY <2>1, <2>2, EndsKeeps, ServingKeeps, ToKeeps
<1>3. ASSUME NEW c \in Command, CreateHead(c) \/ DeleteHead(c)
      PROVE  CommandsInv'
  BY <1>3, PrepareKeeps DEF CreateHead, DeleteHead, Changer
<1> QED BY <1>1, <1>2, <1>3, StartKeeps, HearKeeps, CreateVolumeKeeps, UploadKeeps, DeleteVolumeKeeps,
           DeleteObjectKeeps, EndDeleteKeeps DEF CommandsNext

\* There is one volume with one config.
LEMMA CommandsStart == CommandsInit => CommandsInv
<1> SUFFICES ASSUME CommandsInit PROVE CommandsInv
  OBVIOUS
<1> DEFINE k == Config(Existing, {Main}, 0)
<1>1. /\ store = {k, RootCommit(Existing)} /\ clock = 0 /\ heads = [v \in {Existing} |-> {Main}]
      /\ command = [c \in Command |-> NotStarted] /\ raced = {}
  BY DEF CommandsInit
<1>2. k \in Object /\ k.kind = "config" /\ k.volume = Existing /\ k.heads = {Main} /\ k.time = 0
  BY ConfigIs
<1>3. RootCommit(Existing) \in Object /\ RootCommit(Existing).kind = "commit"
  BY DEF RootCommit, Object
<1> HIDE DEF k
<1>4. Configs(store, Existing) = {k}
  BY <1>1, <1>2, <1>3 DEF Configs
<1>5. AddsUp(store, heads, raced)
  BY <1>1, <1>2, <1>4 DEF AddsUp, Newest
<1>6. RemoteOK(store, heads, raced, clock)
  BY <1>1, <1>2, <1>3, <1>5 DEF RemoteOK
<1>7. NotStarted \in Inactive
  BY DEF NotStarted, Inactive
<1> QED BY <1>1, <1>6, <1>7 DEF CommandsInv, CommandOK

\* At any time, then.
LEMMA CommandsAlways == CommandsSpec => []CommandsInv
BY CommandsStart, CommandsKeep, PTL DEF CommandsSpec

\* Whatever commands overlap, those that know of each other's changes come to what each was
\* to do: the config that counts has every head created and not deleted (config.rs:921).
THEOREM ChangesAreKept == CommandsSpec => []ChangesAddUp
<1>1. CommandsInv => ChangesAddUp
  BY DEF CommandsInv, RemoteOK, AddsUp, ChangesAddUp
<1> QED BY <1>1, CommandsAlways, PTL

\* A volume reported as deleted has left nothing, but for what others have brought meanwhile
\* and what a listing that broke off has hidden (delete.rs:40).
THEOREM DeletesAreWhole == CommandsSpec => []DeletedIsGone
<1>1. CommandsInv => DeletedIsGone
  <2> SUFFICES ASSUME CommandsInv, NEW c \in Command, In(c, "deleted"), ~command[c].behind, command[c].all
               PROVE  Deletable(store, command[c].volume) = {}
    BY DEF DeletedIsGone
  <2>1. CommandOK(command[c], store, heads, raced, clock)
    BY DEF CommandsInv
  <2>2. command[c] \notin Active /\ command[c] \notin Inactive
    BY DEF In, Active, Fields, Inactive
  <2> QED BY <2>1, <2>2 DEF CommandOK
<1> QED BY <1>1, CommandsAlways, PTL
=============================================================================
