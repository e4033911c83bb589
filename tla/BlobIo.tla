------------------------------- MODULE BlobIo -------------------------------
(***************************************************************************)
(* A file handle that reads and writes a blob (janus-vfs/src/blob/io.rs).  *)
(* Bytes are collected in one write buffer that covers at most one chunk;  *)
(* when a write leaves the buffer's range, or on flush, the buffer becomes *)
(* a new chunk, and once the chunk store has taken it, its range of the    *)
(* chunk map points to it.  A chunk is named by its content, so a chunk    *)
(* here is its sequence of bytes.                                          *)
(*                                                                         *)
(* Next to the code's state runs the file the caller believes in: file is  *)
(* the array of bytes that went through the same writes and resizes.       *)
(*                                                                         *)
(* Uses says what callers may do beside writing inside a file or at its    *)
(* end: start a write beyond the end ("sparse"), resize ("shrink",          *)
(* "extend"), append with SeekFrom::End ("end"); used is what they have    *)
(* done so far.  The bounds are MaxLen, the longest file, and MaxWrite, the*)
(* longest write.                                                          *)
(***************************************************************************)
EXTENDS ChunkMap, Sequences

CONSTANTS ChunkSize,    \* max_chunk_size of the volume
          Byte,         \* what callers write; Zero is not among it
          MaxLen, MaxWrite,
          Uses          \* of {"sparse", "shrink", "extend", "end"}

ASSUME SizeAssumption == ChunkSize \in Nat \ {0} /\ MaxLen \in Nat /\ MaxWrite \in Nat \ {0}

VARIABLES
  map,        \* the chunk map of the blob
  buffer,     \* the write buffer: {} or {[start, cap, data]}
  submit,     \* the chunk on its way to the store: {} or {[pos, data]}
  status,     \* "open", "closed", "failed" (the store refused a chunk), "panicked"
  file,       \* what the caller believes in
  used

blobVars == <<map, buffer, submit, status, file, used>>

File == INSTANCE ByteFile WITH content <- file

Data == UNION {[1 .. n -> Byte] : n \in 1 .. MaxWrite}

BlobInit ==
  /\ map = WithLen(0)
  /\ buffer = {}
  /\ submit = {}
  /\ status = "open"
  /\ file = <<>>
  /\ used = {}

\* The store has taken the chunk: lengthen the blob if it grew, point the map.
Mapped(m, s) ==
  LET longer == IF s.pos + Len(s.data) > m.len THEN SetLen(m, s.pos + Len(s.data)) ELSE m
  IN  Insert(longer, s.pos, Len(s.data), s.data, 0)

-----------------------------------------------------------------------------
(* The write buffer. *)

Contains(b, p) == b.start <= p /\ p < b.start + b.cap

BufferEnd(b) == b.start + Len(b.data)

Aligned(p) == p - (p % ChunkSize)

\* The chunk at the aligned position starts in its middle: an error.
MidChunk(p) ==
  LET g == Get(map, Aligned(p)) IN g.kind = "chunk" /\ g.off # 0

\* Mutants of NewBuffer: what the chunk holds is not loaded; the buffer ends
\* with the file.
NewBufferEmpty(p) == [start |-> Aligned(p), cap |-> ChunkSize, data |-> <<>>]

NewBufferInFile(p) ==
  LET g == Get(map, Aligned(p))
  IN  [start |-> Aligned(p),
       cap   |-> IF g.kind = "eof" THEN ChunkSize ELSE Smaller(map.len - Aligned(p), ChunkSize),
       data  |-> IF g.kind = "chunk" THEN g.id ELSE <<>>]

\* A new buffer for a write at p: the whole chunk that starts at the aligned
\* position, or an empty buffer no longer than the hole there.
NewBuffer(p) ==
  LET g == Get(map, Aligned(p))
  IN  [start |-> Aligned(p),
       cap   |-> IF g.kind = "hole" THEN Smaller(g.len, ChunkSize) ELSE ChunkSize,
       data  |-> IF g.kind = "chunk" THEN g.id ELSE <<>>]

\* write_into_vec: as much of d as fits, a gap before it zeroed.
Fits(b, p, d) == Smaller(Len(d), b.start + b.cap - p)

Filled(b, p, d) == [b EXCEPT !.data = File!Overwrite(@, p - b.start, SubSeq(d, 1, Fits(b, p, d)))]

(***************************************************************************)
(* poll_write once a buffer that covers p is there or none is: a buffer of *)
(* another range was flushed before (Submit, Stored).  The caller believes *)
(* the bytes go to offset q of the file, and d is taken as far as it fits. *)
(***************************************************************************)
WriteAt(p, q, d) ==
  /\ status = "open" /\ submit = {}
  /\ \A b \in buffer : Contains(b, p)
  /\ buffer = {} => ~MidChunk(p)
  /\ LET b == IF buffer = {} THEN NewBuffer(p) ELSE CHOOSE b \in buffer : TRUE
     IN  IF Contains(b, p)
         THEN /\ p + Fits(b, p, d) <= MaxLen /\ q + Fits(b, p, d) <= MaxLen
              /\ buffer' = {Filled(b, p, d)}
              /\ File!Write(q, SubSeq(d, 1, Fits(b, p, d)))
              /\ UNCHANGED status
         ELSE \* debug_assert!(self.contains(pos)) in write_at
              /\ status' = "panicked"
              /\ UNCHANGED <<buffer, file>>
  /\ UNCHANGED <<map, submit>>

\* u is what the caller does: nothing special, or one of the uses.
Use(u) == u \subseteq Uses /\ used' = used \cup u

Write ==
  \E p \in 0 .. MaxLen - 1, d \in Data :
    /\ Use(IF p > Len(file) THEN {"sparse"} ELSE {})
    /\ WriteAt(p, p, d)

\* seek(SeekFrom::End(0)) goes to the end of the blob, and write.
AppendAtEnd ==
  /\ Use({"end"})
  /\ \E d \in Data : WriteAt(map.len, Len(file), d)

\* poll_flush with a buffer: hand its bytes to the chunk store.
Submit ==
  /\ status = "open" /\ submit = {} /\ buffer # {}
  /\ submit' = {[pos |-> b.start, data |-> b.data] : b \in buffer}
  /\ buffer' = {}
  /\ UNCHANGED <<map, status, file, used>>

\* The store has taken the chunk; whoever polls next updates the map.
Stored ==
  /\ status = "open"
  /\ \E s \in submit : map' = Mapped(map, s)
  /\ submit' = {}
  /\ UNCHANGED <<buffer, status, file, used>>

\* The store refused the chunk: the error is returned once, the finished
\* future stays where it is, and polling it again panics.
Refused ==
  /\ status = "open" /\ submit # {}
  /\ status' = "failed"
  /\ UNCHANGED <<map, buffer, submit, file, used>>

Flushed == buffer = {} /\ submit = {}

\* set_len, after the flush it begins with.
Resize ==
  /\ status = "open" /\ Flushed
  /\ \E n \in 0 .. MaxLen :
       /\ n # map.len
       /\ Use(IF n < map.len THEN {"shrink"} ELSE {"extend"})
       /\ map' = SetLen(map, n)
       /\ File!SetLen(n)
  /\ UNCHANGED <<buffer, submit, status>>

\* close or finalize, after their flush ...
Close ==
  /\ status = "open" /\ Flushed
  /\ status' = "closed"
  /\ UNCHANGED <<map, buffer, submit, file, used>>

\* ... and a new handle on the blob they left behind.
Reopen ==
  /\ status = "closed"
  /\ status' = "open"
  /\ UNCHANGED <<map, buffer, submit, file, used>>

BlobNext == Write \/ AppendAtEnd \/ Submit \/ Stored \/ Refused \/ Resize \/ Close \/ Reopen

BlobSpec == BlobInit /\ [][BlobNext]_blobVars

-----------------------------------------------------------------------------
(* Reading. *)

\* copy_from_chunk: no further than the map entry, the chunk or the request.
FromChunk(g, n) ==
  SubSeq(g.id, g.off + 1, g.off + Smaller(Smaller(g.len, n), Len(g.id) - g.off))

FromMap(m, p, n) ==
  LET g == Get(m, p)
  IN  CASE g.kind = "eof"   -> <<>>
        [] g.kind = "hole"  -> File!Zeroes(Smaller(g.len, n))
        [] g.kind = "chunk" -> FromChunk(g, n)

\* The chunk map once the chunk on its way is stored, if there is one.
Settled == IF submit = {} THEN map ELSE Mapped(map, CHOOSE s \in submit : TRUE)

\* Mutant of Read: the chunk map is asked first.
ReadMapFirst(p, n) ==
  IF p < Settled.len \/ buffer = {} THEN FromMap(Settled, p, n)
  ELSE LET b == CHOOSE b \in buffer : TRUE
       IN  SubSeq(b.data, p - b.start + 1, p - b.start + Smaller(n, BufferEnd(b) - p))

\* What poll_read answers for at most n bytes at p.  Behind the blob of a handle
\* with nothing to flush it is the end of the file; otherwise it waits until a
\* chunk on its way is stored, and the buffer answers if p is in it, the chunk
\* map if not.
Read(p, n) ==
  IF p >= map.len /\ Flushed THEN <<>>
  ELSE IF \E b \in buffer : b.start <= p /\ p < BufferEnd(b)
  THEN LET b == CHOOSE b \in buffer : TRUE
       IN  SubSeq(b.data, p - b.start + 1, p - b.start + Smaller(n, BufferEnd(b) - p))
  ELSE FromMap(Settled, p, n)

\* Mutant of Length: the capacity of the buffer is counted.
LengthOfCapacity ==
  IF \E b \in buffer : b.start + b.cap > map.len
  THEN (CHOOSE b \in buffer : TRUE).start + (CHOOSE b \in buffer : TRUE).cap ELSE map.len

\* len(): the blob or the end of the buffer, whichever is further; a chunk on
\* its way to the store is in neither.
Length ==
  IF \E b \in buffer : BufferEnd(b) > map.len
  THEN BufferEnd(CHOOSE b \in buffer : TRUE) ELSE map.len

\* The bytes of a blob as a reader that opens it sees them.
BlobContent(m) == [k \in 1 .. m.len |-> FromMap(m, k - 1, 1)[1]]

\* The blob a flush would leave behind.
FlushedMap ==
  LET b == CHOOSE b \in buffer : TRUE
  IN  IF buffer = {} THEN Settled ELSE Mapped(Settled, [pos |-> b.start, data |-> b.data])

-----------------------------------------------------------------------------
\* A file is what was written to it: whatever the caller did, flushing now
\* leaves a blob with exactly these bytes, and a truncated file ends at the
\* cut (the test at io.rs:1001).  The code does not keep this.
FileIsWhatWasWritten ==
  status \in {"open", "closed"} => BlobContent(FlushedMap) = file

\* However the bytes were cut into buffers and chunks, flushing now leaves a
\* blob with exactly the bytes that were written, unless the file was cut or
\* appended to by its blob's length: nothing is lost at a chunk boundary,
\* nothing of a neighbouring chunk is overwritten, gaps are zero (io.rs:431,
\* io.rs:363).
WritesReachTheBlob ==
  used \cap {"shrink", "end"} = {} => FileIsWhatWasWritten

\* A reader of the handle sees its own writes, whether they are in the buffer,
\* on their way to the store or in it, and reaches the end of the file only at
\* its end, if the file has no holes (io.rs:391, io.rs:552).
ReadsSeeWrites ==
  (status = "open" /\ used = {}) =>
    \A p \in 0 .. MaxLen, n \in 1 .. ChunkSize + 1 :
      /\ Read(p, n) = SubSeq(file, p + 1, p + Len(Read(p, n)))
      /\ p < Len(file) => Read(p, n) # <<>>

\* len() counts what is stored and what is in the buffer (io.rs:519), so it is
\* the length of the file at all times but one: while the last chunk of a file
\* that grew is on its way to the store, len() falls short by that chunk, and by
\* nothing else.
LengthIsKnown ==
  (status = "open" /\ used \cap {"shrink", "end"} = {}) =>
    \/ Length = Len(file)
    \/ Length < Len(file) /\ \E s \in submit : s.pos + Len(s.data) = Len(file)

\* Both: what a handle reads, and how long it says its file is.
HandleSeesFile == ReadsSeeWrites /\ LengthIsKnown

\* The buffer a write falls into covers the write, so the assertion in
\* WriteBuffer::write_at (io.rs:134) holds, unless set_len has left a hole that
\* ends inside a chunk.
BufferCoversWrite == used \cap {"shrink", "extend"} = {} => status # "panicked"
=============================================================================
