------------------------------ MODULE ChunkMap ------------------------------
(***************************************************************************)
(* The chunk map of a blob (janus-vfs/src/chunk/chunk_map.rs): which chunk *)
(* holds which range of a file.  A map is a record [len, entries]; an entry*)
(* says that the bytes start .. end-1 of the file are the bytes            *)
(* off .. off+(end-start)-1 of chunk id, and bytes no entry covers are     *)
(* holes that read as zero.  The BTreeMap keyed by start is the set of its *)
(* entries.  Positions are u64 in the code; additions there saturate, and  *)
(* no position comes near 2^64, so they are plain numbers here.            *)
(***************************************************************************)
EXTENDS Integers, FiniteSets

Entry(Id, Pos) == [start : Pos, end : Pos, id : Id, off : Pos]

WithLen(n) == [len |-> n, entries |-> {}]

Smaller(a, b) == IF a < b THEN a ELSE b

Overlaps(x, s, e) == x.start < e /\ x.end > s

Covers(x, p) == x.start <= p /\ p < x.end

\* Mutant of Remains: the right part keeps the offset of the whole entry.
RemainsSameOffset(x, s, e) ==
  (IF x.start < s THEN {[x EXCEPT !.end = s]} ELSE {})
    \cup (IF x.end > e THEN {[x EXCEPT !.start = e]} ELSE {})

\* What is left of entry x when the range s .. e-1 is cut out of it.
Remains(x, s, e) ==
  (IF x.start < s THEN {[x EXCEPT !.end = s]} ELSE {})
    \cup (IF x.end > e THEN {[x EXCEPT !.start = e, !.off = @ + (e - x.start)]} ELSE {})

RemoveRange(E, s, e) ==
  {x \in E : ~Overlaps(x, s, e)} \cup UNION {Remains(x, s, e) : x \in {y \in E : Overlaps(y, s, e)}}

\* y continues x: the next range of the file, from the next bytes of the chunk.
Continues(x, y) ==
  x.end = y.start /\ x.id = y.id /\ x.off + (x.end - x.start) = y.off

\* try_merge_at(x.start)
MergeAfter(E, x) ==
  IF \E y \in E : Continues(x, y)
  THEN LET y == CHOOSE y \in E : Continues(x, y)
       IN  (E \ {x, y}) \cup {[x EXCEPT !.end = y.end]}
  ELSE E

\* The entry before position p, as a set of at most one.
Before(E, p) == {x \in E : x.start < p /\ \A y \in E : y.start < p => y.start <= x.start}

\* Mutant of MergePrevious: an insert is merged with what follows it only.
MergeNothing(E, p) == E

MergePrevious(E, p) ==
  IF Before(E, p) = {} THEN E ELSE MergeAfter(E, CHOOSE x \in Before(E, p) : TRUE)

Insert(m, p, n, id, off) ==
  LET e == Smaller(p + n, m.len)
      x == [start |-> p, end |-> e, id |-> id, off |-> off]
  IN  IF n = 0 \/ p >= m.len \/ e <= p
      THEN m
      ELSE [m EXCEPT !.entries =
              MergePrevious(MergeAfter(RemoveRange(@, p, e) \cup {x}, x), p)]

Remove(m, p, n) ==
  IF n = 0 \/ p >= m.len
  THEN m
  ELSE [m EXCEPT !.entries = RemoveRange(@, p, Smaller(p + n, m.len))]

SetLen(m, n) ==
  [len |-> n,
   entries |-> IF n < m.len THEN RemoveRange(m.entries, n, m.len) ELSE m.entries]

\* get(p) for p < m.len: the chunk that holds byte p, with what follows it ...
Holding(m, p) == {x \in m.entries : Covers(x, p)}

\* ... or the hole at p, which ends at the next entry or at the end.
HoleEnd(m, p) ==
  LET next == {x.start : x \in {y \in m.entries : y.start > p}}
  IN  IF next = {} THEN m.len
      ELSE Smaller(CHOOSE s \in next : \A t \in next : s <= t, m.len)

Get(m, p) ==
  IF p >= m.len THEN [kind |-> "eof"]
  ELSE IF Holding(m, p) # {}
  THEN LET x == CHOOSE x \in Holding(m, p) : TRUE
       IN  [kind |-> "chunk", id |-> x.id, off |-> x.off + (p - x.start), len |-> x.end - p]
  ELSE [kind |-> "hole", len |-> HoleEnd(m, p) - p]
=============================================================================
