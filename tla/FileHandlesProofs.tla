-------------------------- MODULE FileHandlesProofs --------------------------
(***************************************************************************)
(* What holds of open files, of the blobs they read and write and of the   *)
(* store under them, for any number of handles, inodes and chunks, any     *)
(* chunk size and any write, with push jobs, crashes, abandoned flushes    *)
(* and failing reapers.                                                    *)
(*                                                                         *)
(* The chunk map: what it holds is pieces that do not overlap and cannot   *)
(* be joined, and they say of each byte what was last written there.       *)
(*                                                                         *)
(* The blob: the file is what the stored chunks say, with the buffer or    *)
(* the chunk on its way over them.                                         *)
(*                                                                         *)
(* The files: nobody but the holder of its write lock changes a file under *)
(* an open handle, as long as Vfs::update does not run beside the writers. *)
(*                                                                         *)
(* The store: a chunk's reference count is the number of blobs, handles    *)
(* and queue entries that refer to it, whatever the triggers delete, so    *)
(* nothing in use is collected and nothing out of use stays.               *)
(***************************************************************************)
EXTENDS FileHandles, MCBlobIo, WellFoundedInduction, FiniteSetTheorems, SequenceTheorems, TLAPS

-----------------------------------------------------------------------------
(* The chunk map. *)

\* A set of naturals has a least one.
LEMMA LeastNat ==
  ASSUME NEW S \in SUBSET Nat, S # {}
  PROVE  \E s \in S : \A t \in S : s <= t
<1> DEFINE R == OpToRel(<, Nat)
<1>1. IsWellFoundedOn(R, Nat)
  BY NatLessThanWellFounded
<1> HIDE DEF R
<1>2. PICK s \in S : \A t \in S : ~ (<<t, s>> \in R)
  BY <1>1, WFMin
<1>3. \A t \in S : t < s => <<t, s>> \in R
  BY DEF R, OpToRel
<1>4. \A t \in S : t \in Nat /\ (t < s \/ s <= t)
  OBVIOUS
<1> QED BY <1>2, <1>3, <1>4

-----------------------------------------------------------------------------
(* The chunk map. *)

\* An entry has bytes; two entries have none in common; all are inside the file.
EntryOK(x) == /\ x = [start |-> x.start, end |-> x.end, id |-> x.id, off |-> x.off]
              /\ x.start \in Nat /\ x.end \in Nat /\ x.off \in Nat /\ x.start < x.end

Disjoint(x, y) == x.end <= y.start \/ y.end <= x.start

Entries(E, n) ==
  /\ \A x \in E : EntryOK(x) /\ x.end <= n
  /\ \A x, y \in E : x # y => Disjoint(x, y)

Coalesced(E) == \A x, y \in E : ~Continues(x, y)

\* What the entries say of byte p: it is byte o of chunk i.
Tells(x, p, i, o) == Covers(x, p) /\ x.id = i /\ x.off + (p - x.start) = o

Says(E, p, i, o) == \E x \in E : Tells(x, p, i, o)

\* x is a piece of y, the same bytes at the same place.
Piece(x, y) ==
  /\ EntryOK(x) /\ EntryOK(y) /\ x.id = y.id
  /\ y.start <= x.start /\ x.end <= y.end /\ x.off = y.off + (x.start - y.start)

\* What is cut out leaves of an entry the piece before and the piece after.
LEMMA RemainsArePieces ==
  ASSUME NEW y, EntryOK(y), NEW s \in Nat, NEW e \in Nat, s < e, Overlaps(y, s, e)
  PROVE  /\ \A x \in Remains(y, s, e) : Piece(x, y) /\ (x.end <= s \/ x.start >= e)
         /\ \A x, z \in Remains(y, s, e) : x # z => Disjoint(x, z) /\ ~Continues(x, z)
         /\ \A p \in Nat : Covers(y, p) /\ ~(s <= p /\ p < e) => \E x \in Remains(y, s, e) : Covers(x, p)
<1> DEFINE a == [y EXCEPT !.end = s]
           b == [y EXCEPT !.start = e, !.off = y.off + (e - y.start)]
<1>1. a = [start |-> y.start, end |-> s, id |-> y.id, off |-> y.off]
  BY DEF EntryOK
<1>2. b = [start |-> e, end |-> y.end, id |-> y.id, off |-> y.off + (e - y.start)]
  <2> DEFINE c == [y EXCEPT !.start = e]
             v == y.off + (e - y.start)
  <2>1. c = [start |-> e, end |-> y.end, id |-> y.id, off |-> y.off]
    BY DEF EntryOK
  <2>2. b = [c EXCEPT !.off = v]
    BY DEF EntryOK
  <2> HIDE DEF c, v
  <2>3. b = [start |-> e, end |-> y.end, id |-> y.id, off |-> v]
    <3> HIDE DEF b
    <3> QED BY <2>1, <2>2
  <2> QED BY <2>3 DEF v
<1>3. Remains(y, s, e) = (IF y.start < s THEN {a} ELSE {}) \cup (IF y.end > e THEN {b} ELSE {})
  BY DEF Remains, EntryOK
<1> HIDE DEF a, b
<1>4. y.start < s => Piece(a, y) /\ a.end <= s
  BY <1>1 DEF EntryOK, Piece, Overlaps
<1>5. y.end > e => Piece(b, y) /\ b.start >= e
  BY <1>2 DEF EntryOK, Piece, Overlaps
<1>6. Disjoint(a, b) /\ Disjoint(b, a) /\ ~Continues(a, b)
  BY <1>1, <1>2 DEF Disjoint, Continues, EntryOK
<1>7. y.start < s /\ y.end > e => ~Continues(b, a)
  BY <1>1, <1>2 DEF Continues, EntryOK
<1>8. ASSUME NEW p \in Nat, Covers(y, p), ~(s <= p /\ p < e)
      PROVE  \E x \in Remains(y, s, e) : Covers(x, p)
  <2>1. CASE p < s
    <3>1. a \in Remains(y, s, e) /\ Covers(a, p)
      BY <1>1, <1>3, <1>8, <2>1 DEF Covers, EntryOK
    <3> QED BY <3>1
  <2>2. CASE e <= p
    <3>1. b \in Remains(y, s, e) /\ Covers(b, p)
      BY <1>2, <1>3, <1>8, <2>2 DEF Covers, EntryOK
    <3> QED BY <3>1
  <2> QED BY <1>8, <2>1, <2>2
<1> QED BY <1>3, <1>4, <1>5, <1>6, <1>7, <1>8

\* Pieces of entries that have no bytes in common have none.
LEMMA PiecesOfTwo ==
  ASSUME NEW x, NEW y, NEW z, NEW w, Piece(x, y), Piece(z, w), Disjoint(y, w), ~Continues(y, w)
  PROVE  Disjoint(x, z) /\ ~Continues(x, z)
BY DEF Piece, EntryOK, Disjoint, Continues

LEMMA PieceOfItself == ASSUME NEW x, EntryOK(x) PROVE Piece(x, x)
BY DEF Piece, EntryOK

LEMMA PieceSays ==
  ASSUME NEW x, NEW y, Piece(x, y), NEW p \in Nat, Covers(x, p), NEW i, NEW o
  PROVE  Tells(y, p, i, o) <=> Tells(x, p, i, o)
BY DEF Piece, Tells, Covers, EntryOK

\* A cut leaves what it does not touch, and nothing in between.
LEMMA RemoveRangeCuts ==
  ASSUME NEW E, NEW n \in Nat, Entries(E, n), NEW s \in Nat, NEW e \in Nat, s < e
  PROVE  LET F == RemoveRange(E, s, e) IN
         /\ Entries(F, n)
         /\ \A x \in F : x.end <= s \/ x.start >= e
         /\ \A x \in F : \E y \in E : Piece(x, y)
         /\ Coalesced(E) => Coalesced(F)
         /\ \A p \in Nat : \A i, o : Says(F, p, i, o) <=> Says(E, p, i, o) /\ ~(s <= p /\ p < e)
<1> DEFINE F == RemoveRange(E, s, e)
           From(x, y) == y \in E /\ IF Overlaps(y, s, e) THEN x \in Remains(y, s, e) ELSE x = y
<1>1. \A x : x \in F <=> \E y \in E : From(x, y)
  BY DEF RemoveRange
<1>2. ASSUME NEW x, NEW y, From(x, y)
      PROVE  EntryOK(y) /\ Piece(x, y) /\ (x.end <= s \/ x.start >= e) /\ x.end <= n
  <2>1. EntryOK(y) /\ y.end <= n
    BY <1>2 DEF Entries
  <2>2. CASE Overlaps(y, s, e)
    <3>1. Piece(x, y) /\ (x.end <= s \/ x.start >= e)
      BY <1>2, <2>1, <2>2, RemainsArePieces
    <3> QED BY <2>1, <3>1 DEF Piece, EntryOK
  <2>3. CASE ~Overlaps(y, s, e)
    BY <1>2, <2>1, <2>3, PieceOfItself DEF Overlaps, EntryOK
  <2> QED BY <2>2, <2>3
<1>3. ASSUME NEW x, NEW y, NEW z, NEW w, From(x, y), From(z, w), x # z
      PROVE  Disjoint(x, z) /\ (Coalesced(E) => ~Continues(x, z))
  <2>1. CASE y = w
    <3>1. Overlaps(y, s, e)
      BY <1>3, <2>1
    <3>2. EntryOK(y)
      BY <1>2, <1>3
    <3> QED BY <1>3, <2>1, <3>1, <3>2, RemainsArePieces
  <2>2. CASE y # w
    <3>1. Disjoint(y, w) /\ Piece(x, y) /\ Piece(z, w) /\ y \in E /\ w \in E
      BY <1>2, <1>3, <2>2 DEF Entries
    <3>2. Disjoint(x, z)
      BY <3>1 DEF Piece, EntryOK, Disjoint
    <3>3. Coalesced(E) => ~Continues(y, w)
      BY <3>1 DEF Coalesced
    <3> QED BY <3>1, <3>2, <3>3, PiecesOfTwo
  <2> QED BY <2>1, <2>2
<1>4. ASSUME NEW p \in Nat, NEW i, NEW o
      PROVE  Says(F, p, i, o) <=> Says(E, p, i, o) /\ ~(s <= p /\ p < e)
  <2>1. ASSUME Says(F, p, i, o) PROVE Says(E, p, i, o) /\ ~(s <= p /\ p < e)
    <3>1. PICK x \in F : Tells(x, p, i, o)
      BY <2>1 DEF Says
    <3>2. PICK y \in E : From(x, y)
      BY <1>1
    <3>3. Piece(x, y) /\ (x.end <= s \/ x.start >= e)
      BY <1>2, <3>2
    <3>4. Tells(y, p, i, o)
      BY <3>1, <3>3, PieceSays DEF Tells
    <3>5. ~(s <= p /\ p < e)
      BY <3>1, <3>3 DEF Tells, Covers, Piece, EntryOK
    <3> QED BY <3>4, <3>5 DEF Says
  <2>2. ASSUME Says(E, p, i, o), ~(s <= p /\ p < e) PROVE Says(F, p, i, o)
    <3>1. PICK y \in E : Tells(y, p, i, o)
      BY <2>2 DEF Says
    <3>2. EntryOK(y)
      BY DEF Entries
    <3>3. PICK x : From(x, y) /\ Covers(x, p)
      <4>1. CASE Overlaps(y, s, e)
        BY <2>2, <3>1, <3>2, <4>1, RemainsArePieces DEF Tells
      <4>2. CASE ~Overlaps(y, s, e)
        BY <3>1, <4>2 DEF Tells
      <4> QED BY <4>1, <4>2
    <3>4. x \in F /\ Piece(x, y)
      BY <1>1, <1>2, <3>3
    <3> QED BY <3>1, <3>3, <3>4, PieceSays DEF Says
  <2> QED BY <2>1, <2>2
<1> HIDE DEF F, From
<1>5. Entries(F, n)
  <2>1. \A x \in F : EntryOK(x) /\ x.end <= n
    BY <1>1, <1>2 DEF Piece
  <2>2. \A x, z \in F : x # z => Disjoint(x, z)
    BY <1>1, <1>3
  <2> QED BY <2>1, <2>2 DEF Entries
<1>6. Coalesced(E) => Coalesced(F)
  <2>1. \A x \in F : ~Continues(x, x)
    BY <1>5 DEF Entries, EntryOK, Continues
  <2>2. \A x, z \in F : x # z /\ Coalesced(E) => ~Continues(x, z)
    BY <1>1, <1>3
  <2> QED BY <2>1, <2>2 DEF Coalesced
<1>7. \A x \in F : x.end <= s \/ x.start >= e
  BY <1>1, <1>2
<1>8. \A x \in F : \E y \in E : Piece(x, y)
  BY <1>1, <1>2
<1> QED BY <1>4, <1>5, <1>6, <1>7, <1>8 DEF F

\* One entry for two that continue each other says the same, and is continued by what continued them.
LEMMA MergeSays ==
  ASSUME NEW E, NEW n \in Nat, Entries(E, n), NEW x \in E
  PROVE  LET F == MergeAfter(E, x) IN
         /\ Entries(F, n)
         /\ \A p \in Nat : \A i, o : Says(F, p, i, o) <=> Says(E, p, i, o)
         /\ \A a, b \in F : Continues(a, b) =>
              \E c, d \in E : Continues(c, d) /\ c # x /\ c.end = a.end /\ d.start = b.start
<1> DEFINE F == MergeAfter(E, x)
<1>1. CASE ~\E y \in E : Continues(x, y)
  <2>1. F = E
    BY <1>1 DEF MergeAfter
  <2> QED BY <1>1, <2>1
<1>2. CASE \E y \in E : Continues(x, y)
  <2>1. PICK y : y = CHOOSE z \in E : Continues(x, z)
    OBVIOUS
  <2>2. y \in E /\ Continues(x, y)
    BY <1>2, <2>1
  <2> DEFINE m == [x EXCEPT !.end = y.end]
  <2>3. F = (E \ {x, y}) \cup {m}
    BY <1>2, <2>1 DEF MergeAfter
  <2>4. EntryOK(x) /\ EntryOK(y) /\ x.end <= n /\ y.end <= n /\ x # y
    BY <2>2 DEF Entries, EntryOK, Continues
  <2>5. m = [start |-> x.start, end |-> y.end, id |-> x.id, off |-> x.off]
    BY <2>4 DEF EntryOK
  <2> HIDE DEF m, F
  <2>6. EntryOK(m) /\ m.end <= n
    BY <2>2, <2>4, <2>5 DEF EntryOK, Continues
  <2>7. \A p \in Nat : \A i, o : Tells(m, p, i, o) <=> Tells(x, p, i, o) \/ Tells(y, p, i, o)
    BY <2>2, <2>4, <2>5 DEF EntryOK, Continues, Covers, Tells
  <2>9. \A p \in Nat : \A i, o : Says(F, p, i, o) <=> Says(E, p, i, o)
    <3> SUFFICES ASSUME NEW p \in Nat, NEW i, NEW o
                 PROVE  Says(F, p, i, o) <=> Says(E, p, i, o)
      OBVIOUS
    <3>1. Says(F, p, i, o) <=> Tells(m, p, i, o) \/ \E z \in E \ {x, y} : Tells(z, p, i, o)
      BY <2>3 DEF Says
    <3>2. Says(E, p, i, o) <=> Tells(x, p, i, o) \/ Tells(y, p, i, o) \/ \E z \in E \ {x, y} : Tells(z, p, i, o)
      BY <2>2 DEF Says
    <3> QED BY <2>7, <3>1, <3>2
  <2>10. \A z \in E \ {x, y} : EntryOK(z) /\ Disjoint(z, m) /\ Disjoint(m, z)
    <3> SUFFICES ASSUME NEW z \in E \ {x, y} PROVE EntryOK(z) /\ Disjoint(z, m) /\ Disjoint(m, z)
      OBVIOUS
    <3>1. EntryOK(z) /\ Disjoint(z, x) /\ Disjoint(z, y)
      BY <2>2 DEF Entries
    <3> QED BY <2>2, <2>4, <2>5, <3>1 DEF EntryOK, Continues, Disjoint
  <2>11. Entries(F, n)
    <3>1. \A a \in F : EntryOK(a) /\ a.end <= n
      BY <2>3, <2>6 DEF Entries
    <3>2. \A a, b \in F : a # b => Disjoint(a, b)
      BY <2>3, <2>10 DEF Entries
    <3> QED BY <3>1, <3>2 DEF Entries
  <2>12. ASSUME NEW a \in F, NEW b \in F, Continues(a, b)
         PROVE  \E c, d \in E : Continues(c, d) /\ c # x /\ c.end = a.end /\ d.start = b.start
    <3>1. ~Continues(m, m)
      BY <2>6 DEF Continues, EntryOK
    <3>2. CASE a = m
      <4>1. b \in E /\ b \notin {x, y}
        BY <2>3, <2>12, <3>1, <3>2
      <4>2. EntryOK(b)
        BY <4>1 DEF Entries
      <4>3. Continues(y, b)
        BY <2>2, <2>4, <2>5, <2>12, <3>2, <4>2 DEF Continues, EntryOK
      <4> QED BY <2>2, <2>4, <2>5, <3>2, <4>1, <4>3
    <3>3. CASE a # m /\ b = m
      <4>1. a \in E /\ a \notin {x, y}
        BY <2>3, <3>3
      <4>2. Continues(a, x)
        BY <2>5, <2>12, <3>3 DEF Continues
      <4> QED BY <2>5, <3>3, <4>1, <4>2
    <3>4. CASE a # m /\ b # m
      <4>1. a \in E /\ a # x /\ b \in E
        BY <2>3, <3>4
      <4> QED BY <2>12, <4>1
    <3> QED BY <3>2, <3>3, <3>4
  <2> QED BY <2>9, <2>11, <2>12 DEF F
<1> QED BY <1>1, <1>2

\* insert, where it is inside the file: the range says what was inserted, the rest what it said.
LEMMA InsertSays ==
  ASSUME NEW E, NEW n \in Nat, Entries(E, n), NEW p \in Nat, NEW e \in Nat, p < e, e <= n,
         NEW id, NEW off \in Nat
  PROVE  LET x == [start |-> p, end |-> e, id |-> id, off |-> off]
             F == MergePrevious(MergeAfter(RemoveRange(E, p, e) \cup {x}, x), p)
         IN  /\ Entries(F, n)
             /\ Coalesced(E) => Coalesced(F)
             /\ \A q \in Nat : \A i, o :
                  Says(F, q, i, o) <=> IF p <= q /\ q < e THEN i = id /\ o = off + (q - p) ELSE Says(E, q, i, o)
<1> DEFINE x == [start |-> p, end |-> e, id |-> id, off |-> off]
           E1 == RemoveRange(E, p, e)
           E2 == E1 \cup {x}
           E3 == MergeAfter(E2, x)
           F == MergePrevious(E3, p)
<1> SUFFICES /\ Entries(F, n)
             /\ Coalesced(E) => Coalesced(F)
             /\ \A q \in Nat : \A i, o :
                  Says(F, q, i, o) <=> IF p <= q /\ q < e THEN i = id /\ o = off + (q - p) ELSE Says(E, q, i, o)
  OBVIOUS
<1>1. /\ Entries(E1, n)
      /\ \A y \in E1 : y.end <= p \/ y.start >= e
      /\ Coalesced(E) => Coalesced(E1)
      /\ \A q \in Nat : \A i, o : Says(E1, q, i, o) <=> Says(E, q, i, o) /\ ~(p <= q /\ q < e)
  BY RemoveRangeCuts
<1>2. /\ EntryOK(x) /\ x.end <= n /\ x.start = p /\ x.end = e
      /\ \A q \in Nat : Covers(x, q) <=> p <= q /\ q < e
      /\ x.id = id /\ x.off = off
  BY DEF EntryOK, Covers
<1> HIDE DEF E1, x
<1>3. Entries(E2, n)
  <2>1. \A a \in E2 : EntryOK(a) /\ a.end <= n
    BY <1>1, <1>2 DEF Entries
  <2>2. \A a, b \in E2 : a # b => Disjoint(a, b)
    BY <1>1, <1>2 DEF Entries, Disjoint
  <2> QED BY <2>1, <2>2 DEF Entries
<1>4. \A q \in Nat : \A i, o :
        Says(E2, q, i, o) <=> IF p <= q /\ q < e THEN i = id /\ o = off + (q - p) ELSE Says(E, q, i, o)
  <2> SUFFICES ASSUME NEW q \in Nat, NEW i, NEW o
               PROVE  Says(E2, q, i, o) <=>
                        IF p <= q /\ q < e THEN i = id /\ o = off + (q - p) ELSE Says(E, q, i, o)
    OBVIOUS
  <2>1. Says(E2, q, i, o) <=> Says(E1, q, i, o) \/ Tells(x, q, i, o)
    BY DEF Says
  <2>2. Says(E1, q, i, o) <=> Says(E, q, i, o) /\ ~(p <= q /\ q < e)
    BY <1>1
  <2>3. Tells(x, q, i, o) <=> p <= q /\ q < e /\ i = id /\ o = off + (q - p)
    BY <1>2 DEF Tells
  <2> QED BY <2>1, <2>2, <2>3
<1>5. x \in E2
  OBVIOUS
<1> HIDE DEF E2
<1>6. /\ Entries(E3, n)
      /\ \A q \in Nat : \A i, o : Says(E3, q, i, o) <=> Says(E2, q, i, o)
      /\ \A a, b \in E3 : Continues(a, b) =>
           \E c, d \in E2 : Continues(c, d) /\ c # x /\ c.end = a.end /\ d.start = b.start
  BY <1>3, <1>5, MergeSays
<1> HIDE DEF E3
<1>7. Coalesced(E) => \A a, b \in E3 : Continues(a, b) => b.start = p /\ a.end = p
  <2> SUFFICES ASSUME Coalesced(E), NEW a \in E3, NEW b \in E3, Continues(a, b)
               PROVE  b.start = p /\ a.end = p
    OBVIOUS
  <2>1. PICK c \in E2, d \in E2 : Continues(c, d) /\ c # x /\ c.end = a.end /\ d.start = b.start
    BY <1>6
  <2>2. d = x
    BY <1>1, <2>1 DEF E2, Coalesced
  <2> QED BY <1>2, <2>1, <2>2 DEF Continues
<1>8. CASE Before(E3, p) = {}
  <2>1. F = E3
    BY <1>8 DEF MergePrevious
  <2>2. Coalesced(E) => Coalesced(E3)
    <3> SUFFICES ASSUME Coalesced(E), NEW a \in E3, NEW b \in E3, Continues(a, b) PROVE FALSE
      BY DEF Coalesced
    <3>1. a.end = p
      BY <1>7
    <3>2. a.start < p
      BY <1>6, <3>1 DEF Entries, EntryOK
    <3>3. \A y \in E3 : y.start < p => y.start <= a.start
      BY <1>6, <3>1, <3>2 DEF Entries, EntryOK, Disjoint
    <3> QED BY <1>8, <3>2, <3>3 DEF Before
  <2> QED BY <1>4, <1>6, <2>1, <2>2
<1>9. CASE Before(E3, p) # {}
  <2>1. PICK b : b = CHOOSE z \in Before(E3, p) : TRUE
    OBVIOUS
  <2>2. b \in Before(E3, p) /\ F = MergeAfter(E3, b)
    BY <1>9, <2>1 DEF MergePrevious
  <2>3. b \in E3
    BY <2>2 DEF Before
  <2> HIDE DEF F
  <2>4. /\ Entries(F, n)
        /\ \A q \in Nat : \A i, o : Says(F, q, i, o) <=> Says(E3, q, i, o)
        /\ \A a, z \in F : Continues(a, z) =>
             \E c, d \in E3 : Continues(c, d) /\ c # b /\ c.end = a.end /\ d.start = z.start
    BY <1>6, <2>2, <2>3, MergeSays
  <2>5. Coalesced(E) => Coalesced(F)
    <3> SUFFICES ASSUME Coalesced(E), NEW a \in F, NEW z \in F, Continues(a, z) PROVE FALSE
      BY DEF Coalesced
    <3>1. PICK c \in E3, d \in E3 : Continues(c, d) /\ c # b
      BY <2>4
    <3>2. c.end = p
      BY <1>7, <3>1
    <3>3. c.start < p /\ b.start < p /\ c.start <= b.start
      BY <1>6, <2>2, <3>2 DEF Before, Entries, EntryOK
    <3>4. EntryOK(b) /\ EntryOK(c) /\ Disjoint(b, c)
      BY <1>6, <2>3, <3>1 DEF Entries
    <3> QED BY <3>2, <3>3, <3>4 DEF EntryOK, Disjoint
  <2> QED BY <1>4, <1>6, <2>4, <2>5 DEF F
<1> QED BY <1>8, <1>9

MapOK(m) == m = [len |-> m.len, entries |-> m.entries] /\ m.len \in Nat /\ Entries(m.entries, m.len)

\* insert: what is inside the file says what was inserted.
Inserted(m, p, n, id, off, F) ==
  /\ MapOK(F) /\ F.len = m.len
  /\ Coalesced(m.entries) => Coalesced(F.entries)
  /\ \A q \in Nat : \A i, o :
       q < m.len =>
         (Says(F.entries, q, i, o) <=>
            IF p <= q /\ q < p + n THEN i = id /\ o = off + (q - p) ELSE Says(m.entries, q, i, o))

LEMMA MapInsert ==
  ASSUME NEW m, MapOK(m), NEW p \in Nat, NEW n \in Nat, NEW id, NEW off \in Nat
  PROVE  Inserted(m, p, n, id, off, Insert(m, p, n, id, off))
<1> DEFINE F == Insert(m, p, n, id, off)
           e == Smaller(p + n, m.len)
           x == [start |-> p, end |-> e, id |-> id, off |-> off]
           G == MergePrevious(MergeAfter(RemoveRange(m.entries, p, e) \cup {x}, x), p)
<1>1. e \in Nat /\ e <= m.len /\ (e = p + n \/ e = m.len) /\ e <= p + n
  BY DEF Smaller, MapOK
<1>2. CASE n = 0 \/ p >= m.len \/ e <= p
  <2>1. F = m
    BY <1>2 DEF Insert
  <2>2. \A q \in Nat : q < m.len => ~(p <= q /\ q < p + n)
    BY <1>1, <1>2 DEF MapOK
  <2> QED BY <2>1, <2>2 DEF Inserted
<1>3. CASE ~(n = 0 \/ p >= m.len \/ e <= p)
  <2>1. F = [m EXCEPT !.entries = G]
    BY <1>3 DEF Insert
  <2> HIDE DEF e
  <2>2. /\ Entries(G, m.len)
        /\ Coalesced(m.entries) => Coalesced(G)
        /\ \A q \in Nat : \A i, o :
             Says(G, q, i, o) <=>
               IF p <= q /\ q < e THEN i = id /\ o = off + (q - p) ELSE Says(m.entries, q, i, o)
    BY <1>1, <1>3, InsertSays DEF MapOK
  <2> HIDE DEF F, G
  <2>3. F = [len |-> m.len, entries |-> G]
    BY <2>1 DEF MapOK
  <2>4. MapOK(F) /\ F.len = m.len /\ F.entries = G
    BY <2>2, <2>3 DEF MapOK
  <2>5. \A q \in Nat : q < m.len => (q < e <=> q < p + n)
    BY <1>1 DEF MapOK
  <2>6. \A q \in Nat : \A i, o :
          q < m.len =>
            (Says(F.entries, q, i, o) <=>
               IF p <= q /\ q < p + n THEN i = id /\ o = off + (q - p) ELSE Says(m.entries, q, i, o))
    BY <2>2, <2>4, <2>5
  <2>7. Inserted(m, p, n, id, off, F)
    BY <2>2, <2>4, <2>6 DEF Inserted
  <2> QED BY <2>7 DEF F
<1> QED BY <1>2, <1>3

\* remove
LEMMA MapRemove ==
  ASSUME NEW m, MapOK(m), NEW p \in Nat, NEW n \in Nat
  PROVE  LET F == Remove(m, p, n) IN
         /\ MapOK(F) /\ F.len = m.len
         /\ Coalesced(m.entries) => Coalesced(F.entries)
         /\ \A q \in Nat : \A i, o :
              q < m.len => (Says(F.entries, q, i, o) <=> Says(m.entries, q, i, o) /\ ~(p <= q /\ q < p + n))
<1> DEFINE F == Remove(m, p, n)
           e == Smaller(p + n, m.len)
           G == RemoveRange(m.entries, p, e)
<1>1. e \in Nat /\ e <= m.len /\ (e = p + n \/ e = m.len) /\ e <= p + n
  BY DEF Smaller, MapOK
<1>2. CASE n = 0 \/ p >= m.len
  <2>1. F = m
    BY <1>2 DEF Remove
  <2>2. \A q \in Nat : q < m.len => ~(p <= q /\ q < p + n)
    BY <1>2 DEF MapOK
  <2> QED BY <2>1, <2>2
<1>3. CASE ~(n = 0 \/ p >= m.len)
  <2>1. F = [m EXCEPT !.entries = G]
    BY <1>3 DEF Remove
  <2>2. p < e
    BY <1>1, <1>3 DEF MapOK
  <2> HIDE DEF e
  <2>3. /\ Entries(G, m.len)
        /\ Coalesced(m.entries) => Coalesced(G)
        /\ \A q \in Nat : \A i, o : Says(G, q, i, o) <=> Says(m.entries, q, i, o) /\ ~(p <= q /\ q < e)
    BY <1>1, <2>2, RemoveRangeCuts DEF MapOK
  <2> HIDE DEF F, G
  <2>4. F = [len |-> m.len, entries |-> G]
    BY <2>1 DEF MapOK
  <2>5. MapOK(F) /\ F.len = m.len /\ F.entries = G
    BY <2>3, <2>4 DEF MapOK
  <2>6. \A q \in Nat : q < m.len => (q < e <=> q < p + n)
    BY <1>1 DEF MapOK
  <2> QED BY <2>3, <2>5, <2>6 DEF F
<1> QED BY <1>2, <1>3

\* set_len
LEMMA MapSetLen ==
  ASSUME NEW m, MapOK(m), NEW n \in Nat
  PROVE  LET F == SetLen(m, n) IN
         /\ MapOK(F) /\ F.len = n
         /\ Coalesced(m.entries) => Coalesced(F.entries)
         /\ n >= m.len => F.entries = m.entries
         /\ \A q \in Nat : \A i, o : q < n => (Says(F.entries, q, i, o) <=> Says(m.entries, q, i, o))
<1> DEFINE F == SetLen(m, n)
<1>1. CASE n < m.len
  <2> DEFINE G == RemoveRange(m.entries, n, m.len)
  <2>1. F = [len |-> n, entries |-> G]
    BY <1>1 DEF SetLen
  <2>2. /\ Entries(G, m.len)
        /\ \A x \in G : x.end <= n \/ x.start >= m.len
        /\ Coalesced(m.entries) => Coalesced(G)
        /\ \A q \in Nat : \A i, o : Says(G, q, i, o) <=> Says(m.entries, q, i, o) /\ ~(n <= q /\ q < m.len)
    BY <1>1, RemoveRangeCuts DEF MapOK
  <2> HIDE DEF F, G
  <2>3. Entries(G, n)
    BY <2>2 DEF Entries, EntryOK, MapOK
  <2>4. MapOK(F) /\ F.len = n /\ F.entries = G
    BY <2>1, <2>3 DEF MapOK
  <2>5. \A q \in Nat : q < n => ~(n <= q /\ q < m.len)
    OBVIOUS
  <2>6. ~(n >= m.len)
    BY <1>1 DEF MapOK
  <2> QED BY <2>2, <2>4, <2>5, <2>6 DEF F
<1>2. CASE ~(n < m.len)
  <2>1. F = [len |-> n, entries |-> m.entries]
    BY <1>2 DEF SetLen
  <2>2. Entries(m.entries, n)
    BY <1>2 DEF Entries, EntryOK, MapOK
  <2> QED BY <2>1, <2>2 DEF MapOK
<1> QED BY <1>1, <1>2

\* No byte is in two entries.
LEMMA OneEntry ==
  ASSUME NEW E, NEW n, Entries(E, n), NEW x \in E, NEW y \in E, NEW p \in Nat, Covers(x, p), Covers(y, p)
  PROVE  x = y
BY DEF Entries, EntryOK, Disjoint, Covers

\* get on a hole: up to the next entry, or to the end, nothing covers a byte.
LEMMA HoleIsEmpty ==
  ASSUME NEW m, MapOK(m), NEW p \in Nat, p < m.len, Holding(m, p) = {}
  PROVE  /\ HoleEnd(m, p) \in Nat /\ p < HoleEnd(m, p) /\ HoleEnd(m, p) <= m.len
         /\ \A x \in m.entries, q \in Nat : p <= q /\ q < HoleEnd(m, p) => ~Covers(x, q)
         /\ HoleEnd(m, p) = m.len \/ \E x \in m.entries : x.start = HoleEnd(m, p)
<1> DEFINE next == {x.start : x \in {y \in m.entries : y.start > p}}
           h == HoleEnd(m, p)
<1>1. \A x \in m.entries : EntryOK(x) /\ x.end <= m.len
  BY DEF MapOK, Entries
<1>2. \A x \in m.entries : x.start <= p => x.end <= p
  BY <1>1 DEF Holding, Covers, EntryOK
<1>3. m.len \in Nat
  BY DEF MapOK
<1>4. CASE next = {}
  <2>1. h = m.len
    BY <1>4 DEF HoleEnd
  <2>2. \A x \in m.entries : x.start <= p
    <3>1. \A x \in m.entries : ~(x.start > p)
      BY <1>4
    <3> QED BY <1>1, <3>1 DEF EntryOK
  <2> QED BY <1>1, <1>2, <1>3, <2>1, <2>2 DEF Covers, EntryOK
<1>5. CASE next # {}
  <2>1. next \subseteq Nat
    BY <1>1 DEF EntryOK
  <2>2. PICK s : s = CHOOSE t \in next : \A u \in next : t <= u
    OBVIOUS
  <2>3. \E t \in next : \A u \in next : t <= u
    BY <1>5, <2>1, LeastNat
  <2>4. s \in next /\ \A u \in next : s <= u
    BY <2>2, <2>3
  <2>5. h = Smaller(s, m.len)
    BY <1>5, <2>2 DEF HoleEnd
  <2>6. PICK x \in m.entries : x.start = s /\ s > p
    BY <2>4
  <2>7. s \in Nat /\ s < m.len
    BY <1>1, <1>3, <2>6 DEF EntryOK
  <2>8. h = s
    BY <1>3, <2>5, <2>7 DEF Smaller
  <2>9. \A y \in m.entries : y.end <= p \/ s <= y.start
    BY <1>1, <1>2, <2>4 DEF EntryOK
  <2> QED BY <1>1, <1>3, <2>6, <2>7, <2>8, <2>9 DEF Covers, EntryOK
<1> QED BY <1>4, <1>5

\* get on an entry.
LEMMA GetChunk ==
  ASSUME NEW m, MapOK(m), NEW p \in Nat, p < m.len, NEW x \in m.entries, Covers(x, p)
  PROVE  /\ Holding(m, p) = {x}
         /\ Get(m, p) = [kind |-> "chunk", id |-> x.id, off |-> x.off + (p - x.start), len |-> x.end - p]
<1>1. Holding(m, p) = {x}
  BY OneEntry DEF Holding, MapOK
<1>2. (CHOOSE y \in Holding(m, p) : TRUE) = x
  BY <1>1
<1>3. ~(p >= m.len)
  BY DEF MapOK
<1> QED BY <1>1, <1>2, <1>3 DEF Get

LEMMA GetHole ==
  ASSUME NEW m, MapOK(m), NEW p \in Nat, p < m.len, \A x \in m.entries : ~Covers(x, p)
  PROVE  Holding(m, p) = {} /\ Get(m, p) = [kind |-> "hole", len |-> HoleEnd(m, p) - p]
BY DEF Holding, Get, MapOK

\* The array beside the map.
Shows(E, p, b) ==
  /\ \A i, o : Says(E, p, i, o) => b = <<i, o>>
  /\ (\A i, o : ~Says(E, p, i, o)) => b = Hole

TableInv ==
  /\ MapOK(table) /\ Coalesced(table.entries)
  /\ DOMAIN bytes = 0 .. table.len - 1
  /\ \A p \in 0 .. table.len - 1 : Shows(table.entries, p, bytes[p])

LEMMA TableStart == FilesInit => TableInv
<1> SUFFICES ASSUME FilesInit PROVE TableInv
  OBVIOUS
<1>1. table = [len |-> 0, entries |-> {}] /\ DOMAIN bytes = {}
  BY DEF FilesInit, WithLen
<1> QED BY <1>1 DEF TableInv, MapOK, Coalesced, Entries

LEMMA InsertKeeps ==
  ASSUME TableInv, NEW p \in Pos, NEW n \in Pos, NEW id \in Id, NEW off \in 0 .. MaxOff, InsertStep(p, n, id, off)
  PROVE  TableInv'
<1>1. p \in Nat /\ n \in Nat /\ off \in Nat
  BY TableBounds DEF Pos
<1> DEFINE F == Insert(table, p, n, id, off)
           B == [q \in DOMAIN bytes |-> IF p <= q /\ q < p + n THEN <<id, off + (q - p)>> ELSE bytes[q]]
<1>2. table' = F /\ bytes' = B
  BY DEF InsertStep
<1>3. /\ MapOK(F) /\ F.len = table.len
      /\ Coalesced(F.entries)
      /\ \A q \in Nat : \A i, o :
           q < table.len =>
             (Says(F.entries, q, i, o) <=>
                IF p <= q /\ q < p + n THEN i = id /\ o = off + (q - p) ELSE Says(table.entries, q, i, o))
  <2>1. MapOK(table) /\ Coalesced(table.entries)
    BY DEF TableInv
  <2>2. Inserted(table, p, n, id, off, F)
    BY <1>1, <2>1, MapInsert
  <2> HIDE DEF F
  <2> QED BY <2>1, <2>2 DEF Inserted
<1> HIDE DEF F
<1>4. table.len \in Nat /\ DOMAIN B = 0 .. table.len - 1
  BY DEF TableInv, MapOK
<1>5. ASSUME NEW q \in 0 .. table.len - 1
      PROVE  Shows(F.entries, q, B[q])
  <2>1. q \in Nat /\ q < table.len
    BY <1>4, <1>5
  <2>2. CASE p <= q /\ q < p + n
    <3>1. B[q] = <<id, off + (q - p)>>
      BY <1>4, <2>2
    <3>2. \A i, o : Says(F.entries, q, i, o) <=> i = id /\ o = off + (q - p)
      BY <1>3, <2>1, <2>2
    <3> QED BY <3>1, <3>2 DEF Shows
  <2>3. CASE ~(p <= q /\ q < p + n)
    <3>1. B[q] = bytes[q]
      BY <1>4, <2>3
    <3>2. \A i, o : Says(F.entries, q, i, o) <=> Says(table.entries, q, i, o)
      BY <1>3, <2>1, <2>3
    <3>3. Shows(table.entries, q, bytes[q])
      BY DEF TableInv
    <3> QED BY <3>1, <3>2, <3>3 DEF Shows
  <2> QED BY <2>2, <2>3
<1> HIDE DEF B
<1> QED BY <1>2, <1>3, <1>4, <1>5 DEF TableInv

LEMMA RemoveKeeps ==
  ASSUME TableInv, NEW p \in Pos, NEW n \in Pos, RemoveStep(p, n)
  PROVE  TableInv'
<1>1. p \in Nat /\ n \in Nat
  BY TableBounds DEF Pos
<1> DEFINE F == Remove(table, p, n)
           B == [q \in DOMAIN bytes |-> IF p <= q /\ q < p + n THEN Hole ELSE bytes[q]]
<1>2. table' = F /\ bytes' = B
  BY DEF RemoveStep
<1>3. /\ MapOK(F) /\ F.len = table.len
      /\ Coalesced(F.entries)
      /\ \A q \in Nat : \A i, o :
           q < table.len => (Says(F.entries, q, i, o) <=> Says(table.entries, q, i, o) /\ ~(p <= q /\ q < p + n))
  BY <1>1, MapRemove DEF TableInv
<1> HIDE DEF F
<1>4. table.len \in Nat /\ DOMAIN B = 0 .. table.len - 1
  BY DEF TableInv, MapOK
<1>5. ASSUME NEW q \in 0 .. table.len - 1
      PROVE  Shows(F.entries, q, B[q])
  <2>1. q \in Nat /\ q < table.len
    BY <1>4, <1>5
  <2>2. CASE p <= q /\ q < p + n
    <3>1. B[q] = Hole
      BY <1>4, <2>2
    <3>2. \A i, o : ~Says(F.entries, q, i, o)
      BY <1>3, <2>1, <2>2
    <3> QED BY <3>1, <3>2 DEF Shows
  <2>3. CASE ~(p <= q /\ q < p + n)
    <3>1. B[q] = bytes[q]
      BY <1>4, <2>3
    <3>2. \A i, o : Says(F.entries, q, i, o) <=> Says(table.entries, q, i, o)
      BY <1>3, <2>1, <2>3
    <3>3. Shows(table.entries, q, bytes[q])
      BY DEF TableInv
    <3> QED BY <3>1, <3>2, <3>3 DEF Shows
  <2> QED BY <2>2, <2>3
<1> HIDE DEF B
<1> QED BY <1>2, <1>3, <1>4, <1>5 DEF TableInv

\* NoChunk is said of a byte behind the end.
LEMMA SaysInside ==
  ASSUME NEW m, MapOK(m), NEW p \in Nat, p >= m.len, NEW i, NEW o
  PROVE  ~Says(m.entries, p, i, o)
BY DEF MapOK, Entries, EntryOK, Says, Tells, Covers

LEMMA SetLenKeeps ==
  ASSUME TableInv, NEW n \in Pos, SetLenStep(n)
  PROVE  TableInv'
<1>1. n \in Nat
  BY TableBounds DEF Pos
<1> DEFINE F == SetLen(table, n)
           B == [q \in 0 .. n - 1 |-> IF q \in DOMAIN bytes THEN bytes[q] ELSE Hole]
<1>2. table' = F /\ bytes' = B
  BY DEF SetLenStep
<1>3. /\ MapOK(F) /\ F.len = n
      /\ Coalesced(F.entries)
      /\ \A q \in Nat : \A i, o : q < n => (Says(F.entries, q, i, o) <=> Says(table.entries, q, i, o))
  BY <1>1, MapSetLen DEF TableInv
<1> HIDE DEF F
<1>4. table.len \in Nat /\ DOMAIN B = 0 .. n - 1
  BY DEF TableInv, MapOK
<1>5. ASSUME NEW q \in 0 .. n - 1
      PROVE  Shows(F.entries, q, B[q])
  <2>1. q \in Nat /\ q < n /\ \A i, o : Says(F.entries, q, i, o) <=> Says(table.entries, q, i, o)
    BY <1>1, <1>3, <1>5
  <2>2. CASE q < table.len
    <3>1. q \in 0 .. table.len - 1
      BY <1>4, <2>1, <2>2
    <3>2. B[q] = bytes[q] /\ Shows(table.entries, q, bytes[q])
      BY <1>4, <3>1 DEF TableInv
    <3> QED BY <2>1, <3>2 DEF Shows
  <2>3. CASE ~(q < table.len)
    <3>1. q \notin DOMAIN bytes
      BY <1>4, <2>3 DEF TableInv
    <3>2. B[q] = Hole
      BY <3>1
    <3>3. q >= table.len
      BY <1>4, <2>1, <2>3
    <3>4. \A i, o : ~Says(table.entries, q, i, o)
      BY <2>1, <3>3, SaysInside DEF TableInv
    <3> QED BY <2>1, <3>2, <3>4 DEF Shows
  <2> QED BY <2>2, <2>3
<1> HIDE DEF B
<1> QED BY <1>2, <1>3, <1>4, <1>5 DEF TableInv

LEMMA TableSafe == FilesSpec => []TableInv
<1>1. ASSUME TableInv, [HandleNext \/ TableNext]_<<blobVars, part, table, bytes>>
      PROVE  TableInv'
  <2>1. CASE HandleNext
    BY <1>1, <2>1 DEF HandleNext, TableInv, MapOK
  <2>2. CASE TableNext
    BY <1>1, <2>2, InsertKeeps, RemoveKeeps, SetLenKeeps DEF TableNext
  <2>3. CASE UNCHANGED <<blobVars, part, table, bytes>>
    BY <1>1, <2>3 DEF TableInv, MapOK
  <2> QED BY <1>1, <2>1, <2>2, <2>3
<1> QED BY <1>1, TableStart, PTL DEF FilesSpec

LEMMA ReadsOfTable == TableInv => GetReadsTheArray
<1> SUFFICES ASSUME TableInv, NEW p \in DOMAIN bytes
             PROVE  LET g == Get(table, p)
                    IN  /\ g.len >= 1 /\ p + g.len <= table.len
                        /\ \A k \in 0 .. g.len - 1 :
                             bytes[p + k] = IF g.kind = "hole" THEN Hole ELSE <<g.id, g.off + k>>
  BY DEF GetReadsTheArray
<1> DEFINE g == Get(table, p)
<1>1. p \in Nat /\ p < table.len /\ MapOK(table) /\ table.len \in Nat
  BY DEF TableInv, MapOK
<1>2. \A q \in Nat : q < table.len => Shows(table.entries, q, bytes[q])
  BY <1>1 DEF TableInv
<1>3. CASE \E x \in table.entries : Covers(x, p)
  <2>1. PICK x \in table.entries : Covers(x, p)
    BY <1>3
  <2>2. EntryOK(x) /\ x.end <= table.len
    BY <1>1 DEF MapOK, Entries
  <2>3. g = [kind |-> "chunk", id |-> x.id, off |-> x.off + (p - x.start), len |-> x.end - p]
    BY <1>1, <2>1, GetChunk
  <2> HIDE DEF g
  <2>4. g.len >= 1 /\ p + g.len <= table.len /\ g.len \in Nat
    BY <1>1, <2>1, <2>2, <2>3 DEF EntryOK, Covers
  <2>5. ASSUME NEW k \in 0 .. g.len - 1
        PROVE  bytes[p + k] = <<g.id, g.off + k>>
    <3>1. p + k \in Nat /\ p + k < table.len
      BY <1>1, <2>4
    <3>2. Tells(x, p + k, g.id, g.off + k)
      BY <1>1, <2>1, <2>2, <2>3 DEF EntryOK, Covers, Tells
    <3>3. Says(table.entries, p + k, g.id, g.off + k)
      BY <3>2 DEF Says
    <3> QED BY <1>2, <3>1, <3>3 DEF Shows
  <2> QED BY <2>3, <2>4, <2>5 DEF g
<1>4. CASE ~\E x \in table.entries : Covers(x, p)
  <2> DEFINE h == HoleEnd(table, p)
  <2>1. g = [kind |-> "hole", len |-> h - p] /\ Holding(table, p) = {}
    BY <1>1, <1>4, GetHole
  <2>2. /\ h \in Nat /\ p < h /\ h <= table.len
        /\ \A x \in table.entries, q \in Nat : p <= q /\ q < h => ~Covers(x, q)
    BY <1>1, <2>1, HoleIsEmpty
  <2> HIDE DEF g, h
  <2>3. g.len >= 1 /\ p + g.len <= table.len /\ g.len \in Nat
    BY <1>1, <2>1, <2>2
  <2>4. ASSUME NEW k \in 0 .. g.len - 1
        PROVE  bytes[p + k] = Hole
    <3>1. p + k \in Nat /\ p + k < table.len /\ p <= p + k /\ p + k < h
      BY <1>1, <2>1, <2>2, <2>3
    <3>2. \A i, o : ~Says(table.entries, p + k, i, o)
      BY <2>2, <3>1 DEF Says, Tells
    <3> QED BY <1>2, <3>1, <3>2 DEF Shows
  <2> QED BY <2>1, <2>3, <2>4 DEF g
<1> QED BY <1>3, <1>4

\* Whatever calls made the map, get answers for every byte of the file what the last insert or
\* removal over it left there, and as much for the bytes it says follow (chunk_map.rs:116).
THEOREM MapIsTheArray == FilesSpec => []GetReadsTheArray
BY TableSafe, ReadsOfTable, PTL

\* Pieces do not overlap, end within the file, and those that continue each other are one piece
\* (chunk_map.rs:34).
THEOREM EntriesAreCanonical == FilesSpec => []Canonical
<1>1. TableInv => Canonical
  BY DEF TableInv, MapOK, Entries, EntryOK, Disjoint, Overlaps, Coalesced, Canonical
<1> QED BY <1>1, TableSafe, PTL

-----------------------------------------------------------------------------
(* The blob. *)

Bytes == Seq(Byte \cup {0})

Longer(a, b) == IF a < b THEN b ELSE a

IsAligned(p) == \E k \in Nat : p = k * ChunkSize

\* Every entry is a chunk, whole, where a chunk may begin.
ChunkOK(x) == /\ x.id \in Bytes /\ x.off = 0 /\ x.end = x.start + Len(x.id)
              /\ Len(x.id) <= ChunkSize /\ IsAligned(x.start)

BlobOK(m) == MapOK(m) /\ \A x \in m.entries : ChunkOK(x)

\* A chunk that is to be stored replaces the one that begins there, being as long.
PendingOK(m, s) ==
  /\ s = [pos |-> s.pos, data |-> s.data]
  /\ s.data \in Bytes /\ Len(s.data) <= ChunkSize /\ IsAligned(s.pos)
  /\ \A x \in m.entries : x.start = s.pos => x.end <= s.pos + Len(s.data)

BufferOK(b) == b = [start |-> b.start, cap |-> b.cap, data |-> b.data]
               /\ b.cap \in 1 .. ChunkSize /\ Len(b.data) <= b.cap

AsChunk(b) == [pos |-> b.start, data |-> b.data]

Pending == submit \cup {AsChunk(b) : b \in buffer}

\* Byte q of the blob.
ByteAt(m, q) ==
  IF \E x \in m.entries : Covers(x, q)
  THEN LET x == CHOOSE x \in m.entries : Covers(x, q) IN x.id[x.off + (q - x.start) + 1]
  ELSE 0

Within(s, q) == s.pos <= q /\ q < s.pos + Len(s.data)

\* f is the file once s is stored.
FileIs(m, s, f) ==
  /\ f \in Bytes
  /\ Len(f) = IF Len(s.data) = 0 THEN m.len ELSE Longer(m.len, s.pos + Len(s.data))
  /\ \A q \in Nat : q < Len(f) => f[q + 1] = IF Within(s, q) THEN s.data[q - s.pos + 1] ELSE ByteAt(m, q)

NoChunk == [pos |-> 0, data |-> <<>>]

Ends(m) == m.len = 0 \/ \E x \in m.entries : x.end = m.len

NoHoles(m) == \A q \in Nat : q < m.len => \E x \in m.entries : Covers(x, q)

\* At most one chunk is being filled or stored.
One(S) == \A x, y \in S : x = y

Alone == (submit = {} \/ buffer = {}) /\ One(submit) /\ One(buffer)

\* Chunks are whole and begin where a chunk may, and one that is to be stored covers the one there.
Structure ==
  /\ BlobOK(map)
  /\ \A b \in buffer : BufferOK(b)
  /\ \A s \in Pending : PendingOK(map, s) /\ Len(s.data) > 0

\* The file is what is stored with what is pending over it.
FileKept ==
  /\ \A s \in Pending : FileIs(map, s, file)
  /\ Pending = {} => FileIs(map, NoChunk, file)

\* The last chunk ends with the blob, so the buffer for a write in it is not too short.
NoPanic == status # "panicked" /\ Ends(map)

\* Without holes and resizes a write is inside the blob or appends to it.
Gapless == NoHoles(map) /\ \A s \in Pending : s.pos <= map.len

\* What is inductive.  Each part is claimed of the histories in which no use of the handle has ended
\* it: a cut leaves a chunk mapped in part, an append by the blob's length overwrites what is in the
\* buffer, and after set_len the blob may end behind its last chunk.
HandleInv ==
  /\ Alone
  /\ "shrink" \notin used => Structure
  /\ used \cap {"shrink", "end"} = {} => FileKept
  /\ used \cap {"shrink", "extend"} = {} => NoPanic
  /\ used = {} => Gapless

LEMMA SeqFacts ==
  ASSUME NEW S, NEW s \in Seq(S)
  PROVE  Len(s) \in Nat /\ DOMAIN s = 1 .. Len(s) /\ s \in [1 .. Len(s) -> S] /\ \A k \in 1 .. Len(s) : s[k] \in S
OBVIOUS

LEMMA FunIsSeq ==
  ASSUME NEW S, NEW n \in Nat, NEW f, f \in [1 .. n -> S]
  PROVE  f \in Seq(S) /\ Len(f) = n
OBVIOUS

\* Two sequences of bytes are one if they have the same bytes.
LEMMA SameBytes ==
  ASSUME NEW f \in Bytes, NEW g \in Bytes, Len(f) = Len(g), \A q \in Nat : q < Len(f) => f[q + 1] = g[q + 1]
  PROVE  f = g
<1>1. /\ Len(f) \in Nat /\ f = [k \in 1 .. Len(f) |-> f[k]] /\ g = [k \in 1 .. Len(g) |-> g[k]]
  BY DEF Bytes
<1>2. ASSUME NEW k \in 1 .. Len(f) PROVE f[k] = g[k]
  <2>1. k - 1 \in Nat /\ k - 1 < Len(f) /\ (k - 1) + 1 = k
    BY <1>1
  <2> QED BY <2>1
<1> QED BY <1>1, <1>2

LEMMA PadIs ==
  ASSUME NEW c \in Bytes, NEW n \in Nat
  PROVE  LET r == c \o File!Zeroes(n) IN
         /\ r \in Bytes /\ Len(r) = Len(c) + n
         /\ \A k \in 1 .. Len(c) + n : r[k] = IF k <= Len(c) THEN c[k] ELSE 0
<1> DEFINE z == File!Zeroes(n)
<1>1. z \in [1 .. n -> Byte \cup {0}] /\ \A k \in 1 .. n : z[k] = 0
  BY DEF File!Zeroes, File!Zero
<1>2. z \in Bytes /\ Len(z) = n
  BY <1>1, FunIsSeq DEF Bytes
<1> HIDE DEF z
<1>3. Len(c) \in Nat
  BY DEF Bytes
<1>4. c \o z \in Bytes /\ Len(c \o z) = Len(c) + n
  BY <1>2 DEF Bytes
<1>5. ASSUME NEW k \in 1 .. Len(c) + n PROVE (c \o z)[k] = IF k <= Len(c) THEN c[k] ELSE 0
  <2>1. (c \o z)[k] = IF k <= Len(c) THEN c[k] ELSE z[k - Len(c)]
    BY <1>2, <1>3 DEF Bytes
  <2>2. ~(k <= Len(c)) => k - Len(c) \in 1 .. n
    BY <1>3
  <2> QED BY <1>1, <2>1, <2>2
<1> QED BY <1>4, <1>5 DEF z

LEMMA OverwriteIs ==
  ASSUME NEW c \in Bytes, NEW p \in Nat, NEW d \in Bytes
  PROVE  LET r == File!Overwrite(c, p, d) IN
         /\ r \in Bytes /\ Len(r) = Longer(Len(c), p + Len(d))
         /\ \A k \in 1 .. Len(r) :
              r[k] = IF p < k /\ k <= p + Len(d) THEN d[k - p] ELSE IF k <= Len(c) THEN c[k] ELSE 0
<1> DEFINE l == IF Len(c) < p + Len(d) THEN c \o File!Zeroes(p + Len(d) - Len(c)) ELSE c
           n == Longer(Len(c), p + Len(d))
           r == File!Overwrite(c, p, d)
<1>1. Len(c) \in Nat /\ Len(d) \in Nat /\ n \in Nat
  BY DEF Bytes, Longer
<1>2. l \in Bytes /\ Len(l) = n /\ \A k \in 1 .. n : l[k] = IF k <= Len(c) THEN c[k] ELSE 0
  <2>1. CASE Len(c) < p + Len(d)
    <3>1. p + Len(d) - Len(c) \in Nat
      BY <1>1, <2>1
    <3>2. Len(c) + (p + Len(d) - Len(c)) = n
      BY <1>1, <2>1 DEF Longer
    <3> QED BY <2>1, <3>1, <3>2, PadIs
  <2>2. CASE ~(Len(c) < p + Len(d))
    BY <1>1, <2>2 DEF Longer
  <2> QED BY <2>1, <2>2
<1>3. r = [k \in DOMAIN l |-> IF p < k /\ k <= p + Len(d) THEN d[k - p] ELSE l[k]]
  BY DEF File!Overwrite
<1> HIDE DEF l, r
<1>4. DOMAIN l = 1 .. n /\ \A k \in 1 .. n : l[k] \in Byte \cup {0}
  BY <1>2 DEF Bytes
<1> HIDE DEF n
<1>5. \A k \in 1 .. n : p < k /\ k <= p + Len(d) => d[k - p] \in Byte \cup {0}
  <2>1. \A k \in 1 .. n : p < k /\ k <= p + Len(d) => k - p \in 1 .. Len(d)
    BY <1>1
  <2> QED BY <2>1 DEF Bytes
<1>6. r \in [1 .. n -> Byte \cup {0}]
  BY <1>3, <1>4, <1>5
<1>7. r \in Bytes /\ Len(r) = n
  BY <1>1, <1>6, FunIsSeq DEF Bytes
<1>8. \A k \in 1 .. n : r[k] = IF p < k /\ k <= p + Len(d) THEN d[k - p] ELSE IF k <= Len(c) THEN c[k] ELSE 0
  BY <1>2, <1>3, <1>4
<1> QED BY <1>7, <1>8 DEF n, r

-----------------------------------------------------------------------------
(* Where chunks begin. *)

LEMMA AlignedApart ==
  ASSUME NEW a, NEW b, IsAligned(a), IsAligned(b), a < b
  PROVE  a + ChunkSize <= b
<1> DEFINE n == ChunkSize
<1>1. PICK i \in Nat : a = i * n
  BY DEF IsAligned
<1>2. PICK j \in Nat : b = j * n
  BY DEF IsAligned
<1>3. n \in Nat \ {0}
  BY SizeAssumption
<1> HIDE DEF n
<1>4. i * n \in Nat /\ j * n \in Nat
  BY <1>3
<1>5. i < j
  <2>1. j <= i => j * n <= i * n
    <3>1. (i - j) * n = i * n - j * n
      BY <1>3
    <3>2. j <= i => (i - j) * n >= 0
      BY <1>3
    <3> QED BY <1>4, <3>1, <3>2
  <2> QED BY <1>1, <1>2, <1>4, <2>1
<1>6. (j - i - 1) * n >= 0
  BY <1>3, <1>5
<1>7. (j - i - 1) * n = j * n - i * n - n
  BY <1>3
<1> QED BY <1>1, <1>2, <1>3, <1>4, <1>6, <1>7 DEF n

LEMMA AlignedIs ==
  ASSUME NEW p \in Nat
  PROVE  /\ IsAligned(Aligned(p)) /\ Aligned(p) \in Nat
         /\ Aligned(p) <= p /\ p < Aligned(p) + ChunkSize
<1>1. ChunkSize \in Nat \ {0}
  BY SizeAssumption
<1>2. p \div ChunkSize \in Nat /\ p = ChunkSize * (p \div ChunkSize) + (p % ChunkSize)
      /\ p % ChunkSize \in 0 .. ChunkSize - 1
  BY <1>1
<1>3. (p \div ChunkSize) * ChunkSize = ChunkSize * (p \div ChunkSize)
  BY <1>1, <1>2
<1> DEFINE q == (p \div ChunkSize) * ChunkSize
           m == p % ChunkSize
<1>4. q \in Nat
  BY <1>1, <1>2
<1>5. p = q + m /\ m \in 0 .. ChunkSize - 1
  BY <1>2, <1>3
<1>6. Aligned(p) = p - m
  BY DEF Aligned
<1>7. IsAligned(q)
  BY <1>2 DEF IsAligned
<1> HIDE DEF q, m
<1> QED BY <1>1, <1>4, <1>5, <1>6, <1>7

LEMMA AlignedNat ==
  ASSUME NEW a, IsAligned(a)
  PROVE  a \in Nat
BY SizeAssumption DEF IsAligned

LEMMA SubSeqAt ==
  ASSUME NEW S, NEW s \in Seq(S), NEW a \in Nat, NEW n \in Nat, a + n <= Len(s)
  PROVE  LET r == SubSeq(s, a + 1, a + n) IN
         r \in Seq(S) /\ Len(r) = n /\ \A k \in 1 .. n : r[k] = s[a + k]
<1> DEFINE r == SubSeq(s, a + 1, a + n)
<1>1. Len(r) = n
  OBVIOUS
<1>2. ASSUME NEW k \in 1 .. n PROVE r[k] = s[a + k] /\ s[a + k] \in S
  <2>1. r[k] = s[(a + 1) + k - 1]
    OBVIOUS
  <2>2. (a + 1) + k - 1 = a + k /\ a + k \in 1 .. Len(s)
    OBVIOUS
  <2> QED BY <2>1, <2>2
<1>3. r \in Seq(S)
  OBVIOUS
<1> QED BY <1>1, <1>2, <1>3

Entire(s) == [start |-> s.pos, end |-> s.pos + Len(s.data), id |-> s.data, off |-> 0]

\* A chunk that is stored stands beside those that begin elsewhere: nothing of a neighbour is cut off.
LEMMA MappedIs ==
  ASSUME NEW m, BlobOK(m), NEW s, PendingOK(m, s), Len(s.data) > 0
  PROVE  /\ Mapped(m, s) = [len |-> Longer(m.len, s.pos + Len(s.data)),
                            entries |-> {x \in m.entries : x.start # s.pos} \cup {Entire(s)}]
         /\ BlobOK(Mapped(m, s))
<1> DEFINE E == m.entries
           p == s.pos
           d == s.data
           l == Len(d)
           e == p + l
           n == Longer(m.len, e)
           new == Entire(s)
           R == {x \in E : x.start # p}
           G == R \cup {new}
<1>1. /\ m.len \in Nat /\ p \in Nat /\ l \in Nat /\ l > 0 /\ l <= ChunkSize /\ e \in Nat /\ p < e
      /\ d \in Bytes /\ IsAligned(p)
  BY AlignedNat DEF PendingOK, BlobOK, MapOK, Bytes
<1>2. n \in Nat /\ e <= n /\ m.len <= n
  BY <1>1 DEF Longer
<1>3. \A x \in E : EntryOK(x) /\ ChunkOK(x) /\ x.end <= m.len
  BY DEF BlobOK, MapOK, Entries
<1>4. new.start = p /\ new.end = e /\ new.id = d /\ new.off = 0 /\ EntryOK(new) /\ ChunkOK(new)
  BY <1>1 DEF Entire, EntryOK, ChunkOK
<1>5. \A x \in E : x.start = p => x.end <= e
  BY DEF PendingOK
<1> HIDE DEF e, n, new, d
<1>6. \A x \in E : x.start # p => x.end <= p \/ e <= x.start
  <2> SUFFICES ASSUME NEW x \in E, x.start # p PROVE x.end <= p \/ e <= x.start
    OBVIOUS
  <2>1. x.start \in Nat /\ x.end \in Nat /\ x.end <= x.start + ChunkSize /\ IsAligned(x.start)
    BY <1>3, SizeAssumption DEF EntryOK, ChunkOK, Bytes
  <2>2. x.start < p => x.start + ChunkSize <= p
    BY <1>1, <2>1, AlignedApart
  <2>3. p < x.start => p + ChunkSize <= x.start
    BY <1>1, <2>1, AlignedApart
  <2>4. e <= p + ChunkSize
    BY <1>1, SizeAssumption DEF e
  <2> QED BY <1>1, <2>1, <2>2, <2>3, <2>4, SizeAssumption
<1>7. RemoveRange(E, p, e) = R
  <2>1. \A x \in E : Overlaps(x, p, e) <=> x.start = p
    BY <1>1, <1>3, <1>6 DEF Overlaps, EntryOK
  <2>2. \A x \in E : x.start = p => Remains(x, p, e) = {}
    BY <1>1, <1>3, <1>5 DEF Remains, EntryOK
  <2>3. \A x \in {y \in E : Overlaps(y, p, e)} : Remains(x, p, e) = {}
    BY <2>1, <2>2
  <2>4. UNION {Remains(x, p, e) : x \in {y \in E : Overlaps(y, p, e)}} = {}
    BY <2>3
  <2>5. {x \in E : ~Overlaps(x, p, e)} = R
    BY <2>1
  <2> QED BY <2>4, <2>5 DEF RemoveRange
<1>8. \A x, y \in G : ~Continues(x, y)
  <2>1. \A x \in G : EntryOK(x) /\ x.off = 0
    BY <1>3, <1>4 DEF ChunkOK
  <2> QED BY <2>1 DEF Continues, EntryOK
<1>9. \A x \in G : MergeAfter(G, x) = G
  BY <1>8 DEF MergeAfter
<1>10. MergePrevious(G, p) = G
  <2>1. Before(G, p) \subseteq G
    BY DEF Before
  <2>2. Before(G, p) # {} => (CHOOSE x \in Before(G, p) : TRUE) \in G
    BY <2>1
  <2> QED BY <1>9, <2>2 DEF MergePrevious
<1> HIDE DEF G
<1> DEFINE L == [len |-> n, entries |-> E]
<1>11. (IF s.pos + Len(s.data) > m.len THEN SetLen(m, s.pos + Len(s.data)) ELSE m) = L
  <2>1. CASE e > m.len
    <3>1. n = e /\ ~(e < m.len)
      BY <1>1, <2>1 DEF n, Longer
    <3> QED BY <2>1, <3>1 DEF SetLen, e, d
  <2>2. CASE ~(e > m.len)
    <3>1. n = m.len
      BY <1>1, <2>2 DEF n, Longer
    <3>2. m = [len |-> m.len, entries |-> m.entries]
      BY DEF BlobOK, MapOK
    <3> QED BY <2>2, <3>1, <3>2 DEF e, d
  <2> QED BY <2>1, <2>2
<1>12. Mapped(m, s) = Insert(L, p, l, d, 0)
  BY <1>11 DEF Mapped, d
<1>13. Smaller(p + l, L.len) = e
  BY <1>1, <1>2 DEF Smaller, e
<1>14. new = [start |-> p, end |-> e, id |-> d, off |-> 0]
  BY DEF new, Entire, e, d
<1>15. Mapped(m, s) = [L EXCEPT !.entries = MergePrevious(MergeAfter(RemoveRange(E, p, e) \cup {new}, new), p)]
  <2>1. ~(l = 0 \/ p >= L.len \/ e <= p)
    BY <1>1, <1>2
  <2> QED BY <1>12, <1>13, <1>14, <2>1 DEF Insert
<1>16. MergePrevious(MergeAfter(RemoveRange(E, p, e) \cup {new}, new), p) = G
  BY <1>7, <1>9, <1>10 DEF G
<1>17. Mapped(m, s) = [len |-> n, entries |-> G]
  BY <1>15, <1>16
<1>18. Entries(G, n)
  <2>1. \A x \in G : EntryOK(x) /\ x.end <= n
    BY <1>2, <1>1, <1>3, <1>4 DEF G, EntryOK
  <2>2. \A x, y \in G : x # y => Disjoint(x, y)
    <3>1. \A x \in R : Disjoint(x, new) /\ Disjoint(new, x)
      BY <1>4, <1>6 DEF Disjoint
    <3>2. \A x, y \in R : x # y => Disjoint(x, y)
      BY DEF BlobOK, MapOK, Entries
    <3> QED BY <3>1, <3>2 DEF G
  <2> QED BY <2>1, <2>2 DEF Entries
<1>19. \A x \in G : ChunkOK(x)
  BY <1>3, <1>4 DEF G
<1>20. BlobOK(Mapped(m, s))
  BY <1>2, <1>17, <1>18, <1>19 DEF BlobOK, MapOK
<1> QED BY <1>17, <1>20 DEF G, n, e, d, new

\* Byte q is what the entry that covers it says.
LEMMA ByteCovered ==
  ASSUME NEW m, BlobOK(m), NEW q \in Nat, NEW x \in m.entries, Covers(x, q)
  PROVE  ByteAt(m, q) = x.id[q - x.start + 1] /\ q < m.len /\ q - x.start + 1 \in 1 .. Len(x.id)
<1>1. (CHOOSE y \in m.entries : Covers(y, q)) = x
  BY OneEntry DEF BlobOK, MapOK
<1>2. ByteAt(m, q) = x.id[x.off + (q - x.start) + 1]
  BY <1>1 DEF ByteAt
<1>3. /\ x.off = 0 /\ q - x.start \in Nat /\ x.end <= m.len /\ m.len \in Nat
      /\ x.end = x.start + Len(x.id) /\ Len(x.id) \in Nat /\ x.start \in Nat /\ q < x.end
  BY DEF BlobOK, MapOK, Entries, EntryOK, ChunkOK, Covers, Bytes
<1>4. x.off + (q - x.start) + 1 = q - x.start + 1
  BY <1>3
<1>5. q < m.len /\ q - x.start + 1 \in 1 .. Len(x.id)
  BY <1>3
<1> QED BY <1>2, <1>4, <1>5

LEMMA ByteUncovered ==
  ASSUME NEW m, NEW q, \A x \in m.entries : ~Covers(x, q)
  PROVE  ByteAt(m, q) = 0
BY DEF ByteAt

LEMMA ByteBehind ==
  ASSUME NEW m, BlobOK(m), NEW q \in Nat, m.len <= q
  PROVE  ByteAt(m, q) = 0
<1>1. \A x \in m.entries : ~Covers(x, q)
  BY DEF BlobOK, MapOK, Entries, EntryOK, Covers
<1> QED BY <1>1, ByteUncovered

LEMMA ByteIsByte ==
  ASSUME NEW m, BlobOK(m), NEW q \in Nat
  PROVE  ByteAt(m, q) \in Byte \cup {0}
<1>1. CASE \E x \in m.entries : Covers(x, q)
  <2>1. PICK x \in m.entries : Covers(x, q)
    BY <1>1
  <2>2. ByteAt(m, q) = x.id[q - x.start + 1] /\ q - x.start + 1 \in 1 .. Len(x.id)
    BY <2>1, ByteCovered
  <2>3. x.id \in Seq(Byte \cup {0})
    BY DEF BlobOK, ChunkOK, Bytes
  <2> QED BY <2>2, <2>3
<1>2. CASE ~\E x \in m.entries : Covers(x, q)
  BY <1>2, ByteUncovered
<1> QED BY <1>1, <1>2

\* What is stored is read; the rest is as before.
LEMMA ByteMapped ==
  ASSUME NEW m, BlobOK(m), NEW s, PendingOK(m, s), Len(s.data) > 0, NEW q \in Nat
  PROVE  ByteAt(Mapped(m, s), q) = IF Within(s, q) THEN s.data[q - s.pos + 1] ELSE ByteAt(m, q)
<1> DEFINE M == Mapped(m, s)
<1>1. BlobOK(M) /\ M.entries = {x \in m.entries : x.start # s.pos} \cup {Entire(s)}
  BY MappedIs
<1> HIDE DEF M
<1>2. /\ Entire(s).id = s.data /\ Entire(s).start = s.pos /\ Entire(s).end = s.pos + Len(s.data)
      /\ (Covers(Entire(s), q) <=> Within(s, q))
  BY DEF Entire, Covers, Within
<1>3. CASE Within(s, q)
  <2>1. Entire(s) \in M.entries /\ Covers(Entire(s), q)
    BY <1>1, <1>2, <1>3
  <2> QED BY <1>1, <1>2, <1>3, <2>1, ByteCovered DEF M
<1>4. CASE ~Within(s, q)
  <2>1. \A x \in m.entries : Covers(x, q) => x.start # s.pos
    BY <1>4 DEF Within, Covers, PendingOK, BlobOK, MapOK, Entries, EntryOK, Bytes
  <2>2. CASE \E x \in m.entries : Covers(x, q)
    <3>1. PICK x \in m.entries : Covers(x, q)
      BY <2>2
    <3>2. x \in M.entries
      BY <1>1, <2>1, <3>1
    <3>3. ByteAt(m, q) = x.id[q - x.start + 1]
      BY <3>1, ByteCovered
    <3>4. ByteAt(M, q) = x.id[q - x.start + 1]
      BY <1>1, <3>1, <3>2, ByteCovered
    <3> QED BY <1>4, <3>3, <3>4 DEF M
  <2>3. CASE ~\E x \in m.entries : Covers(x, q)
    <3>1. \A x \in M.entries : ~Covers(x, q)
      BY <1>1, <1>2, <1>4, <2>3
    <3> QED BY <1>4, <2>3, <3>1, ByteUncovered DEF M
  <2> QED BY <2>2, <2>3
<1> QED BY <1>3, <1>4

\* What is in the blob is what a reader finds.
LEMMA ContentIs ==
  ASSUME NEW m, BlobOK(m)
  PROVE  BlobContent(m) = [k \in 1 .. m.len |-> ByteAt(m, k - 1)]
<1>1. MapOK(m) /\ m.len \in Nat
  BY DEF BlobOK, MapOK
<1>2. ASSUME NEW k \in 1 .. m.len
      PROVE  FromMap(m, k - 1, 1)[1] = ByteAt(m, k - 1)
  <2> DEFINE q == k - 1
             g == Get(m, q)
  <2>1. q \in Nat /\ q < m.len
    BY <1>1
  <2> HIDE DEF q
  <2>2. CASE \E x \in m.entries : Covers(x, q)
    <3>1. PICK x \in m.entries : Covers(x, q)
      BY <2>2
    <3>2. g = [kind |-> "chunk", id |-> x.id, off |-> x.off + (q - x.start), len |-> x.end - q]
      BY <1>1, <2>1, <3>1, GetChunk
    <3>3. ByteAt(m, q) = x.id[q - x.start + 1] /\ q - x.start + 1 \in 1 .. Len(x.id)
      BY <2>1, <3>1, ByteCovered
    <3>4. x.off = 0 /\ x.id \in Seq(Byte \cup {0}) /\ x.end - q \in Nat \ {0} /\ q - x.start \in Nat
          /\ x.start \in Nat /\ x.end = x.start + Len(x.id)
      BY <2>1, <3>1 DEF BlobOK, MapOK, Entries, EntryOK, ChunkOK, Covers, Bytes
    <3> HIDE DEF g
    <3>5. g.off = q - x.start /\ g.id = x.id /\ g.len = x.end - q /\ g.kind = "chunk"
      BY <3>2, <3>4
    <3>6. Smaller(Smaller(g.len, 1), Len(g.id) - g.off) = 1
      BY <2>1, <3>3, <3>4, <3>5 DEF Smaller
    <3>7. FromMap(m, q, 1) = SubSeq(x.id, q - x.start + 1, q - x.start + 1)
      <4>1. FromMap(m, q, 1) = FromChunk(g, 1)
        BY <3>5 DEF FromMap, g
      <4> QED BY <3>5, <3>6, <4>1 DEF FromChunk
    <3>8. SubSeq(x.id, q - x.start + 1, q - x.start + 1)[1] = x.id[q - x.start + 1]
      <4> DEFINE a == q - x.start
      <4>1. a \in Nat /\ a + 1 <= Len(x.id)
        BY <3>3, <3>4
      <4> HIDE DEF a
      <4>2. SubSeq(x.id, a + 1, a + 1)[1] = x.id[a + 1]
        BY <3>4, <4>1, SubSeqAt
      <4> QED BY <4>2 DEF a
    <3> QED BY <3>3, <3>7, <3>8 DEF q
  <2>3. CASE ~\E x \in m.entries : Covers(x, q)
    <3> DEFINE h == HoleEnd(m, q)
    <3>1. g = [kind |-> "hole", len |-> h - q] /\ Holding(m, q) = {}
      BY <1>1, <2>1, <2>3, GetHole
    <3>2. h \in Nat /\ q < h
      BY <1>1, <2>1, <3>1, HoleIsEmpty
    <3> HIDE DEF g, h
    <3>3. FromMap(m, q, 1) = File!Zeroes(Smaller(h - q, 1))
      BY <3>1 DEF FromMap, g
    <3>4. Smaller(h - q, 1) = 1
      BY <2>1, <3>2 DEF Smaller
    <3>5. FromMap(m, q, 1)[1] = 0
      BY <3>3, <3>4 DEF File!Zeroes, File!Zero
    <3>6. ByteAt(m, q) = 0
      BY <2>3, ByteUncovered
    <3> QED BY <3>5, <3>6 DEF q
  <2> QED BY <2>2, <2>3
<1> QED BY <1>2 DEF BlobContent

LEMMA DataIs ==
  ASSUME NEW d \in Data
  PROVE  d \in Bytes /\ Len(d) \in Nat \ {0}
<1>1. PICK n \in 1 .. MaxWrite : d \in [1 .. n -> Byte]
  BY DEF Data
<1>2. n \in Nat \ {0} /\ d \in [1 .. n -> Byte \cup {0}]
  BY <1>1
<1> QED BY <1>2, FunIsSeq DEF Bytes

Slot(m, b) == BufferOK(b) /\ PendingOK(m, AsChunk(b))

\* What write_into_vec does to a buffer.
LEMMA FilledIs ==
  ASSUME NEW m, NEW b, Slot(m, b), NEW p \in Nat, Contains(b, p), NEW d \in Bytes, Len(d) > 0
  PROVE  LET n == Fits(b, p, d)
             F == Filled(b, p, d)
             e == SubSeq(d, 1, n)
         IN  /\ n \in 1 .. Len(d) /\ p + n <= b.start + b.cap
             /\ e \in Bytes /\ Len(e) = n
             /\ F = [start |-> b.start, cap |-> b.cap, data |-> F.data]
             /\ F.data \in Bytes /\ Len(F.data) = Longer(Len(b.data), (p - b.start) + n)
             /\ \A k \in 1 .. Len(F.data) :
                  F.data[k] = IF p - b.start < k /\ k <= (p - b.start) + n THEN e[k - (p - b.start)]
                              ELSE IF k <= Len(b.data) THEN b.data[k] ELSE 0
<1> DEFINE n == Fits(b, p, d)
           F == Filled(b, p, d)
           e == SubSeq(d, 1, n)
           o == p - b.start
           D == File!Overwrite(b.data, o, e)
<1>1. /\ b = [start |-> b.start, cap |-> b.cap, data |-> b.data]
      /\ b.cap \in Nat /\ b.start \in Nat /\ b.data \in Bytes
      /\ b.start <= p /\ p < b.start + b.cap /\ Len(d) \in Nat
  BY AlignedNat, SizeAssumption DEF Slot, BufferOK, PendingOK, AsChunk, Contains, Bytes
<1>2. n \in 1 .. Len(d) /\ p + n <= b.start + b.cap
  BY <1>1 DEF Fits, Smaller
<1> HIDE DEF n
<1>3. e \in Bytes /\ Len(e) = n
  <2>1. n \in Nat /\ 0 + n <= Len(d)
    BY <1>1, <1>2
  <2>2. SubSeq(d, 0 + 1, 0 + n) \in Seq(Byte \cup {0}) /\ Len(SubSeq(d, 0 + 1, 0 + n)) = n
    BY <2>1, SubSeqAt DEF Bytes
  <2>3. 0 + 1 = 1 /\ 0 + n = n
    BY <2>1
  <2> QED BY <2>2, <2>3 DEF Bytes
<1>4. o \in Nat
  BY <1>1
<1>5. F = [b EXCEPT !.data = D]
  BY DEF Filled, n
<1> HIDE DEF o, e, F
<1>9. b.data \in Bytes /\ e \in Bytes
  BY <1>1, <1>3
<1>10. /\ D \in Bytes /\ Len(D) = Longer(Len(b.data), o + Len(e))
       /\ \A k \in 1 .. Len(D) :
            D[k] = IF o < k /\ k <= o + Len(e) THEN e[k - o] ELSE IF k <= Len(b.data) THEN b.data[k] ELSE 0
  BY <1>4, <1>9, OverwriteIs
<1> HIDE DEF D
<1>6. /\ D \in Bytes /\ Len(D) = Longer(Len(b.data), o + n)
      /\ \A k \in 1 .. Len(D) :
           D[k] = IF o < k /\ k <= o + n THEN e[k - o] ELSE IF k <= Len(b.data) THEN b.data[k] ELSE 0
  BY <1>3, <1>10
<1>7. F = [start |-> b.start, cap |-> b.cap, data |-> D]
  BY <1>1, <1>5
<1>8. F.data = D
  BY <1>7
<1> QED BY <1>2, <1>3, <1>6, <1>7, <1>8 DEF n, F, e, o

\* The buffer stays one that can be stored.
LEMMA FilledFits ==
  ASSUME NEW m, BlobOK(m), NEW b, Slot(m, b), NEW p \in Nat, Contains(b, p), NEW d \in Bytes, Len(d) > 0
  PROVE  LET F == Filled(b, p, d) IN Slot(m, F) /\ Len(F.data) > 0 /\ F.start = b.start
<1> DEFINE n == Fits(b, p, d)
           F == Filled(b, p, d)
<1>1. /\ n \in 1 .. Len(d) /\ p + n <= b.start + b.cap
      /\ F = [start |-> b.start, cap |-> b.cap, data |-> F.data]
      /\ F.data \in Bytes /\ Len(F.data) = Longer(Len(b.data), (p - b.start) + n)
  BY FilledIs
<1> HIDE DEF n, F
<1>2. /\ b.cap \in 1 .. ChunkSize /\ b.start \in Nat /\ Len(b.data) \in Nat /\ Len(b.data) <= b.cap
      /\ b.start <= p /\ Len(d) \in Nat /\ IsAligned(b.start)
      /\ \A x \in m.entries : x.start = b.start => x.end <= b.start + Len(b.data)
  BY AlignedNat, SizeAssumption DEF Slot, BufferOK, PendingOK, AsChunk, Contains, Bytes
<1>3. F.start = b.start /\ F.cap = b.cap
  BY <1>1
<1>4. Len(F.data) \in Nat /\ Len(F.data) > 0 /\ Len(b.data) <= Len(F.data) /\ Len(F.data) <= b.cap
  BY <1>1, <1>2 DEF Longer
<1>5. BufferOK(F)
  BY <1>1, <1>2, <1>3, <1>4 DEF BufferOK
<1>6. AsChunk(F) = [pos |-> b.start, data |-> F.data]
  BY <1>3 DEF AsChunk
<1>7. PendingOK(m, AsChunk(F))
  <2>1. Len(F.data) <= ChunkSize
    BY <1>2, <1>4, SizeAssumption
  <2>2. b.start + Len(b.data) <= b.start + Len(F.data)
    BY <1>2, <1>4
  <2>3. ASSUME NEW x \in m.entries, x.start = b.start PROVE x.end <= b.start + Len(F.data)
    <3>1. x.end \in Nat /\ x.end <= b.start + Len(b.data)
      BY <1>2, <2>3 DEF BlobOK, MapOK, Entries, EntryOK
    <3> QED BY <1>2, <1>4, <2>2, <3>1
  <2> QED BY <1>1, <1>2, <1>6, <2>1, <2>3 DEF PendingOK
<1> QED BY <1>3, <1>4, <1>5, <1>7 DEF F, Slot

\* A write in the buffer is the write in the file.
LEMMA FilledIsWritten ==
  ASSUME NEW m, BlobOK(m), NEW b, Slot(m, b), NEW p \in Nat, Contains(b, p), NEW d \in Bytes, Len(d) > 0,
         NEW f, FileIs(m, AsChunk(b), f)
  PROVE  FileIs(m, AsChunk(Filled(b, p, d)), File!Overwrite(f, p, SubSeq(d, 1, Fits(b, p, d))))
<1> DEFINE n == Fits(b, p, d)
           F == Filled(b, p, d)
           e == SubSeq(d, 1, n)
           g == File!Overwrite(f, p, e)
           s == AsChunk(b)
           t == AsChunk(F)
           a == b.start
           D == b.data
           E == F.data
<1>1. /\ n \in 1 .. Len(d) /\ p + n <= a + b.cap
      /\ e \in Bytes /\ Len(e) = n
      /\ F = [start |-> a, cap |-> b.cap, data |-> E]
      /\ E \in Bytes /\ Len(E) = Longer(Len(D), (p - a) + n)
      /\ \A k \in 1 .. Len(E) :
           E[k] = IF p - a < k /\ k <= (p - a) + n THEN e[k - (p - a)] ELSE IF k <= Len(D) THEN D[k] ELSE 0
  BY FilledIs
<1>2. /\ s.pos = a /\ s.data = D /\ a \in Nat /\ a <= p /\ IsAligned(a)
      /\ b.cap \in Nat /\ b.cap <= ChunkSize /\ Len(D) \in Nat
      /\ \A x \in m.entries : x.start = a => x.end <= a + Len(D)
  BY AlignedNat, SizeAssumption DEF Slot, BufferOK, PendingOK, AsChunk, Contains, Bytes
<1> HIDE DEF n, F, e, E
<1>3. t.pos = a /\ t.data = E
  <2>1. F.start = a
    BY <1>1
  <2> QED BY <2>1 DEF AsChunk, E
<1> HIDE DEF s, t, a, D
<1>4. /\ f \in Bytes
      /\ Len(f) = IF Len(D) = 0 THEN m.len ELSE Longer(m.len, a + Len(D))
      /\ \A q \in Nat : q < Len(f) => f[q + 1] = IF a <= q /\ q < a + Len(D) THEN D[q - a + 1] ELSE ByteAt(m, q)
  BY <1>2 DEF FileIs, Within, s
<1>5. m.len \in Nat /\ Len(f) \in Nat /\ n \in Nat /\ n > 0 /\ Len(d) \in Nat
  BY <1>1, <1>4 DEF BlobOK, MapOK, Bytes
<1>6. /\ g \in Bytes /\ Len(g) = Longer(Len(f), p + n)
      /\ \A k \in 1 .. Len(g) :
           g[k] = IF p < k /\ k <= p + n THEN e[k - p] ELSE IF k <= Len(f) THEN f[k] ELSE 0
  <2>1. /\ g \in Bytes /\ Len(g) = Longer(Len(f), p + Len(e))
        /\ \A k \in 1 .. Len(g) :
             g[k] = IF p < k /\ k <= p + Len(e) THEN e[k - p] ELSE IF k <= Len(f) THEN f[k] ELSE 0
    BY <1>1, <1>4, OverwriteIs
  <2> HIDE DEF g
  <2> QED BY <1>1, <2>1
<1> HIDE DEF g
<1>7. Len(E) \in Nat /\ Len(E) > 0 /\ a + Len(E) <= a + ChunkSize /\ Len(D) <= Len(E)
  <2>1. Len(D) \in Nat /\ Len(D) <= b.cap /\ b.cap \in Nat /\ b.cap <= ChunkSize /\ ChunkSize \in Nat
    BY <1>2, SizeAssumption DEF Slot, BufferOK, D
  <2>2. Len(E) = Longer(Len(D), (p - a) + n) /\ p + n <= a + b.cap
    BY <1>1
  <2>3. a \in Nat /\ p - a \in Nat /\ n \in Nat /\ n > 0
    BY <1>2, <1>5
  <2> QED BY <2>1, <2>2, <2>3 DEF Longer
<1>8. Len(g) = Longer(m.len, a + Len(E))
  BY <1>1, <1>2, <1>4, <1>5, <1>6 DEF Longer
\* Behind what the buffer had, as far as a chunk may reach, there is nothing.
<1>9. \A q \in Nat : a + Len(D) <= q /\ q < a + ChunkSize => ByteAt(m, q) = 0
  <2> SUFFICES ASSUME NEW q \in Nat, a + Len(D) <= q, q < a + ChunkSize PROVE ByteAt(m, q) = 0
    OBVIOUS
  <2>1. ASSUME NEW x \in m.entries, Covers(x, q) PROVE FALSE
    <3>1. /\ x.start \in Nat /\ x.end \in Nat /\ x.end <= x.start + ChunkSize /\ IsAligned(x.start)
          /\ x.start <= q /\ q < x.end
      BY <2>1, SizeAssumption DEF BlobOK, MapOK, Entries, EntryOK, ChunkOK, Covers, Bytes
    <3>2. x.start < a => x.start + ChunkSize <= a
      BY <1>2, <3>1, AlignedApart
    <3>3. a < x.start => a + ChunkSize <= x.start
      BY <1>2, <3>1, AlignedApart
    <3>4. x.start = a => x.end <= a + Len(D)
      BY <1>2
    <3> QED BY <1>2, <3>1, <3>2, <3>3, <3>4, SizeAssumption
  <2> QED BY <2>1, ByteUncovered
<1>10. ASSUME NEW q \in Nat, q < Len(g)
       PROVE  g[q + 1] = IF a <= q /\ q < a + Len(E) THEN E[q - a + 1] ELSE ByteAt(m, q)
  <2>1. q + 1 \in 1 .. Len(g)
    BY <1>5, <1>6, <1>10 DEF Longer
  <2>2. g[q + 1] = IF p < q + 1 /\ q + 1 <= p + n THEN e[(q + 1) - p] ELSE IF q + 1 <= Len(f) THEN f[q + 1] ELSE 0
    BY <1>6, <2>1
  <2>3. CASE p <= q /\ q < p + n
    <3>1. g[q + 1] = e[(q + 1) - p]
      BY <1>5, <2>2, <2>3
    <3>2. a <= q /\ q < a + Len(E) /\ q - a + 1 \in 1 .. Len(E)
      <4>1. a \in Nat /\ a <= p /\ n \in Nat /\ Len(E) \in Nat /\ Len(D) \in Nat
        BY <1>2, <1>5, <1>7
      <4>2. Len(E) = Longer(Len(D), (p - a) + n)
        BY <1>1
      <4>3. (p - a) + n <= Len(E)
        BY <4>1, <4>2 DEF Longer
      <4> QED BY <2>3, <4>1, <4>3
    <3>3. E[q - a + 1] = e[(q - a + 1) - (p - a)]
      <4>1. p - a < q - a + 1 /\ q - a + 1 <= (p - a) + n
        BY <1>2, <1>5, <2>3
      <4> QED BY <1>1, <3>2, <4>1
    <3>4. (q - a + 1) - (p - a) = (q + 1) - p
      BY <1>2
    <3> QED BY <3>1, <3>2, <3>3, <3>4
  <2>4. CASE ~(p <= q /\ q < p + n)
    <3>1. g[q + 1] = IF q < Len(f) THEN f[q + 1] ELSE 0
      BY <1>5, <2>2, <2>4
    <3>2. CASE a <= q /\ q < a + Len(E)
      <4>1. q - a + 1 \in 1 .. Len(E)
        BY <1>2, <1>7, <3>2
      <4>2. E[q - a + 1] = IF q - a + 1 <= Len(D) THEN D[q - a + 1] ELSE 0
        <5>1. ~(p - a < q - a + 1 /\ q - a + 1 <= (p - a) + n)
          BY <1>2, <1>5, <2>4
        <5> QED BY <1>1, <4>1, <5>1
      <4>3. CASE q < a + Len(D)
        <5>1. q < Len(f)
          BY <1>2, <1>4, <1>5, <3>2, <4>3 DEF Longer
        <5>2. q - a + 1 <= Len(D)
          BY <1>2, <4>3
        <5> QED BY <1>4, <3>1, <3>2, <4>2, <4>3, <5>1, <5>2
      <4>4. CASE ~(q < a + Len(D))
        <5>1. ByteAt(m, q) = 0
          BY <1>2, <1>7, <1>9, <3>2, <4>4, SizeAssumption
        <5>2. ~(q - a + 1 <= Len(D))
          BY <1>2, <4>4
        <5> QED BY <1>4, <3>1, <3>2, <4>2, <4>4, <5>1, <5>2
      <4> QED BY <4>3, <4>4
    <3>3. CASE ~(a <= q /\ q < a + Len(E))
      <4>1. ~(a <= q /\ q < a + Len(D))
        BY <1>2, <1>7, <3>3
      <4>2. q < Len(f) => f[q + 1] = ByteAt(m, q)
        BY <1>4, <4>1
      <4>3. ~(q < Len(f)) => ByteAt(m, q) = 0
        <5>1. ~(q < Len(f)) => m.len <= q
          BY <1>2, <1>4, <1>5 DEF Longer
        <5> QED BY <5>1, ByteBehind
      <4> QED BY <3>1, <3>3, <4>2, <4>3
    <3> QED BY <3>2, <3>3
  <2> QED BY <2>3, <2>4
<1>11. FileIs(m, t, g)
  <2>1. ~(Len(E) = 0)
    BY <1>7
  <2> QED BY <1>3, <1>6, <1>8, <1>10, <2>1 DEF FileIs, Within
<1> QED BY <1>11 DEF t, g, e, F, n

\* A buffer that is made anew says what the blob says.
LEMMA NewBufferIs ==
  ASSUME BlobOK(map), NEW p \in Nat
  PROVE  LET b == NewBuffer(p) IN
         /\ Slot(map, b) /\ b.start = Aligned(p)
         /\ \A f : FileIs(map, NoChunk, f) => FileIs(map, AsChunk(b), f)
<1> DEFINE a == Aligned(p)
           g == Get(map, a)
           b == NewBuffer(p)
<1>1. a \in Nat /\ IsAligned(a) /\ ChunkSize \in Nat \ {0} /\ map.len \in Nat /\ MapOK(map)
  BY AlignedIs, SizeAssumption DEF BlobOK, MapOK
<1>2. \A x \in map.entries : EntryOK(x) /\ ChunkOK(x) /\ x.end <= map.len
  BY DEF BlobOK, MapOK, Entries
<1>3. \A f : FileIs(map, NoChunk, f) <=>
               /\ f \in Bytes /\ Len(f) = map.len
               /\ \A q \in Nat : q < Len(f) => f[q + 1] = ByteAt(map, q)
  BY DEF FileIs, NoChunk, Within
<1>4. <<>> \in Bytes /\ Len(<<>>) = 0
  BY DEF Bytes
<1> HIDE DEF a
<1>5. b = [start |-> a, cap |-> IF g.kind = "hole" THEN Smaller(g.len, ChunkSize) ELSE ChunkSize,
           data |-> IF g.kind = "chunk" THEN g.id ELSE <<>>]
  BY DEF NewBuffer, a
\* NoChunk begins there: the buffer is empty.
<1>6. ASSUME \A x \in map.entries : x.start # a, NEW c \in 1 .. ChunkSize, b = [start |-> a, cap |-> c, data |-> <<>>]
      PROVE  /\ Slot(map, b) /\ b.start = a
             /\ \A f : FileIs(map, NoChunk, f) => FileIs(map, AsChunk(b), f)
  <2> HIDE DEF b
  <2>1. BufferOK(b)
    BY <1>1, <1>4, <1>6 DEF BufferOK
  <2>2. AsChunk(b) = [pos |-> a, data |-> <<>>]
    BY <1>6 DEF AsChunk
  <2>3. PendingOK(map, AsChunk(b))
    BY <1>1, <1>4, <1>6, <2>2 DEF PendingOK
  <2>4. \A q \in Nat : ~Within(AsChunk(b), q)
    BY <1>1, <1>4, <2>2 DEF Within
  <2>5. \A f : FileIs(map, NoChunk, f) => FileIs(map, AsChunk(b), f)
    BY <1>3, <1>4, <2>2, <2>4 DEF FileIs
  <2> QED BY <1>6, <2>1, <2>3, <2>5 DEF Slot
<1>7. CASE a >= map.len
  <2>1. g.kind = "eof"
    BY <1>7 DEF Get
  <2>2. \A x \in map.entries : x.start # a
    BY <1>1, <1>2, <1>7 DEF EntryOK
  <2>3. b = [start |-> a, cap |-> ChunkSize, data |-> <<>>] /\ ChunkSize \in 1 .. ChunkSize
    BY <1>1, <1>5, <2>1
  <2> HIDE DEF b
  <2> QED BY <1>6, <2>2, <2>3 DEF a, b
<1>8. CASE a < map.len /\ \A x \in map.entries : ~Covers(x, a)
  <2> DEFINE h == HoleEnd(map, a)
  <2>1. Holding(map, a) = {} /\ g = [kind |-> "hole", len |-> h - a]
    BY <1>1, <1>8, GetHole
  <2>2. h \in Nat /\ a < h
    BY <1>1, <1>8, <2>1, HoleIsEmpty
  <2>3. \A x \in map.entries : x.start # a
    BY <1>2, <1>8 DEF EntryOK, Covers
  <2> HIDE DEF g, h
  <2>4. b = [start |-> a, cap |-> Smaller(h - a, ChunkSize), data |-> <<>>]
    BY <1>5, <2>1
  <2>5. Smaller(h - a, ChunkSize) \in 1 .. ChunkSize
    BY <1>1, <2>2 DEF Smaller
  <2> HIDE DEF b
  <2> QED BY <1>6, <2>3, <2>4, <2>5 DEF a, b
<1>9. CASE a < map.len /\ \E x \in map.entries : Covers(x, a)
  <2>1. PICK x \in map.entries : Covers(x, a)
    BY <1>9
  <2>2. /\ x.start \in Nat /\ x.end = x.start + Len(x.id) /\ Len(x.id) \in Nat /\ Len(x.id) <= ChunkSize
        /\ IsAligned(x.start) /\ x.start <= a /\ a < x.end /\ x.id \in Bytes /\ x.end <= map.len
    BY <1>2, <2>1 DEF EntryOK, ChunkOK, Covers, Bytes
  <2>3. x.start = a
    <3>1. x.start < a => x.start + ChunkSize <= a
      BY <1>1, <2>2, AlignedApart
    <3> QED BY <1>1, <2>2, <3>1
  <2>4. g = [kind |-> "chunk", id |-> x.id, off |-> x.off + (a - x.start), len |-> x.end - a]
    BY <1>1, <1>9, <2>1, GetChunk
  <2> HIDE DEF g
  <2>5. b = [start |-> a, cap |-> ChunkSize, data |-> x.id]
    BY <1>5, <2>4
  <2> HIDE DEF b
  <2>6. BufferOK(b)
    BY <1>1, <2>2, <2>5 DEF BufferOK
  <2>7. AsChunk(b) = [pos |-> a, data |-> x.id]
    BY <2>5 DEF AsChunk
  <2>8. \A y \in map.entries : y.start = a => y = x
    BY <1>1, <1>2, <2>1, OneEntry DEF MapOK, Covers, EntryOK
  <2>9. PendingOK(map, AsChunk(b))
    BY <1>1, <2>2, <2>3, <2>7, <2>8 DEF PendingOK
  <2>10. \A q \in Nat : Within(AsChunk(b), q) => ByteAt(map, q) = x.id[q - a + 1]
    <3> SUFFICES ASSUME NEW q \in Nat, Within(AsChunk(b), q) PROVE ByteAt(map, q) = x.id[q - a + 1]
      OBVIOUS
    <3>1. Covers(x, q)
      BY <2>2, <2>3, <2>7 DEF Within, Covers
    <3> QED BY <2>3, <3>1, ByteCovered
  <2>11. ASSUME NEW f, FileIs(map, NoChunk, f) PROVE FileIs(map, AsChunk(b), f)
    <3>1. f \in Bytes /\ Len(f) = map.len /\ \A q \in Nat : q < Len(f) => f[q + 1] = ByteAt(map, q)
      BY <1>3, <2>11
    <3>2. Longer(map.len, a + Len(x.id)) = map.len
      BY <1>1, <2>2, <2>3 DEF Longer
    <3>3. AsChunk(b).pos = a /\ AsChunk(b).data = x.id
      BY <2>7
    <3> QED BY <2>10, <3>1, <3>2, <3>3 DEF FileIs
  <2> QED BY <2>5, <2>6, <2>9, <2>11 DEF Slot, a, b
<1> QED BY <1>1, <1>7, <1>8, <1>9

TheBuffer(p) == IF buffer = {} THEN NewBuffer(p) ELSE CHOOSE b \in buffer : TRUE

\* The buffer a write at p goes to.
LEMMA TheBufferIs ==
  ASSUME Alone, Structure, submit = {}, NEW p \in Nat
  PROVE  LET b == TheBuffer(p) IN
         /\ Slot(map, b)
         /\ buffer # {} => buffer = {b}
         /\ buffer = {} => b.start = Aligned(p)
         /\ FileKept => FileIs(map, AsChunk(b), file)
<1> DEFINE b == TheBuffer(p)
<1>1. BlobOK(map)
  BY DEF Structure
<1>2. CASE buffer = {}
  <2>1. b = NewBuffer(p) /\ Pending = {}
    BY <1>2 DEF TheBuffer, Pending
  <2> HIDE DEF b
  <2> QED BY <1>1, <1>2, <2>1, NewBufferIs DEF FileKept, b
<1>3. CASE buffer # {}
  <2>1. b \in buffer
    BY <1>3 DEF TheBuffer
  <2> HIDE DEF b
  <2>2. buffer = {b}
    BY <2>1 DEF Alone, One
  <2>3. AsChunk(b) \in Pending
    BY <2>1 DEF Pending
  <2> QED BY <1>3, <2>1, <2>2, <2>3 DEF Structure, Slot, FileKept, b
<1> QED BY <1>2, <1>3

\* A buffer of fewer bytes than a chunk is over a hole at the end of the blob, which set_len made.
LEMMA BufferHoldsWrite ==
  ASSUME Structure, Ends(map), NEW p \in Nat
  PROVE  Contains(NewBuffer(p), p)
<1> DEFINE a == Aligned(p)
           g == Get(map, a)
<1>1. a \in Nat /\ IsAligned(a) /\ a <= p /\ p < a + ChunkSize /\ ChunkSize \in Nat \ {0}
      /\ map.len \in Nat /\ MapOK(map)
  BY AlignedIs, SizeAssumption DEF Structure, BlobOK, MapOK
<1>2. \A x \in map.entries : EntryOK(x) /\ ChunkOK(x) /\ x.end <= map.len
  BY DEF Structure, BlobOK, MapOK, Entries
<1> HIDE DEF a
<1>3. NewBuffer(p).start = a /\ NewBuffer(p).cap = IF g.kind = "hole" THEN Smaller(g.len, ChunkSize) ELSE ChunkSize
  BY DEF NewBuffer, a
<1>4. CASE g.kind # "hole"
  BY <1>1, <1>3, <1>4 DEF Contains
<1>5. CASE g.kind = "hole"
  <2> DEFINE h == HoleEnd(map, a)
  <2>1. a < map.len
    BY <1>1, <1>5 DEF Get
  <2>2. \A x \in map.entries : ~Covers(x, a)
    <3> SUFFICES ASSUME NEW x \in map.entries, Covers(x, a) PROVE FALSE
      OBVIOUS
    <3>1. g = [kind |-> "chunk", id |-> x.id, off |-> x.off + (a - x.start), len |-> x.end - a]
      BY <1>1, <2>1, GetChunk
    <3> HIDE DEF g
    <3> QED BY <1>5, <3>1
  <2>3. Holding(map, a) = {} /\ g = [kind |-> "hole", len |-> h - a]
    BY <1>1, <2>1, <2>2, GetHole
  <2>4. h \in Nat /\ a < h /\ (h = map.len \/ \E x \in map.entries : x.start = h)
    BY <1>1, <2>1, <2>3, HoleIsEmpty
  <2> HIDE DEF g, h
  <2>5. a + ChunkSize <= h
    <3>1. ASSUME NEW x \in map.entries, x.start = h PROVE a + ChunkSize <= h
      BY <1>1, <1>2, <2>4, <3>1, AlignedApart DEF ChunkOK
    <3>2. ASSUME h = map.len PROVE a + ChunkSize <= h
      <4>1. PICK x \in map.entries : x.end = map.len
        BY <1>1, <2>1 DEF Ends
      <4>2. /\ x.start \in Nat /\ x.end = x.start + Len(x.id) /\ Len(x.id) \in Nat /\ Len(x.id) <= ChunkSize
            /\ IsAligned(x.start) /\ x.start < x.end
        BY <1>2 DEF EntryOK, ChunkOK, Bytes
      <4>3. a < x.start
        <5>1. x.start < a => x.start + ChunkSize <= a
          BY <1>1, <4>2, AlignedApart
        <5>2. x.start # a
          BY <1>1, <2>2, <4>2 DEF Covers
        <5> QED BY <1>1, <2>1, <4>1, <4>2, <5>1, <5>2
      <4>4. a + ChunkSize <= x.start
        BY <1>1, <4>2, <4>3, AlignedApart
      <4> QED BY <1>1, <3>2, <4>1, <4>2, <4>4
    <3> QED BY <2>4, <3>1, <3>2
  <2>6. Smaller(g.len, ChunkSize) = ChunkSize
    BY <1>1, <2>3, <2>4, <2>5 DEF Smaller
  <2> QED BY <1>1, <1>3, <1>5, <2>6 DEF Contains
<1> QED BY <1>4, <1>5

LEMMA WriteAtKeeps ==
  ASSUME HandleInv, NEW p, NEW q, NEW d \in Data, WriteAt(p, q, d), NEW u, used' = used \cup u,
         "shrink" \notin used' => p \in Nat,
         used' \cap {"shrink", "end"} = {} => q = p,
         used' = {} => p <= Len(file)
  PROVE  HandleInv'
<1> DEFINE b == TheBuffer(p)
           F == Filled(b, p, d)
<1>1. /\ status = "open" /\ submit = {} /\ submit' = {} /\ map' = map
      /\ \A c \in buffer : Contains(c, p)
      /\ IF Contains(b, p)
         THEN /\ buffer' = {F} /\ status' = status
              /\ file' = File!Overwrite(file, q, SubSeq(d, 1, Fits(b, p, d)))
         ELSE status' = "panicked" /\ buffer' = buffer /\ file' = file
  BY DEF WriteAt, TheBuffer, File!Write
<1>2. d \in Bytes /\ Len(d) > 0
  BY DataIs
<1>3. ASSUME "shrink" \notin used' PROVE p \in Nat /\ Structure /\ "shrink" \notin used
  BY <1>3 DEF HandleInv
<1> HIDE DEF b
<1>4. Alone'
  <2>1. CASE Contains(b, p)
    BY <1>1, <2>1 DEF Alone, One
  <2>2. CASE ~Contains(b, p)
    BY <1>1, <2>2 DEF Alone, One, HandleInv
  <2> QED BY <2>1, <2>2
<1>5. ASSUME "shrink" \notin used'
      PROVE  /\ Slot(map, b)
             /\ buffer # {} => buffer = {b}
             /\ buffer = {} => b.start = Aligned(p)
             /\ FileKept => FileIs(map, AsChunk(b), file)
  BY <1>1, <1>3, <1>5, TheBufferIs DEF HandleInv, b
<1>6. ASSUME "shrink" \notin used', Contains(b, p)
      PROVE  /\ Slot(map, F) /\ Len(F.data) > 0 /\ F.start = b.start
             /\ FileKept => FileIs(map, AsChunk(F), File!Overwrite(file, p, SubSeq(d, 1, Fits(b, p, d))))
  <2>1. p \in Nat /\ Slot(map, b) /\ BlobOK(map)
    BY <1>3, <1>5, <1>6 DEF Structure
  <2>2. Slot(map, F) /\ Len(F.data) > 0 /\ F.start = b.start
    BY <1>2, <1>6, <2>1, FilledFits
  <2>3. FileKept => FileIs(map, AsChunk(b), file)
    BY <1>5, <1>6
  <2>4. FileKept => FileIs(map, AsChunk(F), File!Overwrite(file, p, SubSeq(d, 1, Fits(b, p, d))))
    BY <1>2, <1>6, <2>1, <2>3, FilledIsWritten
  <2> QED BY <2>2, <2>4
<1>7. CASE Contains(b, p)
  <2> HIDE DEF F
  <2>1. buffer' = {F} /\ status' = "open" /\ file' = File!Overwrite(file, q, SubSeq(d, 1, Fits(b, p, d)))
    BY <1>1, <1>7
  <2>2. Pending' = {AsChunk(F)}
    BY <1>1, <2>1 DEF Pending
  <2>3. AsChunk(F).data = F.data /\ AsChunk(F).pos = F.start
    BY DEF AsChunk
  <2>4. ASSUME "shrink" \notin used' PROVE Structure'
    <3>1. BlobOK(map) /\ BufferOK(F) /\ PendingOK(map, AsChunk(F)) /\ Len(AsChunk(F).data) > 0
      BY <1>3, <1>6, <1>7, <2>3, <2>4 DEF Structure, Slot
    <3> QED BY <1>1, <2>1, <2>2, <3>1 DEF Structure
  <2>5. ASSUME used' \cap {"shrink", "end"} = {} PROVE FileKept'
    <3>1. FileKept /\ "shrink" \notin used' /\ q = p
      BY <2>5 DEF HandleInv
    <3>2. FileIs(map, AsChunk(F), file')
      BY <1>6, <1>7, <2>1, <3>1
    <3> QED BY <1>1, <2>2, <3>2 DEF FileKept
  <2>6. ASSUME used' \cap {"shrink", "extend"} = {} PROVE NoPanic'
    <3>1. NoPanic
      BY <2>6 DEF HandleInv
    <3> QED BY <1>1, <2>1, <3>1 DEF NoPanic
  <2>7. ASSUME used' = {} PROVE Gapless'
    <3>1. Gapless /\ FileKept /\ "shrink" \notin used' /\ p <= Len(file) /\ Structure /\ p \in Nat
      BY <1>3, <2>7 DEF HandleInv
    <3>2. F.start <= map.len
      <4>1. CASE buffer = {}
        <5>1. F.start = Aligned(p) /\ Aligned(p) <= p /\ Aligned(p) \in Nat
          BY <1>5, <1>6, <1>7, <3>1, <4>1, AlignedIs
        <5>2. Len(file) = map.len
          BY <1>1, <3>1, <4>1 DEF Pending, FileKept, FileIs, NoChunk
        <5>3. map.len \in Nat
          BY <3>1 DEF Structure, BlobOK, MapOK
        <5> QED BY <3>1, <5>1, <5>2, <5>3
      <4>2. CASE buffer # {}
        <5>1. F.start = b.start /\ b \in buffer
          BY <1>5, <1>6, <1>7, <3>1, <4>2
        <5>2. AsChunk(b) \in Pending /\ AsChunk(b).pos = b.start
          BY <5>1 DEF Pending, AsChunk
        <5>3. b.start <= map.len
          BY <3>1, <5>2 DEF Gapless
        <5> QED BY <5>1, <5>3
      <4> QED BY <4>1, <4>2
    <3> QED BY <1>1, <2>2, <2>3, <3>1, <3>2 DEF Gapless
  <2> QED BY <1>4, <2>4, <2>5, <2>6, <2>7 DEF HandleInv
<1>8. CASE ~Contains(b, p)
  <2>1. buffer' = buffer /\ file' = file
    BY <1>1, <1>8
  <2>2. Pending' = Pending
    BY <1>1, <2>1 DEF Pending
  <2>3. ASSUME "shrink" \notin used' PROVE Structure'
    BY <1>1, <1>3, <2>1, <2>2, <2>3 DEF Structure
  <2>4. ASSUME used' \cap {"shrink", "end"} = {} PROVE FileKept'
    BY <1>1, <2>1, <2>2, <2>4 DEF HandleInv, FileKept
  <2>5. used' \cap {"shrink", "extend"} # {}
    <3> SUFFICES ASSUME used' \cap {"shrink", "extend"} = {} PROVE FALSE
      OBVIOUS
    <3>1. NoPanic /\ Structure /\ p \in Nat
      BY <1>3 DEF HandleInv
    <3>2. buffer = {}
      BY <1>1, <1>5, <1>8
    <3> QED BY <1>8, <3>1, <3>2, BufferHoldsWrite DEF NoPanic, b, TheBuffer
  <2>6. ASSUME used' = {} PROVE FALSE
    BY <2>5, <2>6
  <2> QED BY <1>4, <2>3, <2>4, <2>5, <2>6 DEF HandleInv
<1> QED BY <1>7, <1>8

\* With nothing to be stored the file is the blob.
LEMMA FileOfBlob ==
  ASSUME NEW m, NEW f
  PROVE  FileIs(m, NoChunk, f) <=>
           /\ f \in Bytes /\ Len(f) = m.len
           /\ \A q \in Nat : q < Len(f) => f[q + 1] = ByteAt(m, q)
BY DEF FileIs, NoChunk, Within

LEMMA StoredFile ==
  ASSUME NEW m, BlobOK(m), NEW s, PendingOK(m, s), Len(s.data) > 0, NEW f, FileIs(m, s, f)
  PROVE  FileIs(Mapped(m, s), NoChunk, f)
<1> DEFINE M == Mapped(m, s)
<1>1. M.len = Longer(m.len, s.pos + Len(s.data))
  BY MappedIs
<1>2. \A q \in Nat : ByteAt(M, q) = IF Within(s, q) THEN s.data[q - s.pos + 1] ELSE ByteAt(m, q)
  BY ByteMapped
<1> HIDE DEF M
<1>3. ~(Len(s.data) = 0)
  OBVIOUS
<1>4. /\ f \in Bytes /\ Len(f) = M.len
      /\ \A q \in Nat : q < Len(f) => f[q + 1] = IF Within(s, q) THEN s.data[q - s.pos + 1] ELSE ByteAt(m, q)
  BY <1>1, <1>3 DEF FileIs
<1>5. \A q \in Nat : q < Len(f) => f[q + 1] = ByteAt(M, q)
  BY <1>2, <1>4
<1>6. FileIs(M, NoChunk, f)
  BY <1>4, <1>5, FileOfBlob
<1> QED BY <1>6 DEF M

LEMMA ContentIsFile ==
  ASSUME NEW m, BlobOK(m), NEW f, FileIs(m, NoChunk, f)
  PROVE  BlobContent(m) = f
<1>1. f \in Bytes /\ Len(f) = m.len /\ \A q \in Nat : q < Len(f) => f[q + 1] = ByteAt(m, q)
  BY FileOfBlob
<1>2. m.len \in Nat /\ f = [k \in 1 .. m.len |-> f[k]]
  BY <1>1 DEF Bytes
<1>3. ASSUME NEW k \in 1 .. m.len PROVE f[k] = ByteAt(m, k - 1)
  <2>1. k - 1 \in Nat /\ k - 1 < Len(f) /\ (k - 1) + 1 = k
    BY <1>1, <1>2
  <2> QED BY <1>1, <2>1
<1>4. BlobContent(m) = [k \in 1 .. m.len |-> ByteAt(m, k - 1)]
  BY ContentIs
<1> QED BY <1>2, <1>3, <1>4

LEMMA StoredEnds ==
  ASSUME NEW m, BlobOK(m), NEW s, PendingOK(m, s), Len(s.data) > 0, Ends(m)
  PROVE  Ends(Mapped(m, s))
<1> DEFINE e == s.pos + Len(s.data)
           M == Mapped(m, s)
<1>1. M.len = Longer(m.len, e) /\ M.entries = {x \in m.entries : x.start # s.pos} \cup {Entire(s)}
  BY MappedIs
<1>2. m.len \in Nat /\ e \in Nat /\ e > 0
  BY AlignedNat DEF BlobOK, MapOK, PendingOK, Bytes
<1>3. Entire(s).end = e
  BY DEF Entire
<1> HIDE DEF M, e
<1>4. CASE m.len <= e
  <2>1. M.len = e
    BY <1>1, <1>2, <1>4 DEF Longer
  <2> QED BY <1>1, <1>3, <2>1 DEF Ends, M
<1>5. CASE e < m.len
  <2>1. M.len = m.len
    BY <1>1, <1>2, <1>5 DEF Longer
  <2>2. PICK x \in m.entries : x.end = m.len
    BY <1>2, <1>5 DEF Ends
  <2>3. x.start # s.pos
    <3>1. x.start = s.pos => x.end <= e
      BY DEF PendingOK, e
    <3> QED BY <1>2, <1>5, <2>2, <3>1
  <2> QED BY <1>1, <2>1, <2>2, <2>3 DEF Ends, M
<1> QED BY <1>2, <1>4, <1>5

LEMMA StoredNoHoles ==
  ASSUME NEW m, BlobOK(m), NEW s, PendingOK(m, s), Len(s.data) > 0, NoHoles(m), s.pos <= m.len
  PROVE  NoHoles(Mapped(m, s))
<1> DEFINE e == s.pos + Len(s.data)
           M == Mapped(m, s)
<1>1. M.len = Longer(m.len, e) /\ M.entries = {x \in m.entries : x.start # s.pos} \cup {Entire(s)}
  BY MappedIs
<1>2. m.len \in Nat /\ e \in Nat /\ s.pos \in Nat
  BY AlignedNat DEF BlobOK, MapOK, PendingOK, Bytes
<1>3. Entire(s).start = s.pos /\ Entire(s).end = e
  BY DEF Entire
<1> HIDE DEF M, e
<1>4. ASSUME NEW q \in Nat, q < M.len
      PROVE  \E x \in M.entries : Covers(x, q)
  <2>1. CASE s.pos <= q /\ q < e
    BY <1>1, <1>3, <2>1 DEF Covers
  <2>2. CASE ~(s.pos <= q /\ q < e)
    <3>1. q < m.len
      BY <1>1, <1>2, <1>4, <2>2 DEF Longer
    <3>2. PICK x \in m.entries : Covers(x, q)
      BY <3>1 DEF NoHoles
    <3>3. x.start # s.pos
      <4>1. x.start = s.pos => x.end <= e
        BY DEF PendingOK, e
      <4>2. x.end \in Nat
        BY DEF BlobOK, MapOK, Entries, EntryOK
      <4> QED BY <1>2, <2>2, <3>2, <4>1, <4>2 DEF Covers
    <3> QED BY <1>1, <3>2, <3>3
  <2> QED BY <2>1, <2>2
<1> QED BY <1>4 DEF NoHoles, M

-----------------------------------------------------------------------------

LEMMA HandleStart == BlobInit => HandleInv
<1> SUFFICES ASSUME BlobInit PROVE HandleInv
  OBVIOUS
<1>1. /\ map = [len |-> 0, entries |-> {}] /\ buffer = {} /\ submit = {} /\ status = "open" /\ file = <<>>
      /\ Pending = {}
  BY DEF BlobInit, WithLen, Pending
<1>2. Structure
  BY <1>1 DEF Structure, BlobOK, MapOK, Entries
<1>3. FileKept
  <2>1. file \in Bytes /\ Len(file) = 0 /\ map.len = 0
    BY <1>1 DEF Bytes
  <2>2. FileIs(map, NoChunk, file)
    BY <2>1, FileOfBlob
  <2> QED BY <1>1, <2>2 DEF FileKept
<1>4. Alone /\ NoPanic /\ Gapless
  BY <1>1 DEF Alone, One, NoPanic, Ends, Gapless, NoHoles
<1> QED BY <1>2, <1>3, <1>4 DEF HandleInv

LEMMA WriteKeeps == ASSUME HandleInv, Write PROVE HandleInv'
<1>1. PICK p \in 0 .. MaxLen - 1, d \in Data :
        Use(IF p > Len(file) THEN {"sparse"} ELSE {}) /\ WriteAt(p, p, d)
  BY DEF Write
<1> DEFINE u == IF p > Len(file) THEN {"sparse"} ELSE {}
<1>2. used' = used \cup u
  BY <1>1 DEF Use
<1>3. p \in Nat
  BY SizeAssumption
<1>4. used' = {} => p <= Len(file)
  <2> SUFFICES ASSUME used' = {} PROVE p <= Len(file)
    OBVIOUS
  <2>1. ~(p > Len(file)) /\ used = {}
    BY <1>2
  <2>2. FileKept
    BY <2>1 DEF HandleInv
  <2>3. file \in Bytes
    BY <2>2 DEF FileKept, FileIs
  <2> QED BY <1>3, <2>1, <2>3 DEF Bytes
<1> HIDE DEF u
<1> QED BY <1>1, <1>2, <1>3, <1>4, WriteAtKeeps

LEMMA AppendKeeps == ASSUME HandleInv, AppendAtEnd PROVE HandleInv'
<1>1. PICK d \in Data : WriteAt(map.len, Len(file), d)
  BY DEF AppendAtEnd
<1>2. used' = used \cup {"end"}
  BY DEF AppendAtEnd, Use
<1>3. "shrink" \notin used' => map.len \in Nat
  BY <1>2 DEF HandleInv, Structure, BlobOK, MapOK
<1>4. used' \cap {"shrink", "end"} # {} /\ used' # {}
  BY <1>2
<1> QED BY <1>1, <1>2, <1>3, <1>4, WriteAtKeeps

LEMMA SubmitKeeps == ASSUME HandleInv, Submit PROVE HandleInv'
<1>1. /\ submit = {} /\ submit' = {AsChunk(b) : b \in buffer} /\ buffer' = {}
      /\ map' = map /\ status' = status /\ file' = file /\ used' = used
  BY DEF Submit, AsChunk
<1>2. Pending' = Pending
  BY <1>1 DEF Pending
<1>3. Alone'
  BY <1>1 DEF HandleInv, Alone, One
<1>4. Structure => Structure'
  BY <1>1, <1>2 DEF Structure
<1>5. FileKept => FileKept'
  BY <1>1, <1>2 DEF FileKept
<1>6. (NoPanic => NoPanic') /\ (Gapless => Gapless')
  BY <1>1, <1>2 DEF NoPanic, Gapless
<1> QED BY <1>1, <1>3, <1>4, <1>5, <1>6 DEF HandleInv

LEMMA StoredKeeps == ASSUME HandleInv, Stored PROVE HandleInv'
<1>1. PICK s \in submit : map' = Mapped(map, s)
  BY DEF Stored
<1>2. submit' = {} /\ buffer' = buffer /\ status' = status /\ file' = file /\ used' = used
  BY DEF Stored
<1>3. buffer = {} /\ submit = {s}
  BY DEF HandleInv, Alone, One
<1>4. Pending = {s} /\ Pending' = {}
  BY <1>2, <1>3 DEF Pending
<1>5. Alone'
  BY <1>2, <1>3 DEF Alone, One
<1>6. ASSUME "shrink" \notin used
      PROVE  Structure' /\ BlobOK(map) /\ PendingOK(map, s) /\ Len(s.data) > 0
  <2>1. BlobOK(map) /\ PendingOK(map, s) /\ Len(s.data) > 0
    BY <1>4, <1>6 DEF HandleInv, Structure
  <2>2. BlobOK(Mapped(map, s))
    BY <2>1, MappedIs
  <2> QED BY <1>1, <1>2, <1>3, <1>4, <2>1, <2>2 DEF Structure
<1>7. ASSUME used \cap {"shrink", "end"} = {} PROVE FileKept'
  <2>1. FileIs(map, s, file)
    BY <1>4, <1>7 DEF HandleInv, FileKept
  <2>2. FileIs(Mapped(map, s), NoChunk, file)
    BY <1>6, <1>7, <2>1, StoredFile
  <2> QED BY <1>1, <1>2, <1>4, <2>2 DEF FileKept
<1>8. ASSUME used \cap {"shrink", "extend"} = {} PROVE NoPanic'
  <2>1. NoPanic
    BY <1>8 DEF HandleInv
  <2>2. Ends(Mapped(map, s))
    BY <1>6, <1>8, <2>1, StoredEnds DEF NoPanic
  <2> QED BY <1>1, <1>2, <2>1, <2>2 DEF NoPanic
<1>9. ASSUME used = {} PROVE Gapless'
  <2>1. NoHoles(map) /\ s.pos <= map.len
    BY <1>4, <1>9 DEF HandleInv, Gapless
  <2>2. NoHoles(Mapped(map, s))
    BY <1>6, <1>9, <2>1, StoredNoHoles
  <2> QED BY <1>1, <1>4, <2>2 DEF Gapless
<1> QED BY <1>2, <1>5, <1>6, <1>7, <1>8, <1>9 DEF HandleInv

LEMMA ResizeKeeps == ASSUME HandleInv, Resize PROVE HandleInv'
<1>1. PICK n \in 0 .. MaxLen :
        /\ n # map.len
        /\ Use(IF n < map.len THEN {"shrink"} ELSE {"extend"})
        /\ map' = SetLen(map, n)
        /\ file' = File!Resize(file, n)
  BY DEF Resize, File!SetLen
<1>2. buffer = {} /\ submit = {} /\ buffer' = {} /\ submit' = {} /\ status' = status
  BY DEF Resize, Flushed
<1>3. Pending = {} /\ Pending' = {} /\ Alone'
  BY <1>2 DEF Pending, Alone, One
<1>4. CASE n < map.len
  <2>1. "shrink" \in used'
    BY <1>1, <1>4 DEF Use
  <2> QED BY <1>3, <2>1 DEF HandleInv
<1>5. CASE ~(n < map.len)
  <2>1. used' = used \cup {"extend"}
    BY <1>1, <1>5 DEF Use
  <2>2. n \in Nat
    BY SizeAssumption
  <2>3. ASSUME "shrink" \notin used
        PROVE  Structure' /\ map.len \in Nat /\ map.len < n /\ BlobOK(map)
               /\ map'.len = n /\ map'.entries = map.entries
    <3>1. BlobOK(map) /\ MapOK(map) /\ map.len \in Nat
      BY <2>3 DEF HandleInv, Structure, BlobOK, MapOK
    <3>2. map.len < n
      BY <1>1, <1>5, <2>2, <3>1
    <3>3. MapOK(SetLen(map, n)) /\ SetLen(map, n).len = n /\ SetLen(map, n).entries = map.entries
      BY <2>2, <3>1, <3>2, MapSetLen
    <3>4. BlobOK(SetLen(map, n))
      BY <3>1, <3>3 DEF BlobOK
    <3> QED BY <1>1, <1>2, <1>3, <3>1, <3>2, <3>3, <3>4 DEF Structure
  <2>4. ASSUME used \cap {"shrink", "end"} = {} PROVE FileKept'
    <3>1. FileIs(map, NoChunk, file)
      BY <1>3, <2>4 DEF HandleInv, FileKept
    <3>2. /\ file \in Bytes /\ Len(file) = map.len
          /\ \A q \in Nat : q < Len(file) => file[q + 1] = ByteAt(map, q)
      BY <3>1, FileOfBlob
    <3>3. map.len \in Nat /\ map.len < n /\ BlobOK(map) /\ map'.len = n /\ map'.entries = map.entries
      BY <2>3, <2>4
    <3> DEFINE z == n - Len(file)
               g == file \o File!Zeroes(z)
    <3>4. z \in Nat /\ Len(file) + z = n
      BY <2>2, <3>2, <3>3
    <3>5. file' = g
      BY <1>1, <2>2, <3>2, <3>3 DEF File!Resize
    <3> HIDE DEF z
    <3>6. g \in Bytes /\ Len(g) = n /\ \A k \in 1 .. n : g[k] = IF k <= Len(file) THEN file[k] ELSE 0
      BY <3>2, <3>4, PadIs
    <3> HIDE DEF g
    <3>7. \A q \in Nat : ByteAt(map', q) = ByteAt(map, q)
      BY <3>3 DEF ByteAt
    <3>8. ASSUME NEW q \in Nat, q < n PROVE g[q + 1] = ByteAt(map, q)
      <4>1. g[q + 1] = IF q < Len(file) THEN file[q + 1] ELSE 0
        BY <2>2, <3>2, <3>3, <3>6, <3>8
      <4>2. ~(q < Len(file)) => ByteAt(map, q) = 0
        BY <3>2, <3>3, ByteBehind
      <4> QED BY <3>2, <4>1, <4>2
    <3>9. FileIs(map', NoChunk, g)
      BY <3>3, <3>6, <3>7, <3>8, FileOfBlob
    <3> QED BY <1>3, <3>5, <3>9 DEF FileKept
  <2> QED BY <1>3, <2>1, <2>3, <2>4 DEF HandleInv
<1> QED BY <1>4, <1>5

LEMMA RestKeeps ==
  ASSUME HandleInv, map' = map /\ buffer' = buffer /\ submit' = submit /\ file' = file /\ used' = used,
         status' # "panicked" \/ status' = status
  PROVE  HandleInv'
<1>1. Pending' = Pending
  BY DEF Pending
<1>2. Alone' /\ (Structure => Structure') /\ (FileKept => FileKept')
  BY <1>1 DEF HandleInv, Alone, Structure, FileKept
<1>3. (NoPanic => NoPanic') /\ (Gapless => Gapless')
  BY <1>1 DEF NoPanic, Gapless
<1> QED BY <1>2, <1>3 DEF HandleInv

LEMMA BlobStep == HandleInv /\ [BlobNext]_blobVars => HandleInv'
<1> SUFFICES ASSUME HandleInv, [BlobNext]_blobVars PROVE HandleInv'
  OBVIOUS
<1>1. CASE Refused \/ Close \/ Reopen \/ UNCHANGED blobVars
  BY <1>1, RestKeeps DEF Refused, Close, Reopen, blobVars
<1> QED BY <1>1, WriteKeeps, AppendKeeps, SubmitKeeps, StoredKeeps, ResizeKeeps DEF BlobNext

LEMMA HandleSafe == FilesSpec => []HandleInv
<1>1. ASSUME HandleInv, [HandleNext \/ TableNext]_<<blobVars, part, table, bytes>>
      PROVE  HandleInv'
  BY <1>1, BlobStep DEF HandleNext, TableNext, blobVars
<1>2. FilesInit => HandleInv
  BY HandleStart DEF FilesInit
<1> QED BY <1>1, <1>2, PTL DEF FilesSpec

\* What is pending is the one chunk on its way, or the buffer.
LEMMA FlushedIs ==
  ASSUME HandleInv
  PROVE  /\ Pending = {} => FlushedMap = map
         /\ \A s \in Pending : FlushedMap = Mapped(map, s)
<1>1. CASE buffer = {} /\ submit = {}
  BY <1>1 DEF Pending, FlushedMap, Settled
<1>2. CASE buffer # {}
  <2>1. PICK b \in buffer : b = CHOOSE c \in buffer : TRUE
    BY <1>2
  <2>2. submit = {} /\ buffer = {b}
    BY <1>2 DEF HandleInv, Alone, One
  <2>3. Pending = {AsChunk(b)}
    BY <2>2 DEF Pending
  <2>4. FlushedMap = Mapped(map, AsChunk(b))
    BY <1>2, <2>1, <2>2 DEF FlushedMap, Settled, AsChunk
  <2> QED BY <2>3, <2>4
<1>3. CASE submit # {}
  <2>1. PICK s \in submit : s = CHOOSE t \in submit : TRUE
    BY <1>3
  <2>2. buffer = {} /\ submit = {s}
    BY <1>3 DEF HandleInv, Alone, One
  <2>3. Pending = {s}
    BY <2>2 DEF Pending
  <2>4. FlushedMap = Mapped(map, s)
    BY <1>3, <2>1, <2>2 DEF FlushedMap, Settled
  <2> QED BY <2>3, <2>4
<1> QED BY <1>1, <1>2, <1>3

\* Flushing now leaves a blob with the bytes that were written and zeroes between them, however the
\* writes fall on chunks, unless the file was cut or appended to by its blob's length (blob/io.rs:363,
\* 431).
THEOREM BlobsGetTheWrites == FilesSpec => []WritesReachTheBlob
<1>1. HandleInv => WritesReachTheBlob
  <2> SUFFICES ASSUME HandleInv, used \cap {"shrink", "end"} = {} PROVE BlobContent(FlushedMap) = file
    BY DEF WritesReachTheBlob, FileIsWhatWasWritten
  <2>1. Structure /\ FileKept
    BY DEF HandleInv
  <2>2. BlobOK(FlushedMap) /\ FileIs(FlushedMap, NoChunk, file)
    <3>1. CASE Pending = {}
      <4>1. FlushedMap = map
        BY <3>1, FlushedIs
      <4> QED BY <2>1, <3>1, <4>1 DEF Structure, FileKept
    <3>2. CASE Pending # {}
      <4>1. PICK s \in Pending : TRUE
        BY <3>2
      <4>2. FlushedMap = Mapped(map, s)
        BY FlushedIs
      <4>3. BlobOK(map) /\ PendingOK(map, s) /\ Len(s.data) > 0 /\ FileIs(map, s, file)
        BY <2>1 DEF Structure, FileKept
      <4> QED BY <4>2, <4>3, MappedIs, StoredFile
    <3> QED BY <3>1, <3>2
  <2> QED BY <2>2, ContentIsFile
<1> QED BY <1>1, HandleSafe, PTL

\* The assertion in write_at holds: the buffer a write goes to reaches as far as the chunk that was
\* there, in histories without set_len (blob/io.rs:134).
THEOREM BuffersCoverWrites == FilesSpec => []BufferCoversWrite
<1>1. HandleInv => BufferCoversWrite
  BY DEF HandleInv, NoPanic, BufferCoversWrite
<1> QED BY <1>1, HandleSafe, PTL

\* What is left to flush when a chunk on its way is stored.
Left == {AsChunk(b) : b \in buffer}

\* The map once a chunk on its way is stored, with what is left over it, is the file.
SettledOK ==
  /\ BlobOK(Settled)
  /\ \A s \in Left : PendingOK(Settled, s) /\ Len(s.data) > 0 /\ FileIs(Settled, s, file)
  /\ Left = {} => FileIs(Settled, NoChunk, file)

LEMMA SettledFile ==
  ASSUME Structure, FileKept, HandleInv
  PROVE  SettledOK
<1>1. CASE submit = {}
  <2>1. Settled = map /\ Left = Pending
    BY <1>1 DEF Settled, Left, Pending
  <2> QED BY <2>1 DEF SettledOK, Structure, FileKept
<1>2. CASE submit # {}
  <2>1. PICK s \in submit : s = CHOOSE t \in submit : TRUE
    BY <1>2
  <2>2. Settled = Mapped(map, s) /\ Left = {} /\ s \in Pending
    BY <1>2, <2>1 DEF Settled, Left, Pending, HandleInv, Alone
  <2>3. BlobOK(map) /\ PendingOK(map, s) /\ Len(s.data) > 0 /\ FileIs(map, s, file)
    BY <2>2 DEF Structure, FileKept
  <2>4. BlobOK(Mapped(map, s)) /\ FileIs(Mapped(map, s), NoChunk, file)
    BY <2>3, MappedIs, StoredFile
  <2> QED BY <2>2, <2>4 DEF SettledOK
<1> QED BY <1>1, <1>2

LEMMA SettledGapless ==
  ASSUME Structure, Gapless, HandleInv
  PROVE  NoHoles(Settled) /\ \A s \in Left : s.pos <= Settled.len
<1>1. CASE submit = {}
  <2>1. Settled = map /\ Left = Pending
    BY <1>1 DEF Settled, Left, Pending
  <2> QED BY <2>1 DEF Gapless
<1>2. CASE submit # {}
  <2>1. PICK s \in submit : s = CHOOSE t \in submit : TRUE
    BY <1>2
  <2>2. Settled = Mapped(map, s) /\ Left = {} /\ s \in Pending
    BY <1>2, <2>1 DEF Settled, Left, Pending, HandleInv, Alone
  <2>3. BlobOK(map) /\ PendingOK(map, s) /\ Len(s.data) > 0 /\ NoHoles(map) /\ s.pos <= map.len
    BY <2>2 DEF Structure, Gapless
  <2>4. NoHoles(Mapped(map, s))
    BY <2>3, StoredNoHoles
  <2> QED BY <2>2, <2>4
<1> QED BY <1>1, <1>2

\* With no chunk on its way the length of the handle is that of the file, buffered bytes included.
LEMMA LengthIs ==
  ASSUME Structure, FileKept, HandleInv, submit = {}
  PROVE  Length = Len(file)
<1>1. map.len \in Nat
  BY DEF Structure, BlobOK, MapOK
<1>2. CASE buffer = {}
  <2>1. Pending = {}
    BY <1>2 DEF Pending
  <2>2. Len(file) = map.len
    BY <2>1, FileOfBlob DEF FileKept
  <2> QED BY <1>2, <2>2 DEF Length
<1>3. CASE buffer # {}
  <2>1. PICK b \in buffer : b = CHOOSE c \in buffer : TRUE
    BY <1>3
  <2>2. buffer = {b} /\ AsChunk(b) \in Pending
    BY <2>1 DEF HandleInv, Alone, One, Pending
  <2>3. /\ Len(file) = IF Len(b.data) = 0 THEN map.len ELSE Longer(map.len, b.start + Len(b.data))
        /\ Len(b.data) > 0 /\ Len(b.data) \in Nat /\ IsAligned(b.start)
    BY <2>2 DEF Structure, FileKept, FileIs, PendingOK, AsChunk, Bytes
  <2>4. b.start \in Nat
    BY <2>3, AlignedNat
  <2>5. Len(file) = Longer(map.len, b.start + Len(b.data))
    BY <2>3
  <2>6. BufferEnd(b) = b.start + Len(b.data)
    BY DEF BufferEnd
  <2> QED BY <1>1, <2>1, <2>2, <2>3, <2>4, <2>5, <2>6 DEF Length, Longer
<1> QED BY <1>2, <1>3

\* While a chunk is on its way, the length is that of the blob: the file's, or short by that chunk.
LEMMA LengthUnderWay ==
  ASSUME Structure, FileKept, HandleInv, NEW s \in submit
  PROVE  Length = Len(file) \/ (Length < Len(file) /\ s.pos + Len(s.data) = Len(file))
<1>1. buffer = {} /\ s \in Pending
  BY DEF HandleInv, Alone, Pending
<1>2. Length = map.len
  BY <1>1 DEF Length
<1>3. map.len \in Nat /\ s.pos \in Nat /\ Len(s.data) \in Nat /\ Len(s.data) > 0
  BY <1>1, AlignedNat DEF Structure, BlobOK, MapOK, PendingOK, Bytes
<1>4. Len(file) = Longer(map.len, s.pos + Len(s.data))
  BY <1>1, <1>3 DEF FileKept, FileIs
<1> QED BY <1>2, <1>3, <1>4 DEF Longer

\* A part of a sequence that is the file's.
PartOf(f, p, n) == SubSeq(f, p + 1, p + n)
Alike(c, a, f, p, n) == \A k \in 1 .. n : c[a + k] = f[p + k]

LEMMA PartOfFile ==
  ASSUME NEW f \in Bytes, NEW c \in Bytes, NEW a \in Nat, NEW p \in Nat, NEW n \in Nat, a + n <= Len(c), p + n <= Len(f),
         Alike(c, a, f, p, n)
  PROVE  PartOf(c, a, n) = PartOf(f, p, n) /\ Len(PartOf(c, a, n)) = n
<1> DEFINE r == PartOf(c, a, n)
           t == PartOf(f, p, n)
<1>1. r \in Seq(Byte \cup {0}) /\ Len(r) = n /\ \A k \in 1 .. n : r[k] = c[a + k]
  BY SubSeqAt DEF Bytes, PartOf
<1>2. t \in Seq(Byte \cup {0}) /\ Len(t) = n /\ \A k \in 1 .. n : t[k] = f[p + k]
  BY SubSeqAt DEF Bytes, PartOf
<1> HIDE DEF r, t
<1>3. r = t
  <2>1. r = [k \in 1 .. n |-> r[k]] /\ t = [k \in 1 .. n |-> t[k]]
    BY <1>1, <1>2
  <2> QED BY <1>1, <1>2, <2>1 DEF Alike
<1> QED BY <1>1, <1>3 DEF r, t

LEMMA NoPart ==
  ASSUME NEW f, NEW p \in Nat
  PROVE  <<>> = SubSeq(f, p + 1, p + Len(<<>>))
<1>1. Len(<<>>) = 0
  OBVIOUS
<1>2. SubSeq(f, p + 1, p + 0) = <<>>
  BY SubSeqEmpty
<1> QED BY <1>1, <1>2

\* A read at p finds the file's bytes, and at least one unless the file ends there.
ReadIs(p, n) == /\ Read(p, n) = SubSeq(file, p + 1, p + Len(Read(p, n)))
                /\ p < Len(file) => Read(p, n) # <<>>

\* The k-th byte of a read, in the file and in the piece that starts at s.
LEMMA ByteNumbers ==
  ASSUME NEW s \in Nat, NEW a \in Nat, NEW l \in Nat, NEW k \in 1 .. l, NEW d \in Nat, a + l <= d
  PROVE  LET q == s + a + k - 1
         IN  q \in Nat /\ q + 1 = s + a + k /\ q - s + 1 = a + k /\ s <= q /\ q < s + d
  OBVIOUS

\* The buffer answers with what it has.
LEMMA ReadOfBuffer ==
  ASSUME HandleInv, Structure, FileKept, NEW p \in Nat, NEW n \in Nat \ {0},
         NEW b \in buffer, b.start <= p, p < BufferEnd(b)
  PROVE  ReadIs(p, n)
<1>1. buffer = {b} /\ AsChunk(b) \in Pending
  BY DEF HandleInv, Alone, One, Pending
<1>2. (CHOOSE c \in buffer : TRUE) = b
  BY <1>1
<1> DEFINE a == p - b.start
           l == Smaller(n, BufferEnd(b) - p)
<1>3. /\ b.data \in Bytes /\ Len(b.data) \in Nat /\ IsAligned(b.start) /\ FileIs(map, AsChunk(b), file)
      /\ AsChunk(b).pos = b.start /\ AsChunk(b).data = b.data /\ map.len \in Nat
  BY <1>1 DEF Structure, BlobOK, MapOK, PendingOK, FileKept, AsChunk, Bytes
<1>4. b.start \in Nat
  BY <1>3, AlignedNat
<1>5. /\ a \in Nat /\ l \in Nat \ {0} /\ a + l <= Len(b.data) /\ p + l <= b.start + Len(b.data)
      /\ p = b.start + a
  BY <1>3, <1>4 DEF Smaller, BufferEnd
<1>6. p - b.start + 1 = a + 1 /\ p - b.start + l = a + l
  BY <1>4, <1>5
<1>7. Read(p, n) = SubSeq(b.data, p - b.start + 1, p - b.start + l)
  BY <1>1, <1>2 DEF Read, Flushed
<1>8. Read(p, n) = SubSeq(b.data, a + 1, a + l)
  BY <1>6, <1>7
<1> HIDE DEF a, l
<1>9. file \in Bytes /\ Len(file) = Longer(map.len, b.start + Len(b.data)) /\ Len(file) \in Nat
  BY <1>3, <1>5 DEF FileIs, Bytes
<1>10. p + l <= Len(file)
  BY <1>3, <1>4, <1>5, <1>9 DEF Longer
<1>11. \A k \in 1 .. l : b.data[a + k] = file[p + k]
  <2> SUFFICES ASSUME NEW k \in 1 .. l PROVE b.data[a + k] = file[p + k]
    OBVIOUS
  <2> DEFINE q == b.start + a + k - 1
  <2>1. q \in Nat /\ q + 1 = b.start + a + k /\ q - b.start + 1 = a + k /\ b.start <= q /\ q < b.start + Len(b.data)
    <3>1. a \in Nat /\ l \in Nat /\ a + l <= Len(b.data) /\ Len(b.data) \in Nat /\ b.start \in Nat
      BY <1>3, <1>4, <1>5
    <3> QED BY <3>1, ByteNumbers
  <2> HIDE DEF q
  <2>3. q + 1 = p + k
    BY <1>5, <2>1
  <2>4. q < Len(file)
    <3>1. k \in Nat /\ k <= l /\ l \in Nat
      BY <1>5
    <3> QED BY <1>9, <1>10, <2>1, <2>3, <3>1
  <2>2. file[q + 1] = b.data[q - b.start + 1]
    BY <1>3, <2>1, <2>4 DEF FileIs, Within
  <2> QED BY <2>1, <2>2, <2>3
<1>12. Read(p, n) = SubSeq(file, p + 1, p + Len(Read(p, n))) /\ Len(Read(p, n)) = l
  <2>1. l \in Nat
    BY <1>5
  <2>2. Alike(b.data, a, file, p, l)
    BY <1>11 DEF Alike
  <2>3. b.data \in Bytes /\ file \in Bytes /\ a \in Nat /\ a + l <= Len(b.data)
    BY <1>3, <1>9, <1>5
  <2>4. PartOf(b.data, a, l) = PartOf(file, p, l) /\ Len(PartOf(b.data, a, l)) = l
    BY <1>10, <2>1, <2>2, <2>3, PartOfFile
  <2>5. Len(Read(p, n)) = l /\ Read(p, n) = SubSeq(file, p + 1, p + l)
    BY <1>8, <2>4 DEF PartOf
  <2> QED BY <2>5
<1>13. Read(p, n) # <<>>
  BY <1>5, <1>12
<1> QED BY <1>12, <1>13 DEF ReadIs

\* Where the buffer is not, the blob's chunk is the file's.
LEMMA ReadOfBlob ==
  ASSUME SettledOK, NEW p \in Nat, NEW n \in Nat \ {0}, p < Settled.len,
         \A b \in buffer : ~(b.start <= p /\ p < BufferEnd(b)), NEW x \in Settled.entries, Covers(x, p)
  PROVE  ReadIs(p, n)
<1>1. BlobOK(Settled) /\ MapOK(Settled) /\ Settled.len \in Nat
  BY DEF SettledOK, BlobOK, MapOK
<1>2. /\ x.start \in Nat /\ x.end = x.start + Len(x.id) /\ Len(x.id) \in Nat /\ Len(x.id) <= ChunkSize
      /\ IsAligned(x.start) /\ x.start <= p /\ p < x.end /\ x.id \in Bytes /\ x.end <= Settled.len /\ x.off = 0
  BY <1>1 DEF BlobOK, MapOK, Entries, EntryOK, ChunkOK, Covers, Bytes
<1> DEFINE g == Get(Settled, p)
           a == p - x.start
           l == Smaller(Smaller(g.len, n), Len(g.id) - g.off)
<1>3. g = [kind |-> "chunk", id |-> x.id, off |-> x.off + (p - x.start), len |-> x.end - p]
  BY <1>1, GetChunk
<1> HIDE DEF g
<1>4. g.kind = "chunk" /\ g.id = x.id /\ g.off = a /\ g.len = x.end - p
  BY <1>2, <1>3
<1>5. a \in Nat /\ l \in Nat \ {0} /\ a + l <= Len(x.id) /\ p + l <= x.end /\ p = x.start + a
  <2>1. a \in Nat /\ p = x.start + a /\ x.end - p = Len(x.id) - a /\ x.end - p \in Nat \ {0}
    BY <1>2
  <2> HIDE DEF a
  <2>2. l = Smaller(Smaller(x.end - p, n), Len(x.id) - a)
    BY <1>4
  <2> HIDE DEF l
  <2>3. l \in Nat \ {0} /\ l <= x.end - p
    BY <2>1, <2>2 DEF Smaller
  <2> QED BY <1>2, <2>1, <2>3
<1> HIDE DEF a, l
<1>6. Read(p, n) = SubSeq(x.id, a + 1, a + l)
  <2>1. Read(p, n) = FromMap(Settled, p, n)
    <3>1. ~(p >= map.len /\ Flushed)
      BY <1>1 DEF Flushed, Settled
    <3> QED BY <3>1 DEF Read
  <2>2. FromMap(Settled, p, n) = FromChunk(g, n)
    BY <1>4 DEF FromMap, g
  <2> QED BY <1>4, <2>1, <2>2 DEF FromChunk, l
\* The buffer holds the whole of the chunk that begins where it does.
<1>7. ASSUME NEW s \in Left, NEW q \in Nat, x.start <= q, q < x.end PROVE ~Within(s, q)
  <2>1. PICK b \in buffer : s = AsChunk(b)
    BY <1>7 DEF Left
  <2>2. /\ s.pos = b.start /\ s.data = b.data /\ IsAligned(b.start) /\ Len(b.data) \in Nat /\ Len(b.data) <= ChunkSize
        /\ x.start = b.start => x.end <= b.start + Len(b.data)
    BY <2>1 DEF SettledOK, PendingOK, AsChunk, Bytes
  <2>3. b.start \in Nat
    BY <2>2, AlignedNat
  <2>4. CASE b.start = x.start
    BY <1>2, <2>2, <2>3, <2>4 DEF BufferEnd
  <2>5. CASE b.start # x.start
    <3>1. b.start < x.start => b.start + ChunkSize <= x.start
      BY <1>2, <2>2, AlignedApart
    <3>2. x.start < b.start => x.start + ChunkSize <= b.start
      BY <1>2, <2>2, AlignedApart
    <3> QED BY <1>2, <1>7, <2>2, <2>3, <2>5, <3>1, <3>2, SizeAssumption DEF Within
  <2> QED BY <2>4, <2>5
<1>8. file \in Bytes /\ Len(file) \in Nat /\ Settled.len <= Len(file)
  <2>1. CASE Left = {}
    BY <1>1, <2>1, FileOfBlob DEF SettledOK, Bytes
  <2>2. CASE Left # {}
    <3>1. PICK s \in Left : FileIs(Settled, s, file) /\ PendingOK(Settled, s)
      BY <2>2 DEF SettledOK
    <3>2. s.pos \in Nat /\ Len(s.data) \in Nat
      BY <3>1, AlignedNat DEF PendingOK, Bytes
    <3> QED BY <1>1, <3>1, <3>2 DEF FileIs, Longer, Bytes
  <2> QED BY <2>1, <2>2
<1>9. \A q \in Nat : x.start <= q /\ q < x.end => file[q + 1] = x.id[q - x.start + 1]
  <2> SUFFICES ASSUME NEW q \in Nat, x.start <= q, q < x.end PROVE file[q + 1] = x.id[q - x.start + 1]
    OBVIOUS
  <2>1. ByteAt(Settled, q) = x.id[q - x.start + 1]
    <3>1. Covers(x, q)
      BY DEF Covers
    <3> QED BY <1>1, <3>1, ByteCovered
  <2>2. q < Len(file)
    BY <1>1, <1>2, <1>8
  <2>3. file[q + 1] = ByteAt(Settled, q)
    <3>1. CASE Left = {}
      BY <2>2, <3>1, FileOfBlob DEF SettledOK
    <3>2. CASE Left # {}
      BY <1>7, <2>2, <3>2 DEF SettledOK, FileIs
    <3> QED BY <3>1, <3>2
  <2> QED BY <2>1, <2>3
<1>10. \A k \in 1 .. l : x.id[a + k] = file[p + k]
  <2> SUFFICES ASSUME NEW k \in 1 .. l PROVE x.id[a + k] = file[p + k]
    OBVIOUS
  <2> DEFINE q == x.start + a + k - 1
  <2>1. q \in Nat /\ q + 1 = x.start + a + k /\ q - x.start + 1 = a + k /\ x.start <= q /\ q < x.start + Len(x.id)
    <3>1. a \in Nat /\ l \in Nat /\ a + l <= Len(x.id) /\ Len(x.id) \in Nat /\ x.start \in Nat
      BY <1>2, <1>5
    <3> QED BY <3>1, ByteNumbers
  <2> HIDE DEF q
  <2>2. file[q + 1] = x.id[q - x.start + 1]
    BY <1>2, <1>9, <2>1
  <2>3. q + 1 = p + k
    BY <1>5, <2>1
  <2> QED BY <2>1, <2>2, <2>3
<1>11. p + l <= Len(file)
  BY <1>1, <1>2, <1>5, <1>8
<1>12. Read(p, n) = SubSeq(file, p + 1, p + Len(Read(p, n))) /\ Len(Read(p, n)) = l
  <2>1. l \in Nat
    BY <1>5
  <2>2. Alike(x.id, a, file, p, l)
    BY <1>10 DEF Alike
  <2>3. x.id \in Bytes /\ file \in Bytes /\ a \in Nat /\ a + l <= Len(x.id)
    BY <1>2, <1>8, <1>5
  <2>4. PartOf(x.id, a, l) = PartOf(file, p, l) /\ Len(PartOf(x.id, a, l)) = l
    BY <1>11, <2>1, <2>2, <2>3, PartOfFile
  <2>5. Len(Read(p, n)) = l /\ Read(p, n) = SubSeq(file, p + 1, p + l)
    BY <1>6, <2>4 DEF PartOf
  <2> QED BY <2>5
<1>13. Read(p, n) # <<>>
  BY <1>5, <1>12
<1> QED BY <1>12, <1>13 DEF ReadIs

\* Behind the blob and the buffer there is nothing.
LEMMA ReadOfNothing ==
  ASSUME SettledOK, \A s \in Left : s.pos <= Settled.len, NEW p \in Nat, NEW n \in Nat \ {0}, ~(p < Settled.len),
         \A b \in buffer : ~(b.start <= p /\ p < BufferEnd(b))
  PROVE  ReadIs(p, n)
<1>1. Settled.len \in Nat
  BY DEF SettledOK, BlobOK, MapOK
<1>2. p >= Settled.len
  BY <1>1
<1>3. Read(p, n) = <<>>
  <2>1. FromMap(Settled, p, n) = <<>>
    <3>1. Get(Settled, p).kind = "eof"
      BY <1>2 DEF Get
    <3> QED BY <3>1 DEF FromMap
  <2> QED BY <1>2, <2>1 DEF Read
<1>4. ~(p < Len(file))
  <2>1. CASE Left = {}
    <3>1. Len(file) = Settled.len
      BY <2>1, FileOfBlob DEF SettledOK
    <3> QED BY <3>1
  <2>2. CASE Left # {}
    <3>1. PICK b \in buffer : AsChunk(b) \in Left
      BY <2>2 DEF Left
    <3>2. /\ IsAligned(b.start) /\ Len(b.data) \in Nat /\ Len(b.data) > 0 /\ b.start <= Settled.len
          /\ Len(file) = IF Len(b.data) = 0 THEN Settled.len ELSE Longer(Settled.len, b.start + Len(b.data))
      BY <3>1 DEF SettledOK, PendingOK, FileIs, AsChunk, Bytes
    <3>3. b.start \in Nat /\ BufferEnd(b) = b.start + Len(b.data)
      BY <3>2, AlignedNat DEF BufferEnd
    <3>4. BufferEnd(b) <= p
      BY <1>1, <1>2, <3>2, <3>3
    <3>5. Len(file) = Longer(Settled.len, BufferEnd(b))
      BY <3>2, <3>3
    <3> QED BY <1>1, <1>2, <3>2, <3>3, <3>4, <3>5 DEF Longer
  <2> QED BY <2>1, <2>2
<1> QED BY <1>3, <1>4, NoPart DEF ReadIs

\* A handle reads what it wrote, whether it is in the buffer, on its way to the store or in it, and
\* reads nothing only at the file's end, if it was written without holes or resizes; and it knows the
\* length, buffered bytes included, except that it leaves out the last chunk of a file that grew while
\* that chunk is on its way, unless the file was cut or appended to by its blob's length
\* (blob/io.rs:391, 519, 552).
THEOREM HandlesSeeTheirFile == FilesSpec => []HandleSeesFile
<1>1. HandleInv => ReadsSeeWrites
  <2> SUFFICES ASSUME HandleInv, used = {}, NEW p \in 0 .. MaxLen, NEW n \in 1 .. ChunkSize + 1
               PROVE  ReadIs(p, n)
    BY DEF ReadsSeeWrites, ReadIs
  <2>1. p \in Nat /\ n \in Nat \ {0}
    BY SizeAssumption
  <2>2. Structure /\ FileKept /\ Gapless
    BY DEF HandleInv
  <2>3. SettledOK /\ NoHoles(Settled) /\ \A s \in Left : s.pos <= Settled.len
    BY <2>2, SettledFile, SettledGapless
  <2>4. CASE \E b \in buffer : b.start <= p /\ p < BufferEnd(b)
    BY <2>1, <2>2, <2>4, ReadOfBuffer
  <2>5. CASE (\A b \in buffer : ~(b.start <= p /\ p < BufferEnd(b))) /\ p < Settled.len
    <3>1. PICK x \in Settled.entries : Covers(x, p)
      BY <2>1, <2>3, <2>5 DEF NoHoles
    <3> QED BY <2>1, <2>3, <2>5, <3>1, ReadOfBlob
  <2>6. CASE (\A b \in buffer : ~(b.start <= p /\ p < BufferEnd(b))) /\ ~(p < Settled.len)
    BY <2>1, <2>3, <2>6, ReadOfNothing
  <2> QED BY <2>4, <2>5, <2>6
<1>2. HandleInv => LengthIsKnown
  <2> SUFFICES ASSUME HandleInv, used \cap {"shrink", "end"} = {}
               PROVE  \/ Length = Len(file)
                      \/ Length < Len(file) /\ \E s \in submit : s.pos + Len(s.data) = Len(file)
    BY DEF LengthIsKnown
  <2>1. Structure /\ FileKept
    BY DEF HandleInv
  <2>2. CASE submit = {}
    BY <2>1, <2>2, LengthIs
  <2>3. CASE submit # {}
    <3>1. PICK s \in submit : TRUE
      BY <2>3
    <3> QED BY <2>1, <3>1, LengthUnderWay
  <2> QED BY <2>2, <2>3
<1>3. HandleInv => HandleSeesFile
  BY <1>1, <1>2 DEF HandleSeesFile
<1> QED BY <1>3, HandleSafe, PTL

-----------------------------------------------------------------------------
(* The files. *)

USE NoHandleAssumption

\* The handles that own the write lock of their inode, and those of them
\* whose transaction in open_rw has found the expected file.
Owning == {"locked", "open", "storing", "broken"}

Opened == {"open", "storing", "broken"}

\* The part of the type invariant that does not speak of the store.
FilesOK ==
  /\ DOMAIN tree \subseteq Inode /\ \A i \in DOMAIN tree : tree[i] \in Content
  /\ lock \in [Inode -> Handle \cup {NoHandle}]
  /\ DOMAIN fh \subseteq Handle /\ \A h \in DOMAIN fh : fh[h] \in FileHandle

\* A handle past "waiting" that has not let go of its inode owns the lock.
OwnersHoldLock ==
  \A h \in DOMAIN fh : fh[h].phase \in Owning => lock[fh[h].inode] = h

\* What is inductive without Vfs::update.
WriterInv == FilesOK /\ OwnersHoldLock /\ NobodyElseWrites /\ rename = {}

\* A function without one point of its domain.
LEMMA WithoutIs ==
  ASSUME NEW f, NEW x
  PROVE  /\ DOMAIN Without(f, x) = DOMAIN f \ {x}
         /\ \A y \in DOMAIN f \ {x} : Without(f, x)[y] = f[y]
  BY DEF Without

\* No file is open and none exists.
LEMMA InitWriterInv == Init => WriterInv
  BY DEF Init, WriterInv, FilesOK, OwnersHoldLock, NobodyElseWrites, Nothing

\* A step that leaves the tree and the lock alone and moves one handle to
\* another phase of its life keeps the invariant if the handle has the lock
\* and the expected file whenever the new phase says so.
LEMMA MoveHandle ==
  ASSUME WriterInv, NEW h \in Handle, NEW f \in FileHandle,
         DOMAIN fh' = DOMAIN fh \cup {h}, fh'[h] = f,
         \A g \in DOMAIN fh : g # h => fh'[g] = fh[g],
         tree' = tree, rename' = {},
         lock' \in [Inode -> Handle \cup {NoHandle}],
         \A g \in DOMAIN fh : (g # h /\ fh[g].phase \in Owning) => lock'[fh[g].inode] = lock[fh[g].inode],
         f.phase \in Owning => lock'[f.inode] = h,
         f.phase \in Opened => AsExpected(f)
  PROVE  WriterInv'
  <1> USE DEF WriterInv
  <1>1. FilesOK' BY DEF FilesOK
  <1>2. OwnersHoldLock' BY DEF OwnersHoldLock
  <1>3. NobodyElseWrites' BY DEF NobodyElseWrites, AsExpected, Opened
  <1> QED BY <1>1, <1>2, <1>3

\* A handle goes, and with it its lock, if it has it.
LEMMA RemoveHandle ==
  ASSUME WriterInv, NEW h \in DOMAIN fh, fh' = Without(fh, h),
         tree' = tree, rename' = {},
         \/ lock' = lock
         \/ fh[h].phase \in Owning /\ Lock!Give(h, fh[h].inode)
  PROVE  WriterInv'
  <1> USE DEF WriterInv
  <1>1. /\ DOMAIN fh' = DOMAIN fh \ {h}
        /\ \A g \in DOMAIN fh' : fh'[g] = fh[g]
    BY WithoutIs
  <1>2. FilesOK' BY <1>1 DEF FilesOK, FileHandle, Lock!Give
  <1>3. OwnersHoldLock' BY <1>1 DEF OwnersHoldLock, FilesOK, FileHandle, Lock!Give
  <1>4. NobodyElseWrites' BY <1>1 DEF NobodyElseWrites, AsExpected
  <1> QED BY <1>2, <1>3, <1>4

\* fsync and commit point the inode of an open handle to what it wrote; the
\* handle has the lock, so no other handle has that inode open.
LEMMA WriteFile ==
  ASSUME WriterInv, NEW h \in DOMAIN fh, fh[h].phase = "open",
         tree' = With(tree, fh[h].inode, fh[h].map)
  PROVE  /\ DOMAIN tree' \subseteq Inode /\ \A i \in DOMAIN tree' : tree'[i] \in Content
         /\ fh[h].inode \in DOMAIN tree' /\ tree'[fh[h].inode] = fh[h].map
         /\ \A g \in DOMAIN fh : (g # h /\ fh[g].phase \in Opened) =>
              /\ fh[g].inode # fh[h].inode
              /\ fh[g].inode \in DOMAIN tree' /\ tree'[fh[g].inode] = fh[g].file
  <1> USE DEF WriterInv
  <1> DEFINE i == fh[h].inode
  <1>1. fh[h] \in FileHandle /\ i \in Inode /\ fh[h].map \in Content
    BY DEF FilesOK, FileHandle
  <1>2. /\ DOMAIN tree' = DOMAIN tree \cup {i} /\ tree'[i] = fh[h].map
        /\ \A j \in DOMAIN tree : j # i => tree'[j] = tree[j]
    BY DEF With
  <1>3. DOMAIN tree' \subseteq Inode /\ \A j \in DOMAIN tree' : tree'[j] \in Content
    BY <1>1, <1>2 DEF FilesOK
  <1>4. ASSUME NEW g \in DOMAIN fh, g # h, fh[g].phase \in Opened
        PROVE  /\ fh[g].inode # i
               /\ fh[g].inode \in DOMAIN tree' /\ tree'[fh[g].inode] = fh[g].file
    <2>1. lock[fh[g].inode] = g /\ lock[i] = h
      BY <1>4 DEF OwnersHoldLock, Owning, Opened
    <2>2. fh[g].inode \in DOMAIN tree /\ tree[fh[g].inode] = fh[g].file
      BY <1>4 DEF NobodyElseWrites, AsExpected, Opened
    <2> QED BY <1>2, <1>4, <2>1, <2>2
  <1> QED BY <1>2, <1>3, <1>4

\* No step of a handle takes the file or the lock of another.
LEMMA HandleStepKeepsInv ==
  ASSUME WriterInv, NEW h \in Handle, HandleStep(h)
  PROVE  WriterInv'
  <1> USE DEF WriterInv
  <1>1. CASE BeginOpen(h)
    <2>1. PICK i \in DOMAIN tree :
            fh' = With(fh, h, [phase |-> "waiting", inode |-> i, file |-> tree[i],
                               map |-> tree[i], storing |-> {}, pins |-> {}])
      BY <1>1 DEF BeginOpen
    <2> DEFINE f == [phase |-> "waiting", inode |-> i, file |-> tree[i],
                     map |-> tree[i], storing |-> {}, pins |-> {}]
    <2>2. f \in FileHandle
      BY DEF FilesOK, FileHandle, Content
    <2>3. f.phase \notin Owning /\ f.phase \notin Opened
      BY DEF Owning, Opened
    <2> HIDE DEF f
    <2>4. /\ DOMAIN fh' = DOMAIN fh \cup {h} /\ fh'[h] = f
          /\ \A g \in DOMAIN fh : g # h => fh'[g] = fh[g]
      BY <2>1 DEF f, With
    <2>5. lock' = lock /\ tree' = tree /\ rename' = {} /\ lock \in [Inode -> Handle \cup {NoHandle}]
      BY <1>1 DEF BeginOpen, FilesOK
    <2> QED BY <2>2, <2>3, <2>4, <2>5, MoveHandle
  <1>2. CASE Acquire(h)
    <2> DEFINE f == [fh[h] EXCEPT !.phase = "locked"]
    <2>1. h \in DOMAIN fh /\ fh[h] \in FileHandle /\ fh[h].phase = "waiting"
      BY <1>2 DEF Acquire, In, FilesOK
    <2>2. f \in FileHandle /\ f.phase = "locked" /\ f.inode = fh[h].inode /\ f.inode \in Inode
      BY <2>1 DEF FileHandle
    <2>3. fh' = [fh EXCEPT ![h] = f]
      BY <1>2 DEF Acquire, Phase
    <2> HIDE DEF f
    <2>4. /\ DOMAIN fh' = DOMAIN fh \cup {h} /\ fh'[h] = f
          /\ \A g \in DOMAIN fh : g # h => fh'[g] = fh[g]
      BY <2>1, <2>3
    <2>5. /\ lock[f.inode] = NoHandle /\ lock' = [lock EXCEPT ![f.inode] = h]
          /\ tree' = tree /\ rename' = {}
      BY <1>2, <2>2 DEF Acquire, Lock!Take
    <2>6. lock' \in [Inode -> Handle \cup {NoHandle}] /\ lock'[f.inode] = h
      BY <2>2, <2>5 DEF FilesOK
    <2>7. ASSUME NEW g \in DOMAIN fh, g # h, fh[g].phase \in Owning
          PROVE  lock'[fh[g].inode] = lock[fh[g].inode]
      BY <2>2, <2>5, <2>7 DEF OwnersHoldLock, FilesOK, FileHandle
    <2>8. f.phase \notin Opened
      BY <2>2 DEF Opened
    <2> QED BY <2>2, <2>4, <2>5, <2>6, <2>7, <2>8, MoveHandle
  <1>3. CASE TimeOut(h)
    BY <1>3, RemoveHandle DEF TimeOut, In
  <1>4. CASE OpenRw(h) \/ InsertChunk(h) \/ InsertTempFhChunk(h) \/ FlushFails(h)
    <2>1. /\ h \in DOMAIN fh /\ fh[h] \in FileHandle /\ fh[h].phase \in Owning
          /\ AsExpected(fh[h])
      BY <1>4 DEF OpenRw, InsertChunk, InsertTempFhChunk, FlushFails, In, FilesOK, Owning, NobodyElseWrites, AsExpected
    <2>2. PICK f \in FileHandle :
            fh' = [fh EXCEPT ![h] = f] /\ f.inode = fh[h].inode /\ f.file = fh[h].file
      <3>1. CASE OpenRw(h)
        <4>1. [fh[h] EXCEPT !.phase = "open"] \in FileHandle
          BY <2>1 DEF FileHandle
        <4> QED BY <3>1, <4>1 DEF OpenRw, Phase, FileHandle
      <3>2. CASE InsertChunk(h)
        <4>1. PICK c \in Chunk : fh' = [fh EXCEPT ![h].phase = "storing", ![h].storing = {c}]
          BY <3>2 DEF InsertChunk
        <4> DEFINE f == [fh[h] EXCEPT !.phase = "storing", !.storing = {c}]
        <4>2. f \in FileHandle /\ f.inode = fh[h].inode /\ f.file = fh[h].file
          BY <2>1 DEF FileHandle, Content
        <4>3. fh' = [fh EXCEPT ![h] = f]
          BY <4>1
        <4> QED BY <4>2, <4>3
      <3>3. CASE InsertTempFhChunk(h)
        <4>1. PICK R \in SUBSET fh[h].map :
                fh' = [fh EXCEPT ![h].phase = "open", ![h].storing = {},
                                 ![h].map = (@ \ R) \cup fh[h].storing,
                                 ![h].pins = @ \cup fh[h].storing]
          BY <3>3 DEF InsertTempFhChunk
        <4> DEFINE f == [fh[h] EXCEPT !.phase = "open", !.storing = {},
                                      !.map = (@ \ R) \cup fh[h].storing,
                                      !.pins = @ \cup fh[h].storing]
        <4>2. f \in FileHandle /\ f.inode = fh[h].inode /\ f.file = fh[h].file
          BY <2>1 DEF FileHandle, Content
        <4>3. fh' = [fh EXCEPT ![h] = f]
          BY <4>1
        <4> QED BY <4>2, <4>3
      <3>4. CASE FlushFails(h)
        <4>1. [fh[h] EXCEPT !.phase = "broken"] \in FileHandle
          BY <2>1 DEF FileHandle
        <4> QED BY <3>4, <4>1 DEF FlushFails, Phase, FileHandle
      <3> QED BY <1>4, <3>1, <3>2, <3>3, <3>4
    <2>3. /\ DOMAIN fh' = DOMAIN fh \cup {h} /\ fh'[h] = f
          /\ \A g \in DOMAIN fh : g # h => fh'[g] = fh[g]
      BY <2>1, <2>2
    <2>4. lock' = lock /\ tree' = tree /\ rename' = {} /\ lock \in [Inode -> Handle \cup {NoHandle}]
      BY <1>4 DEF OpenRw, InsertChunk, InsertTempFhChunk, FlushFails, FilesOK
    <2>5. lock[f.inode] = h /\ AsExpected(f)
      BY <2>1, <2>2 DEF OwnersHoldLock, AsExpected
    <2> QED BY <2>3, <2>4, <2>5, MoveHandle
  <1>5. CASE OpenRwFails(h)
    BY <1>5, RemoveHandle DEF OpenRwFails, In, Owning
  <1>6. CASE Fsync(h)
    <2> DEFINE f == [fh[h] EXCEPT !.file = fh[h].map]
    <2>1. h \in DOMAIN fh /\ fh[h].phase = "open" /\ fh[h] \in FileHandle
      BY <1>6 DEF Fsync, In, FilesOK
    <2>2. tree' = With(tree, fh[h].inode, fh[h].map) /\ lock' = lock /\ rename' = {}
          /\ fh' = [fh EXCEPT ![h] = f]
      BY <1>6 DEF Fsync
    <2>3. f \in FileHandle /\ f.inode = fh[h].inode /\ f.file = fh[h].map
          /\ f.phase = fh[h].phase
      BY <2>1 DEF FileHandle
    <2> HIDE DEF f
    <2>4. FilesOK'
      BY <2>1, <2>2, <2>3, WriteFile DEF FilesOK
    <2>5. OwnersHoldLock'
      BY <2>1, <2>2, <2>3 DEF OwnersHoldLock
    <2>6. NobodyElseWrites'
      BY <2>1, <2>2, <2>3, WriteFile DEF NobodyElseWrites, AsExpected, Opened
    <2> QED BY <2>2, <2>4, <2>5, <2>6
  <1>7. CASE Commit(h)
    <2>1. h \in DOMAIN fh /\ fh[h].phase = "open" /\ fh[h].inode \in Inode
      BY <1>7 DEF Commit, In, FilesOK, FileHandle
    <2>2. /\ tree' = With(tree, fh[h].inode, fh[h].map) /\ rename' = {}
          /\ lock' = [lock EXCEPT ![fh[h].inode] = NoHandle]
          /\ fh' = Without(fh, h)
      BY <1>7 DEF Commit, Lock!Give
    <2>3. /\ DOMAIN fh' = DOMAIN fh \ {h}
          /\ \A g \in DOMAIN fh' : fh'[g] = fh[g]
      BY <2>2, WithoutIs
    <2>4. FilesOK'
      BY <2>1, <2>2, <2>3, WriteFile DEF FilesOK
    <2>5. OwnersHoldLock'
      BY <2>1, <2>2, <2>3 DEF OwnersHoldLock, FilesOK, FileHandle, Owning
    <2>6. NobodyElseWrites'
      BY <2>1, <2>2, <2>3, WriteFile DEF NobodyElseWrites, AsExpected, Opened
    <2> QED BY <2>2, <2>4, <2>5, <2>6
  <1>8. CASE Drop(h)
    <2> DEFINE f == [fh[h] EXCEPT !.phase = "dead", !.storing = {}]
    <2>1. h \in DOMAIN fh /\ fh[h] \in FileHandle /\ fh[h].phase \in Owning
      BY <1>8 DEF Drop, In, FilesOK, Owning
    <2>2. f \in FileHandle /\ f.phase = "dead"
      BY <2>1 DEF FileHandle, Content
    <2>3. fh' = [fh EXCEPT ![h] = f] /\ tree' = tree /\ rename' = {}
          /\ lock' = [lock EXCEPT ![fh[h].inode] = NoHandle]
      BY <1>8 DEF Drop, Lock!Give
    <2> HIDE DEF f
    <2>4. /\ DOMAIN fh' = DOMAIN fh \cup {h} /\ fh'[h] = f
          /\ \A g \in DOMAIN fh : g # h => fh'[g] = fh[g]
      BY <2>1, <2>3
    <2>5. lock' \in [Inode -> Handle \cup {NoHandle}]
      BY <2>3 DEF FilesOK
    <2>6. ASSUME NEW g \in DOMAIN fh, g # h, fh[g].phase \in Owning
          PROVE  lock'[fh[g].inode] = lock[fh[g].inode]
      BY <2>1, <2>3, <2>6 DEF OwnersHoldLock, FilesOK, FileHandle
    <2>7. f.phase \notin Owning /\ f.phase \notin Opened
      BY <2>2 DEF Owning, Opened
    <2> QED BY <2>2, <2>3, <2>4, <2>5, <2>6, <2>7, MoveHandle
  <1>9. CASE Reap(h)
    BY <1>9, RemoveHandle DEF Reap, In
  <1>10. CASE ReapFails(h)
    <2> DEFINE f == [fh[h] EXCEPT !.phase = "leaked"]
    <2>1. h \in DOMAIN fh /\ fh[h] \in FileHandle
      BY <1>10 DEF ReapFails, In, FilesOK
    <2>2. f \in FileHandle /\ f.phase = "leaked"
      BY <2>1 DEF FileHandle
    <2>3. fh' = [fh EXCEPT ![h] = f] /\ tree' = tree /\ rename' = {} /\ lock' = lock
      BY <1>10 DEF ReapFails, Phase
    <2> HIDE DEF f
    <2>4. /\ DOMAIN fh' = DOMAIN fh \cup {h} /\ fh'[h] = f
          /\ \A g \in DOMAIN fh : g # h => fh'[g] = fh[g]
          /\ lock' \in [Inode -> Handle \cup {NoHandle}]
      BY <2>1, <2>3 DEF FilesOK
    <2>5. f.phase \notin Owning /\ f.phase \notin Opened
      BY <2>2 DEF Owning, Opened
    <2> QED BY <2>2, <2>3, <2>4, <2>5, MoveHandle
  <1>11. CASE OpenRwAbandoned(h)
    <2> DEFINE f == [fh[h] EXCEPT !.phase = "leaked"]
    <2>1. h \in DOMAIN fh /\ fh[h] \in FileHandle /\ fh[h].phase \in Owning
      BY <1>11 DEF OpenRwAbandoned, In, FilesOK, Owning
    <2>2. f \in FileHandle /\ f.phase = "leaked"
      BY <2>1 DEF FileHandle
    <2>3. fh' = [fh EXCEPT ![h] = f] /\ tree' = tree /\ rename' = {}
          /\ lock' = [lock EXCEPT ![fh[h].inode] = NoHandle]
      BY <1>11 DEF OpenRwAbandoned, Lock!Give, Phase
    <2> HIDE DEF f
    <2>4. /\ DOMAIN fh' = DOMAIN fh \cup {h} /\ fh'[h] = f
          /\ \A g \in DOMAIN fh : g # h => fh'[g] = fh[g]
      BY <2>1, <2>3
    <2>5. lock' \in [Inode -> Handle \cup {NoHandle}]
      BY <2>3 DEF FilesOK
    <2>6. ASSUME NEW g \in DOMAIN fh, g # h, fh[g].phase \in Owning
          PROVE  lock'[fh[g].inode] = lock[fh[g].inode]
      BY <2>1, <2>3, <2>6 DEF OwnersHoldLock, FilesOK, FileHandle
    <2>7. f.phase \notin Owning /\ f.phase \notin Opened
      BY <2>2 DEF Owning, Opened
    <2> QED BY <2>2, <2>3, <2>4, <2>5, <2>6, <2>7, MoveHandle
  <1> QED BY <1>1, <1>2, <1>3, <1>4, <1>5, <1>6, <1>7, <1>8, <1>9, <1>10, <1>11 DEF HandleStep

\* Nor does the rest of the volume, if files are not renamed meanwhile: a new
\* file has no handles, a file with handles cannot be deleted, a push changes
\* no file, a restart leaves no handle.
LEMMA VolumeStepKeepsInv ==
  ASSUME WriterInv, ~Renames, VolumeStep
  PROVE  WriterInv'
  <1> USE DEF WriterInv
  <1>1. CASE \E i \in Inode : CreateFile(i)
    <2>1. PICK i \in Inode : i \notin DOMAIN tree /\ tree' = With(tree, i, {})
      BY <1>1 DEF CreateFile
    <2>2. lock' = lock /\ fh' = fh /\ rename' = {}
      BY <1>1 DEF CreateFile
    <2>3. /\ DOMAIN tree' = DOMAIN tree \cup {i} /\ tree'[i] = {}
          /\ \A j \in DOMAIN tree : tree'[j] = tree[j]
      BY <2>1 DEF With
    <2>4. FilesOK' BY <2>2, <2>3 DEF FilesOK, Content
    <2>5. OwnersHoldLock' BY <2>2 DEF OwnersHoldLock
    <2>6. NobodyElseWrites' BY <2>2, <2>3 DEF NobodyElseWrites, AsExpected
    <2> QED BY <2>2, <2>4, <2>5, <2>6
  <1>2. CASE \E i \in Inode : DeleteInode(i)
    <2>1. PICK i \in Inode :
            /\ \A h \in Handle : HasRow(h) => fh[h].inode # i
            /\ tree' = Without(tree, i)
      BY <1>2 DEF DeleteInode
    <2>2. lock' = lock /\ fh' = fh /\ rename' = {}
      BY <1>2 DEF DeleteInode
    <2>3. /\ DOMAIN tree' = DOMAIN tree \ {i}
          /\ \A j \in DOMAIN tree' : tree'[j] = tree[j]
      BY <2>1, WithoutIs
    <2>4. \A h \in DOMAIN fh : fh[h].phase \in Opened => fh[h].inode # i
      BY <2>1 DEF HasRow, Opened, FilesOK
    <2>5. FilesOK' BY <2>2, <2>3 DEF FilesOK
    <2>6. OwnersHoldLock' BY <2>2 DEF OwnersHoldLock
    <2>7. NobodyElseWrites' BY <2>2, <2>3, <2>4 DEF NobodyElseWrites, AsExpected, Opened
    <2> QED BY <2>2, <2>5, <2>6, <2>7
  <1>3. CASE Update
    \* There is nothing to update: rename stays empty.
    BY <1>3 DEF Update
  <1>4. ASSUME tree' = tree, lock' = lock, fh' = fh, rename' = rename
        PROVE  WriterInv'
    BY <1>4 DEF FilesOK, OwnersHoldLock, NobodyElseWrites, AsExpected
  <1>5. CASE \/ StartPush \/ EndPush
             \/ \E c \in Chunk : ProcessChunk(c)
             \/ \E b \in Content : ProcessBlob(b)
    BY <1>4, <1>5 DEF StartPush, EndPush, ProcessChunk, ProcessBlob
  <1>6. CASE Restart
    <2>1. DOMAIN fh' = {} /\ tree' = tree /\ rename' = {} /\ lock' = [i \in Inode |-> NoHandle]
      BY <1>6 DEF Restart, Nothing
    <2>2. FilesOK' BY <2>1 DEF FilesOK
    <2> QED BY <2>1, <2>2 DEF OwnersHoldLock, NobodyElseWrites
  <1>7. CASE \E i \in Inode : ReadFile(i)
    BY <1>7 DEF ReadFile
  <1> QED BY <1>1, <1>2, <1>3, <1>5, <1>6, <1>7 DEF VolumeStep

\* A step of a handle, of the volume, or none.
LEMMA NextKeepsWriterInv ==
  ASSUME ~Renames, WriterInv, [Next]_vars
  PROVE  WriterInv'
  <1>1. CASE \E h \in Handle : HandleStep(h)
    BY <1>1, HandleStepKeepsInv
  <1>2. CASE VolumeStep
    BY <1>2, VolumeStepKeepsInv
  <1>3. CASE UNCHANGED vars
    BY <1>3 DEF vars, WriterInv, FilesOK, OwnersHoldLock, NobodyElseWrites, AsExpected
  <1> QED BY <1>1, <1>2, <1>3 DEF Next

\* As long as Vfs::update does not run beside the writers, nobody changes a
\* file behind the back of the handle that has it open: what the handle opened
\* or last fsynced is what the inode names (vfs/file.rs:267).
THEOREM WriterIsAlone ==
  ASSUME ~Renames
  PROVE  Spec => []NobodyElseWrites
  <1>1. Init => WriterInv
    BY InitWriterInv
  <1>2. WriterInv /\ [Next]_vars => WriterInv'
    BY NextKeepsWriterInv
  <1>3. WriterInv => NobodyElseWrites
    BY DEF WriterInv
  <1> QED BY <1>1, <1>2, <1>3, PTL DEF Spec

-----------------------------------------------------------------------------
(* The store: what its operations keep. *)

\* The tables.
Store == [chunk : [Chunk -> Mode], count : [Chunk -> Nat], blob : [Content -> Mode]]

\* The blobs whose chunk maps name a chunk, and the handles that pin it.
Users(s, c) == {b \in Content : s.blob[b] # "absent" /\ c \in b}

Pinning(f, c) == {h \in DOMAIN f : c \in f[h].pins}

\* The references to chunks that are not a chunk map's.
Others(f, j) == [c \in Chunk |-> Cardinality(Pinning(f, c)) + (IF c \in j.chunks THEN 1 ELSE 0)]

\* A store to whose chunks r[c] references are others' than chunk maps': each
\* row counts its references, and nothing that is referred to lacks a row.
Sound(s, r) ==
  /\ s \in Store
  /\ \A c \in Chunk : s.count[c] = Cardinality(Users(s, c)) + r[c]
  /\ \A c \in Chunk : s.count[c] > 0 => s.chunk[c] # "absent"

\* Local chunks nobody refers to are in X.
Lean(s, X) == \A c \in Chunk : s.chunk[c] = "local" => s.count[c] > 0 \/ c \in X

\* There are finitely many contents.
LEMMA UsersFinite ==
  ASSUME NEW s, NEW c
  PROVE  IsFiniteSet(Users(s, c)) /\ Cardinality(Users(s, c)) \in Nat
<1>1. IsFiniteSet(Content)
  BY FiniteAssumption, FS_SUBSET DEF Content
<1>2. Users(s, c) \in SUBSET Content
  BY DEF Users
<1>3. IsFiniteSet(Users(s, c))
  BY <1>1, <1>2, FS_Subset
<1> QED BY <1>3, FS_CardinalityType

\* The chunks of a blob that has a row have rows: they are counted.
LEMMA UsersKeep ==
  ASSUME NEW s, NEW r \in [Chunk -> Nat], Sound(s, r), NEW b \in Content, s.blob[b] # "absent"
  PROVE  Present(s, b)
<1> SUFFICES ASSUME NEW c \in b PROVE s.chunk[c] # "absent"
  BY DEF Present
<1>1. c \in Chunk /\ b \in Users(s, c)
  BY DEF Users, Content
<1>2. Cardinality(Users(s, c)) \in Nat \ {0}
  BY <1>1, UsersFinite, FS_EmptySet
<1>3. s.count[c] = Cardinality(Users(s, c)) + r[c] /\ r[c] \in Nat
  BY <1>1 DEF Sound
<1>4. s.count[c] > 0
  BY <1>2, <1>3
<1> QED BY <1>1, <1>4 DEF Sound

\* References to rows that are there; the chunks of C are in use from now on.
LEMMA ReferSound ==
  ASSUME NEW s, NEW r \in [Chunk -> Nat], Sound(s, r), NEW C \in Content, Present(s, C),
         NEW q, \A c \in Chunk : q[c] = r[c] + (IF c \in C THEN 1 ELSE 0)
  PROVE  /\ Sound(Refer(s, C), q)
         /\ Refer(s, C).chunk = s.chunk /\ Refer(s, C).blob = s.blob
         /\ \A X : Lean(s, X) => Lean(Refer(s, C), X \ C)
<1> DEFINE t == Refer(s, C)
           n == [c \in Chunk |-> s.count[c] + (IF c \in C THEN 1 ELSE 0)]
<1>1. s \in Store
  BY DEF Sound
<1>2. t = [s EXCEPT !.count = n]
  BY DEF Refer
<1>3. n \in [Chunk -> Nat]
  BY <1>1 DEF Store
<1>4. /\ t \in Store /\ t.count = n
      /\ t.chunk = s.chunk /\ t.blob = s.blob
  <2> HIDE DEF n, t
  <2> QED BY <1>1, <1>2, <1>3 DEF Store
<1>5. \A c \in Chunk : Users(t, c) = Users(s, c)
  BY <1>4 DEF Users
<1>6. ASSUME NEW c \in Chunk
      PROVE  t.count[c] = Cardinality(Users(t, c)) + q[c] /\ (t.count[c] > 0 => t.chunk[c] # "absent")
  <2>1. t.count[c] = s.count[c] + (IF c \in C THEN 1 ELSE 0) /\ s.count[c] \in Nat
    BY <1>1, <1>4 DEF Store
  <2>2. s.count[c] = Cardinality(Users(t, c)) + r[c] /\ Cardinality(Users(t, c)) \in Nat /\ r[c] \in Nat
    BY <1>5, UsersFinite DEF Sound
  <2>3. q[c] = r[c] + (IF c \in C THEN 1 ELSE 0)
    OBVIOUS
  <2>4. (c \in C \/ s.count[c] > 0) => t.chunk[c] # "absent"
    BY <1>4 DEF Sound, Present
  <2> HIDE DEF t
  <2> QED BY <2>1, <2>2, <2>3, <2>4
<1>7. \A X : Lean(s, X) => Lean(t, X \ C)
  <2> SUFFICES ASSUME NEW X, Lean(s, X), NEW c \in Chunk, t.chunk[c] = "local"
               PROVE  t.count[c] > 0 \/ c \in X \ C
    BY DEF Lean
  <2>1. s.count[c] \in Nat /\ t.count[c] = s.count[c] + (IF c \in C THEN 1 ELSE 0)
    BY <1>1, <1>4 DEF Store
  <2>2. s.count[c] > 0 \/ c \in X
    BY <1>4 DEF Lean
  <2> HIDE DEF t
  <2> QED BY <2>1, <2>2
<1> HIDE DEF t
<1>8. Sound(t, q)
  BY <1>4, <1>6 DEF Sound
<1> QED BY <1>4, <1>7, <1>8 DEF t

\* References other than a chunk map's go: never more than there are, and the
\* last one takes a local row along.
LEMMA ReleaseSound ==
  ASSUME NEW s, s \in Store, NEW r \in [Chunk -> Nat],
         \A c \in Chunk : s.count[c] = Cardinality(Users(s, c)) + r[c],
         \A c \in Chunk : s.count[c] > 0 => s.chunk[c] # "absent",
         NEW n \in [Chunk -> Nat], \A c \in Chunk : n[c] <= r[c],
         NEW q, \A c \in Chunk : q[c] = r[c] - n[c]
  PROVE  /\ Sound(Release(s, n), q)
         /\ Release(s, n).blob = s.blob
         /\ \A X : Lean(s, X) => Lean(Release(s, n), X)
<1> DEFINE t == Release(s, n)
           m == [c \in Chunk |-> s.count[c] - n[c]]
           k == [c \in Chunk |-> IF n[c] > 0 /\ s.count[c] = n[c] /\ s.chunk[c] = "local"
                                 THEN "absent" ELSE s.chunk[c]]
<1>1. t = [s EXCEPT !.count = m, !.chunk = k]
  BY DEF Release
<1>2. \A c \in Chunk : /\ s.count[c] \in Nat /\ n[c] \in Nat /\ r[c] \in Nat /\ Cardinality(Users(s, c)) \in Nat
                       /\ s.count[c] = Cardinality(Users(s, c)) + r[c] /\ n[c] <= r[c]
  BY UsersFinite DEF Store
<1>3. \A c \in Chunk : s.count[c] - n[c] \in Nat
  BY <1>2
<1>4. m \in [Chunk -> Nat]
  BY <1>3
<1>5. k \in [Chunk -> Mode]
  BY DEF Store, Mode
<1>6. t \in Store /\ t.count = m /\ t.chunk = k /\ t.blob = s.blob
  <2> HIDE DEF m, k, t
  <2> QED BY <1>1, <1>4, <1>5 DEF Store
<1>7. \A c \in Chunk : Users(t, c) = Users(s, c)
  BY <1>6 DEF Users
<1>8. ASSUME NEW c \in Chunk
      PROVE  /\ t.count[c] = Cardinality(Users(t, c)) + q[c]
             /\ t.count[c] > 0 => t.chunk[c] # "absent"
  <2>1. t.count[c] = s.count[c] - n[c]
    BY <1>6
  <2>2. s.count[c] = Cardinality(Users(t, c)) + r[c] /\ Cardinality(Users(t, c)) \in Nat
    BY <1>7, UsersFinite
  <2>3. t.chunk[c] = IF n[c] > 0 /\ s.count[c] = n[c] /\ s.chunk[c] = "local" THEN "absent" ELSE s.chunk[c]
    BY <1>6
  <2>4. q[c] = r[c] - n[c] /\ (s.count[c] > 0 => s.chunk[c] # "absent")
    OBVIOUS
  <2> HIDE DEF t
  <2>5. t.count[c] = Cardinality(Users(t, c)) + q[c]
    BY <1>2, <2>1, <2>2, <2>4
  <2>6. t.count[c] > 0 => t.chunk[c] # "absent"
    BY <1>2, <2>1, <2>3, <2>4
  <2> QED BY <2>5, <2>6
<1>9. \A X : Lean(s, X) => Lean(t, X)
  <2> SUFFICES ASSUME NEW X, Lean(s, X), NEW c \in Chunk, t.chunk[c] = "local"
               PROVE  t.count[c] > 0 \/ c \in X
    BY DEF Lean
  <2>1. t.count[c] = s.count[c] - n[c]
    BY <1>6
  <2>2. t.chunk[c] = IF n[c] > 0 /\ s.count[c] = n[c] /\ s.chunk[c] = "local" THEN "absent" ELSE s.chunk[c]
    BY <1>6
  <2>3. s.chunk[c] = "local" => s.count[c] > 0 \/ c \in X
    BY DEF Lean
  <2>4. s.chunk[c] = "local" /\ ~(n[c] > 0 /\ s.count[c] = n[c])
    BY <2>2
  <2>5. s.count[c] > 0 => s.count[c] - n[c] > 0
    <3> DEFINE x == s.count[c]
               y == n[c]
    <3>1. x \in Nat /\ y \in Nat /\ y <= x
      BY <1>2, <1>3
    <3>2. ~(y > 0 /\ x = y)
      BY <2>4
    <3> HIDE DEF x, y
    <3>3. x > 0 => x - y > 0
      BY <3>1, <3>2
    <3> QED BY <3>3 DEF x, y
  <2> HIDE DEF t
  <2> QED BY <2>1, <2>3, <2>4, <2>5
<1> HIDE DEF t
<1>10. Sound(t, q)
  BY <1>6, <1>8 DEF Sound
<1> QED BY <1>6, <1>9, <1>10 DEF t

\* A blob is registered once its chunks are there.
LEMMA RegisterBlobSound ==
  ASSUME NEW s, NEW r \in [Chunk -> Nat], Sound(s, r), NEW b \in Content, Present(s, b)
  PROVE  /\ Sound(RegisterBlob(s, b), r)
         /\ RegisterBlob(s, b).chunk = s.chunk
         /\ RegisterBlob(s, b).blob[b] # "absent"
         /\ \A d \in Content : s.blob[d] # "absent" => RegisterBlob(s, b).blob[d] # "absent"
         /\ \A X : Lean(s, X) => Lean(RegisterBlob(s, b), X)
<1>1. CASE s.blob[b] # "absent"
  BY <1>1 DEF RegisterBlob
<1>2. CASE s.blob[b] = "absent"
  <2> DEFINE d == [s.blob EXCEPT ![b] = "local"]
             u == [s EXCEPT !.blob = d]
             n == [c \in Chunk |-> s.count[c] + (IF c \in b THEN 1 ELSE 0)]
             t == RegisterBlob(s, b)
  <2>1. s \in Store
    BY DEF Sound
  <2>2. d \in [Content -> Mode] /\ d[b] = "local" /\ \A e \in Content \ {b} : d[e] = s.blob[e]
    BY <2>1 DEF Store, Mode
  <2>3. n \in [Chunk -> Nat]
    BY <2>1 DEF Store
  <2>4. u \in Store /\ u.count = s.count /\ u.chunk = s.chunk /\ u.blob = d
    <3> HIDE DEF d
    <3> QED BY <2>1, <2>2 DEF Store
  <2>5. t = [u EXCEPT !.count = n]
    BY <1>2, <2>4 DEF RegisterBlob, Refer
  <2>6. t \in Store /\ t.count = n /\ t.chunk = s.chunk /\ t.blob = d
    <3> HIDE DEF u, n, t, d
    <3> QED BY <2>3, <2>4, <2>5 DEF Store
  <2>7. ASSUME NEW c \in Chunk
        PROVE  /\ t.count[c] = Cardinality(Users(t, c)) + r[c]
               /\ t.count[c] > 0 => t.chunk[c] # "absent"
    <3>1. t.count[c] = s.count[c] + (IF c \in b THEN 1 ELSE 0) /\ s.count[c] \in Nat
      BY <2>1, <2>6 DEF Store
    <3>2. s.count[c] = Cardinality(Users(s, c)) + r[c] /\ Cardinality(Users(s, c)) \in Nat /\ r[c] \in Nat
      BY UsersFinite DEF Sound
    <3>3. Cardinality(Users(t, c)) = Cardinality(Users(s, c)) + (IF c \in b THEN 1 ELSE 0)
      <4>1. CASE c \in b
        <5>1. Users(t, c) = Users(s, c) \cup {b} /\ b \notin Users(s, c)
          BY <1>2, <2>2, <2>6, <4>1 DEF Users
        <5> QED BY <4>1, <5>1, UsersFinite, FS_AddElement
      <4>2. CASE c \notin b
        <5>1. Users(t, c) = Users(s, c)
          BY <2>2, <2>6, <4>2 DEF Users
        <5> QED BY <4>2, <5>1, UsersFinite
      <4> QED BY <4>1, <4>2
    <3>4. (c \in b \/ s.count[c] > 0) => t.chunk[c] # "absent"
      BY <2>6 DEF Sound, Present
    <3> HIDE DEF t
    <3>5. t.count[c] = Cardinality(Users(t, c)) + r[c]
      BY <3>1, <3>2, <3>3
    <3> QED BY <3>1, <3>4, <3>5
  <2>8. \A X : Lean(s, X) => Lean(t, X)
    <3> SUFFICES ASSUME NEW X, Lean(s, X), NEW c \in Chunk, t.chunk[c] = "local"
                 PROVE  t.count[c] > 0 \/ c \in X
      BY DEF Lean
    <3>1. s.count[c] \in Nat /\ t.count[c] = s.count[c] + (IF c \in b THEN 1 ELSE 0)
      BY <2>1, <2>6 DEF Store
    <3>2. s.count[c] > 0 \/ c \in X
      BY <2>6 DEF Lean
    <3> HIDE DEF t
    <3> QED BY <3>1, <3>2
  <2>9. t.blob[b] # "absent" /\ \A e \in Content : s.blob[e] # "absent" => t.blob[e] # "absent"
    BY <2>2, <2>6
  <2> HIDE DEF t
  <2>10. Sound(t, r)
    BY <2>6, <2>7 DEF Sound
  <2> QED BY <2>6, <2>8, <2>9, <2>10 DEF t
<1> QED BY <1>1, <1>2

\* Blobs out of use go: the references of their chunk maps first become others'
\* and are then released.
LEMMA CollectBlobsSound ==
  ASSUME NEW s, NEW r \in [Chunk -> Nat], Sound(s, r), NEW U
  PROVE  /\ Sound(CollectBlobs(s, U), r)
         /\ \A b \in Content : s.blob[b] # "absent" /\ b \in U => CollectBlobs(s, U).blob[b] # "absent"
         /\ \A X : Lean(s, X) => Lean(CollectBlobs(s, U), X)
<1> DEFINE gone == {b \in Content : s.blob[b] = "local" /\ b \notin U}
           d == [b \in Content |-> IF b \in gone THEN "absent" ELSE s.blob[b]]
           u == [s EXCEPT !.blob = d]
           n == [c \in Chunk |-> Cardinality({b \in gone : c \in b})]
           p == [c \in Chunk |-> r[c] + n[c]]
<1>1. s \in Store
  BY DEF Sound
<1>2. d \in [Content -> Mode]
  BY <1>1 DEF Store, Mode
<1>3. u \in Store /\ u.count = s.count /\ u.chunk = s.chunk /\ u.blob = d
  <2> HIDE DEF d
  <2> QED BY <1>1, <1>2 DEF Store
<1>4. ASSUME NEW c \in Chunk
      PROVE  n[c] \in Nat /\ Cardinality(Users(s, c)) = Cardinality(Users(u, c)) + n[c]
  <2> DEFINE G == {b \in gone : c \in b}
  <2>1. Users(s, c) = Users(u, c) \cup G /\ Users(u, c) \cap G = {}
    BY <1>3 DEF Users
  <2>2. IsFiniteSet(Users(s, c)) /\ IsFiniteSet(Users(u, c))
    BY UsersFinite
  <2> HIDE DEF G, u, n
  <2>3. IsFiniteSet(G)
    BY <2>1, <2>2, FS_Subset
  <2>4. Cardinality(G) \in Nat /\ Cardinality(Users(u, c)) \in Nat
    BY <2>3, FS_CardinalityType, UsersFinite
  <2>5. Cardinality(Users(s, c)) = Cardinality(Users(u, c)) + Cardinality(G)
    <3>1. Cardinality(Users(u, c) \cup G) = Cardinality(Users(u, c)) + Cardinality(G) - Cardinality({})
      BY <2>1, <2>2, <2>3, FS_Union
    <3>2. Cardinality({}) = 0
      BY FS_EmptySet
    <3> QED BY <2>1, <2>4, <3>1, <3>2
  <2>6. n[c] = Cardinality(G)
    BY DEF n, G
  <2> QED BY <2>4, <2>5, <2>6
<1>5. n \in [Chunk -> Nat]
  BY <1>4
<1>6. p \in [Chunk -> Nat] /\ \A c \in Chunk : n[c] <= p[c] /\ r[c] = p[c] - n[c]
  <2> HIDE DEF n
  <2> QED BY <1>5
<1>7. \A c \in Chunk : u.count[c] = Cardinality(Users(u, c)) + p[c]
  <2> TAKE c \in Chunk
  <2>1. s.count[c] = Cardinality(Users(s, c)) + r[c] /\ u.count[c] = s.count[c] /\ r[c] \in Nat
    BY <1>3 DEF Sound
  <2>2. n[c] \in Nat /\ Cardinality(Users(s, c)) = Cardinality(Users(u, c)) + n[c] /\ Cardinality(Users(u, c)) \in Nat
    BY <1>4, UsersFinite
  <2> HIDE DEF u, n
  <2> QED BY <2>1, <2>2
<1>8. \A c \in Chunk : u.count[c] > 0 => u.chunk[c] # "absent"
  BY <1>3 DEF Sound
<1>9. CollectBlobs(s, U) = Release(u, n)
  BY DEF CollectBlobs
<1>10. \A X : Lean(s, X) => Lean(u, X)
  BY <1>3 DEF Lean
<1>11. \A b \in Content : s.blob[b] # "absent" /\ b \in U => u.blob[b] # "absent"
  BY <1>3
<1> HIDE DEF u, n, p
<1>12. Sound(Release(u, n), r) /\ Release(u, n).blob = u.blob /\ \A X : Lean(u, X) => Lean(Release(u, n), X)
  BY <1>3, <1>5, <1>6, <1>7, <1>8, ReleaseSound
<1> QED BY <1>9, <1>10, <1>11, <1>12

\* Releasing one reference to each chunk of a set.
LEMMA ReleaseSetSound ==
  ASSUME NEW s, NEW r \in [Chunk -> Nat], Sound(s, r), NEW C \in Content, \A c \in C : r[c] > 0,
         NEW q, \A c \in Chunk : q[c] = r[c] - (IF c \in C THEN 1 ELSE 0)
  PROVE  /\ Sound(ReleaseSet(s, C), q)
         /\ ReleaseSet(s, C).blob = s.blob
         /\ \A X : Lean(s, X) => Lean(ReleaseSet(s, C), X)
<1> DEFINE n == [c \in Chunk |-> IF c \in C THEN 1 ELSE 0]
<1>1. n \in [Chunk -> Nat] /\ \A c \in Chunk : q[c] = r[c] - n[c]
  OBVIOUS
<1>2. \A c \in Chunk : n[c] <= r[c]
  BY DEF Content
<1>3. ReleaseSet(s, C) = Release(s, n)
  BY DEF ReleaseSet
<1> HIDE DEF n
<1> QED BY <1>1, <1>2, <1>3, ReleaseSound DEF Sound

\* A row for a chunk; nobody refers to it yet.
LEMMA RegisterChunkSound ==
  ASSUME NEW s, NEW r \in [Chunk -> Nat], Sound(s, r), NEW c \in Chunk
  PROVE  /\ Sound(RegisterChunk(s, c), r)
         /\ RegisterChunk(s, c).blob = s.blob
         /\ \A X : Lean(s, X) => Lean(RegisterChunk(s, c), X \cup {c})
<1>1. CASE s.chunk[c] # "absent"
  BY <1>1 DEF RegisterChunk, Lean
<1>2. CASE s.chunk[c] = "absent"
  <2> DEFINE k == [s.chunk EXCEPT ![c] = "local"]
             t == RegisterChunk(s, c)
  <2>1. s \in Store
    BY DEF Sound
  <2>2. k \in [Chunk -> Mode] /\ k[c] = "local" /\ \A d \in Chunk \ {c} : k[d] = s.chunk[d]
    BY <2>1 DEF Store, Mode
  <2>3. t = [s EXCEPT !.chunk = k]
    BY <1>2 DEF RegisterChunk
  <2>4. t \in Store /\ t.count = s.count /\ t.chunk = k /\ t.blob = s.blob
    <3> HIDE DEF k, t
    <3> QED BY <2>1, <2>2, <2>3 DEF Store
  <2>5. \A d \in Chunk : Users(t, d) = Users(s, d)
    BY <2>4 DEF Users
  <2>6. Sound(t, r)
    BY <2>2, <2>4, <2>5 DEF Sound
  <2>7. \A X : Lean(s, X) => Lean(t, X \cup {c})
    BY <2>2, <2>4 DEF Lean
  <2> QED BY <2>4, <2>6, <2>7
<1> QED BY <1>1, <1>2

-----------------------------------------------------------------------------
(* The handles, the queue and the store. *)

\* What a handle has: nothing pinned before its transaction in open_rw; what its
\* chunk map names it found in the file or has pinned; it stores one chunk at a time.
Shape(f) ==
  /\ f \in FileHandle
  /\ f.phase \in {"waiting", "locked"} => f.pins = {}
  /\ f.map \subseteq f.file \cup f.pins
  /\ f.phase = "storing" => \E c \in Chunk : f.storing = {c}

\* The rows of a push job.
Queue == [blobs : SUBSET Content, chunks : Content]

\* What is inductive of the store: the counts are exact, and the blobs that
\* inodes and the queue name have rows.
StoreInv ==
  /\ DOMAIN tree \subseteq Inode /\ \A i \in DOMAIN tree : tree[i] \in Content
  /\ DOMAIN fh \subseteq Handle /\ \A h \in DOMAIN fh : Shape(fh[h])
  /\ job \in Queue
  /\ rename \subseteq [inode : Inode, blob : Content]
  /\ Sound(store, Others(fh, job))
  /\ \A b \in Values(tree) \cup job.blobs : store.blob[b] # "absent"

\* The chunks that are about to be pinned.
Storing(f) == UNION {f[h].storing : h \in {g \in DOMAIN f : f[g].phase = "storing"}}

\* The chunks whose flush a step drops, or whose process it ends.
GivenUp ==
  {c \in Chunk : \E h \in Handle : /\ Flushing(h, c)
                                   /\ h \in DOMAIN fh' => fh'[h].phase = "dead"}

\* What a step keeps; a local row it leaves without reference and flush was so before, or was given up.
Kept ==
  /\ StoreInv'
  /\ \A Y : Lean(store, Storing(fh) \cup Y) => Lean(store', Storing(fh') \cup Y \cup GivenUp)

\* There are finitely many handles.
LEMMA PinningFinite ==
  ASSUME NEW f, DOMAIN f \subseteq Handle, NEW c
  PROVE  IsFiniteSet(Pinning(f, c)) /\ Cardinality(Pinning(f, c)) \in Nat
<1>1. Pinning(f, c) \in SUBSET Handle
  BY DEF Pinning
<1>2. IsFiniteSet(Pinning(f, c))
  BY <1>1, FiniteAssumption, FS_Subset
<1> QED BY <1>2, FS_CardinalityType

\* Others counts.
LEMMA OthersType ==
  ASSUME NEW f, DOMAIN f \subseteq Handle, NEW j
  PROVE  Others(f, j) \in [Chunk -> Nat]
BY PinningFinite DEF Others

\* Handles that pin nothing do not matter to the counts.
LEMMA SamePins ==
  ASSUME NEW f, NEW g,
         \A h \in DOMAIN f : f[h].pins # {} => h \in DOMAIN g /\ g[h].pins = f[h].pins,
         \A h \in DOMAIN g : g[h].pins # {} => h \in DOMAIN f /\ g[h].pins = f[h].pins,
         NEW j
  PROVE  Others(f, j) = Others(g, j)
<1>1. \A c : Pinning(f, c) = Pinning(g, c)
  BY DEF Pinning
<1> QED BY <1>1 DEF Others

\* What is pinned or queued is there.
LEMMA OthersKeep ==
  ASSUME StoreInv, NEW C \in Content, \A c \in C : Others(fh, job)[c] > 0
  PROVE  Present(store, C)
<1> SUFFICES ASSUME NEW c \in C PROVE store.chunk[c] # "absent"
  BY DEF Present
<1>1. c \in Chunk /\ Others(fh, job)[c] \in Nat \ {0}
  BY OthersType DEF Content, StoreInv
<1>2. store.count[c] > 0
  BY <1>1, UsersFinite DEF StoreInv, Sound
<1> QED BY <1>1, <1>2 DEF StoreInv, Sound

\* A pin is a reference, ...
LEMMA PinnedCounts ==
  ASSUME StoreInv, NEW h \in DOMAIN fh, NEW c \in fh[h].pins
  PROVE  c \in Chunk /\ Others(fh, job)[c] > 0
<1>1. c \in Chunk
  BY DEF StoreInv, Shape, FileHandle, Content
<1>2. h \in Pinning(fh, c)
  BY DEF Pinning
<1>3. Cardinality(Pinning(fh, c)) \in Nat \ {0}
  BY <1>2, PinningFinite, FS_EmptySet DEF StoreInv
<1> QED BY <1>1, <1>3 DEF Others

\* ... and so is an entry of the queue.
LEMMA QueuedCounts ==
  ASSUME StoreInv, NEW c \in job.chunks
  PROVE  c \in Chunk /\ Others(fh, job)[c] > 0
<1>1. c \in Chunk
  BY DEF StoreInv, Queue, Content
<1>2. Cardinality(Pinning(fh, c)) \in Nat
  BY PinningFinite DEF StoreInv
<1> QED BY <1>1, <1>2 DEF Others

\* The new handle or the new state of a handle.
LEMMA HandlesKept ==
  ASSUME StoreInv, NEW h \in Handle, NEW f, Shape(f),
         fh' = With(fh, h, f) \/ (h \in DOMAIN fh /\ fh' = [fh EXCEPT ![h] = f])
  PROVE  /\ DOMAIN fh' = DOMAIN fh \cup {h} /\ fh'[h] = f
         /\ \A g \in DOMAIN fh : g # h => fh'[g] = fh[g]
         /\ DOMAIN fh' \subseteq Handle /\ \A g \in DOMAIN fh' : Shape(fh'[g])
<1>1. /\ DOMAIN fh' = DOMAIN fh \cup {h} /\ fh'[h] = f
      /\ \A g \in DOMAIN fh : g # h => fh'[g] = fh[g]
  BY DEF With
<1> QED BY <1>1 DEF StoreInv

\* The handles without one of them.
LEMMA HandleGone ==
  ASSUME StoreInv, NEW h \in DOMAIN fh, fh' = Without(fh, h)
  PROVE  /\ DOMAIN fh' = DOMAIN fh \ {h}
         /\ \A g \in DOMAIN fh' : fh'[g] = fh[g] /\ Shape(fh'[g])
         /\ DOMAIN fh' \subseteq Handle
<1>1. DOMAIN fh' = DOMAIN fh \ {h} /\ \A g \in DOMAIN fh \ {h} : fh'[g] = fh[g]
  BY DEF Without
<1> QED BY <1>1 DEF StoreInv

\* A step that moves handles and leaves what they pin, the store, the tree and the queue.
LEMMA QuietKept ==
  ASSUME StoreInv, UNCHANGED <<store, tree, job>>, rename' = rename,
         DOMAIN fh' \subseteq Handle, \A h \in DOMAIN fh' : Shape(fh'[h]),
         Others(fh', job) = Others(fh, job),
         \A c \in Storing(fh) \ Storing(fh') : store.chunk[c] = "absent" \/ c \in GivenUp
  PROVE  Kept
<1>1. StoreInv'
  BY DEF StoreInv
<1>2. ASSUME NEW Y, Lean(store, Storing(fh) \cup Y)
      PROVE  Lean(store', Storing(fh') \cup Y \cup GivenUp)
  BY <1>2 DEF Lean
<1> QED BY <1>1, <1>2 DEF Kept

\* A step that leaves no more local rows without reference, and what is being stored.
LEMMA LeanKept ==
  ASSUME StoreInv', Storing(fh) \subseteq Storing(fh') \cup GivenUp,
         \A X : Lean(store, X) => Lean(store', X)
  PROVE  Kept
<1>1. ASSUME NEW Y, Lean(store, Storing(fh) \cup Y)
      PROVE  Lean(store', Storing(fh') \cup Y \cup GivenUp)
  <2>1. Lean(store', Storing(fh) \cup Y)
    BY <1>1
  <2> QED BY <2>1 DEF Lean
<1> QED BY <1>1 DEF Kept

\* h takes a state in which it pins what it did; what it was storing is absent or given up.
LEMMA MoveKept ==
  ASSUME StoreInv, UNCHANGED <<store, tree, job>>, rename' = rename,
         NEW h \in Handle, NEW f, Shape(f), f.phase # "storing",
         \/ fh' = With(fh, h, f) /\ h \notin DOMAIN fh /\ f.pins = {}
         \/ h \in DOMAIN fh /\ fh' = [fh EXCEPT ![h] = f] /\ f.pins = fh[h].pins,
         h \in DOMAIN fh /\ fh[h].phase = "storing" =>
           f.phase = "dead" \/ \A c \in fh[h].storing : store.chunk[c] = "absent"
  PROVE  Kept
<1>1. /\ DOMAIN fh' = DOMAIN fh \cup {h} /\ fh'[h] = f
      /\ \A g \in DOMAIN fh : g # h => fh'[g] = fh[g]
      /\ DOMAIN fh' \subseteq Handle /\ \A g \in DOMAIN fh' : Shape(fh'[g])
  BY HandlesKept
<1>2. Others(fh', job) = Others(fh, job)
  BY <1>1, SamePins
<1>3. ASSUME NEW c \in Storing(fh) \ Storing(fh') PROVE store.chunk[c] = "absent" \/ c \in GivenUp
  <2>1. h \in DOMAIN fh /\ fh[h].phase = "storing" /\ c \in fh[h].storing
    BY <1>1, <1>3 DEF Storing
  <2>2. CASE f.phase = "dead"
    <3>1. c \in Chunk /\ Flushing(h, c)
      BY <2>1 DEF StoreInv, Shape, FileHandle, Content, Flushing, In
    <3> QED BY <1>1, <2>2, <3>1 DEF GivenUp
  <2> QED BY <2>1, <2>2
<1> QED BY <1>1, <1>2, <1>3, QuietKept

\* h goes; it has pinned nothing.
LEMMA LeaveKept ==
  ASSUME StoreInv, UNCHANGED <<store, tree, job>>, rename' = rename,
         NEW h \in DOMAIN fh, fh[h].phase \in {"waiting", "locked"}, fh' = Without(fh, h)
  PROVE  Kept
<1>1. /\ DOMAIN fh' = DOMAIN fh \ {h} /\ DOMAIN fh' \subseteq Handle
      /\ \A g \in DOMAIN fh' : fh'[g] = fh[g] /\ Shape(fh'[g])
  BY HandleGone
<1>2. fh[h].pins = {}
  BY DEF StoreInv, Shape
<1>3. Others(fh', job) = Others(fh, job)
  BY <1>1, <1>2, SamePins
<1>4. Storing(fh') = Storing(fh)
  BY <1>1 DEF Storing
<1> QED BY <1>1, <1>3, <1>4, QuietKept

\* open_rw: the handle is its file, nothing else.
LEMMA BeginOpenKept ==
  ASSUME StoreInv, NEW h \in Handle, BeginOpen(h)
  PROVE  Kept
<1>1. PICK i \in DOMAIN tree :
        fh' = With(fh, h, [phase |-> "waiting", inode |-> i, file |-> tree[i],
                           map |-> tree[i], storing |-> {}, pins |-> {}])
  BY DEF BeginOpen
<1> DEFINE f == [phase |-> "waiting", inode |-> i, file |-> tree[i],
                 map |-> tree[i], storing |-> {}, pins |-> {}]
<1>2. f \in FileHandle
  BY DEF StoreInv, FileHandle, Content
<1>3. Shape(f) /\ f.phase # "storing" /\ f.pins = {}
  BY <1>2 DEF Shape
<1> HIDE DEF f
<1>4. fh' = With(fh, h, f)
  BY <1>1 DEF f
<1>5. UNCHANGED <<store, tree, job>> /\ rename' = rename /\ h \notin DOMAIN fh
  BY DEF BeginOpen
<1> QED BY <1>3, <1>4, <1>5, MoveKept

\* Phases after "storing" change nothing but the phase.
LEMMA PhaseKept ==
  ASSUME StoreInv, NEW h \in DOMAIN fh, NEW p \in {"locked", "open", "broken", "leaked"}, Phase(h, p),
         UNCHANGED <<store, tree, job>>, rename' = rename,
         p = "locked" => fh[h].phase = "waiting",
         fh[h].phase = "storing" => \A c \in fh[h].storing : store.chunk[c] = "absent"
  PROVE  Kept
<1> DEFINE f == [fh[h] EXCEPT !.phase = p]
<1>1. Shape(fh[h]) /\ h \in Handle
  BY DEF StoreInv
<1>2. f \in FileHandle /\ f.phase = p /\ f.pins = fh[h].pins /\ f.map = fh[h].map /\ f.file = fh[h].file
  BY <1>1 DEF Shape, FileHandle
<1>3. fh' = [fh EXCEPT ![h] = f]
  BY DEF Phase
<1> HIDE DEF f
<1>4. Shape(f)
  BY <1>1, <1>2 DEF Shape
<1> QED BY <1>1, <1>2, <1>3, <1>4, MoveKept

\* Drop keeps the pins: they are the reaper's business.
LEMMA DropKept ==
  ASSUME StoreInv, NEW h \in Handle, Drop(h)
  PROVE  Kept
<1> DEFINE f == [fh[h] EXCEPT !.phase = "dead", !.storing = {}]
<1>1. h \in DOMAIN fh /\ Shape(fh[h])
  BY DEF StoreInv, Drop, In
<1>2. f \in FileHandle /\ f.phase = "dead" /\ f.pins = fh[h].pins /\ f.map = fh[h].map /\ f.file = fh[h].file
  BY <1>1 DEF Shape, FileHandle, Content
<1>3. fh' = [fh EXCEPT ![h] = f] /\ UNCHANGED <<store, tree, job>> /\ rename' = rename
  BY DEF Drop
<1> HIDE DEF f
<1>4. Shape(f)
  BY <1>1, <1>2 DEF Shape
<1> QED BY <1>1, <1>2, <1>3, <1>4, MoveKept

\* The row of a chunk before its pin.
LEMMA InsertChunkKept ==
  ASSUME StoreInv, NEW h \in Handle, InsertChunk(h)
  PROVE  Kept
<1>1. h \in DOMAIN fh /\ fh[h].phase = "open" /\ Shape(fh[h]) /\ UNCHANGED <<tree, job, rename>>
  BY DEF InsertChunk, In, StoreInv
<1>2. PICK c \in Chunk : /\ store' = RegisterChunk(store, c)
                         /\ fh' = [fh EXCEPT ![h].phase = "storing", ![h].storing = {c}]
  BY DEF InsertChunk
<1> DEFINE f == [fh[h] EXCEPT !.phase = "storing", !.storing = {c}]
<1>3. /\ f \in FileHandle /\ f.phase = "storing" /\ f.storing = {c}
      /\ f.pins = fh[h].pins /\ f.map = fh[h].map /\ f.file = fh[h].file
  BY <1>1 DEF Shape, FileHandle, Content
<1>4. fh' = [fh EXCEPT ![h] = f]
  BY <1>1, <1>2
<1> HIDE DEF f
<1>5. Shape(f)
  BY <1>1, <1>3 DEF Shape
<1>6. /\ DOMAIN fh' = DOMAIN fh \cup {h} /\ fh'[h] = f
      /\ \A g \in DOMAIN fh : g # h => fh'[g] = fh[g]
      /\ DOMAIN fh' \subseteq Handle /\ \A g \in DOMAIN fh' : Shape(fh'[g])
  BY <1>1, <1>4, <1>5, HandlesKept
<1>7. Others(fh', job) = Others(fh, job)
  BY <1>1, <1>3, <1>6, SamePins
<1>8. Storing(fh) \cup {c} \subseteq Storing(fh')
  BY <1>1, <1>3, <1>6 DEF Storing
<1>9. /\ Sound(store', Others(fh, job)) /\ store'.blob = store.blob
      /\ \A X : Lean(store, X) => Lean(store', X \cup {c})
  BY <1>2, RegisterChunkSound, OthersType DEF StoreInv
<1>10. StoreInv'
  BY <1>1, <1>6, <1>7, <1>9 DEF StoreInv
<1>11. ASSUME NEW Y, Lean(store, Storing(fh) \cup Y)
       PROVE  Lean(store', Storing(fh') \cup Y \cup GivenUp)
  <2>1. Lean(store', Storing(fh) \cup Y \cup {c})
    BY <1>9, <1>11
  <2> QED BY <1>8, <2>1 DEF Lean
<1> QED BY <1>10, <1>11 DEF Kept

\* The pin; what was pinned already is pinned once.
LEMMA InsertTempFhChunkKept ==
  ASSUME StoreInv, NEW h \in Handle, InsertTempFhChunk(h)
  PROVE  Kept
<1>1. /\ h \in DOMAIN fh /\ fh[h].phase = "storing" /\ Shape(fh[h]) /\ UNCHANGED <<tree, job, rename>>
      /\ Present(store, fh[h].storing) /\ store' = Refer(store, fh[h].storing \ fh[h].pins)
  BY DEF InsertTempFhChunk, In, StoreInv
<1>2. PICK R \in SUBSET fh[h].map :
        fh' = [fh EXCEPT ![h].phase = "open", ![h].storing = {},
                         ![h].map = (@ \ R) \cup fh[h].storing,
                         ![h].pins = @ \cup fh[h].storing]
  BY DEF InsertTempFhChunk
<1> DEFINE f == [fh[h] EXCEPT !.phase = "open", !.storing = {},
                              !.map = (@ \ R) \cup fh[h].storing,
                              !.pins = @ \cup fh[h].storing]
           new == fh[h].storing \ fh[h].pins
<1>3. /\ f \in FileHandle /\ f.phase = "open" /\ f.file = fh[h].file
      /\ f.pins = fh[h].pins \cup fh[h].storing /\ f.map = (fh[h].map \ R) \cup fh[h].storing
      /\ new \in Content
  BY <1>1 DEF Shape, FileHandle, Content
<1>4. fh' = [fh EXCEPT ![h] = f]
  BY <1>1, <1>2
<1> HIDE DEF f
<1>5. Shape(f)
  BY <1>1, <1>3 DEF Shape
<1>6. /\ DOMAIN fh' = DOMAIN fh \cup {h} /\ fh'[h] = f
      /\ \A g \in DOMAIN fh : g # h => fh'[g] = fh[g]
      /\ DOMAIN fh' \subseteq Handle /\ \A g \in DOMAIN fh' : Shape(fh'[g])
  BY <1>1, <1>4, <1>5, HandlesKept
<1>7. ASSUME NEW c \in Chunk
      PROVE  Others(fh', job)[c] = Others(fh, job)[c] + (IF c \in new THEN 1 ELSE 0)
  <2>1. Cardinality(Pinning(fh', c)) = Cardinality(Pinning(fh, c)) + (IF c \in new THEN 1 ELSE 0)
    <3>1. CASE c \in new
      <4>1. Pinning(fh', c) = Pinning(fh, c) \cup {h} /\ h \notin Pinning(fh, c)
        BY <1>1, <1>3, <1>6, <3>1 DEF Pinning
      <4> QED BY <3>1, <4>1, PinningFinite, FS_AddElement DEF StoreInv
    <3>2. CASE c \notin new
      <4>1. Pinning(fh', c) = Pinning(fh, c)
        BY <1>1, <1>3, <1>6, <3>2 DEF Pinning
      <4>2. Cardinality(Pinning(fh, c)) \in Nat
        BY PinningFinite DEF StoreInv
      <4> QED BY <3>2, <4>1, <4>2
    <3> QED BY <3>1, <3>2
  <2>2. Cardinality(Pinning(fh, c)) \in Nat
    BY PinningFinite DEF StoreInv
  <2> HIDE DEF new
  <2> QED BY <2>1, <2>2 DEF Others
<1>8. Storing(fh) \subseteq Storing(fh') \cup fh[h].storing
  BY <1>1, <1>3, <1>6 DEF Storing
<1>9. ASSUME NEW Y, Lean(store, Storing(fh) \cup Y) PROVE Lean(store, Storing(fh') \cup Y \cup new)
  <2> SUFFICES ASSUME NEW c \in Chunk, store.chunk[c] = "local"
               PROVE  store.count[c] > 0 \/ c \in Storing(fh') \cup Y \cup new
    BY DEF Lean
  <2>1. store.count[c] > 0 \/ c \in Storing(fh) \cup Y
    BY <1>9 DEF Lean
  <2>2. CASE c \in fh[h].storing \ new
    <3>1. c \in fh[h].pins
      BY <2>2
    <3>2. Others(fh, job)[c] > 0 /\ Others(fh, job)[c] \in Nat
      BY <1>1, <3>1, PinnedCounts, OthersType DEF StoreInv
    <3> QED BY <3>2, UsersFinite DEF StoreInv, Sound
  <2> QED BY <1>8, <2>1, <2>2
<1>10. Present(store, new)
  BY <1>1 DEF Present
<1>14. store' = Refer(store, new)
  BY <1>1
<1>15. Others(fh, job) \in [Chunk -> Nat] /\ Sound(store, Others(fh, job))
  BY OthersType DEF StoreInv
<1> HIDE DEF new
<1>11. /\ Sound(store', Others(fh', job)) /\ store'.blob = store.blob
       /\ \A X : Lean(store, X) => Lean(store', X \ new)
  BY <1>3, <1>7, <1>10, <1>14, <1>15, ReferSound
<1>12. StoreInv'
  BY <1>1, <1>6, <1>11 DEF StoreInv
<1>13. ASSUME NEW Y, Lean(store, Storing(fh) \cup Y)
       PROVE  Lean(store', Storing(fh') \cup Y \cup GivenUp)
  <2>1. Lean(store', (Storing(fh') \cup Y \cup new) \ new)
    BY <1>9, <1>11, <1>13
  <2> QED BY <2>1 DEF Lean
<1> QED BY <1>12, <1>13 DEF Kept

\* The inodes name the blobs of t: those and the queue's stay.
LEMMA RepointSound ==
  ASSUME NEW s, NEW r \in [Chunk -> Nat], Sound(s, r), NEW t,
         \A b \in Values(t) \cup job.blobs : b \in Content /\ s.blob[b] # "absent"
  PROVE  /\ Sound(Repoint(s, t), r)
         /\ \A b \in Values(t) \cup job.blobs : Repoint(s, t).blob[b] # "absent"
         /\ \A X : Lean(s, X) => Lean(Repoint(s, t), X)
BY CollectBlobsSound DEF Repoint

\* register_blob, and an inode to name it.
LEMMA FsyncedSound ==
  ASSUME StoreInv, NEW h \in DOMAIN fh, Present(store, fh[h].map)
  PROVE  /\ Sound(Fsynced(fh[h]), Others(fh, job))
         /\ \A b \in Values(With(tree, fh[h].inode, fh[h].map)) \cup job.blobs :
              Fsynced(fh[h]).blob[b] # "absent"
         /\ \A X : Lean(store, X) => Lean(Fsynced(fh[h]), X)
<1> DEFINE m == fh[h].map
           t == With(tree, fh[h].inode, m)
           s == RegisterBlob(store, m)
           r == Others(fh, job)
<1>1. m \in Content /\ r \in [Chunk -> Nat] /\ Sound(store, r)
  BY OthersType DEF StoreInv, Shape, FileHandle
<1>2. Values(t) \subseteq Values(tree) \cup {m}
  BY DEF Values, With
<1>3. \A b \in Values(tree) \cup job.blobs : b \in Content /\ store.blob[b] # "absent"
  BY DEF StoreInv, Values, Queue
<1>4. Fsynced(fh[h]) = Repoint(s, t)
  BY DEF Fsynced
<1> HIDE DEF m, r, t
<1>5. /\ Sound(s, r) /\ s.blob[m] # "absent"
      /\ \A d \in Content : store.blob[d] # "absent" => s.blob[d] # "absent"
      /\ \A X : Lean(store, X) => Lean(s, X)
  BY <1>1, RegisterBlobSound DEF m
<1>6. \A b \in Values(t) \cup job.blobs : b \in Content /\ s.blob[b] # "absent"
  BY <1>1, <1>2, <1>3, <1>5
<1> HIDE DEF s
<1>7. /\ Sound(Repoint(s, t), r)
      /\ \A b \in Values(t) \cup job.blobs : Repoint(s, t).blob[b] # "absent"
      /\ \A X : Lean(s, X) => Lean(Repoint(s, t), X)
  BY <1>1, <1>5, <1>6, RepointSound
<1> QED BY <1>4, <1>5, <1>7 DEF m, r, t

\* The tree with a new or another file.
LEMMA TreeKept ==
  ASSUME StoreInv, NEW i \in Inode, NEW b \in Content, tree' = With(tree, i, b)
  PROVE  DOMAIN tree' \subseteq Inode /\ \A j \in DOMAIN tree' : tree'[j] \in Content
BY DEF StoreInv, With

\* fsync repoints the inode of the handle to what is stored.
LEMMA FsyncKept ==
  ASSUME StoreInv, NEW h \in Handle, Fsync(h)
  PROVE  Kept
<1> DEFINE f == [fh[h] EXCEPT !.file = fh[h].map]
<1>1. /\ h \in DOMAIN fh /\ fh[h].phase = "open" /\ Shape(fh[h]) /\ Present(store, fh[h].map)
      /\ store' = Fsynced(fh[h]) /\ tree' = With(tree, fh[h].inode, fh[h].map)
      /\ job' = job /\ rename' = rename
  BY DEF Fsync, In, StoreInv
<1>2. /\ f \in FileHandle /\ f.phase = "open" /\ f.pins = fh[h].pins
      /\ f.file = fh[h].map /\ f.map = fh[h].map
  BY <1>1 DEF Shape, FileHandle
<1>3. fh' = [fh EXCEPT ![h] = f]
  BY DEF Fsync
<1> HIDE DEF f
<1>4. Shape(f)
  BY <1>2 DEF Shape
<1>5. /\ DOMAIN fh' = DOMAIN fh \cup {h} /\ fh'[h] = f
      /\ \A g \in DOMAIN fh : g # h => fh'[g] = fh[g]
      /\ DOMAIN fh' \subseteq Handle /\ \A g \in DOMAIN fh' : Shape(fh'[g])
  BY <1>1, <1>3, <1>4, HandlesKept
<1>6. Others(fh', job) = Others(fh, job)
  BY <1>1, <1>2, <1>5, SamePins
<1>7. Storing(fh') = Storing(fh)
  BY <1>1, <1>2, <1>5 DEF Storing
<1>8. fh[h].inode \in Inode /\ fh[h].map \in Content
  BY <1>1 DEF Shape, FileHandle
<1>9. StoreInv'
  BY <1>1, <1>5, <1>6, <1>8, FsyncedSound, TreeKept DEF StoreInv
<1>10. \A X : Lean(store, X) => Lean(store', X)
  BY <1>1, FsyncedSound
<1> QED BY <1>7, <1>9, <1>10, LeanKept

\* The rows of a handle go, and the references they are.
LEMMA PinsGo ==
  ASSUME StoreInv, NEW h \in DOMAIN fh, fh' = Without(fh, h), fh[h].phase # "storing",
         NEW s, Sound(s, Others(fh, job))
  PROVE  /\ DOMAIN fh' \subseteq Handle /\ \A g \in DOMAIN fh' : Shape(fh'[g])
         /\ Storing(fh') = Storing(fh)
         /\ Sound(ReleaseSet(s, fh[h].pins), Others(fh', job))
         /\ ReleaseSet(s, fh[h].pins).blob = s.blob
         /\ \A X : Lean(s, X) => Lean(ReleaseSet(s, fh[h].pins), X)
<1> DEFINE C == fh[h].pins
<1>1. /\ DOMAIN fh' = DOMAIN fh \ {h} /\ DOMAIN fh' \subseteq Handle
      /\ \A g \in DOMAIN fh' : fh'[g] = fh[g] /\ Shape(fh'[g])
  BY HandleGone
<1>2. Storing(fh') = Storing(fh)
  BY <1>1 DEF Storing
<1>3. C \in Content /\ \A c \in C : Others(fh, job)[c] > 0
  BY PinnedCounts DEF Content
<1>4. ASSUME NEW c \in Chunk
      PROVE  Others(fh', job)[c] = Others(fh, job)[c] - (IF c \in C THEN 1 ELSE 0)
  <2>1. IsFiniteSet(Pinning(fh, c)) /\ Cardinality(Pinning(fh, c)) \in Nat
    BY PinningFinite DEF StoreInv
  <2>2. Pinning(fh', c) = Pinning(fh, c) \ {h} /\ (h \in Pinning(fh, c) <=> c \in C)
    BY <1>1 DEF Pinning
  <2>3. Cardinality(Pinning(fh', c)) = Cardinality(Pinning(fh, c)) - (IF c \in C THEN 1 ELSE 0)
    <3>1. CASE c \in C
      BY <2>1, <2>2, <3>1, FS_RemoveElement
    <3>2. CASE c \notin C
      <4>1. Pinning(fh', c) = Pinning(fh, c)
        BY <2>2, <3>2
      <4> QED BY <2>1, <3>2, <4>1
    <3> QED BY <3>1, <3>2
  <2>4. Cardinality(Pinning(fh', c)) \in Nat
    BY <1>1, PinningFinite
  <2> HIDE DEF C
  <2> QED BY <2>1, <2>3, <2>4 DEF Others
<1>5. Others(fh, job) \in [Chunk -> Nat]
  BY OthersType DEF StoreInv
<1> HIDE DEF C
<1>6. /\ Sound(ReleaseSet(s, C), Others(fh', job))
      /\ ReleaseSet(s, C).blob = s.blob
      /\ \A X : Lean(s, X) => Lean(ReleaseSet(s, C), X)
  BY <1>3, <1>4, <1>5, ReleaseSetSound
<1> QED BY <1>1, <1>2, <1>6 DEF C

\* commit does so and takes the pins along: the new blob holds its chunks by then.
LEMMA CommitKept ==
  ASSUME StoreInv, NEW h \in Handle, Commit(h)
  PROVE  Kept
<1> DEFINE s == Fsynced(fh[h])
<1>1. /\ h \in DOMAIN fh /\ fh[h].phase = "open" /\ Shape(fh[h]) /\ Present(store, fh[h].map)
      /\ store' = ReleaseSet(s, fh[h].pins) /\ tree' = With(tree, fh[h].inode, fh[h].map)
      /\ fh' = Without(fh, h) /\ job' = job /\ rename' = rename
  BY DEF Commit, In, StoreInv
<1>2. fh[h].inode \in Inode /\ fh[h].map \in Content
  BY <1>1 DEF Shape, FileHandle
<1>3. /\ Sound(s, Others(fh, job)) /\ \A b \in Values(tree') \cup job.blobs : s.blob[b] # "absent"
      /\ \A X : Lean(store, X) => Lean(s, X)
  BY <1>1, FsyncedSound
<1> HIDE DEF s
<1>4. /\ DOMAIN fh' \subseteq Handle /\ \A g \in DOMAIN fh' : Shape(fh'[g])
      /\ Storing(fh') = Storing(fh)
      /\ Sound(store', Others(fh', job)) /\ store'.blob = s.blob
      /\ \A X : Lean(s, X) => Lean(store', X)
  BY <1>1, <1>3, PinsGo
<1>5. DOMAIN tree' \subseteq Inode /\ \A j \in DOMAIN tree' : tree'[j] \in Content
  BY <1>1, <1>2, TreeKept
<1>6. StoreInv'
  BY <1>1, <1>3, <1>4, <1>5 DEF StoreInv
<1>7. \A X : Lean(store, X) => Lean(store', X)
  BY <1>3, <1>4
<1> QED BY <1>4, <1>6, <1>7, LeanKept

\* The reaper takes the pins of a handle that was dropped.
LEMMA ReapKept ==
  ASSUME StoreInv, NEW h \in Handle, Reap(h)
  PROVE  Kept
<1>1. /\ h \in DOMAIN fh /\ fh[h].phase = "dead" /\ store' = ReleaseSet(store, fh[h].pins)
      /\ fh' = Without(fh, h) /\ UNCHANGED <<tree, job, rename>>
  BY DEF Reap, In
<1>2. /\ DOMAIN fh' \subseteq Handle /\ \A g \in DOMAIN fh' : Shape(fh'[g])
      /\ Storing(fh') = Storing(fh)
      /\ Sound(store', Others(fh', job)) /\ store'.blob = store.blob
      /\ \A X : Lean(store, X) => Lean(store', X)
  BY <1>1, PinsGo DEF StoreInv
<1>3. StoreInv'
  BY <1>1, <1>2 DEF StoreInv
<1> QED BY <1>2, <1>3, LeanKept

\* Every step of a handle keeps what it must.
LEMMA HandleStepKept ==
  ASSUME StoreInv, NEW h \in Handle, HandleStep(h)
  PROVE  Kept
<1>1. CASE Acquire(h)
  BY <1>1, PhaseKept DEF Acquire, In
<1>2. CASE OpenRw(h)
  BY <1>2, PhaseKept DEF OpenRw, In
<1>3. CASE OpenRwAbandoned(h)
  BY <1>3, PhaseKept DEF OpenRwAbandoned, In
<1>4. CASE ReapFails(h)
  BY <1>4, PhaseKept DEF ReapFails, In
<1>5. CASE FlushFails(h)
  <2>1. h \in DOMAIN fh /\ fh[h].phase = "storing" /\ Phase(h, "broken")
        /\ UNCHANGED <<store, tree, lock, job, rename>> /\ ~Present(store, fh[h].storing)
    BY <1>5 DEF FlushFails, In
  <2>2. PICK c \in Chunk : fh[h].storing = {c}
    BY <2>1 DEF StoreInv, Shape
  <2>3. store.chunk[c] = "absent"
    BY <2>1, <2>2 DEF Present
  <2> QED BY <2>1, <2>2, <2>3, PhaseKept
<1>6. CASE TimeOut(h)
  BY <1>6, LeaveKept DEF TimeOut, In
<1>7. CASE OpenRwFails(h)
  BY <1>7, LeaveKept DEF OpenRwFails, In
<1> QED BY <1>1, <1>2, <1>3, <1>4, <1>5, <1>6, <1>7, BeginOpenKept, InsertChunkKept, InsertTempFhChunkKept,
           FsyncKept, CommitKept, DropKept, ReapKept DEF HandleStep

\* A step beside the handles.
LEMMA BesideKept ==
  ASSUME StoreInv, fh' = fh,
         DOMAIN tree' \subseteq Inode, \A i \in DOMAIN tree' : tree'[i] \in Content,
         job' \in Queue, rename' \subseteq [inode : Inode, blob : Content],
         Sound(store', Others(fh, job')),
         \A b \in Values(tree') \cup job'.blobs : store'.blob[b] # "absent",
         \A X : Lean(store, X) => Lean(store', X)
  PROVE  Kept
<1>1. StoreInv'
  BY DEF StoreInv
<1>2. Storing(fh) \subseteq Storing(fh') \cup GivenUp
  OBVIOUS
<1> QED BY <1>1, <1>2, LeanKept

\* A file starts empty, and the empty blob needs no chunk.
LEMMA CreateFileKept ==
  ASSUME StoreInv, NEW i \in Inode, CreateFile(i)
  PROVE  Kept
<1>1. /\ tree' = With(tree, i, {}) /\ store' = RegisterBlob(store, {}) /\ {} \in Content
      /\ fh' = fh /\ job' = job /\ rename' = rename
  BY DEF CreateFile, Content
<1>2. /\ Sound(store', Others(fh, job)) /\ store'.blob[{}] # "absent"
      /\ \A d \in Content : store.blob[d] # "absent" => store'.blob[d] # "absent"
      /\ \A X : Lean(store, X) => Lean(store', X)
  <2>1. Present(store, {}) /\ Others(fh, job) \in [Chunk -> Nat] /\ Sound(store, Others(fh, job))
    BY OthersType DEF Present, StoreInv
  <2> QED BY <1>1, <2>1, RegisterBlobSound
<1>3. DOMAIN tree' \subseteq Inode /\ \A j \in DOMAIN tree' : tree'[j] \in Content
  BY <1>1, TreeKept
<1>4. \A b \in Values(tree') \cup job.blobs : store'.blob[b] # "absent"
  <2>1. Values(tree') \subseteq Values(tree) \cup {{}}
    BY <1>1 DEF Values, With
  <2>2. \A b \in Values(tree) \cup job.blobs : b \in Content /\ store.blob[b] # "absent"
    BY DEF StoreInv, Values, Queue
  <2> TAKE b \in Values(tree') \cup job.blobs
  <2>3. CASE b = {}
    BY <1>2, <2>3
  <2>4. CASE b # {}
    <3>1. b \in Content /\ store.blob[b] # "absent"
      BY <2>1, <2>2, <2>4
    <3> QED BY <1>2, <3>1
  <2> QED BY <2>3, <2>4
<1> QED BY <1>1, <1>2, <1>3, <1>4, BesideKept DEF StoreInv

\* A tree of files that are there.
LEMMA RepointKept ==
  ASSUME StoreInv, fh' = fh, job' = job, rename' \subseteq rename,
         DOMAIN tree' \subseteq Inode,
         \A i \in DOMAIN tree' : tree'[i] \in Content /\ store.blob[tree'[i]] # "absent",
         store' = Repoint(store, tree')
  PROVE  Kept
<1>1. \A b \in Values(tree') \cup job.blobs : b \in Content /\ store.blob[b] # "absent"
  BY DEF StoreInv, Values, Queue
<1>2. Others(fh, job) \in [Chunk -> Nat] /\ Sound(store, Others(fh, job))
  BY OthersType DEF StoreInv
<1>3. /\ Sound(store', Others(fh, job))
      /\ \A b \in Values(tree') \cup job.blobs : store'.blob[b] # "absent"
      /\ \A X : Lean(store, X) => Lean(store', X)
  BY <1>1, <1>2, RepointSound
<1> QED BY <1>3, BesideKept DEF StoreInv

\* What the inodes name is there.
LEMMA FilesStored ==
  ASSUME StoreInv, NEW i \in DOMAIN tree
  PROVE  i \in Inode /\ tree[i] \in Content /\ store.blob[tree[i]] # "absent"
BY DEF StoreInv, Values

\* A file goes, the others stay.
LEMMA DeleteInodeKept ==
  ASSUME StoreInv, NEW i \in Inode, DeleteInode(i)
  PROVE  Kept
<1>1. tree' = Without(tree, i) /\ store' = Repoint(store, tree') /\ fh' = fh /\ job' = job /\ rename' = rename
  BY DEF DeleteInode
<1>2. DOMAIN tree' \subseteq DOMAIN tree /\ \A j \in DOMAIN tree' : tree'[j] = tree[j]
  BY <1>1 DEF Without
<1>3. DOMAIN tree' \subseteq Inode
      /\ \A j \in DOMAIN tree' : tree'[j] \in Content /\ store.blob[tree'[j]] # "absent"
  BY <1>2, FilesStored
<1> QED BY <1>1, <1>3, RepointKept

\* A file gets the blob that update was passed, if that is still there.
LEMMA UpdateKept ==
  ASSUME StoreInv, Update
  PROVE  Kept
<1>1. fh' = fh /\ job' = job /\ rename' = {}
  BY DEF Update
<1>2. PICK r \in rename :
        IF Updatable(r) THEN /\ tree' = With(tree, r.inode, r.blob)
                             /\ store' = Repoint(store, With(tree, r.inode, r.blob))
        ELSE UNCHANGED <<tree, store>>
  BY DEF Update
<1>3. r.inode \in Inode /\ r.blob \in Content
  BY DEF StoreInv
<1>4. CASE Updatable(r)
  <2>1. tree' = With(tree, r.inode, r.blob) /\ store' = Repoint(store, tree') /\ store.blob[r.blob] # "absent"
    BY <1>2, <1>4 DEF Updatable
  <2>2. DOMAIN tree' \subseteq Inode
        /\ \A j \in DOMAIN tree' : tree'[j] \in Content /\ store.blob[tree'[j]] # "absent"
    BY <1>3, <2>1, FilesStored DEF With
  <2> QED BY <1>1, <2>1, <2>2, RepointKept
<1>5. CASE ~Updatable(r)
  BY <1>1, <1>2, <1>5, BesideKept DEF StoreInv
<1> QED BY <1>4, <1>5

\* The store without the last job.
LEMMA ClearedSound ==
  ASSUME StoreInv
  PROVE  /\ Sound(Cleared(store), Others(fh, Idle))
         /\ \A b \in Values(tree) : Cleared(store).blob[b] # "absent"
         /\ \A X : Lean(store, X) => Lean(Cleared(store), X)
<1> DEFINE s == ReleaseSet(store, job.chunks)
           q == Others(fh, Idle)
           r == Others(fh, job)
<1>1. r \in [Chunk -> Nat] /\ q \in [Chunk -> Nat] /\ Sound(store, r)
  BY OthersType DEF StoreInv
<1>2. \A c \in Chunk : q[c] = r[c] - (IF c \in job.chunks THEN 1 ELSE 0)
  <2> TAKE c \in Chunk
  <2>1. Cardinality(Pinning(fh, c)) \in Nat
    BY PinningFinite DEF StoreInv
  <2> QED BY <2>1 DEF Others, Idle
<1>3. job.chunks \in Content /\ \A c \in job.chunks : r[c] > 0
  BY QueuedCounts DEF StoreInv, Queue
<1>4. Cleared(store) = CollectBlobs(s, Values(tree))
  BY DEF Cleared
<1> HIDE DEF q, r
<1>5. Sound(s, q) /\ s.blob = store.blob /\ \A X : Lean(store, X) => Lean(s, X)
  BY <1>1, <1>2, <1>3, ReleaseSetSound
<1>6. \A b \in Values(tree) : b \in Content /\ store.blob[b] # "absent"
  BY DEF StoreInv, Values
<1> HIDE DEF s
<1>7. /\ Sound(Cleared(store), q)
      /\ \A b \in Content : s.blob[b] # "absent" /\ b \in Values(tree) => Cleared(store).blob[b] # "absent"
      /\ \A X : Lean(s, X) => Lean(Cleared(store), X)
  BY <1>1, <1>4, <1>5, CollectBlobsSound
<1> QED BY <1>5, <1>6, <1>7 DEF q

\* The new queue holds what is local and referenced; nothing it takes was free.
LEMMA StartPushKept ==
  ASSUME StoreInv, StartPush
  PROVE  Kept
<1> DEFINE s == Cleared(store)
           C == {c \in Chunk : s.chunk[c] = "local" /\ s.count[c] > 0}
           B == {b \in Content : s.blob[b] = "local"}
<1>1. /\ store' = Refer(s, C) /\ job' = [blobs |-> B, chunks |-> C]
      /\ tree' = tree /\ fh' = fh /\ rename' = rename
  BY DEF StartPush
<1>2. /\ Sound(s, Others(fh, Idle)) /\ \A b \in Values(tree) : s.blob[b] # "absent"
      /\ \A X : Lean(store, X) => Lean(s, X)
  BY ClearedSound
<1>3. C \in Content /\ Present(s, C) /\ B \in SUBSET Content /\ \A b \in B : s.blob[b] # "absent"
  BY DEF Content, Present
<1> HIDE DEF s, C, B
<1>4. job' \in Queue /\ job'.blobs = B /\ job'.chunks = C
  BY <1>1, <1>3 DEF Queue
<1>5. Others(fh, Idle) \in [Chunk -> Nat]
  BY OthersType DEF StoreInv
<1>6. \A c \in Chunk : Others(fh, job')[c] = Others(fh, Idle)[c] + (IF c \in C THEN 1 ELSE 0)
  <2> TAKE c \in Chunk
  <2>1. Cardinality(Pinning(fh, c)) \in Nat
    BY PinningFinite DEF StoreInv
  <2> QED BY <1>4, <2>1 DEF Others, Idle
<1>7. /\ Sound(store', Others(fh, job')) /\ store'.blob = s.blob
      /\ \A X : Lean(s, X) => Lean(store', X \ C)
  BY <1>1, <1>2, <1>3, <1>5, <1>6, ReferSound
<1>8. ASSUME NEW X, Lean(store, X) PROVE Lean(store', X)
  <2>1. Lean(store', X \ C)
    BY <1>2, <1>7, <1>8
  <2> QED BY <2>1 DEF Lean
<1>9. \A b \in Values(tree') \cup job'.blobs : store'.blob[b] # "absent"
  BY <1>1, <1>2, <1>3, <1>4, <1>7
<1> QED BY <1>1, <1>4, <1>7, <1>8, <1>9, BesideKept DEF StoreInv

\* The end of a push task.
LEMMA EndPushKept ==
  ASSUME StoreInv, EndPush
  PROVE  Kept
<1>1. store' = Cleared(store) /\ job' = Idle /\ tree' = tree /\ fh' = fh /\ rename' = rename
  BY DEF EndPush
<1>2. Idle \in Queue /\ Idle.blobs = {}
  BY DEF Idle, Queue, Content
<1>3. \A b \in Values(tree') \cup job'.blobs : store'.blob[b] # "absent"
  BY <1>1, <1>2, ClearedSound
<1> QED BY <1>1, <1>2, <1>3, ClearedSound, BesideKept DEF StoreInv

\* An uploaded row keeps its references, the queue's goes.
LEMMA ProcessChunkKept ==
  ASSUME StoreInv, NEW c \in Chunk, ProcessChunk(c)
  PROVE  Kept
<1> DEFINE k == [store.chunk EXCEPT ![c] = "synced"]
           s == [store EXCEPT !.chunk = k]
           C == job.chunks \ {c}
           r == Others(fh, job)
<1>1. /\ c \in job.chunks /\ store' = ReleaseSet(s, {c}) /\ job' = [job EXCEPT !.chunks = C]
      /\ tree' = tree /\ fh' = fh /\ rename' = rename
  BY DEF ProcessChunk
<1>2. r \in [Chunk -> Nat] /\ Sound(store, r) /\ store \in Store /\ job \in Queue
  BY OthersType DEF StoreInv, Sound
<1>3. k \in [Chunk -> Mode] /\ k[c] = "synced" /\ \A d \in Chunk \ {c} : k[d] = store.chunk[d]
  BY <1>2 DEF Store, Mode
<1>4. s \in Store /\ s.chunk = k /\ s.count = store.count /\ s.blob = store.blob
  <2> HIDE DEF k
  <2> QED BY <1>2, <1>3 DEF Store
<1>5. \A d \in Chunk : Users(s, d) = Users(store, d)
  BY <1>4 DEF Users
<1> HIDE DEF s, k, r
<1>6. Sound(s, r)
  BY <1>2, <1>3, <1>4, <1>5 DEF Sound
<1>7. \A X : Lean(store, X) => Lean(s, X)
  BY <1>3, <1>4 DEF Lean
<1>8. job' \in Queue /\ job'.chunks = C /\ job'.blobs = job.blobs
  BY <1>1, <1>2 DEF Queue, Content
<1>9. \A d \in Chunk : Others(fh, job')[d] = r[d] - (IF d \in {c} THEN 1 ELSE 0)
  <2> TAKE d \in Chunk
  <2>1. Cardinality(Pinning(fh, d)) \in Nat
    BY PinningFinite DEF StoreInv
  <2> QED BY <1>1, <1>8, <2>1 DEF Others, r
<1>10. {c} \in Content /\ \A d \in {c} : r[d] > 0
  BY <1>1, QueuedCounts DEF Content, r
<1>11. /\ Sound(store', Others(fh, job')) /\ store'.blob = s.blob
       /\ \A X : Lean(s, X) => Lean(store', X)
  <2> DEFINE D == {c}
             q == Others(fh, job')
  <2>1. r \in [Chunk -> Nat] /\ store' = ReleaseSet(s, D) /\ D \in Content
    BY <1>1, <1>2, <1>10
  <2>2. (\A d \in D : r[d] > 0) /\ \A d \in Chunk : q[d] = r[d] - (IF d \in D THEN 1 ELSE 0)
    BY <1>9, <1>10
  <2> HIDE DEF C, D, q
  <2>3. Sound(ReleaseSet(s, D), q) /\ ReleaseSet(s, D).blob = s.blob
        /\ \A X : Lean(s, X) => Lean(ReleaseSet(s, D), X)
    BY <1>6, <2>1, <2>2, ReleaseSetSound
  <2> QED BY <2>1, <2>3 DEF q
<1>12. \A b \in Values(tree') \cup job'.blobs : store'.blob[b] # "absent"
  BY <1>1, <1>4, <1>8, <1>11 DEF StoreInv
<1> QED BY <1>1, <1>7, <1>8, <1>11, <1>12, BesideKept DEF StoreInv

\* An uploaded blob stays a blob.
LEMMA ProcessBlobKept ==
  ASSUME StoreInv, NEW b \in Content, ProcessBlob(b)
  PROVE  Kept
<1> DEFINE k == [store.blob EXCEPT ![b] = "synced"]
           s == [store EXCEPT !.blob = k]
           B == job.blobs \ {b}
           r == Others(fh, job)
<1>1. /\ b \in job.blobs /\ store' = s /\ job' = [job EXCEPT !.blobs = B]
      /\ tree' = tree /\ fh' = fh /\ rename' = rename
  BY DEF ProcessBlob
<1>2. r \in [Chunk -> Nat] /\ Sound(store, r) /\ store \in Store /\ job \in Queue /\ store.blob[b] # "absent"
  BY <1>1, OthersType DEF StoreInv, Sound
<1>3. k \in [Content -> Mode] /\ k[b] = "synced" /\ \A d \in Content \ {b} : k[d] = store.blob[d]
  BY <1>2 DEF Store, Mode
<1>4. s \in Store /\ s.chunk = store.chunk /\ s.count = store.count /\ s.blob = k
  <2> HIDE DEF k
  <2> QED BY <1>2, <1>3 DEF Store
<1>5. \A d : Users(s, d) = Users(store, d)
  BY <1>2, <1>3, <1>4 DEF Users
<1> HIDE DEF s, k, r
<1>6. Sound(s, r)
  BY <1>2, <1>3, <1>4, <1>5 DEF Sound
<1>7. \A X : Lean(store, X) => Lean(s, X)
  BY <1>3, <1>4 DEF Lean
<1>8. job' \in Queue /\ job'.chunks = job.chunks /\ job'.blobs = B
  BY <1>1, <1>2 DEF Queue, Content
<1>9. Others(fh, job') = r
  BY <1>8 DEF Others, r
<1>10. \A d \in Values(tree') \cup job'.blobs : d \in Content /\ store.blob[d] # "absent"
  BY <1>1, <1>8 DEF StoreInv, Values, Queue
<1>11. \A d \in Values(tree') \cup job'.blobs : store'.blob[d] # "absent"
  BY <1>1, <1>3, <1>4, <1>10
<1> QED BY <1>1, <1>6, <1>7, <1>8, <1>9, <1>11, BesideKept DEF StoreInv

\* Db::new: all pins go.
LEMMA RestartKept ==
  ASSUME StoreInv, Restart
  PROVE  Kept
<1> DEFINE n == [c \in Chunk |-> Cardinality(Pinning(fh, c))]
           r == Others(fh, job)
<1>1. /\ store' = Release(store, n) /\ fh' = Nothing /\ rename' = {} /\ tree' = tree /\ job' = job
  BY DEF Restart, Pinning
<1>2. r \in [Chunk -> Nat] /\ Sound(store, r)
  BY OthersType DEF StoreInv
<1>3. DOMAIN fh' = {}
  BY <1>1 DEF Nothing
<1>4. n \in [Chunk -> Nat]
  BY PinningFinite DEF StoreInv
<1>5. \A c \in Chunk : n[c] <= r[c] /\ Others(fh', job)[c] = r[c] - n[c]
  <2> TAKE c \in Chunk
  <2>1. Cardinality(Pinning(fh, c)) \in Nat
    BY PinningFinite DEF StoreInv
  <2>2. Pinning(fh', c) = {}
    BY <1>3 DEF Pinning
  <2>3. Cardinality(Pinning(fh', c)) = 0
    BY <2>2, FS_EmptySet
  <2> QED BY <2>1, <2>3 DEF Others
<1>6. Storing(fh) \subseteq GivenUp
  <2> SUFFICES ASSUME NEW c \in Storing(fh) PROVE c \in GivenUp
    OBVIOUS
  <2>1. PICK h \in DOMAIN fh : fh[h].phase = "storing" /\ c \in fh[h].storing
    BY DEF Storing
  <2>2. h \in Handle /\ c \in Chunk /\ Flushing(h, c)
    BY <2>1 DEF StoreInv, Shape, FileHandle, Content, Flushing, In
  <2> QED BY <1>3, <2>2 DEF GivenUp
<1> HIDE DEF n, r
<1>7. /\ Sound(store', Others(fh', job)) /\ store'.blob = store.blob
      /\ \A X : Lean(store, X) => Lean(store', X)
  BY <1>1, <1>2, <1>4, <1>5, ReleaseSound DEF Sound
<1>8. StoreInv'
  BY <1>1, <1>3, <1>7 DEF StoreInv
<1> QED BY <1>6, <1>7, <1>8, LeanKept

\* Every step keeps what it must.
LEMMA NextKept ==
  ASSUME StoreInv, [Next]_vars
  PROVE  Kept
<1>1. CASE UNCHANGED vars
  BY <1>1, BesideKept DEF vars, StoreInv
<1>2. CASE \E i \in Inode : ReadFile(i)
  <2>1. PICK i \in Inode : i \in DOMAIN tree /\ rename' = {[inode |-> i, blob |-> tree[i]]}
    BY <1>2 DEF ReadFile
  <2>2. UNCHANGED <<store, tree, fh, job>>
    BY <1>2 DEF ReadFile
  <2>3. rename' \subseteq [inode : Inode, blob : Content]
    BY <2>1, FilesStored
  <2> QED BY <2>2, <2>3, BesideKept DEF StoreInv
<1> QED BY <1>1, <1>2, HandleStepKept, CreateFileKept, DeleteInodeKept, UpdateKept, StartPushKept, EndPushKept,
           RestartKept, ProcessChunkKept, ProcessBlobKept DEF Next, VolumeStep

\* There are no rows and no references.
LEMMA InitKept == Init => StoreInv
<1> SUFFICES ASSUME Init PROVE StoreInv
  OBVIOUS
<1>1. /\ store = [chunk |-> [c \in Chunk |-> "absent"], count |-> [c \in Chunk |-> 0],
                  blob |-> [b \in Content |-> "absent"]]
      /\ DOMAIN tree = {} /\ DOMAIN fh = {} /\ job = Idle /\ rename = {}
  BY DEF Init, Nothing
<1>2. store \in Store
  BY <1>1 DEF Store, Mode
<1>3. ASSUME NEW c \in Chunk PROVE store.count[c] = Cardinality(Users(store, c)) + Others(fh, job)[c]
  <2>1. Users(store, c) = {} /\ Pinning(fh, c) = {} /\ c \notin job.chunks
    BY <1>1 DEF Users, Pinning, Idle
  <2>2. Cardinality({}) = 0
    BY FS_EmptySet
  <2>3. Others(fh, job)[c] = 0
    BY <2>1, <2>2 DEF Others
  <2>4. store.count[c] = 0
    BY <1>1
  <2> QED BY <2>1, <2>2, <2>3, <2>4
<1>4. Sound(store, Others(fh, job))
  BY <1>1, <1>2, <1>3 DEF Sound
<1>5. job \in Queue /\ Values(tree) \cup job.blobs = {}
  BY <1>1 DEF Queue, Idle, Values, Content
<1> QED BY <1>1, <1>4, <1>5 DEF StoreInv

-----------------------------------------------------------------------------
(* What follows. *)

\* The column ref_count, kept by triggers through every cascade, is the number
\* of rows that reference the chunk (migrations:555, 896, 1048).
THEOREM CountsAreExact == Spec => []RefCountExact
<1>1. Init => StoreInv
  BY InitKept
<1>2. StoreInv /\ [Next]_vars => StoreInv'
  BY NextKept DEF Kept
<1>3. StoreInv => RefCountExact
  <2> SUFFICES ASSUME StoreInv, NEW c \in Chunk
               PROVE  store.count[c] = Cardinality(Users(store, c))
                                         + Cardinality(Pinning(fh, c))
                                         + (IF c \in job.chunks THEN 1 ELSE 0)
    BY DEF RefCountExact, Users, Pinning
  <2>1. store.count[c] = Cardinality(Users(store, c)) + Others(fh, job)[c]
    BY DEF StoreInv, Sound
  <2>2. Others(fh, job)[c] = Cardinality(Pinning(fh, c)) + (IF c \in job.chunks THEN 1 ELSE 0)
    BY DEF Others
  <2>3. Cardinality(Users(store, c)) \in Nat /\ Cardinality(Pinning(fh, c)) \in Nat
    BY UsersFinite, PinningFinite DEF StoreInv
  <2> QED BY <2>1, <2>2, <2>3
<1> QED BY <1>1, <1>2, <1>3, PTL DEF Spec

\* Rows of blobs bring those of their chunks.
LEMMA BlobsAreWhole ==
  ASSUME StoreInv, NEW b \in Content, store.blob[b] # "absent"
  PROVE  Present(store, b)
BY UsersKeep, OthersType DEF StoreInv

\* Whatever is collected, no file loses anything (migrations:443, 522).
THEOREM FilesAreWhole == Spec => []ContentIsStored
<1>1. Init => StoreInv
  BY InitKept
<1>2. StoreInv /\ [Next]_vars => StoreInv'
  BY NextKept DEF Kept
<1>3. StoreInv => ContentIsStored
  BY FilesStored, BlobsAreWhole DEF ContentIsStored
<1> QED BY <1>1, <1>2, <1>3, PTL DEF Spec

\* What OnlyAbandonedChunksStay says of a step.
LeavesOnlyAbandoned ==
  \A c \in Chunk :
    ~Orphan(c) /\ Orphan(c)' =>
      \E h \in Handle : /\ Flushing(h, c)
                        /\ h \in DOMAIN fh' => fh'[h].phase = "dead"

\* Chunks without a flush that is about to pin them.
LEMMA FlushingIs ==
  ASSUME StoreInv, NEW c
  PROVE  (\A h \in Handle : ~Flushing(h, c)) <=> c \notin Storing(fh)
BY DEF StoreInv, Storing, Flushing, In

\* No transaction leaves a local chunk row that nobody refers to, or is about to, but a flush that is
\* dropped or dies between storing the chunk and pinning it (migrations:521, "Automatic GC of local
\* entries"; vfs/file.rs:393).
THEOREM CollectionIsComplete == Spec => OnlyAbandonedChunksStay
<1>1. Init => StoreInv
  BY InitKept
<1>2. StoreInv /\ [Next]_vars => StoreInv'
  BY NextKept DEF Kept
<1>3. StoreInv /\ [Next]_vars => LeavesOnlyAbandoned
  <2> SUFFICES ASSUME StoreInv, [Next]_vars, NEW c \in Chunk, ~Orphan(c), Orphan(c)'
               PROVE  c \in GivenUp
    BY DEF LeavesOnlyAbandoned, GivenUp
  <2> DEFINE Y == {d \in Chunk : Orphan(d)}
  <2>1. Kept
    BY NextKept
  <2>2. Lean(store, Storing(fh) \cup Y)
    <3> SUFFICES ASSUME NEW d \in Chunk, store.chunk[d] = "local", d \notin Storing(fh), ~(store.count[d] > 0)
                 PROVE  d \in Y
      BY DEF Lean
    <3>1. store.count[d] = 0
      BY DEF StoreInv, Sound, Store
    <3> QED BY <3>1, FlushingIs DEF Orphan
  <2>3. Lean(store', Storing(fh') \cup Y \cup GivenUp)
    BY <2>1, <2>2 DEF Kept
  <2>4. store'.chunk[c] = "local" /\ ~(store'.count[c] > 0) /\ c \notin Y
    BY DEF Orphan
  <2>5. c \notin Storing(fh')
    <3>1. StoreInv' /\ \A h \in Handle : ~Flushing(h, c)'
      BY <2>1 DEF Kept, Orphan
    <3> QED BY <3>1 DEF StoreInv, Storing, Flushing, In
  <2> QED BY <2>3, <2>4, <2>5 DEF Lean
<1>4. StoreInv /\ [Next]_vars => [LeavesOnlyAbandoned]_vars
  BY <1>3
<1> QED BY <1>1, <1>2, <1>4, PTL DEF Spec, OnlyAbandonedChunksStay, LeavesOnlyAbandoned

\* As long as Vfs::update does not run beside the writers, an open handle can
\* always fsync: what it did not store itself the inode it has locked holds,
\* what it did its pins (vfs/file.rs:391, 576).
THEOREM HandlesCanFsync ==
  ASSUME ~Renames
  PROVE  Spec => []HandleIsBacked
<1>1. Init => StoreInv /\ WriterInv
  BY InitKept, InitWriterInv
<1>2. StoreInv /\ WriterInv /\ [Next]_vars => (StoreInv /\ WriterInv)'
  BY NextKept, NextKeepsWriterInv DEF Kept
<1>3. StoreInv /\ WriterInv => HandleIsBacked
  <2> SUFFICES ASSUME StoreInv, WriterInv, NEW h \in DOMAIN fh, fh[h].phase \in {"open", "storing"}
               PROVE  Present(store, fh[h].map)
    BY DEF HandleIsBacked
  <2>1. fh[h].inode \in DOMAIN tree /\ tree[fh[h].inode] = fh[h].file
    BY DEF WriterInv, NobodyElseWrites
  <2>2. Present(store, fh[h].file)
    BY <2>1, FilesStored, BlobsAreWhole
  <2>3. Present(store, fh[h].pins)
    <3>1. fh[h].pins \in Content
      BY DEF StoreInv, Shape, FileHandle
    <3> QED BY <3>1, PinnedCounts, OthersKeep
  <2> QED BY <2>2, <2>3 DEF Present, StoreInv, Shape
<1> QED BY <1>1, <1>2, <1>3, PTL DEF Spec
=============================================================================
