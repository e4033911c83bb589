------------------------------ MODULE MCBlobIo ------------------------------
(***************************************************************************)
(* Files of a few bytes: a handle that writes in chunks of two, long       *)
(* enough for a write to span two buffers, for a chunk before, at and      *)
(* after the one written, and for a short last chunk; and a chunk map      *)
(* alone, driven by every sequence of inserts, removals and length         *)
(* changes next to the plain array of bytes it stands for.  A behaviour is *)
(* one of either part, with the other at rest.                             *)
(***************************************************************************)
EXTENDS BlobIo

CONSTANTS
  Part,     \* the parts to run, of {"handle", "table"}
  Id,       \* chunk ids
  TableLen, \* longest file of the map alone
  MaxOff    \* largest offset into a chunk

ASSUME TableBounds == TableLen \in Nat /\ MaxOff \in Nat

VARIABLES part, table, bytes

Hole == "hole"

Pos == 0 .. TableLen

InsertStep(p, n, id, off) ==
  /\ table' = Insert(table, p, n, id, off)
  /\ bytes' = [q \in DOMAIN bytes |->
                 IF p <= q /\ q < p + n THEN <<id, off + (q - p)>> ELSE bytes[q]]

RemoveStep(p, n) ==
  /\ table' = Remove(table, p, n)
  /\ bytes' = [q \in DOMAIN bytes |-> IF p <= q /\ q < p + n THEN Hole ELSE bytes[q]]

SetLenStep(n) ==
  /\ table' = SetLen(table, n)
  /\ bytes' = [q \in 0 .. n - 1 |-> IF q \in DOMAIN bytes THEN bytes[q] ELSE Hole]

FilesInit ==
  /\ BlobInit
  /\ part \in Part /\ table = WithLen(0) /\ bytes = [p \in {} |-> Hole]

HandleNext == part = "handle" /\ BlobNext /\ UNCHANGED <<part, table, bytes>>

TableNext ==
  /\ part = "table"
  /\ \/ \E p \in Pos, n \in Pos, id \in Id, off \in 0 .. MaxOff : InsertStep(p, n, id, off)
     \/ \E p \in Pos, n \in Pos : RemoveStep(p, n)
     \/ \E n \in Pos : SetLenStep(n)
  /\ UNCHANGED <<blobVars, part>>

FilesSpec == FilesInit /\ [][HandleNext \/ TableNext]_<<blobVars, part, table, bytes>>

\* The map never gives a byte to two chunks or to the wrong place of one:
\* get(p) answers what a plain array that went through the same operations
\* holds at p, and promises no more bytes than really follow
\* (chunk_map.rs:116).
GetReadsTheArray ==
  \A p \in DOMAIN bytes :
    LET g == Get(table, p)
    IN  /\ g.len >= 1 /\ p + g.len <= table.len
        /\ \A k \in 0 .. g.len - 1 :
             bytes[p + k] = IF g.kind = "hole" THEN Hole ELSE <<g.id, g.off + k>>

\* The invariant the code states of its entries (chunk_map.rs:34): they do not
\* overlap, stay inside the file, and no two neighbours could be one entry.
\* Blob ids are hashes of the entries, so equal files get equal ids only if
\* the entries are coalesced.
Canonical ==
  \A x \in table.entries :
    /\ x.start < x.end /\ x.end <= table.len
    /\ \A y \in table.entries : x # y => (~Overlaps(x, y.start, y.end) /\ ~Continues(x, y))
=============================================================================
