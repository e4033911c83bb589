------------------------------ MODULE ByteFile ------------------------------
(***************************************************************************)
(* What a file that is open for writing promises: an array of bytes.  A    *)
(* write replaces bytes in place or extends the file, a gap it leaves      *)
(* behind reads as zero; set_len cuts the file or extends it with zeroes.  *)
(***************************************************************************)
EXTENDS Integers, Sequences

VARIABLE content    \* the bytes of the file

Zero == 0

Zeroes(n) == [k \in 1 .. n |-> Zero]

\* content with the bytes d at offset p
Overwrite(c, p, d) ==
  LET longer == IF Len(c) < p + Len(d) THEN c \o Zeroes(p + Len(d) - Len(c)) ELSE c
  IN  [k \in DOMAIN longer |->
         IF p < k /\ k <= p + Len(d) THEN d[k - p] ELSE longer[k]]

Resize(c, n) ==
  IF n <= Len(c) THEN SubSeq(c, 1, n) ELSE c \o Zeroes(n - Len(c))

Write(p, d) == content' = Overwrite(content, p, d)

SetLen(n) == content' = Resize(content, n)
=============================================================================
