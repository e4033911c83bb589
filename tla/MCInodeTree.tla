----------------------------- MODULE MCInodeTree -----------------------------
(* The configurations of InodeTree have the root, two directories and a file. *)
EXTENDS InodeTree
=============================================================================
