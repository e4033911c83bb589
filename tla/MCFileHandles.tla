--------------------------- MODULE MCFileHandles ---------------------------
(***************************************************************************)
(* Two handles, two inodes and two chunks: enough for two files to share a *)
(* chunk, for a chunk of one to be collected while the other stores it,    *)
(* and for a reaped handle's pins to be a writer's.                        *)
(***************************************************************************)
EXTENDS FileHandles, TLC

Symmetry == Permutations(Handle) \cup Permutations(Inode) \cup Permutations(Chunk)
=============================================================================
