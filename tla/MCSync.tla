------------------------------- MODULE MCSync -------------------------------
(***************************************************************************)
(* Two replicas of one branch, and room for another head.                  *)
(***************************************************************************)
EXTENDS Sync

CONSTANTS a, b, main, dev

SameBranch == [r \in Replica |-> main]

=============================================================================
