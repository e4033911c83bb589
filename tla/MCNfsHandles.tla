---------------------------- MODULE MCNfsHandles ----------------------------
(* Two requests at a time on two files and three handles, of which two are open or being opened:
   a holder and a waiter, or a waiter and one that purges. *)
EXTENDS NfsHandles
=============================================================================
