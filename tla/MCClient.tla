------------------------------ MODULE MCClient ------------------------------
(***************************************************************************)
(* A client beside the volume it serves: the inodes, the chunks and the    *)
(* metadata it caches, and the commands it is.  The four share no state,   *)
(* so a behaviour is one of either part, with the others at rest.          *)
(*                                                                         *)
(* Inodes: a request that looks up in a directory and a file in it, and    *)
(* two transactions that may move or remove them.                          *)
(* Chunks: two readers of an object of two full chunks and a short last    *)
(* one, so that a kept download can be right or wrong for the chunk wanted *)
(* next, and one reader can wait for what the other fetches.  Metadata: an *)
(* update and a delete, or two updates, under three starts of two releases.*)
(* Commands: three processes on a volume that is there and one that may be *)
(* created, so that two can overlap and a third come after both.           *)
(***************************************************************************)
EXTENDS InodeCaches, ChunkedReader, ObjectCaches, Commands

CONSTANTS Part,  \* the parts to run, of {"inodes", "chunks", "metadata", "commands"}
          root, dir1, file1, a, b

MCDirs == {root, dir1}
MCFiles == {file1}
MCNames == {a, b}
MCWanted == {<<root, b>>, <<dir1, a>>, <<file1, a>>}

\* A directory and a file in it.
MCFirstTree == root :> [path |-> <<>>, ver |-> 0] @@ dir1 :> [path |-> <<a>>, ver |-> 0]
               @@ file1 :> [path |-> <<a, a>>, ver |-> 0]

VARIABLE part

ClientInit ==
  /\ CachesInit /\ Init /\ ObjectsInit /\ CommandsInit
  /\ part \in Part
  /\ part # "metadata" => ~process.backed /\ process.release = CHOOSE r \in Release : TRUE
  /\ part # "commands" => ~feeds

InodesNext == part = "inodes" /\ CachesNext /\ UNCHANGED <<vars, cacheVars, commandVars, part>>

ChunksNext == part = "chunks" /\ Next /\ UNCHANGED <<entryVars, cacheVars, commandVars, part>>

MetadataNext == part = "metadata" /\ ObjectsNext /\ UNCHANGED <<entryVars, vars, commandVars, part>>

ProcessesNext == part = "commands" /\ CommandsNext /\ UNCHANGED <<entryVars, vars, cacheVars, part>>

ClientNext == InodesNext \/ ChunksNext \/ MetadataNext \/ ProcessesNext

ClientSpec == ClientInit /\ [][ClientNext]_<<entryVars, vars, cacheVars, commandVars, part>>
=============================================================================
