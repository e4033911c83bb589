------------------------------ MODULE Commands ------------------------------
(***************************************************************************)
(* The commands of the program (janus-fs/src/main.rs), each a process of   *)
(* its own: it lists the remote when it starts, asks, looks at what it     *)
(* knows of the remote by then, and changes it.  A volume's config is      *)
(* replaced as a whole; the newest counts.                                 *)
(*                                                                         *)
(* Branches and tags are heads alike.  All heads of a volume name one      *)
(* commit, for no command makes another; what a mounted volume pushes is   *)
(* left to Sync.  Times are the ticks of one clock.                        *)
(***************************************************************************)
EXTENDS Naturals, FiniteSets

CONSTANTS
  Command,   \* processes, each started once
  Volume, HeadName,
  Existing,  \* a volume that is there
  Main,      \* the branch a volume is created with
  MaxTorn    \* bound: listings that break off

ASSUME CommandsAssumption == Existing \in Volume /\ Main \in HeadName /\ MaxTorn \in Nat

VARIABLES
  feeds,     \* does the backend tell of changes (indexd)?
  store,     \* the objects on the remote
  clock,
  command,   \* command[c]: how far it is
  heads,     \* what the changes made to each volume come to
  raced,     \* volumes changed by somebody who did not know all
  torn       \* number of listings that have broken off

commandVars == <<feeds, store, clock, command, heads, raced, torn>>

----------------------------------------------------------------------------
(* Objects. *)

Config(v, H, t) == [kind |-> "config", volume |-> v, heads |-> H, time |-> t]

\* The first commit and its directory.
RootCommit(v) == [kind |-> "commit", volume |-> v]

Configs(K, v) == {o \in K : o.kind = "config" /\ o.volume = v}

\* Vfs::scan: the config of a volume, if any, by a listing of K.
Newest(K, v) == {k \in Configs(K, v) : \A x \in Configs(K, v) : x.time <= k.time}

\* Mutant of Deletable: the config and what it names; older configs stay.
DeletableNewest(K, v) == Newest(K, v) \cup (K \cap {RootCommit(v)})

\* delete_fs: all that says it is the volume's.
Deletable(K, v) == {o \in K : o.volume = v}

----------------------------------------------------------------------------
(* A process. *)

\* The arguments; a create_volume has no use for them, a scan looks at all volumes.
Request ==
  [op : {"create_head", "delete_head", "serve"}, volume : Volume, head : HeadName]
  \cup [op : {"delete_volume"}, volume : Volume, head : {Main}]
  \cup [op : {"create_volume", "scan"}, volume : {Existing}, head : {Main}]

NotStarted == [phase |-> "off"]

CommandsInit ==
  /\ feeds \in BOOLEAN
  /\ store = {Config(Existing, {Main}, 0), RootCommit(Existing)}
  /\ clock = 0
  /\ command = [c \in Command |-> NotStarted]
  /\ heads = [v \in {Existing} |-> {Main}]
  /\ raced = {} /\ torn = 0

In(c, phase) == command[c].phase = phase

\* remote_storage: connected, and all listed.
Knowing(r) ==
  [phase |-> IF r.op \in {"create_head", "delete_head", "create_volume"} THEN "ask" ELSE "look",
   args |-> r, known |-> store, behind |-> FALSE, broken |-> FALSE, make |-> {}, todo |-> {}, gone |-> 0]

\* main
StartCommand(c) ==
  /\ command[c] = NotStarted
  /\ \E r \in Request : command' = [command EXCEPT ![c] = Knowing(r)]
  /\ UNCHANGED <<feeds, store, clock, heads, raced, torn>>

Serving == [phase |-> "serving"]

\* Done, aborted or failed.
Over == [phase |-> "over"]

Ends(c) == command' = [command EXCEPT ![c] = Over]

\* build_backend: no key, no endpoint, no bucket; or the listing fails.
Unconnected(c) ==
  /\ command[c] = NotStarted /\ Ends(c)
  /\ UNCHANGED <<feeds, store, clock, heads, raced, torn>>

Runs(c) == command[c].phase \notin {"off", "serving", "over", "deleted"}

To(c, phase) == command' = [command EXCEPT ![c].phase = phase]

\* The event loop; an iteration over what is known may or may not come by what is new.
Hear(c) ==
  /\ feeds /\ Runs(c) /\ command[c].known # store
  /\ \E T \in {{}, Deletable(store \ command[c].known, command[c].args.volume)} :
       command' = [command EXCEPT ![c].known = store,
                                  ![c].behind = IF command[c].phase \in {"look", "ask", "yes"} THEN FALSE ELSE @,
                                  ![c].todo = IF In(c, "delete") THEN (@ \cap store) \cup T ELSE @]
  /\ UNCHANGED <<feeds, store, clock, heads, raced, torn>>

\* A listing of what is known: L, all of it, unless it breaks off, which nobody is told.
Listed(c, L) ==
  \/ L = command[c].known /\ UNCHANGED torn
  \/ torn < MaxTorn /\ torn' = torn + 1 /\ L \in SUBSET command[c].known

\* Every config listed is loaded; one that is gone cannot be, unless it is in a cache.
Loads(L) == {o \in L : o.kind = "config"} \subseteq store

----------------------------------------------------------------------------
(* Commands that only look: scan, and serve, which opens a head's commit. *)

\* The configs that are found, or an error if one found cannot be loaded.
Scan(c) ==
  /\ In(c, "look") /\ command[c].args.op = "scan"
  /\ Ends(c)
  /\ UNCHANGED <<feeds, store, clock, heads, raced, torn>>

\* JanusNfs::new: the first pull has to find the head in the config, and what it names.
Opens(K, r) == RootCommit(r.volume) \in K /\ \E k \in Newest(K, r.volume) : r.head \in k.heads

ServeNfs(c) ==
  /\ In(c, "look") /\ command[c].args.op = "serve"
  /\ \/ Opens(command[c].known, command[c].args) /\ command' = [command EXCEPT ![c] = Serving]
     \/ Ends(c)
  /\ UNCHANGED <<feeds, store, clock, heads, raced, torn>>

\* SIGINT or SIGTERM
Signal(c) ==
  /\ command[c] = Serving /\ Ends(c)
  /\ UNCHANGED <<feeds, store, clock, heads, raced, torn>>

----------------------------------------------------------------------------
(* Commands that ask. *)

\* delete_volume shows the config first, or says that there is none; or fails to load one.
ShowVolume(c) ==
  /\ In(c, "look") /\ command[c].args.op = "delete_volume"
  /\ To(c, "ask") \/ Ends(c)
  /\ UNCHANGED <<feeds, store, clock, heads, raced, torn>>

\* ask_confirmation; what is neither yes nor no is asked again.
Answer(c) ==
  /\ In(c, "ask") /\ (To(c, "yes") \/ Ends(c))
  /\ UNCHANGED <<feeds, store, clock, heads, raced, torn>>

\* Everybody else has something to hear.
Behind(f, c) == [d \in Command |-> IF d # c /\ "behind" \in DOMAIN f[d] THEN [f[d] EXCEPT !.behind = TRUE]
                                   ELSE f[d]]

Changer(c, op) == In(c, "yes") /\ command[c].args.op = op

\* The config of the volume with the head, whose commit has to be that of another.
WithHead(k, h) ==
  IF h \in k.heads \/ k.heads = {} THEN {} ELSE {Config(k.volume, k.heads \cup {h}, clock + 1)}

\* Mutant of WithoutHead: it keeps its time.
WithoutHeadThen(k, h) ==
  IF h \notin k.heads THEN {} ELSE {Config(k.volume, k.heads \ {h}, k.time)}

WithoutHead(k, h) ==
  IF h \notin k.heads THEN {} ELSE {Config(k.volume, k.heads \ {h}, clock + 1)}

Remade(k, r) == IF r.op = "create_head" THEN WithHead(k, r.head) ELSE WithoutHead(k, r.head)

\* The volume is scanned for now, and its new config made of what is found.
Prepare(c) ==
  \E L \in SUBSET command[c].known :
    /\ Listed(c, L)
    /\ LET made == UNION {Remade(k, command[c].args) : k \in Newest(L, command[c].args.volume)}
       IN  \/ /\ made # {}
              /\ clock' = clock + 1
              /\ command' = [command EXCEPT ![c].phase = "upload", ![c].make = made,
                                            ![c].broken = @ \/ L # command[c].known]
           \/ (made = {} \/ ~Loads(L)) /\ Ends(c) /\ UNCHANGED clock
    /\ UNCHANGED <<feeds, store, heads, raced>>

CreateHead(c) == Changer(c, "create_head") /\ Prepare(c)

DeleteHead(c) == Changer(c, "delete_head") /\ Prepare(c)

\* create_new: a volume nobody has, its config made first and uploaded last.
CreateVolume(c) ==
  /\ Changer(c, "create_volume")
  /\ \E v \in Volume \ DOMAIN heads :
       /\ store' = store \cup {RootCommit(v)}
       /\ heads' = [x \in DOMAIN heads \cup {v} |-> IF x = v THEN {} ELSE heads[x]]
       /\ command' = [Behind(command, c) EXCEPT ![c].phase = "upload", ![c].make = {Config(v, {Main}, clock + 1)},
                                                ![c].known = @ \cup {RootCommit(v)}]
  /\ clock' = clock + 1
  /\ UNCHANGED <<feeds, raced, torn>>

\* What a change makes of a volume's heads.
Changed(r, H) ==
  CASE r.op = "create_head"   -> H \cup {r.head}
    [] r.op = "delete_head"   -> H \ {r.head}
    [] r.op = "create_volume" -> {Main}

\* The config arrives; whether the command is told is another matter.
Upload(c) ==
  /\ In(c, "upload")
  /\ \E k \in command[c].make :
       /\ store' = store \cup {k}
       /\ heads' = [heads EXCEPT ![k.volume] = Changed(command[c].args, @)]
       /\ raced' = IF command[c].behind \/ command[c].broken THEN raced \cup {k.volume} ELSE raced
       /\ \/ command' = [Behind(command, c) EXCEPT ![c] = Over]
          \/ /\ command[c].args.op = "create_volume"
             /\ command' = [Behind(command, c) EXCEPT ![c].phase = "show", ![c].known = @ \cup {k}]
  /\ UNCHANGED <<feeds, clock, torn>>

UploadFails(c) ==
  /\ In(c, "upload") /\ Ends(c)
  /\ UNCHANGED <<feeds, store, clock, heads, raced, torn>>

\* The new volume is looked for and shown; if it is not found, that is an error.
ShowCreated(c) ==
  /\ In(c, "show") /\ Ends(c)
  /\ UNCHANGED <<feeds, store, clock, heads, raced, torn>>

----------------------------------------------------------------------------
(* delete_fs *)

DeleteVolume(c) ==
  /\ Changer(c, "delete_volume")
  /\ raced' = raced \cup {command[c].args.volume}
  /\ command' = [command EXCEPT ![c].phase = "delete", ![c].todo = Deletable(command[c].known, command[c].args.volume)]
  /\ UNCHANGED <<feeds, store, clock, heads, torn>>

DeleteObject(c) ==
  /\ In(c, "delete")
  /\ \E o \in command[c].todo :
       \/ /\ o \in store
          /\ store' = store \ {o}
          /\ command' = [Behind(command, c) EXCEPT ![c].todo = @ \ {o}, ![c].known = @ \ {o}, ![c].gone = 1]
       \* Gone already, or the backend's error.
       \/ Ends(c) /\ UNCHANGED store
  /\ UNCHANGED <<feeds, clock, heads, raced, torn>>

\* At the end of the listing, or where it breaks off.
EndDelete(c) ==
  /\ In(c, "delete")
  /\ \/ command[c].todo = {} /\ UNCHANGED torn
     \/ command[c].todo # {} /\ torn < MaxTorn /\ torn' = torn + 1
  /\ IF command[c].gone = 0 THEN Ends(c)
     ELSE command' = [command EXCEPT ![c] = [phase |-> "deleted", volume |-> @.args.volume, behind |-> @.behind,
                                             all |-> @.todo = {}]]
  /\ UNCHANGED <<feeds, store, clock, heads, raced>>

----------------------------------------------------------------------------

CommandsNext ==
  \E c \in Command :
    \/ StartCommand(c) \/ Unconnected(c) \/ Hear(c) \/ Scan(c) \/ ServeNfs(c) \/ Signal(c) \/ ShowVolume(c) \/ Answer(c)
    \/ CreateHead(c) \/ DeleteHead(c) \/ CreateVolume(c) \/ Upload(c) \/ UploadFails(c) \/ ShowCreated(c)
    \/ DeleteVolume(c) \/ DeleteObject(c) \/ EndDelete(c)

CommandsSpec == CommandsInit /\ [][CommandsNext]_commandVars

----------------------------------------------------------------------------
(* Properties. *)

\* Commands that know of each other come to what each was to do: as long as whoever changed a
\* volume had heard of the changes before his, and no listing had broken off, the config that
\* counts has every head created and not deleted, and no other (config.rs:921).
ChangesAddUp ==
  \A v \in DOMAIN heads \ raced :
    /\ \A k \in Newest(store, v) : k.heads = heads[v]
    /\ heads[v] # {} => Configs(store, v) # {}

\* A volume reported as deleted has left nothing behind, but for what others have brought
\* meanwhile and what a listing that broke off has hidden (delete.rs:40).
DeletedIsGone ==
  \A c \in Command :
    (In(c, "deleted") /\ ~command[c].behind /\ command[c].all) => Deletable(store, command[c].volume) = {}
=============================================================================
