------------------------------ MODULE BackingFile ------------------------------
(***************************************************************************)
(* The file behind the channel of a tracked run (fspy_shm and the paths of *)
(* fspy_shared::ipc::channel), from the run that makes it, through the     *)
(* processes that open it by its path from directories of their own, to    *)
(* its removal, on Unix and on Windows.  What is in it is ShmChannel's.    *)
(*                                                                         *)
(* The bytes of a file are known by the run that made it.  The temporary   *)
(* directory is given by an absolute path, a relative one, or one that is  *)
(* as long as Windows takes only in its verbatim form.                     *)
(***************************************************************************)
EXTENDS Integers, FiniteSets

CONSTANTS
  None,
  Channels,    \* the tracked runs
  Processes,   \* tracked processes
  Folders,     \* working directories
  Capacity     \* the size of a channel

VARIABLES
  system,      \* "unix" or "windows"
  tmpdir,      \* "absolute", "relative" or "long"
  where,       \* [Channels \cup Processes -> Folders]
  channel,     \* [Channels -> [state, path]]
  names,       \* [paths, resolved -> None or the channel whose bytes are there]
  bytes,       \* [Channels -> [size, sparse, gate]]; gate: "open", "sealed" or "dropped"
  attached,    \* [Processes -> [state, channel, bytes, size]]
  stuck        \* channels whose file could not be removed, or whose run was killed

backingVars == <<system, tmpdir, where, channel, names, bytes, attached, stuck>>

(* Mutant: temp_dir as it is.                                              *)
PathAsGiven(c) == [from |-> IF tmpdir = "relative" THEN None ELSE "/", of |-> c, verbatim |-> FALSE]

(* shm_backing_path: an absolute path with a name that nobody has had; a   *)
(* long one is verbatim.                                                   *)
BackingPath(c) ==
  [from |-> IF tmpdir = "relative" THEN where[c] ELSE "/", of |-> c,
   verbatim |-> system = "windows" /\ tmpdir = "long"]

(* What the system takes a path for: it is not found when it is too long.  *)
Resolve(path, folder) ==
  IF system = "windows" /\ tmpdir = "long" /\ ~path.verbatim THEN None
  ELSE <<IF path.from = None THEN folder ELSE path.from, path.of>>

Found(path, folder) ==
  LET at == Resolve(path, folder) IN IF at = None THEN None ELSE names[at]

BackingInit ==
  /\ system \in {"unix", "windows"}
  /\ tmpdir \in {"absolute", "relative", "long"}
  /\ where \in [Channels \cup Processes -> Folders]
  /\ channel = [c \in Channels |-> [state |-> "new", path |-> None]]
  /\ names = [p \in (Folders \cup {"/"}) \X Channels |-> None]
  /\ bytes = [c \in Channels |-> [size |-> 0, sparse |-> FALSE, gate |-> "open"]]
  /\ attached = [p \in Processes |-> [state |-> "none", channel |-> None, bytes |-> None, size |-> 0]]
  /\ stuck = {}

fixed == UNCHANGED <<system, tmpdir, where>>

State(c, s) == channel' = [channel EXCEPT ![c].state = s]

Named(c) == Resolve(channel[c].path, where[c])

-----------------------------------------------------------------------------
(* channel(): the run makes the file, sizes it and maps it.                *)

ChoosePath(c) ==
  /\ channel[c].state = "new"
  /\ channel' = [channel EXCEPT ![c] = [state |-> "path", path |-> BackingPath(c)]]
  /\ fixed /\ UNCHANGED <<names, bytes, attached, stuck>>

CreateFile(c) ==
  /\ channel[c].state = "path"
  /\ Named(c) # None
  /\ names[Named(c)] = None
  /\ names' = [names EXCEPT ![Named(c)] = c]
  /\ State(c, "made")
  /\ fixed /\ UNCHANGED <<bytes, attached, stuck>>

CreateFails(c) ==
  /\ channel[c].state = "path"
  /\ State(c, "failed")
  /\ fixed /\ UNCHANGED <<names, bytes, attached, stuck>>

SetSparse(c) ==
  /\ system = "windows" /\ channel[c].state = "made" /\ ~bytes[c].sparse
  /\ bytes' = [bytes EXCEPT ![c].sparse = TRUE]
  /\ fixed /\ UNCHANGED <<channel, names, attached, stuck>>

(* Mutant: the size before the file is sparse.                             *)
SetEndOfFileFirst(c) ==
  /\ system = "windows" /\ channel[c].state = "made"
  /\ bytes' = [bytes EXCEPT ![c].size = Capacity]
  /\ State(c, "sized")
  /\ fixed /\ UNCHANGED <<names, attached, stuck>>

SetEndOfFile(c) ==
  /\ system = "windows" /\ channel[c].state = "made" /\ bytes[c].sparse
  /\ bytes' = [bytes EXCEPT ![c].size = Capacity]
  /\ State(c, "sized")
  /\ fixed /\ UNCHANGED <<names, attached, stuck>>

(* A file of holes is sparse by itself.                                    *)
Truncate(c) ==
  /\ system = "unix" /\ channel[c].state = "made"
  /\ bytes' = [bytes EXCEPT ![c].size = Capacity, ![c].sparse = TRUE]
  /\ State(c, "sized")
  /\ fixed /\ UNCHANGED <<names, attached, stuck>>

(* The name goes, or it does not, and nobody is told.                      *)
Unnamed(c) ==
  \/ names' = [names EXCEPT ![Named(c)] = None] /\ UNCHANGED stuck
  \/ stuck' = stuck \cup {c} /\ UNCHANGED names

(* Mutant: the error alone is returned.                                    *)
SizeFailsLeft(c) ==
  /\ channel[c].state = "made"
  /\ State(c, "failed")
  /\ fixed /\ UNCHANGED <<names, bytes, attached, stuck>>

(* "Do not hand the caller an unusable partial file to clean up."          *)
SizeFails(c) ==
  /\ channel[c].state = "made"
  /\ State(c, "failed") /\ Unnamed(c)
  /\ fixed /\ UNCHANGED <<bytes, attached>>

MapOwn(c) ==
  /\ channel[c].state = "sized"
  /\ State(c, "open")
  /\ fixed /\ UNCHANGED <<names, bytes, attached, stuck>>

(* The mapping is refused or has no room, and the keeper is dropped.       *)
MapOwnFails(c) ==
  /\ channel[c].state = "sized"
  /\ State(c, "failed") /\ Unnamed(c)
  /\ fixed /\ UNCHANGED <<bytes, attached>>

-----------------------------------------------------------------------------
(* Receiver::close, that seals what is mapped before the keeper goes; or   *)
(* the receiver is dropped; or its run is killed.                          *)

Leave(c, gate) ==
  /\ channel[c].state = "open"
  /\ State(c, "shut")
  /\ bytes' = [bytes EXCEPT ![c].gate = gate]
  /\ fixed /\ UNCHANGED <<names, attached, stuck>>

(* Mutant: the name goes first.                                            *)
SealLast(c) ==
  /\ channel[c].state = "open" /\ names[Named(c)] # None
  /\ names' = [names EXCEPT ![Named(c)] = None]
  /\ fixed /\ UNCHANGED <<channel, bytes, attached, stuck>>

Seal(c) == Leave(c, "sealed")
DropReceiver(c) == Leave(c, "dropped")

RemoveFile(c) ==
  /\ system = "unix" /\ channel[c].state = "shut"
  /\ Unnamed(c)
  /\ State(c, "closed")
  /\ fixed /\ UNCHANGED <<bytes, attached>>

(* Opened to be deleted; the name goes as the handle is closed, whoever    *)
(* has the file open or mapped.                                            *)
MarkDeleted(c) ==
  /\ system = "windows" /\ channel[c].state = "shut"
  /\ State(c, "marked")
  /\ fixed /\ UNCHANGED <<names, bytes, attached, stuck>>

CloseDeleted(c) ==
  /\ channel[c].state = "marked"
  /\ Unnamed(c)
  /\ State(c, "closed")
  /\ fixed /\ UNCHANGED <<bytes, attached>>

Kill(c) ==
  /\ channel[c].state \notin {"new", "failed", "closed", "killed"}
  /\ State(c, "killed")
  /\ stuck' = stuck \cup {c}
  /\ fixed /\ UNCHANGED <<names, bytes, attached>>

-----------------------------------------------------------------------------
(* ChannelConf::sender, in a process that was given the path.              *)

Stands(p, s) == attached[p].state = s

OpenFile(p, c) ==
  /\ Stands(p, "none") /\ channel[c].state \in {"open", "shut", "marked", "closed", "killed"}
  /\ channel[c].path # None /\ bytes[c].size = Capacity
  /\ LET found == Found(channel[c].path, where[p]) IN
     attached' = [attached EXCEPT ![p] =
       IF found = None
         THEN [state |-> "over", channel |-> c, bytes |-> None, size |-> 0]
         ELSE [state |-> "opened", channel |-> c, bytes |-> found, size |-> bytes[found].size]]
  /\ fixed /\ UNCHANGED <<channel, names, bytes, stuck>>

(* Any other error, here or of the mapping, stops the process.             *)
OpenRefused(p, c) ==
  /\ Stands(p, "none") /\ channel[c].state = "open"
  /\ attached' = [attached EXCEPT ![p].state = "stopped", ![p].channel = c]
  /\ fixed /\ UNCHANGED <<channel, names, bytes, stuck>>

Map(p) ==
  /\ Stands(p, "opened")
  /\ attached' = [attached EXCEPT ![p].state = IF attached[p].size = 0 THEN "stopped" ELSE "mapped"]
  /\ fixed /\ UNCHANGED <<channel, names, bytes, stuck>>

CheckClosed(p) ==
  /\ Stands(p, "mapped")
  /\ attached' = [attached EXCEPT ![p].state = IF bytes[attached[p].bytes].gate = "sealed" THEN "over" ELSE "sends"]
  /\ fixed /\ UNCHANGED <<channel, names, bytes, stuck>>

BackingNext ==
  \/ \E c \in Channels :
       \/ ChoosePath(c) \/ CreateFile(c) \/ CreateFails(c)
       \/ SetSparse(c) \/ SetEndOfFile(c) \/ Truncate(c) \/ SizeFails(c)
       \/ MapOwn(c) \/ MapOwnFails(c)
       \/ Seal(c) \/ DropReceiver(c) \/ RemoveFile(c) \/ MarkDeleted(c) \/ CloseDeleted(c) \/ Kill(c)
       \/ \E p \in Processes : OpenFile(p, c) \/ OpenRefused(p, c)
  \/ \E p \in Processes : Map(p) \/ CheckClosed(p)

BackingSpec == BackingInit /\ [][BackingNext]_backingVars

-----------------------------------------------------------------------------
(* A process takes a channel for over only when its run reads no more of   *)
(* it, from whatever directory it looks, and otherwise has all of the      *)
(* bytes that the run reads, before and after they lost their name; a file takes no more of   *)
(* the disk than is written to it; and unless its run was killed or the    *)
(* system would not remove it, none is left.                               *)
FoundByAll ==
  /\ \A p \in Processes :
       /\ Stands(p, "over") => \/ bytes[attached[p].channel].gate # "open"
                               \/ channel[attached[p].channel].state = "killed"
       /\ Stands(p, "sends") => attached[p].bytes = attached[p].channel /\ attached[p].size = Capacity
  /\ \A c \in Channels :
       /\ bytes[c].size > 0 => bytes[c].sparse
       /\ channel[c].state \in {"closed", "failed"} /\ c \notin stuck =>
            \A f \in Folders \cup {"/"} : names[<<f, c>>] = None
=============================================================================
