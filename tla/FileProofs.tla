------------------------------ MODULE FileProofs ------------------------------
(***************************************************************************)
(* Proofs about the files that runs share with each other and with the     *)
(* processes they track, and about how tracking reaches those processes. *)
(*                                                                         *)
(* BackingFile, for any number of channels, processes and directories:     *)
(* whoever was given a channel's path finds the bytes that its run reads,  *)
(* or a channel that is over, and no name is left behind.                  *)
(*                                                                         *)
(* Artifacts, for any number of runs, users and files to lay down: what a  *)
(* run has materialized is whole, is its own user's, and can be executed   *)
(* if it must be.                                                          *)
(*                                                                         *)
(* ExecTracking, for any disk, programs, PATH and environments: whatever   *)
(* the processes of a task run on Unix is tracked.                         *)
(***************************************************************************)
EXTENDS BackingFile, Artifacts, ExecTracking, SequenceTheorems, TLAPS

-----------------------------------------------------------------------------
(* BackingFile.                                                            *)

(* What the proofs need of the constants: None is neither a channel, nor a *)
(* directory, nor a place, "/" is a directory, and a channel has room.     *)
BackingConstants ==
  /\ None \notin Channels /\ None \notin Folders /\ None # "/"
  /\ None \notin (Folders \cup {"/"}) \X Channels
  /\ Capacity \in Nat \ {0}

(* Where a channel's file is, for whoever asks.                            *)
Home(c) == <<IF tmpdir = "relative" THEN where[c] ELSE "/", c>>

(* A run that has come past its size; one that has its name.               *)
Sized == {"sized", "open", "shut", "marked", "closed"}
Holding == {"made", "sized", "open"}

RunStates == {"new", "path", "made", "sized", "open", "shut", "marked", "closed", "failed",
              "killed"}
RunPaths == {None} \cup [from : Folders \cup {"/"}, of : Channels, verbatim : BOOLEAN]
Holds == {"none", "opened", "mapped", "sends", "over", "stopped"}
Sizes == {0, Capacity}
Gates == {"open", "sealed", "dropped"}

BackingTypeOK ==
  /\ system \in {"unix", "windows"}
  /\ tmpdir \in {"absolute", "relative", "long"}
  /\ where \in [Channels \cup Processes -> Folders]
  /\ channel \in [Channels -> [state : RunStates, path : RunPaths]]
  /\ names \in [(Folders \cup {"/"}) \X Channels -> Channels \cup {None}]
  /\ bytes \in [Channels -> [size : Sizes, sparse : BOOLEAN, gate : Gates]]
  /\ attached \in [Processes -> [state : Holds, channel : Channels \cup {None},
                                 bytes : Channels \cup {None}, size : Sizes]]

(* A path is absolute, and a name leads to the file of the run that chose  *)
(* it, at its home and nowhere else, from its making to its removal.       *)
Placed(c) ==
  /\ channel[c].path = IF channel[c].state = "new" THEN None ELSE BackingPath(c)
  /\ \A f \in Folders \cup {"/"} :
       names[<<f, c>>] # None => names[<<f, c>>] = c /\ <<f, c>> = Home(c)
  /\ channel[c].state \in Holding => names[Home(c)] = c
  /\ channel[c].state \in {"new", "path"} => names[Home(c)] = None
  /\ channel[c].state \in {"closed", "failed"} /\ c \notin stuck => names[Home(c)] = None

(* The size is there once it is set, and the gate is closed before anybody *)
(* takes the name away.                                                    *)
Filled(c) ==
  /\ bytes[c].size > 0 => bytes[c].sparse
  /\ channel[c].state \in Sized => bytes[c].size = Capacity
  /\ channel[c].state \in {"shut", "marked", "closed"} => bytes[c].gate # "open"

(* What a process has opened is what it was given.                         *)
Reached(p) ==
  /\ attached[p].state \in {"opened", "mapped", "sends"} =>
       /\ attached[p].channel \in Channels
       /\ attached[p].bytes = attached[p].channel
       /\ attached[p].size = Capacity
       /\ bytes[attached[p].channel].size = Capacity
  /\ attached[p].state = "over" =>
       /\ attached[p].channel \in Channels
       /\ \/ bytes[attached[p].channel].gate # "open"
          \/ channel[attached[p].channel].state = "killed"

BackingIInv ==
  /\ BackingTypeOK
  /\ \A c \in Channels : Placed(c) /\ Filled(c)
  /\ \A p \in Processes : Reached(p)

-----------------------------------------------------------------------------
(* The path a run chose leads to one place from every directory.           *)
LEMMA HomeOfPath ==
  ASSUME BackingConstants, BackingTypeOK, NEW c \in Channels, NEW folder
  PROVE  Resolve(BackingPath(c), folder) = Home(c)
<1>1. where[c] \in Folders /\ where[c] # None /\ "/" # None
  BY DEF BackingConstants, BackingTypeOK
<1>2. PICK path : path = BackingPath(c)
  OBVIOUS
<1>3. /\ path.from = IF tmpdir = "relative" THEN where[c] ELSE "/"
      /\ path.of = c /\ path.verbatim = (system = "windows" /\ tmpdir = "long")
  BY <1>2 DEF BackingPath
<1>4. Resolve(path, folder) = Home(c)
  BY <1>1, <1>3 DEF Resolve, Home
<1> QED BY <1>2, <1>4

LEMMA HomeIsPlace ==
  ASSUME BackingTypeOK, NEW c \in Channels
  PROVE  /\ Home(c) \in (Folders \cup {"/"}) \X Channels
         /\ \E f \in Folders \cup {"/"} : Home(c) = <<f, c>>
BY DEF BackingTypeOK, Home
(* A run finds its own file from its own directory.                        *)
LEMMA NamedPlace ==
  ASSUME BackingConstants, BackingIInv, NEW c \in Channels, channel[c].state # "new"
  PROVE  /\ Named(c) = Home(c)
         /\ Named(c) \in (Folders \cup {"/"}) \X Channels
         /\ Named(c) # None
<1>1. channel[c].path = BackingPath(c)
  BY DEF BackingIInv, Placed
<1>2. Named(c) = Home(c)
  BY <1>1, HomeOfPath DEF Named, BackingIInv
<1> QED BY <1>2, HomeIsPlace DEF BackingIInv, BackingConstants

(* What a run's state, its file's bytes and a process's hold turn into.    *)
LEMMA StateSet ==
  ASSUME BackingTypeOK, NEW c \in Channels, NEW s \in RunStates, State(c, s)
  PROVE  /\ channel' \in [Channels -> [state : RunStates, path : RunPaths]]
         /\ channel'[c].state = s /\ channel'[c].path = channel[c].path
         /\ \A d \in Channels : channel'[d].path = channel[d].path
         /\ \A d \in Channels \ {c} : channel'[d] = channel[d]
BY DEF BackingTypeOK, State

LEMMA GateSet ==
  ASSUME BackingTypeOK, NEW c \in Channels, NEW g \in Gates,
         bytes' = [bytes EXCEPT ![c].gate = g]
  PROVE  /\ bytes' \in [Channels -> [size : Sizes, sparse : BOOLEAN, gate : Gates]]
         /\ bytes'[c].gate = g
         /\ \A d \in Channels : bytes'[d].size = bytes[d].size /\ bytes'[d].sparse = bytes[d].sparse
         /\ \A d \in Channels \ {c} : bytes'[d] = bytes[d]
BY DEF BackingTypeOK

LEMMA HoldSet ==
  ASSUME BackingTypeOK, NEW p \in Processes, NEW s \in Holds,
         attached' = [attached EXCEPT ![p].state = s]
  PROVE  /\ attached' \in [Processes -> [state : Holds, channel : Channels \cup {None},
                                         bytes : Channels \cup {None}, size : Sizes]]
         /\ attached'[p] = [attached[p] EXCEPT !.state = s]
         /\ \A q \in Processes \ {p} : attached'[q] = attached[q]
BY DEF BackingTypeOK

LEMMA NameGone ==
  ASSUME BackingTypeOK, NEW at \in (Folders \cup {"/"}) \X Channels,
         names' = [names EXCEPT ![at] = None]
  PROVE  names' \in [(Folders \cup {"/"}) \X Channels -> Channels \cup {None}]
BY DEF BackingTypeOK

(* A run that loses its file's name, or does not.                          *)
LEMMA UnnamedTypes ==
  ASSUME BackingConstants, BackingIInv, NEW c \in Channels, channel[c].state # "new", Unnamed(c)
  PROVE  names' \in [(Folders \cup {"/"}) \X Channels -> Channels \cup {None}]
<1>1. Named(c) \in (Folders \cup {"/"}) \X Channels
  BY NamedPlace
<1>2. CASE names' = [names EXCEPT ![Named(c)] = None]
  BY <1>1, <1>2, NameGone DEF BackingIInv
<1>3. CASE UNCHANGED names
  BY <1>3 DEF BackingIInv, BackingTypeOK
<1> QED BY <1>2, <1>3 DEF Unnamed

(* Every step keeps the types.                                             *)
LEMMA BackingTypeStep ==
  ASSUME BackingConstants, BackingIInv, [BackingNext]_backingVars
  PROVE  BackingTypeOK'
<1> SUFFICES ASSUME BackingTypeOK
             PROVE  BackingTypeOK'
  BY DEF BackingIInv
<1>1. ASSUME NEW c \in Channels, ChoosePath(c) PROVE BackingTypeOK'
  <2>1. channel' \in [Channels -> [state : RunStates, path : RunPaths]]
    <3>1. BackingPath(c) \in RunPaths
      BY DEF BackingPath, RunPaths, BackingTypeOK
    <3>2. channel' = [channel EXCEPT ![c] = [state |-> "path", path |-> BackingPath(c)]]
      BY <1>1 DEF ChoosePath
    <3>3. "path" \in RunStates
      BY DEF RunStates
    <3> QED BY <3>1, <3>2, <3>3 DEF BackingTypeOK
  <2>2. names' \in [(Folders \cup {"/"}) \X Channels -> Channels \cup {None}]
    BY <1>1 DEF ChoosePath, BackingTypeOK
  <2>3. bytes' \in [Channels -> [size : Sizes, sparse : BOOLEAN, gate : Gates]]
    BY <1>1 DEF ChoosePath, BackingTypeOK
  <2> QED BY <1>1, <2>1, <2>2, <2>3 DEF ChoosePath, fixed, BackingTypeOK
<1>2. ASSUME NEW c \in Channels, CreateFile(c) PROVE BackingTypeOK'
  <2>1. channel' \in [Channels -> [state : RunStates, path : RunPaths]]
    <3>1. State(c, "made") /\ "made" \in RunStates
      BY <1>2 DEF CreateFile, RunStates
    <3> QED BY <3>1, StateSet
  <2>2. names' \in [(Folders \cup {"/"}) \X Channels -> Channels \cup {None}]
    BY <1>2 DEF CreateFile, BackingTypeOK
  <2>3. bytes' \in [Channels -> [size : Sizes, sparse : BOOLEAN, gate : Gates]]
    BY <1>2 DEF CreateFile, BackingTypeOK
  <2> QED BY <1>2, <2>1, <2>2, <2>3 DEF CreateFile, fixed, BackingTypeOK
<1>3. ASSUME NEW c \in Channels, CreateFails(c) PROVE BackingTypeOK'
  <2>1. channel' \in [Channels -> [state : RunStates, path : RunPaths]]
    <3>1. State(c, "failed") /\ "failed" \in RunStates
      BY <1>3 DEF CreateFails, RunStates
    <3> QED BY <3>1, StateSet
  <2>2. names' \in [(Folders \cup {"/"}) \X Channels -> Channels \cup {None}]
    BY <1>3 DEF CreateFails, BackingTypeOK
  <2>3. bytes' \in [Channels -> [size : Sizes, sparse : BOOLEAN, gate : Gates]]
    BY <1>3 DEF CreateFails, BackingTypeOK
  <2> QED BY <1>3, <2>1, <2>2, <2>3 DEF CreateFails, fixed, BackingTypeOK
<1>4. ASSUME NEW c \in Channels, SetSparse(c) PROVE BackingTypeOK'
  <2>1. channel' \in [Channels -> [state : RunStates, path : RunPaths]]
    BY <1>4 DEF SetSparse, BackingTypeOK
  <2>2. names' \in [(Folders \cup {"/"}) \X Channels -> Channels \cup {None}]
    BY <1>4 DEF SetSparse, BackingTypeOK
  <2>3. bytes' \in [Channels -> [size : Sizes, sparse : BOOLEAN, gate : Gates]]
    BY <1>4 DEF SetSparse, BackingTypeOK
  <2> QED BY <1>4, <2>1, <2>2, <2>3 DEF SetSparse, fixed, BackingTypeOK
<1>5. ASSUME NEW c \in Channels, SetEndOfFile(c) PROVE BackingTypeOK'
  <2>1. channel' \in [Channels -> [state : RunStates, path : RunPaths]]
    <3>1. State(c, "sized") /\ "sized" \in RunStates
      BY <1>5 DEF SetEndOfFile, RunStates
    <3> QED BY <3>1, StateSet
  <2>2. names' \in [(Folders \cup {"/"}) \X Channels -> Channels \cup {None}]
    BY <1>5 DEF SetEndOfFile, BackingTypeOK
  <2>3. bytes' \in [Channels -> [size : Sizes, sparse : BOOLEAN, gate : Gates]]
    BY <1>5 DEF SetEndOfFile, BackingTypeOK, Sizes
  <2> QED BY <1>5, <2>1, <2>2, <2>3 DEF SetEndOfFile, fixed, BackingTypeOK
<1>6. ASSUME NEW c \in Channels, Truncate(c) PROVE BackingTypeOK'
  <2>1. channel' \in [Channels -> [state : RunStates, path : RunPaths]]
    <3>1. State(c, "sized") /\ "sized" \in RunStates
      BY <1>6 DEF Truncate, RunStates
    <3> QED BY <3>1, StateSet
  <2>2. names' \in [(Folders \cup {"/"}) \X Channels -> Channels \cup {None}]
    BY <1>6 DEF Truncate, BackingTypeOK
  <2>3. bytes' \in [Channels -> [size : Sizes, sparse : BOOLEAN, gate : Gates]]
    BY <1>6, ZenonT(40) DEF Truncate, BackingTypeOK, Sizes
  <2> QED BY <1>6, <2>1, <2>2, <2>3 DEF Truncate, fixed, BackingTypeOK
<1>7. ASSUME NEW c \in Channels, SizeFails(c) PROVE BackingTypeOK'
  <2>1. channel' \in [Channels -> [state : RunStates, path : RunPaths]]
    <3>1. State(c, "failed") /\ "failed" \in RunStates
      BY <1>7 DEF SizeFails, RunStates
    <3> QED BY <3>1, StateSet
  <2>2. names' \in [(Folders \cup {"/"}) \X Channels -> Channels \cup {None}]
    BY <1>7, UnnamedTypes DEF SizeFails
  <2>3. bytes' \in [Channels -> [size : Sizes, sparse : BOOLEAN, gate : Gates]]
    BY <1>7 DEF SizeFails, BackingTypeOK
  <2> QED BY <1>7, <2>1, <2>2, <2>3 DEF SizeFails, fixed, BackingTypeOK
<1>8. ASSUME NEW c \in Channels, MapOwn(c) PROVE BackingTypeOK'
  <2>1. channel' \in [Channels -> [state : RunStates, path : RunPaths]]
    <3>1. State(c, "open") /\ "open" \in RunStates
      BY <1>8 DEF MapOwn, RunStates
    <3> QED BY <3>1, StateSet
  <2>2. names' \in [(Folders \cup {"/"}) \X Channels -> Channels \cup {None}]
    BY <1>8 DEF MapOwn, BackingTypeOK
  <2>3. bytes' \in [Channels -> [size : Sizes, sparse : BOOLEAN, gate : Gates]]
    BY <1>8 DEF MapOwn, BackingTypeOK
  <2> QED BY <1>8, <2>1, <2>2, <2>3 DEF MapOwn, fixed, BackingTypeOK
<1>9. ASSUME NEW c \in Channels, MapOwnFails(c) PROVE BackingTypeOK'
  <2>1. channel' \in [Channels -> [state : RunStates, path : RunPaths]]
    <3>1. State(c, "failed") /\ "failed" \in RunStates
      BY <1>9 DEF MapOwnFails, RunStates
    <3> QED BY <3>1, StateSet
  <2>2. names' \in [(Folders \cup {"/"}) \X Channels -> Channels \cup {None}]
    BY <1>9, UnnamedTypes DEF MapOwnFails
  <2>3. bytes' \in [Channels -> [size : Sizes, sparse : BOOLEAN, gate : Gates]]
    BY <1>9 DEF MapOwnFails, BackingTypeOK
  <2> QED BY <1>9, <2>1, <2>2, <2>3 DEF MapOwnFails, fixed, BackingTypeOK
<1>10. ASSUME NEW c \in Channels, Seal(c) PROVE BackingTypeOK'
  <2>1. channel' \in [Channels -> [state : RunStates, path : RunPaths]]
    <3>1. State(c, "shut") /\ "shut" \in RunStates
      BY <1>10 DEF Seal, Leave, RunStates
    <3> QED BY <3>1, StateSet
  <2>2. names' \in [(Folders \cup {"/"}) \X Channels -> Channels \cup {None}]
    BY <1>10 DEF Seal, Leave, BackingTypeOK
  <2>3. bytes' \in [Channels -> [size : Sizes, sparse : BOOLEAN, gate : Gates]]
    <3>1. bytes' = [bytes EXCEPT ![c].gate = "sealed"] /\ "sealed" \in Gates
      BY <1>10 DEF Seal, Leave, Gates
    <3> QED BY <3>1, GateSet
  <2> QED BY <1>10, <2>1, <2>2, <2>3 DEF Seal, Leave, fixed, BackingTypeOK
<1>11. ASSUME NEW c \in Channels, DropReceiver(c) PROVE BackingTypeOK'
  <2>1. channel' \in [Channels -> [state : RunStates, path : RunPaths]]
    <3>1. State(c, "shut") /\ "shut" \in RunStates
      BY <1>11 DEF DropReceiver, Leave, RunStates
    <3> QED BY <3>1, StateSet
  <2>2. names' \in [(Folders \cup {"/"}) \X Channels -> Channels \cup {None}]
    BY <1>11 DEF DropReceiver, Leave, BackingTypeOK
  <2>3. bytes' \in [Channels -> [size : Sizes, sparse : BOOLEAN, gate : Gates]]
    <3>1. bytes' = [bytes EXCEPT ![c].gate = "dropped"] /\ "dropped" \in Gates
      BY <1>11 DEF DropReceiver, Leave, Gates
    <3> QED BY <3>1, GateSet
  <2> QED BY <1>11, <2>1, <2>2, <2>3 DEF DropReceiver, Leave, fixed, BackingTypeOK
<1>12. ASSUME NEW c \in Channels, RemoveFile(c) PROVE BackingTypeOK'
  <2>1. channel' \in [Channels -> [state : RunStates, path : RunPaths]]
    <3>1. State(c, "closed") /\ "closed" \in RunStates
      BY <1>12 DEF RemoveFile, RunStates
    <3> QED BY <3>1, StateSet
  <2>2. names' \in [(Folders \cup {"/"}) \X Channels -> Channels \cup {None}]
    BY <1>12, UnnamedTypes DEF RemoveFile
  <2>3. bytes' \in [Channels -> [size : Sizes, sparse : BOOLEAN, gate : Gates]]
    BY <1>12 DEF RemoveFile, BackingTypeOK
  <2> QED BY <1>12, <2>1, <2>2, <2>3 DEF RemoveFile, fixed, BackingTypeOK
<1>13. ASSUME NEW c \in Channels, MarkDeleted(c) PROVE BackingTypeOK'
  <2>1. channel' \in [Channels -> [state : RunStates, path : RunPaths]]
    <3>1. State(c, "marked") /\ "marked" \in RunStates
      BY <1>13 DEF MarkDeleted, RunStates
    <3> QED BY <3>1, StateSet
  <2>2. names' \in [(Folders \cup {"/"}) \X Channels -> Channels \cup {None}]
    BY <1>13 DEF MarkDeleted, BackingTypeOK
  <2>3. bytes' \in [Channels -> [size : Sizes, sparse : BOOLEAN, gate : Gates]]
    BY <1>13 DEF MarkDeleted, BackingTypeOK
  <2> QED BY <1>13, <2>1, <2>2, <2>3 DEF MarkDeleted, fixed, BackingTypeOK
<1>14. ASSUME NEW c \in Channels, CloseDeleted(c) PROVE BackingTypeOK'
  <2>1. channel' \in [Channels -> [state : RunStates, path : RunPaths]]
    <3>1. State(c, "closed") /\ "closed" \in RunStates
      BY <1>14 DEF CloseDeleted, RunStates
    <3> QED BY <3>1, StateSet
  <2>2. names' \in [(Folders \cup {"/"}) \X Channels -> Channels \cup {None}]
    BY <1>14, UnnamedTypes DEF CloseDeleted
  <2>3. bytes' \in [Channels -> [size : Sizes, sparse : BOOLEAN, gate : Gates]]
    BY <1>14 DEF CloseDeleted, BackingTypeOK
  <2> QED BY <1>14, <2>1, <2>2, <2>3 DEF CloseDeleted, fixed, BackingTypeOK
<1>15. ASSUME NEW c \in Channels, Kill(c) PROVE BackingTypeOK'
  <2>1. channel' \in [Channels -> [state : RunStates, path : RunPaths]]
    <3>1. State(c, "killed") /\ "killed" \in RunStates
      BY <1>15 DEF Kill, RunStates
    <3> QED BY <3>1, StateSet
  <2>2. names' \in [(Folders \cup {"/"}) \X Channels -> Channels \cup {None}]
    BY <1>15 DEF Kill, BackingTypeOK
  <2>3. bytes' \in [Channels -> [size : Sizes, sparse : BOOLEAN, gate : Gates]]
    BY <1>15 DEF Kill, BackingTypeOK
  <2> QED BY <1>15, <2>1, <2>2, <2>3 DEF Kill, fixed, BackingTypeOK
<1>16. ASSUME NEW c \in Channels, NEW p \in Processes, OpenFile(p, c) PROVE BackingTypeOK'
  <2>1. PICK found : found = Found(channel[c].path, where[p])
    OBVIOUS
  <2>2. channel[c].path = BackingPath(c)
    BY <1>16 DEF OpenFile, BackingIInv, Placed
  <2>3. found = names[Home(c)] /\ Home(c) # None
    BY <2>1, <2>2, HomeOfPath, HomeIsPlace DEF Found, BackingConstants
  <2>4. found \in Channels \cup {None}
    BY <2>3, HomeIsPlace DEF BackingTypeOK
  <2>5. found # None => bytes[found].size \in Sizes
    BY <2>4 DEF BackingTypeOK
  <2>6. attached' = [attached EXCEPT ![p] =
          IF found = None
            THEN [state |-> "over", channel |-> c, bytes |-> None, size |-> 0]
            ELSE [state |-> "opened", channel |-> c, bytes |-> found, size |-> bytes[found].size]]
    BY <1>16, <2>1 DEF OpenFile
  <2>7. attached' \in [Processes -> [state : Holds, channel : Channels \cup {None},
                                    bytes : Channels \cup {None}, size : Sizes]]
    BY <2>4, <2>5, <2>6 DEF BackingTypeOK, Holds, Sizes
  <2> QED BY <1>16, <2>7 DEF OpenFile, fixed, BackingTypeOK
<1>17. ASSUME NEW c \in Channels, NEW p \in Processes, OpenRefused(p, c) PROVE BackingTypeOK'
  BY <1>17, ZenonT(40) DEF OpenRefused, fixed, BackingTypeOK, Holds
<1>18. ASSUME NEW p \in Processes, Map(p) PROVE BackingTypeOK'
  <2>1. PICK s \in Holds : attached' = [attached EXCEPT ![p].state = s]
    BY <1>18 DEF Map, Holds
  <2> QED BY <1>18, <2>1, HoldSet DEF Map, fixed, BackingTypeOK
<1>19. ASSUME NEW p \in Processes, CheckClosed(p) PROVE BackingTypeOK'
  <2>1. PICK s \in Holds : attached' = [attached EXCEPT ![p].state = s]
    BY <1>19 DEF CheckClosed, Holds
  <2> QED BY <1>19, <2>1, HoldSet DEF CheckClosed, fixed, BackingTypeOK
<1>20. CASE UNCHANGED backingVars
  BY <1>20 DEF backingVars, BackingTypeOK
<1> QED BY <1>1, <1>2, <1>3, <1>4, <1>5, <1>6, <1>7, <1>8, <1>9, <1>10, <1>11, <1>12, <1>13, <1>14, <1>15, <1>16, <1>17, <1>18, <1>19, <1>20 DEF BackingNext
(* What a step leaves alone.                                               *)
LEMMA PlacedKept ==
  ASSUME NEW d \in Channels, Placed(d), fixed, channel'[d] = channel[d],
         \A f \in Folders \cup {"/"} : names'[<<f, d>>] = names[<<f, d>>],
         Home(d) \in (Folders \cup {"/"}) \X Channels,
         d \in stuck => d \in stuck'
  PROVE  Placed(d)'
<1>1. Home(d)' = Home(d) /\ BackingPath(d)' = BackingPath(d)
  BY DEF fixed, Home, BackingPath
<1>2. names'[Home(d)] = names[Home(d)]
  BY DEF Home
<1> QED BY <1>1, <1>2 DEF Placed

LEMMA FilledKept ==
  ASSUME NEW d \in Channels, Filled(d), channel'[d] = channel[d], bytes'[d] = bytes[d]
  PROVE  Filled(d)'
BY DEF Filled

LEMMA ReachedKept ==
  ASSUME NEW p \in Processes, Reached(p), attached'[p] = attached[p],
         \A c \in Channels : /\ bytes[c].size = Capacity => bytes'[c].size = Capacity
                             /\ bytes[c].gate # "open" => bytes'[c].gate # "open"
                             /\ channel[c].state = "killed" => channel'[c].state = "killed"
  PROVE  Reached(p)'
BY DEF Reached

(* A run whose file's name is taken away or is stuck is as it should be,   *)
(* in whatever state it has come to.                                       *)
LEMMA UnnamedPlaces ==
  ASSUME BackingConstants, BackingIInv, NEW c \in Channels, channel[c].state # "new", Unnamed(c),
         NEW s \in {"closed", "failed"}, State(c, s), fixed
  PROVE  \A d \in Channels : Placed(d)'
<1> SUFFICES ASSUME NEW d \in Channels PROVE Placed(d)'
  OBVIOUS
<1>1. Named(c) = Home(c) /\ Home(c) \in (Folders \cup {"/"}) \X Channels
  BY NamedPlace
<1>2. Home(d) \in (Folders \cup {"/"}) \X Channels
  BY HomeIsPlace DEF BackingIInv
<1>3. Placed(d) /\ Placed(c) /\ BackingTypeOK
  BY DEF BackingIInv
<1>4. s \in RunStates
  BY DEF RunStates
<1>5. /\ channel'[c].state = s /\ channel'[c].path = channel[c].path
      /\ \A e \in Channels \ {c} : channel'[e] = channel[e]
  BY <1>3, <1>4, StateSet
<1>6. CASE d # c
  <2>1. \A f \in Folders \cup {"/"} : names'[<<f, d>>] = names[<<f, d>>]
    <3> SUFFICES ASSUME NEW f \in Folders \cup {"/"} PROVE names'[<<f, d>>] = names[<<f, d>>]
      OBVIOUS
    <3>1. <<f, d>> # Home(c)
      BY <1>6 DEF Home
    <3> QED BY <1>1, <1>3, <3>1 DEF Unnamed, BackingTypeOK
  <2>2. d \in stuck => d \in stuck'
    BY DEF Unnamed
  <2> QED BY <1>2, <1>3, <1>5, <1>6, <2>1, <2>2, PlacedKept
<1>7. CASE d = c
  <2>1. Home(c)' = Home(c) /\ BackingPath(c)' = BackingPath(c)
    BY DEF fixed, Home, BackingPath
  <2>2. \A at \in (Folders \cup {"/"}) \X Channels : names'[at] = names[at] \/ names'[at] = None
    BY <1>1, <1>3 DEF Unnamed, BackingTypeOK
  <2>3. \A f \in Folders \cup {"/"} :
          names'[<<f, c>>] # None => names'[<<f, c>>] = c /\ <<f, c>> = Home(c)
    BY <1>3, <2>2 DEF Placed
  <2>4. c \notin stuck' => names'[Home(c)] = None
    BY <1>1, <1>3 DEF Unnamed, BackingTypeOK
  <2>5. channel[c].path = BackingPath(c)
    BY <1>3 DEF Placed
  <2> QED BY <1>5, <1>7, <2>1, <2>3, <2>4, <2>5 DEF Placed, Holding
<1> QED BY <1>6, <1>7

(* A run that goes on with its file where it is.                           *)
LEMMA StatePlaces ==
  ASSUME BackingConstants, BackingIInv, NEW c \in Channels, channel[c].state # "new",
         NEW s \in RunStates \ {"new", "path"}, State(c, s), fixed, names' = names,
         \A d \in stuck : d \in stuck',
         s \in Holding => channel[c].state \in Holding,
         s \in {"closed", "failed"} => channel[c].state = "path"
  PROVE  \A d \in Channels : Placed(d)'
<1> SUFFICES ASSUME NEW d \in Channels PROVE Placed(d)'
  OBVIOUS
<1>2. Home(d) \in (Folders \cup {"/"}) \X Channels
  BY HomeIsPlace DEF BackingIInv
<1>3. Placed(d) /\ Placed(c) /\ BackingTypeOK
  BY DEF BackingIInv
<1>5. /\ channel'[c].state = s /\ channel'[c].path = channel[c].path
      /\ \A e \in Channels \ {c} : channel'[e] = channel[e]
  BY <1>3, StateSet
<1>6. CASE d # c
  BY <1>2, <1>3, <1>5, <1>6, PlacedKept
<1>7. CASE d = c
  <2>1. Home(c)' = Home(c) /\ BackingPath(c)' = BackingPath(c)
    BY DEF fixed, Home, BackingPath
  <2> QED BY <1>3, <1>5, <1>7, <2>1 DEF Placed
<1> QED BY <1>6, <1>7

(* Every step keeps a file where it belongs.                               *)
LEMMA PlacedStep ==
  ASSUME BackingConstants, BackingIInv, [BackingNext]_backingVars
  PROVE  \A d \in Channels : Placed(d)'
<1> USE DEF RunStates, Holding
<1>0. ASSUME fixed, channel' = channel, names' = names, stuck' = stuck
      PROVE  \A d \in Channels : Placed(d)'
  <2>1. \A d \in Channels : Placed(d) /\ Home(d) \in (Folders \cup {"/"}) \X Channels
    BY HomeIsPlace DEF BackingIInv
  <2> QED BY <1>0, <2>1, PlacedKept
<1>1. ASSUME NEW c \in Channels, ChoosePath(c) PROVE \A d \in Channels : Placed(d)'
  <2> SUFFICES ASSUME NEW d \in Channels PROVE Placed(d)'
    OBVIOUS
  <2>1. Placed(d) /\ BackingTypeOK /\ Home(d) \in (Folders \cup {"/"}) \X Channels
    BY HomeIsPlace DEF BackingIInv
  <2>2. CASE d # c
    BY <1>1, <2>1, <2>2, PlacedKept DEF ChoosePath, BackingTypeOK
  <2>3. CASE d = c
    <3>1. Home(c)' = Home(c) /\ BackingPath(c)' = BackingPath(c)
      BY <1>1 DEF ChoosePath, fixed, Home, BackingPath
    <3>2. PICK path : path = BackingPath(c)
      OBVIOUS
    <3>3. channel'[c].state = "path" /\ channel'[c].path = path
      BY <1>1, <2>1, <3>2 DEF ChoosePath, BackingTypeOK
    <3>4. names' = names /\ stuck' = stuck /\ channel[c].state = "new"
      BY <1>1 DEF ChoosePath
    <3> QED BY <2>1, <2>3, <3>1, <3>2, <3>3, <3>4 DEF Placed
  <2> QED BY <2>2, <2>3
<1>2. ASSUME NEW c \in Channels, CreateFile(c) PROVE \A d \in Channels : Placed(d)'
  <2> SUFFICES ASSUME NEW d \in Channels PROVE Placed(d)'
    OBVIOUS
  <2>1. Placed(d) /\ Placed(c) /\ BackingTypeOK /\ Home(d) \in (Folders \cup {"/"}) \X Channels
    BY HomeIsPlace DEF BackingIInv
  <2>2. Named(c) = Home(c) /\ Home(c) \in (Folders \cup {"/"}) \X Channels
    BY <1>2, NamedPlace DEF CreateFile
  <2>3. /\ channel'[c].state = "made" /\ channel'[c].path = channel[c].path
        /\ \A e \in Channels \ {c} : channel'[e] = channel[e]
    BY <1>2, <2>1, StateSet DEF CreateFile
  <2>4. names' = [names EXCEPT ![Home(c)] = c] /\ stuck' = stuck /\ fixed
    BY <1>2, <2>2 DEF CreateFile
  <2>5. CASE d # c
    <3>1. \A f \in Folders \cup {"/"} : names'[<<f, d>>] = names[<<f, d>>]
      <4> SUFFICES ASSUME NEW f \in Folders \cup {"/"} PROVE names'[<<f, d>>] = names[<<f, d>>]
        OBVIOUS
      <4>1. <<f, d>> # Home(c)
        BY <2>5 DEF Home
      <4> QED BY <2>1, <2>4, <4>1 DEF BackingTypeOK
    <3> QED BY <2>1, <2>3, <2>4, <2>5, <3>1, PlacedKept
  <2>6. CASE d = c
    <3>1. Home(c)' = Home(c) /\ BackingPath(c)' = BackingPath(c)
      BY <2>4 DEF fixed, Home, BackingPath
    <3>2. names'[Home(c)] = c
      BY <2>1, <2>2, <2>4 DEF BackingTypeOK
    <3>3. \A f \in Folders \cup {"/"} :
            names'[<<f, c>>] # None => names'[<<f, c>>] = c /\ <<f, c>> = Home(c)
      <4> SUFFICES ASSUME NEW f \in Folders \cup {"/"}, names'[<<f, c>>] # None
                   PROVE  names'[<<f, c>>] = c /\ <<f, c>> = Home(c)
        OBVIOUS
      <4>1. CASE <<f, c>> = Home(c)
        BY <3>2, <4>1
      <4>2. CASE <<f, c>> # Home(c)
        <5>1. names'[<<f, c>>] = names[<<f, c>>]
          BY <2>1, <2>4, <4>2 DEF BackingTypeOK
        <5> QED BY <2>1, <5>1 DEF Placed
      <4> QED BY <4>1, <4>2
    <3>4. channel[c].path = BackingPath(c)
      BY <1>2, <2>1 DEF CreateFile, Placed
    <3> QED BY <2>3, <2>6, <3>1, <3>2, <3>3, <3>4 DEF Placed
  <2> QED BY <2>5, <2>6
<1>3. ASSUME NEW c \in Channels, CreateFails(c) PROVE \A d \in Channels : Placed(d)'
  BY <1>3, StatePlaces DEF CreateFails
<1>4. ASSUME NEW c \in Channels, SetSparse(c) PROVE \A d \in Channels : Placed(d)'
  BY <1>4, <1>0 DEF SetSparse
<1>5. ASSUME NEW c \in Channels, SetEndOfFile(c) PROVE \A d \in Channels : Placed(d)'
  BY <1>5, StatePlaces DEF SetEndOfFile
<1>6. ASSUME NEW c \in Channels, Truncate(c) PROVE \A d \in Channels : Placed(d)'
  BY <1>6, StatePlaces DEF Truncate
<1>7. ASSUME NEW c \in Channels, SizeFails(c) PROVE \A d \in Channels : Placed(d)'
  BY <1>7, UnnamedPlaces DEF SizeFails
<1>8. ASSUME NEW c \in Channels, MapOwn(c) PROVE \A d \in Channels : Placed(d)'
  BY <1>8, StatePlaces DEF MapOwn
<1>9. ASSUME NEW c \in Channels, MapOwnFails(c) PROVE \A d \in Channels : Placed(d)'
  BY <1>9, UnnamedPlaces DEF MapOwnFails
<1>10. ASSUME NEW c \in Channels, Seal(c) \/ DropReceiver(c) PROVE \A d \in Channels : Placed(d)'
  BY <1>10, StatePlaces DEF Seal, DropReceiver, Leave
<1>11. ASSUME NEW c \in Channels, RemoveFile(c) PROVE \A d \in Channels : Placed(d)'
  BY <1>11, UnnamedPlaces DEF RemoveFile
<1>12. ASSUME NEW c \in Channels, MarkDeleted(c) PROVE \A d \in Channels : Placed(d)'
  BY <1>12, StatePlaces DEF MarkDeleted
<1>13. ASSUME NEW c \in Channels, CloseDeleted(c) PROVE \A d \in Channels : Placed(d)'
  BY <1>13, UnnamedPlaces DEF CloseDeleted
<1>14. ASSUME NEW c \in Channels, Kill(c) PROVE \A d \in Channels : Placed(d)'
  BY <1>14, StatePlaces DEF Kill
<1>15. ASSUME NEW c \in Channels, NEW p \in Processes, OpenFile(p, c) \/ OpenRefused(p, c)
       PROVE  \A d \in Channels : Placed(d)'
  BY <1>15, <1>0 DEF OpenFile, OpenRefused
<1>16. ASSUME NEW p \in Processes, Map(p) \/ CheckClosed(p) PROVE \A d \in Channels : Placed(d)'
  BY <1>16, <1>0 DEF Map, CheckClosed
<1>17. CASE UNCHANGED backingVars
  BY <1>17, <1>0 DEF backingVars, fixed
<1> QED BY <1>1, <1>2, <1>3, <1>4, <1>5, <1>6, <1>7, <1>8, <1>9, <1>10, <1>11, <1>12, <1>13, <1>14,
           <1>15, <1>16, <1>17 DEF BackingNext

(* Every step keeps what is in the files and what processes have.     *)
LEMMA FilledStep ==
  ASSUME BackingConstants, BackingIInv, [BackingNext]_backingVars
  PROVE  \A d \in Channels : Filled(d)'
<1> USE DEF RunStates
<1> SUFFICES ASSUME NEW d \in Channels PROVE Filled(d)'
  OBVIOUS
<1>0. Filled(d) /\ BackingTypeOK /\ Capacity \in Nat \ {0} /\ bytes[d].size \in {0, Capacity}
  BY DEF BackingIInv, BackingTypeOK, Sizes, BackingConstants
<1>1. ASSUME channel' = channel, bytes' = bytes PROVE Filled(d)'
  BY <1>0, <1>1, FilledKept
<1>2. ASSUME NEW c \in Channels, NEW s \in RunStates, State(c, s), bytes' = bytes,
             s \in Sized => channel[c].state \in Sized,
             s \in {"shut", "marked", "closed"} => channel[c].state \in {"shut", "marked", "closed"}
      PROVE  Filled(d)'
  <2>1. /\ channel'[c].state = s
        /\ \A e \in Channels \ {c} : channel'[e] = channel[e]
    BY <1>0, <1>2, StateSet
  <2>2. Filled(c)
    BY DEF BackingIInv
  <2> QED BY <1>0, <1>2, <2>1, <2>2 DEF Filled
<1>3. ASSUME NEW c \in Channels, ChoosePath(c) PROVE Filled(d)'
  <2>1. /\ channel'[c].state = "path"
        /\ \A e \in Channels \ {c} : channel'[e] = channel[e]
    BY <1>0, <1>3 DEF ChoosePath, BackingTypeOK
  <2> QED BY <1>0, <1>3, <2>1 DEF ChoosePath, Filled, Sized
<1>4. ASSUME NEW c \in Channels, CreateFile(c) \/ CreateFails(c) PROVE Filled(d)'
  BY <1>2, <1>4 DEF CreateFile, CreateFails, Sized
<1>5. ASSUME NEW c \in Channels, SetSparse(c) PROVE Filled(d)'
  BY <1>0, <1>5 DEF SetSparse, Filled, BackingTypeOK
<1>6. ASSUME NEW c \in Channels, SetEndOfFile(c) \/ Truncate(c) PROVE Filled(d)'
  <2>1. /\ channel'[c].state = "sized"
        /\ \A e \in Channels \ {c} : channel'[e] = channel[e]
    <3>1. State(c, "sized") /\ "sized" \in RunStates
      BY <1>6 DEF SetEndOfFile, Truncate
    <3> QED BY <1>0, <3>1, StateSet
  <2>2. /\ bytes'[c].size = Capacity /\ bytes'[c].sparse /\ bytes'[c].gate = bytes[c].gate
        /\ \A e \in Channels \ {c} : bytes'[e] = bytes[e]
    BY <1>0, <1>6 DEF SetEndOfFile, Truncate, BackingTypeOK
  <2> QED BY <1>0, <2>1, <2>2 DEF Filled
<1>7. ASSUME NEW c \in Channels,
             SizeFails(c) \/ MapOwn(c) \/ MapOwnFails(c) \/ RemoveFile(c) \/ MarkDeleted(c)
               \/ CloseDeleted(c) \/ Kill(c)
      PROVE  Filled(d)'
  BY <1>2, <1>7
     DEF SizeFails, MapOwn, MapOwnFails, RemoveFile, MarkDeleted, CloseDeleted, Kill, Sized
<1>8. ASSUME NEW c \in Channels, NEW g \in Gates \ {"open"}, Leave(c, g) PROVE Filled(d)'
  <2>1. /\ channel'[c].state = "shut"
        /\ \A e \in Channels \ {c} : channel'[e] = channel[e]
    BY <1>0, <1>8, StateSet DEF Leave
  <2>2. /\ bytes'[c].gate = g
        /\ \A e \in Channels : bytes'[e].size = bytes[e].size /\ bytes'[e].sparse = bytes[e].sparse
        /\ \A e \in Channels \ {c} : bytes'[e] = bytes[e]
    BY <1>0, <1>8, GateSet DEF Leave
  <2>3. Filled(c) /\ channel[c].state = "open"
    BY <1>8 DEF BackingIInv, Leave
  <2> QED BY <1>0, <1>8, <2>1, <2>2, <2>3 DEF Filled, Sized
<1>9. ASSUME NEW c \in Channels, Seal(c) \/ DropReceiver(c) PROVE Filled(d)'
  BY <1>8, <1>9 DEF Seal, DropReceiver, Gates
<1>10. ASSUME NEW c \in Channels, NEW p \in Processes, OpenFile(p, c) \/ OpenRefused(p, c)
       PROVE  Filled(d)'
  BY <1>1, <1>10 DEF OpenFile, OpenRefused
<1>11. ASSUME NEW p \in Processes, Map(p) \/ CheckClosed(p) PROVE Filled(d)'
  BY <1>1, <1>11 DEF Map, CheckClosed
<1>12. CASE UNCHANGED backingVars
  BY <1>1, <1>12 DEF backingVars
<1> QED BY <1>3, <1>4, <1>5, <1>6, <1>7, <1>9, <1>10, <1>11, <1>12 DEF BackingNext

LEMMA ReachedStep ==
  ASSUME BackingConstants, BackingIInv, [BackingNext]_backingVars
  PROVE  \A p \in Processes : Reached(p)'
<1> USE DEF RunStates
<1> SUFFICES ASSUME NEW p \in Processes PROVE Reached(p)'
  OBVIOUS
<1>0. Reached(p) /\ BackingTypeOK /\ 0 # Capacity
  BY DEF BackingIInv, BackingConstants
<1>1. ASSUME NEW c \in Channels, NEW s \in RunStates, State(c, s), bytes' = bytes,
             attached' = attached, channel[c].state # "killed"
      PROVE  Reached(p)'
  <2>1. \A e \in Channels : channel[e].state = "killed" => channel'[e].state = "killed"
    BY <1>0, <1>1, StateSet
  <2> QED BY <1>0, <1>1, <2>1, ReachedKept
<1>2. ASSUME channel' = channel, bytes' = bytes, attached'[p] = attached[p] PROVE Reached(p)'
  BY <1>0, <1>2, ReachedKept
<1>3. ASSUME NEW c \in Channels, ChoosePath(c) PROVE Reached(p)'
  <2>1. \A e \in Channels : channel[e].state = "killed" => channel'[e].state = "killed"
    BY <1>0, <1>3 DEF ChoosePath, BackingTypeOK
  <2> QED BY <1>0, <1>3, <2>1, ReachedKept DEF ChoosePath
<1>4. ASSUME NEW c \in Channels,
             CreateFile(c) \/ CreateFails(c) \/ SizeFails(c) \/ MapOwn(c) \/ MapOwnFails(c)
               \/ RemoveFile(c) \/ MarkDeleted(c) \/ CloseDeleted(c) \/ Kill(c)
      PROVE  Reached(p)'
  BY <1>1, <1>4
     DEF CreateFile, CreateFails, SizeFails, MapOwn, MapOwnFails, RemoveFile, MarkDeleted,
         CloseDeleted, Kill
<1>5. ASSUME NEW c \in Channels, SetSparse(c) PROVE Reached(p)'
  <2>1. \A e \in Channels : bytes'[e].size = bytes[e].size /\ bytes'[e].gate = bytes[e].gate
    BY <1>0, <1>5 DEF SetSparse, BackingTypeOK
  <2> QED BY <1>0, <1>5, <2>1, ReachedKept DEF SetSparse
<1>6. ASSUME NEW c \in Channels, SetEndOfFile(c) \/ Truncate(c) PROVE Reached(p)'
  <2>1. \A e \in Channels : channel[e].state = "killed" => channel'[e].state = "killed"
    <3>1. State(c, "sized") /\ "sized" \in RunStates /\ channel[c].state # "killed"
      BY <1>6 DEF SetEndOfFile, Truncate
    <3> QED BY <1>0, <3>1, StateSet
  <2>2. \A e \in Channels : /\ bytes'[e].gate = bytes[e].gate
                            /\ bytes'[e].size = bytes[e].size \/ bytes'[e].size = Capacity
    <3>1. CASE SetEndOfFile(c)
      BY <1>0, <3>1 DEF SetEndOfFile, BackingTypeOK
    <3>2. CASE Truncate(c)
      BY <1>0, <3>2 DEF Truncate, BackingTypeOK
    <3> QED BY <1>6, <3>1, <3>2
  <2> QED BY <1>0, <1>6, <2>1, <2>2, ReachedKept DEF SetEndOfFile, Truncate
<1>7. ASSUME NEW c \in Channels, NEW g \in Gates \ {"open"}, Leave(c, g) PROVE Reached(p)'
  <2>1. \A e \in Channels : channel[e].state = "killed" => channel'[e].state = "killed"
    BY <1>0, <1>7, StateSet DEF Leave
  <2>2. \A e \in Channels : /\ bytes'[e].size = bytes[e].size
                            /\ bytes'[e].gate = bytes[e].gate \/ bytes'[e].gate = g
    BY <1>0, <1>7, GateSet DEF Leave
  <2> QED BY <1>0, <1>7, <2>1, <2>2, ReachedKept DEF Leave
<1>8. ASSUME NEW c \in Channels, Seal(c) \/ DropReceiver(c) PROVE Reached(p)'
  BY <1>7, <1>8 DEF Seal, DropReceiver, Gates
<1>9. ASSUME NEW c \in Channels, NEW q \in Processes, OpenFile(q, c) PROVE Reached(p)'
  <2>1. /\ channel' = channel /\ bytes' = bytes
        /\ channel[c].state \in {"open", "shut", "marked", "closed", "killed"}
        /\ channel[c].path # None /\ bytes[c].size = Capacity
    BY <1>9 DEF OpenFile
  <2>2. CASE q # p
    <3>1. attached'[p] = attached[p]
      BY <1>0, <1>9, <2>2 DEF OpenFile, BackingTypeOK
    <3> QED BY <1>2, <2>1, <3>1
  <2>3. CASE q = p
    <3>1. PICK found : found = Found(channel[c].path, where[p])
      OBVIOUS
    <3>2. attached'[p] =
            IF found = None
              THEN [state |-> "over", channel |-> c, bytes |-> None, size |-> 0]
              ELSE [state |-> "opened", channel |-> c, bytes |-> found, size |-> bytes[found].size]
      BY <1>0, <1>9, <2>3, <3>1 DEF OpenFile, BackingTypeOK
    <3>3. Placed(c) /\ Filled(c)
      BY DEF BackingIInv
    <3>4. channel[c].path = BackingPath(c)
      BY <2>1, <3>3 DEF Placed
    <3>5. found = names[Home(c)] /\ Home(c) # None
      BY <1>0, <3>1, <3>4, HomeOfPath, HomeIsPlace DEF Found, BackingConstants
    <3>6. found # None => found = c
      <4>1. PICK f \in Folders \cup {"/"} : Home(c) = <<f, c>>
        BY <1>0, HomeIsPlace
      <4> QED BY <3>3, <3>5, <4>1 DEF Placed
    <3>7. CASE found = None
      <4>1. bytes[c].gate # "open" \/ channel[c].state = "killed"
        BY <2>1, <3>3, <3>5, <3>7, BackingConstants DEF Placed, Filled, Holding, BackingConstants
      <4> QED BY <2>1, <3>2, <3>7, <4>1 DEF Reached
    <3>8. CASE found # None
      BY <2>1, <3>2, <3>6, <3>8 DEF Reached
    <3> QED BY <3>7, <3>8
  <2> QED BY <2>2, <2>3
<1>10. ASSUME NEW c \in Channels, NEW q \in Processes, OpenRefused(q, c) PROVE Reached(p)'
  <2>1. attached'[p] = attached[p] \/ attached'[p].state = "stopped"
    BY <1>0, <1>10 DEF OpenRefused, BackingTypeOK
  <2> QED BY <1>2, <1>10, <2>1 DEF OpenRefused, Reached
<1>11. ASSUME NEW q \in Processes, NEW s \in Holds, attached' = [attached EXCEPT ![q].state = s],
              channel' = channel, bytes' = bytes, s # "none",
              q = p => \/ s = "stopped"
                       \/ attached[p].state \in {"opened", "mapped"} /\ s \in {"mapped", "sends"}
                       \/ attached[p].state = "mapped" /\ bytes[attached[p].bytes].gate # "open"
       PROVE  Reached(p)'
  <2>1. CASE q # p
    BY <1>0, <1>2, <1>11, <2>1, HoldSet
  <2>2. CASE q = p
    <3>1. /\ attached'[p].state = s /\ attached'[p].channel = attached[p].channel
          /\ attached'[p].bytes = attached[p].bytes /\ attached'[p].size = attached[p].size
      BY <1>0, <1>11, <2>2 DEF BackingTypeOK
    <3> QED BY <1>0, <1>11, <2>2, <3>1 DEF Reached
  <2> QED BY <2>1, <2>2
<1>12. ASSUME NEW q \in Processes, Map(q) PROVE Reached(p)'
  <2>1. PICK s \in Holds : s = IF attached[q].size = 0 THEN "stopped" ELSE "mapped"
    BY DEF Holds
  <2>2. /\ attached' = [attached EXCEPT ![q].state = s] /\ channel' = channel /\ bytes' = bytes
        /\ attached[q].state = "opened"
    BY <1>12, <2>1 DEF Map, Stands
  <2>3. s = "stopped" \/ s = "mapped"
    BY <2>1
  <2> QED BY <1>11, <2>2, <2>3
<1>13. ASSUME NEW q \in Processes, CheckClosed(q) PROVE Reached(p)'
  <2>1. PICK s \in Holds :
          s = IF bytes[attached[q].bytes].gate = "sealed" THEN "over" ELSE "sends"
    BY DEF Holds
  <2>2. /\ attached' = [attached EXCEPT ![q].state = s] /\ channel' = channel /\ bytes' = bytes
        /\ attached[q].state = "mapped"
    BY <1>13, <2>1 DEF CheckClosed, Stands
  <2>3. s \in {"sends", "over"} /\ (s = "over" => bytes[attached[q].bytes].gate = "sealed")
    BY <2>1
  <2> QED BY <1>11, <2>2, <2>3
<1>14. CASE UNCHANGED backingVars
  BY <1>2, <1>14 DEF backingVars
<1> QED BY <1>3, <1>4, <1>5, <1>6, <1>8, <1>9, <1>10, <1>12, <1>13, <1>14 DEF BackingNext

(* For any channels, processes and directories the invariant holds.        *)
THEOREM BackingInvariant ==
  ASSUME BackingConstants
  PROVE  BackingSpec => []BackingIInv
<1>1. BackingInit => BackingIInv
  <2> SUFFICES ASSUME BackingInit PROVE BackingIInv
    OBVIOUS
  <2>1. BackingTypeOK
    BY BackingConstants
       DEF BackingInit, BackingTypeOK, BackingConstants, RunStates, RunPaths, Holds, Sizes, Gates
  <2>2. ASSUME NEW c \in Channels PROVE Placed(c) /\ Filled(c)
    <3>1. Home(c) \in (Folders \cup {"/"}) \X Channels
      BY <2>1, HomeIsPlace
    <3>2. \A at \in (Folders \cup {"/"}) \X Channels : names[at] = None
      BY DEF BackingInit
    <3>3. channel[c].state = "new" /\ channel[c].path = None /\ bytes[c].size = 0
      BY DEF BackingInit
    <3> QED BY <3>1, <3>2, <3>3 DEF Placed, Filled, Holding, Sized
  <2>3. ASSUME NEW p \in Processes PROVE Reached(p)
    BY DEF BackingInit, Reached
  <2> QED BY <2>1, <2>2, <2>3 DEF BackingIInv
<1>2. BackingIInv /\ [BackingNext]_backingVars => BackingIInv'
  BY BackingTypeStep, PlacedStep, FilledStep, ReachedStep, BackingConstants DEF BackingIInv
<1> QED BY <1>1, <1>2, PTL DEF BackingSpec

(* A process takes a channel for over only when its run reads no more of   *)
(* it, and otherwise has the bytes that the run reads, from whatever       *)
(* directory it looks; a file is sparse; and no name is left, unless the   *)
(* run was killed or the system would not remove it.                       *)
THEOREM BackingFound ==
  ASSUME BackingConstants
  PROVE  BackingSpec => []FoundByAll
<1>1. BackingIInv => FoundByAll
  <2> SUFFICES ASSUME BackingIInv PROVE FoundByAll
    OBVIOUS
  <2>1. ASSUME NEW c \in Channels, channel[c].state \in {"closed", "failed"}, c \notin stuck,
               NEW f \in Folders \cup {"/"}
        PROVE  names[<<f, c>>] = None
    BY <2>1 DEF BackingIInv, Placed
  <2> QED BY <2>1 DEF BackingIInv, Filled, Reached, FoundByAll, Stands
<1> QED BY <1>1, BackingInvariant, PTL

-----------------------------------------------------------------------------
(* Artifacts.                                                              *)

ArtifactNames == {w.name : w \in {Wanted[i] : i \in DOMAIN Wanted}}
Paths == ArtifactNames \X Builds
Drafts == Runs \X DOMAIN Wanted

(* What the proofs need of the constants: there is something to write, an  *)
(* artifact's name tells whether it is executable, and Nil is no draft    *)
(* and no folder.                                                          *)
ArtifactConstants ==
  /\ Pieces \in Nat \ {0}
  /\ Wanted \in Seq([name : ArtifactNames, executable : BOOLEAN])
  /\ Wanted # <<>>
  /\ \A i, j \in DOMAIN Wanted :
       Wanted[i].name = Wanted[j].name => Wanted[i].executable = Wanted[j].executable
  /\ Nil \notin Drafts
  /\ Nil \notin [kind : {"folder", "link"}, mine : BOOLEAN, open : BOOLEAN]

Steps == {"folder", "folder made", "exists", "temp", "write", "persist", "unlink", "lost", "done",
          "failed", "dead"}
Text == [build : Builds, name : ArtifactNames, pieces : 0 .. Pieces, executable : BOOLEAN]

ArtifactTypeOK ==
  /\ home \in {Nil} \cup [kind : {"folder", "link"}, mine : BOOLEAN, open : BOOLEAN]
  /\ build \in [Runs -> Builds]
  /\ step \in [Runs -> Steps]
  /\ item \in [Runs -> DOMAIN Wanted]
  /\ shelf \in [Paths -> Drafts \cup {Nil}]
  /\ drafts \in [Drafts -> Text \cup {Nil}]
  /\ temps \subseteq Drafts
  /\ faulty \subseteq Runs

(* Past the check the folder is this user's alone.                         *)
Housed(r) ==
  /\ step[r] = "folder made" => home # Nil
  /\ step[r] \in {"exists", "temp", "write", "persist", "unlink", "lost", "done"} => home = Mine
  /\ item[r] > 1 => home = Mine
  /\ step[r] = "failed" => r \in faulty \/ home \notin {Nil, Mine}
  /\ step[r] = "lost" => r \in faulty \/ shelf[Target(r)] # Nil
  /\ step[r] = "done" => item[r] = Len(Wanted)

(* A draft grows while it is at its temporary name, and is whole before it *)
(* is given the one that others look for.                                  *)
Drafted(r) ==
  /\ step[r] \in {"write", "persist"} =>
       /\ drafts[Draft(r)] \in Text
       /\ drafts[Draft(r)].build = build[r]
       /\ drafts[Draft(r)].name = Artifact(r).name
       /\ drafts[Draft(r)].executable = Artifact(r).executable
  /\ step[r] = "write" => drafts[Draft(r)].pieces < Pieces
  /\ step[r] = "persist" => drafts[Draft(r)].pieces = Pieces

(* What has its name is whole, and nobody writes to it any more.           *)
Shelved(path) ==
  shelf[path] # Nil =>
    LET d == shelf[path] IN
    /\ Wanted[d[2]].name = path[1]
    /\ Whole(d, path[1], Wanted[d[2]].executable, path[2])
    /\ \/ d[2] < item[d[1]]
       \/ d[2] = item[d[1]] /\ step[d[1]] \in {"unlink", "done", "dead"}

(* What a run is past is there.                                            *)
Given(r) ==
  \A i \in DOMAIN Wanted :
    i < item[r] \/ (i = item[r] /\ step[r] \in {"unlink", "done"}) =>
      shelf[Path(r, Wanted[i].name)] # Nil

(* A temporary file is that of the artifact its run is at.                 *)
Temporary(d) ==
  d[2] = item[d[1]] /\ step[d[1]] \in {"write", "persist", "unlink", "lost", "dead"}

ArtifactIInv ==
  /\ ArtifactTypeOK
  /\ \A r \in Runs : Housed(r) /\ Drafted(r) /\ Given(r)
  /\ \A path \in Paths : Shelved(path)
  /\ \A d \in temps : Temporary(d)

(* What a run that is where it is leaves alone, and in which direction it  *)
(* goes.                                                                   *)
MovesOf(r) ==
  /\ build' = build
  /\ \A q \in Runs \ {r} : step'[q] = step[q] /\ item'[q] = item[q]
  /\ home # Nil => home' = home
  /\ \A path \in Paths : shelf[path] # Nil => shelf'[path] = shelf[path]
  /\ \A d \in Drafts \ {Draft(r)} : drafts'[d] = drafts[d]
  /\ drafts'[Draft(r)] = drafts[Draft(r)] \/ step[r] \in {"temp", "write"}
  /\ faulty \subseteq faulty'
  /\ temps' \subseteq temps \cup {Draft(r)}
  /\ item'[r] \in DOMAIN Wanted /\ item'[r] >= item[r]
  /\ item'[r] = item[r] /\ step[r] \in {"unlink", "done", "dead"} =>
       step'[r] \in {"unlink", "done", "dead"}

-----------------------------------------------------------------------------
(* The artifact a run is at.                                               *)
LEMMA AtArtifact ==
  ASSUME ArtifactConstants, ArtifactTypeOK, NEW r \in Runs
  PROVE  /\ item[r] \in DOMAIN Wanted /\ DOMAIN Wanted = 1 .. Len(Wanted) /\ Len(Wanted) \in Nat
         /\ Artifact(r).name \in ArtifactNames /\ Artifact(r).executable \in BOOLEAN
         /\ Target(r) \in Paths /\ Draft(r) \in Drafts
         /\ Draft(r)[1] = r /\ Draft(r)[2] = item[r]
<1>1. item[r] \in DOMAIN Wanted /\ build[r] \in Builds
  BY DEF ArtifactTypeOK
<1>2. /\ DOMAIN Wanted = 1 .. Len(Wanted) /\ Len(Wanted) \in Nat
      /\ Wanted[item[r]] \in [name : ArtifactNames, executable : BOOLEAN]
  <2>1. PICK S : S = [name : ArtifactNames, executable : BOOLEAN]
    OBVIOUS
  <2>2. Wanted \in Seq(S)
    BY <2>1 DEF ArtifactConstants
  <2>3. DOMAIN Wanted = 1 .. Len(Wanted) /\ Len(Wanted) \in Nat
    BY <2>2
  <2>4. Wanted[item[r]] \in S
    BY <1>1, <2>2, <2>3, ElementOfSeq
  <2> QED BY <2>1, <2>3, <2>4
<1>3. Artifact(r).name \in ArtifactNames /\ Artifact(r).executable \in BOOLEAN
  BY <1>2 DEF Artifact
<1>4. Target(r) \in Paths
  BY <1>1, <1>3 DEF Target, Path, Paths
<1>5. Draft(r) \in Drafts /\ Draft(r)[1] = r /\ Draft(r)[2] = item[r]
  BY <1>1 DEF Draft, Drafts
<1> QED BY <1>1, <1>2, <1>3, <1>4, <1>5

LEMMA PathOfWanted ==
  ASSUME ArtifactConstants, ArtifactTypeOK, NEW r \in Runs, NEW i \in DOMAIN Wanted
  PROVE  Path(r, Wanted[i].name) \in Paths
<1>1. Wanted[i].name \in ArtifactNames
  BY DEF ArtifactNames
<1> QED BY <1>1 DEF Path, Paths, ArtifactTypeOK

LEMMA StepGoes ==
  ASSUME ArtifactTypeOK, NEW r \in Runs, NEW s \in Steps, To(r, s)
  PROVE  /\ step' \in [Runs -> Steps] /\ step'[r] = s
         /\ \A q \in Runs \ {r} : step'[q] = step[q]
BY DEF ArtifactTypeOK, To

(* A result is returned: the next artifact is looked for, or none is left. *)
LEMMA ReturnedGoes ==
  ASSUME ArtifactConstants, ArtifactTypeOK, NEW r \in Runs, Returned(r)
  PROVE  /\ step' \in [Runs -> Steps] /\ item' \in [Runs -> DOMAIN Wanted]
         /\ \A q \in Runs \ {r} : step'[q] = step[q] /\ item'[q] = item[q]
         /\ \/ step'[r] = "done" /\ item'[r] = item[r] /\ item[r] = Len(Wanted)
            \/ step'[r] = "exists" /\ item'[r] = item[r] + 1
<1>1. item[r] \in 1 .. Len(Wanted) /\ DOMAIN Wanted = 1 .. Len(Wanted) /\ Len(Wanted) \in Nat
  BY AtArtifact
<1>2. CASE item[r] = Len(Wanted)
  <2>1. To(r, "done") /\ item' = item /\ "done" \in Steps
    BY <1>2 DEF Returned, Steps
  <2> QED BY <1>2, <2>1, StepGoes DEF ArtifactTypeOK
<1>3. CASE item[r] # Len(Wanted)
  <2>1. To(r, "exists") /\ item' = [item EXCEPT ![r] = @ + 1] /\ "exists" \in Steps
    BY <1>3 DEF Returned, Steps
  <2>2. item[r] + 1 \in DOMAIN Wanted
    BY <1>1, <1>3
  <2> QED BY <2>1, <2>2, StepGoes DEF ArtifactTypeOK
<1> QED BY <1>2, <1>3

(* What holds of the other runs holds on.                                  *)
LEMMA OthersKept ==
  ASSUME ArtifactConstants, ArtifactIInv, NEW r \in Runs, MovesOf(r), NEW q \in Runs, q # r
  PROVE  Housed(q)' /\ Drafted(q)' /\ Given(q)'
<1>1. Housed(q) /\ Drafted(q) /\ Given(q) /\ ArtifactTypeOK
  BY DEF ArtifactIInv
<1>2. /\ step'[q] = step[q] /\ item'[q] = item[q] /\ build' = build
      /\ home # Nil => home' = home
      /\ \A path \in Paths : shelf[path] # Nil => shelf'[path] = shelf[path]
      /\ \A d \in Drafts \ {Draft(r)} : drafts'[d] = drafts[d]
      /\ faulty \subseteq faulty'
  BY DEF MovesOf
<1>3. /\ Artifact(q)' = Artifact(q) /\ Target(q)' = Target(q) /\ Draft(q)' = Draft(q)
      /\ \A n : Path(q, n)' = Path(q, n)
  BY <1>2 DEF Artifact, Target, Draft, Path
<1>4. Draft(q) \in Drafts /\ Draft(q) # Draft(r) /\ Target(q) \in Paths
  BY <1>1, AtArtifact
<1>5. Housed(q)'
  <2>1. Mine # Nil
    <3>1. Mine \in [kind : {"folder", "link"}, mine : BOOLEAN, open : BOOLEAN]
      BY DEF Mine, Folder
    <3> QED BY <3>1 DEF ArtifactConstants
  <2> QED BY <1>1, <1>2, <1>3, <1>4, <2>1 DEF Housed
<1>6. Drafted(q)'
  BY <1>1, <1>2, <1>3, <1>4 DEF Drafted
<1>7. Given(q)'
  <2> SUFFICES ASSUME NEW i \in DOMAIN Wanted,
                      i < item[q] \/ (i = item[q] /\ step[q] \in {"unlink", "done"})
               PROVE  shelf'[Path(q, Wanted[i].name)] # Nil
    BY <1>2, <1>3 DEF Given
  <2>1. shelf[Path(q, Wanted[i].name)] # Nil
    BY <1>1 DEF Given
  <2>2. Path(q, Wanted[i].name) \in Paths
    BY <1>1, PathOfWanted
  <2> QED BY <1>2, <2>1, <2>2
<1> QED BY <1>5, <1>6, <1>7

(* What had its name stays as it is.                                       *)
LEMMA ShelvedKept ==
  ASSUME ArtifactConstants, ArtifactIInv, NEW r \in Runs, MovesOf(r), NEW path \in Paths,
         shelf[path] # Nil
  PROVE  Shelved(path)'
<1>1. PICK d : d = shelf[path]
  OBVIOUS
<1>2. d \in Drafts /\ d[1] \in Runs /\ d[2] \in DOMAIN Wanted /\ d = <<d[1], d[2]>>
  BY <1>1 DEF ArtifactIInv, ArtifactTypeOK, Drafts
<1>3. /\ Wanted[d[2]].name = path[1]
      /\ Whole(d, path[1], Wanted[d[2]].executable, path[2])
      /\ \/ d[2] < item[d[1]]
         \/ d[2] = item[d[1]] /\ step[d[1]] \in {"unlink", "done", "dead"}
  BY <1>1 DEF ArtifactIInv, Shelved
<1>4. shelf'[path] = d
  BY <1>1 DEF MovesOf
<1>5. drafts'[d] = drafts[d]
  <2>1. CASE d = Draft(r)
    <3>1. d[1] = r /\ d[2] = item[r] /\ item[r] \in 1 .. Len(Wanted) /\ Len(Wanted) \in Nat
      BY <2>1, AtArtifact DEF ArtifactIInv
    <3>2. step[r] \notin {"temp", "write"}
      BY <1>3, <3>1
    <3> QED BY <2>1, <3>2 DEF MovesOf
  <2>2. CASE d # Draft(r)
    BY <1>2, <2>2 DEF MovesOf
  <2> QED BY <2>1, <2>2
<1>6. \/ d[2] < item'[d[1]]
      \/ d[2] = item'[d[1]] /\ step'[d[1]] \in {"unlink", "done", "dead"}
  <2>1. CASE d[1] # r
    BY <1>2, <1>3, <2>1 DEF MovesOf
  <2>2. CASE d[1] = r
    <3>1. /\ item[r] \in 1 .. Len(Wanted) /\ DOMAIN Wanted = 1 .. Len(Wanted)
          /\ Len(Wanted) \in Nat
      BY AtArtifact DEF ArtifactIInv
    <3>2. item'[r] \in DOMAIN Wanted /\ item'[r] >= item[r]
      BY DEF MovesOf
    <3> QED BY <1>2, <1>3, <2>2, <3>1, <3>2 DEF MovesOf
  <2> QED BY <2>1, <2>2
<1> QED BY <1>3, <1>4, <1>5, <1>6 DEF Shelved, Whole

(* One step of a run keeps everything, if it keeps what is said of the run *)
(* itself, of the file it gives its name and of its own temporary one.     *)
LEMMA RunKept ==
  ASSUME ArtifactConstants, ArtifactIInv, NEW r \in Runs, MovesOf(r), ArtifactTypeOK',
         Housed(r)', Drafted(r)', Given(r)',
         \A path \in Paths : shelf[path] = Nil => Shelved(path)',
         \A d \in temps' : d[1] = r => Temporary(d)'
  PROVE  ArtifactIInv'
<1>1. ASSUME NEW q \in Runs PROVE Housed(q)' /\ Drafted(q)' /\ Given(q)'
  <2>1. CASE q = r
    BY <2>1
  <2>2. CASE q # r
    BY <2>2, OthersKept
  <2> QED BY <2>1, <2>2
<1>2. ASSUME NEW path \in Paths PROVE Shelved(path)'
  BY ShelvedKept
<1>3. ASSUME NEW d \in temps' PROVE Temporary(d)'
  <2>1. d \in temps \cup {Draft(r)}
    BY DEF MovesOf
  <2>2. CASE d[1] = r
    BY <2>2
  <2>3. CASE d[1] # r
    <3>1. d \in temps /\ d[1] \in Runs
      BY <2>1, <2>3, AtArtifact DEF ArtifactIInv, ArtifactTypeOK, Drafts
    <3> QED BY <2>3, <3>1 DEF ArtifactIInv, Temporary, MovesOf
  <2> QED BY <2>2, <2>3
<1> QED BY <1>1, <1>2, <1>3 DEF ArtifactIInv

(* A step of a run that stays at its artifact and names no file.           *)
LEMMA PlainStep ==
  ASSUME ArtifactConstants, ArtifactIInv, NEW r \in Runs, NEW s \in Steps \ {"unlink", "done"},
         To(r, s), step[r] \notin {"unlink", "done", "dead"} \/ s = "dead",
         build' = build, item' = item, shelf' = shelf,
         home' = home \/ (home = Nil /\ home' = Mine),
         drafts' \in [Drafts -> Text \cup {Nil}],
         \A d \in Drafts \ {Draft(r)} : drafts'[d] = drafts[d],
         drafts'[Draft(r)] = drafts[Draft(r)] \/ step[r] \in {"temp", "write"},
         faulty \subseteq faulty', faulty' \subseteq Runs, temps' \subseteq temps \cup {Draft(r)},
         Housed(r)', Drafted(r)',
         Draft(r) \in temps' => s \in {"write", "persist", "lost", "dead"}
  PROVE  ArtifactIInv'
<1>1. ArtifactTypeOK /\ Given(r)
  BY DEF ArtifactIInv
<1>2. /\ step' \in [Runs -> Steps] /\ step'[r] = s
      /\ \A q \in Runs \ {r} : step'[q] = step[q]
  BY <1>1, StepGoes
<1>3. /\ item[r] \in DOMAIN Wanted /\ Draft(r) \in Drafts
      /\ DOMAIN Wanted = 1 .. Len(Wanted) /\ Len(Wanted) \in Nat
  BY <1>1, AtArtifact
<1>4. ArtifactTypeOK'
  <2>1. Mine \in [kind : {"folder", "link"}, mine : BOOLEAN, open : BOOLEAN]
    BY DEF Mine, Folder
  <2> QED BY <1>1, <1>2, <1>3, <2>1 DEF ArtifactTypeOK
<1>5. MovesOf(r)
  BY <1>2, <1>3 DEF MovesOf
<1>6. Given(r)'
  BY <1>1, <1>2 DEF Given, Path
<1>7. ASSUME NEW path \in Paths, shelf[path] = Nil PROVE Shelved(path)'
  BY <1>7 DEF Shelved
<1>8. ASSUME NEW d \in temps', d[1] = r PROVE Temporary(d)'
  <2>1. d = Draft(r)
    <3>1. CASE d \in temps
      <4>1. d[2] = item[d[1]]
        BY <3>1 DEF ArtifactIInv, Temporary
      <4>2. d \in Drafts
        BY <1>1, <3>1 DEF ArtifactTypeOK
      <4> QED BY <1>8, <4>1, <4>2 DEF Drafts, Draft
    <3> QED BY <1>8, <3>1
  <2>2. Draft(r)[1] = r /\ Draft(r)[2] = item[r]
    BY <1>1, AtArtifact
  <2> QED BY <1>2, <1>8, <2>1, <2>2 DEF Temporary
<1> QED BY <1>4, <1>5, <1>6, <1>7, <1>8, RunKept

(* A draft is whole as it gets its name.                                   *)
LEMMA PersistedWhole ==
  ASSUME ArtifactConstants, ArtifactIInv, NEW r \in Runs, step[r] = "persist",
         shelf' = [shelf EXCEPT ![Target(r)] = Draft(r)], drafts' = drafts,
         \/ item[r] < item'[r]
         \/ item'[r] = item[r] /\ step'[r] \in {"unlink", "done", "dead"}
  PROVE  /\ \A path \in Paths : shelf[path] = Nil => Shelved(path)'
         /\ shelf' \in [Paths -> Drafts \cup {Nil}]
         /\ shelf'[Target(r)] # Nil
         /\ \A path \in Paths \ {Target(r)} : shelf'[path] = shelf[path]
<1>1. ArtifactTypeOK /\ Drafted(r)
  BY DEF ArtifactIInv
<1>2. PICK d : d = Draft(r)
  OBVIOUS
<1>3. PICK to : to = Target(r)
  OBVIOUS
<1>4. /\ d \in Drafts /\ d[1] = r /\ d[2] = item[r] /\ to \in Paths
      /\ to[1] = Artifact(r).name /\ to[2] = build[r]
  BY <1>1, <1>2, <1>3, AtArtifact DEF Target, Path
<1>5. /\ shelf' \in [Paths -> Drafts \cup {Nil}] /\ shelf'[to] = d
      /\ \A path \in Paths \ {to} : shelf'[path] = shelf[path]
  BY <1>1, <1>2, <1>3, <1>4 DEF ArtifactTypeOK
<1>6. d # Nil
  BY <1>4 DEF ArtifactConstants
<1>7. Whole(d, to[1], Wanted[d[2]].executable, to[2])
  <2>1. /\ drafts[d] \in Text /\ drafts[d].build = build[r] /\ drafts[d].name = Artifact(r).name
        /\ drafts[d].executable = Artifact(r).executable /\ drafts[d].pieces = Pieces
    BY <1>1, <1>2 DEF Drafted
  <2>3. drafts[d] = [build |-> drafts[d].build, name |-> drafts[d].name,
                     pieces |-> drafts[d].pieces, executable |-> drafts[d].executable]
    BY <2>1 DEF Text
  <2> QED BY <1>4, <2>1, <2>3 DEF Whole, Artifact
<1>8. Shelved(to)'
  <2>1. Whole(d, to[1], Wanted[d[2]].executable, to[2])'
    BY <1>7 DEF Whole
  <2>2. Wanted[d[2]].name = to[1]
    BY <1>4 DEF Artifact
  <2> QED BY <1>4, <1>5, <2>1, <2>2 DEF Shelved
<1>9. ASSUME NEW path \in Paths, path # to, shelf[path] = Nil PROVE Shelved(path)'
  BY <1>5, <1>9 DEF Shelved
<1> QED BY <1>3, <1>5, <1>6, <1>8, <1>9

(* A run that has its artifact and goes on to the next.                    *)
LEMMA ReturnStep ==
  ASSUME ArtifactConstants, ArtifactIInv, NEW r \in Runs, Returned(r),
         step[r] \in {"exists", "persist", "unlink", "lost"},
         home' = home, build' = build, drafts' = drafts, faulty' = faulty,
         temps' \subseteq temps, Draft(r) \notin temps',
         \/ shelf' = shelf /\ shelf[Target(r)] # Nil
         \/ /\ step[r] = "persist" /\ shelf[Target(r)] = Nil
            /\ shelf' = [shelf EXCEPT ![Target(r)] = Draft(r)]
  PROVE  ArtifactIInv'
<1>1. ArtifactTypeOK /\ Given(r) /\ Housed(r)
  BY DEF ArtifactIInv
<1>2. /\ step' \in [Runs -> Steps] /\ item' \in [Runs -> DOMAIN Wanted]
      /\ \A q \in Runs \ {r} : step'[q] = step[q] /\ item'[q] = item[q]
      /\ \/ step'[r] = "done" /\ item'[r] = item[r] /\ item[r] = Len(Wanted)
         \/ step'[r] = "exists" /\ item'[r] = item[r] + 1
  BY <1>1, ReturnedGoes
<1>3. /\ item[r] \in 1 .. Len(Wanted) /\ DOMAIN Wanted = 1 .. Len(Wanted) /\ Len(Wanted) \in Nat
      /\ Target(r) \in Paths /\ Draft(r) \in Drafts
  BY <1>1, AtArtifact
<1>4. \/ item[r] < item'[r]
      \/ item'[r] = item[r] /\ step'[r] \in {"unlink", "done", "dead"}
  BY <1>2, <1>3
<1>5. /\ shelf' \in [Paths -> Drafts \cup {Nil}] /\ shelf'[Target(r)] # Nil
      /\ \A path \in Paths : shelf[path] # Nil => shelf'[path] = shelf[path]
      /\ \A path \in Paths : shelf[path] = Nil => Shelved(path)'
  <2>1. CASE shelf' = shelf /\ shelf[Target(r)] # Nil
    BY <1>1, <2>1 DEF Shelved, ArtifactTypeOK
  <2>2. CASE /\ step[r] = "persist" /\ shelf[Target(r)] = Nil
             /\ shelf' = [shelf EXCEPT ![Target(r)] = Draft(r)]
    BY <1>4, <2>2, PersistedWhole
  <2> QED BY <2>1, <2>2
<1>6. ArtifactTypeOK'
  BY <1>1, <1>2, <1>5 DEF ArtifactTypeOK
<1>7. MovesOf(r)
  BY <1>2, <1>3, <1>5 DEF MovesOf
<1>8. Housed(r)' /\ Drafted(r)'
  BY <1>1, <1>2 DEF Housed, Drafted
<1>9. Given(r)'
  <2> SUFFICES ASSUME NEW i \in DOMAIN Wanted,
                      i < item'[r] \/ (i = item'[r] /\ step'[r] \in {"unlink", "done"})
               PROVE  shelf'[Path(r, Wanted[i].name)] # Nil
    BY DEF Given, Path
  <2>1. i < item[r] \/ i = item[r]
    BY <1>2, <1>3
  <2>2. CASE i < item[r]
    BY <1>1, <1>5, <2>2, PathOfWanted DEF Given
  <2>3. CASE i = item[r]
    BY <1>5, <2>3 DEF Target, Artifact
  <2> QED BY <2>1, <2>2, <2>3
<1>10. ASSUME NEW d \in temps', d[1] = r PROVE Temporary(d)'
  <2>1. d[2] = item[d[1]] /\ d \in Drafts
    BY <1>1 DEF ArtifactIInv, Temporary, ArtifactTypeOK
  <2>2. d = Draft(r)
    BY <1>10, <2>1 DEF Drafts, Draft
  <2> QED BY <1>10, <2>2
<1> QED BY <1>5, <1>6, <1>7, <1>8, <1>9, <1>10, RunKept

(* A temporary file of a run is that of its artifact.                      *)
LEMMA NoDraft ==
  ASSUME ArtifactConstants, ArtifactIInv, NEW r \in Runs, Draft(r) \in temps
  PROVE  step[r] \in {"write", "persist", "unlink", "lost", "dead"}
<1>1. Draft(r)[1] = r
  BY AtArtifact DEF ArtifactIInv
<1> QED BY <1>1 DEF ArtifactIInv, Temporary

LEMMA ArtifactStep ==
  ASSUME ArtifactConstants, ArtifactIInv, [ArtifactNext]_artifactVars
  PROVE  ArtifactIInv'
<1>1. ArtifactTypeOK /\ Mine # Nil
  <2>1. Mine \in [kind : {"folder", "link"}, mine : BOOLEAN, open : BOOLEAN]
    BY DEF Mine, Folder
  <2> QED BY <2>1 DEF ArtifactIInv, ArtifactConstants
<1>2. ASSUME NEW r \in Runs, NEW s \in Steps, To(r, s)
      PROVE  step'[r] = s
  BY <1>1, <1>2, StepGoes
<1>3. ASSUME NEW r \in Runs
      PROVE  /\ Housed(r) /\ Drafted(r) /\ Draft(r) \in Drafts /\ Target(r) \in Paths
             /\ item[r] \in 1 .. Len(Wanted) /\ Len(Wanted) \in Nat
             /\ Draft(r) \in temps => step[r] \in {"write", "persist", "unlink", "lost", "dead"}
  BY <1>1, AtArtifact, NoDraft DEF ArtifactIInv
<1>4. ASSUME NEW r \in Runs, MakeFolder(r) PROVE ArtifactIInv'
  <2>1. To(r, "folder made") /\ "folder made" \in Steps \ {"unlink", "done"}
    BY <1>4 DEF MakeFolder, Steps
  <2>2. Housed(r)' /\ Drafted(r)'
    BY <1>1, <1>2, <1>3, <1>4, <2>1 DEF MakeFolder, Housed, Drafted
  <2> QED BY <1>1, <1>3, <1>4, <2>1, <2>2, PlainStep DEF MakeFolder, ArtifactTypeOK
<1>5. ASSUME NEW r \in Runs, CheckFolder(r) PROVE ArtifactIInv'
  <2>1. PICK s \in {"exists", "failed"} :
          /\ To(r, s)
          /\ s = "exists" <=> (home.kind = "folder" /\ home.mine /\ ~home.open)
    <3>1. CASE home.kind = "folder" /\ home.mine /\ ~home.open
      BY <1>5, <3>1 DEF CheckFolder
    <3>2. CASE ~(home.kind = "folder" /\ home.mine /\ ~home.open)
      BY <1>5, <3>2 DEF CheckFolder
    <3> QED BY <3>1, <3>2
  <2>2. s \in Steps \ {"unlink", "done"}
    BY DEF Steps
  <2>3. home # Nil
    BY <1>3, <1>5 DEF CheckFolder, Housed
  <2>4. home \in [kind : {"folder", "link"}, mine : BOOLEAN, open : BOOLEAN]
    BY <1>1, <2>3 DEF ArtifactTypeOK
  <2>5. home = Mine <=> s = "exists"
    BY <2>1, <2>4 DEF Mine, Folder
  <2>6. step'[r] = s
    BY <1>2, <2>1, <2>2
  <2>7. Housed(r)' /\ Drafted(r)'
    BY <1>3, <1>5, <2>3, <2>5, <2>6 DEF CheckFolder, Housed, Drafted
  <2> QED BY <1>1, <1>3, <1>5, <2>1, <2>2, <2>7, PlainStep DEF CheckFolder, ArtifactTypeOK
<1>6. ASSUME NEW r \in Runs, Exists(r) PROVE ArtifactIInv'
  <2>1. CASE shelf[Target(r)] # Nil
    BY <1>3, <1>6, <2>1, ReturnStep DEF Exists
  <2>2. CASE shelf[Target(r)] = Nil
    <3>1. To(r, "temp") /\ item' = item /\ "temp" \in Steps \ {"unlink", "done"}
      BY <1>6, <2>2 DEF Exists, Steps
    <3>2. Housed(r)' /\ Drafted(r)'
      BY <1>2, <1>3, <1>6, <3>1 DEF Exists, Housed, Drafted
    <3> QED BY <1>1, <1>3, <1>6, <3>1, <3>2, PlainStep DEF Exists, ArtifactTypeOK
  <2> QED BY <2>1, <2>2
<1>7. ASSUME NEW r \in Runs, NewTemp(r) PROVE ArtifactIInv'
  <2>1. To(r, "write") /\ "write" \in Steps \ {"unlink", "done"}
    BY <1>7 DEF NewTemp, Steps
  <2>2. PICK text : text = [build |-> build[r], name |-> Artifact(r).name, pieces |-> 0,
                            executable |-> Artifact(r).executable]
    OBVIOUS
  <2>3. /\ text \in Text /\ text.build = build[r] /\ text.name = Artifact(r).name
        /\ text.pieces = 0 /\ text.executable = Artifact(r).executable
    <3>1. 0 \in 0 .. Pieces
      BY DEF ArtifactConstants
    <3>2. Artifact(r).name \in ArtifactNames /\ Artifact(r).executable \in BOOLEAN
      BY <1>1, AtArtifact
    <3>3. build[r] \in Builds
      BY <1>1 DEF ArtifactTypeOK
    <3> QED BY <2>2, <3>1, <3>2, <3>3 DEF Text
  <2>4. drafts' = [drafts EXCEPT ![Draft(r)] = text]
    BY <1>7, <2>2 DEF NewTemp
  <2>5. /\ drafts' \in [Drafts -> Text \cup {Nil}] /\ drafts'[Draft(r)] = text
        /\ \A d \in Drafts \ {Draft(r)} : drafts'[d] = drafts[d]
    BY <1>1, <1>3, <2>3, <2>4 DEF ArtifactTypeOK
  <2>6. step'[r] = "write" /\ Draft(r)' = Draft(r) /\ Artifact(r)' = Artifact(r) /\ build' = build
    BY <1>2, <1>7, <2>1 DEF NewTemp, Draft, Artifact
  <2>7. Housed(r)'
    BY <1>3, <1>7, <2>6 DEF NewTemp, Housed
  <2>8. Drafted(r)'
    <3>1. 0 < Pieces
      BY <1>3, <1>7, <2>3 DEF ArtifactConstants
    <3> QED BY <2>3, <2>5, <2>6, <3>1 DEF Drafted
  <2> QED BY <1>1, <1>3, <1>7, <2>1, <2>5, <2>7, <2>8, PlainStep DEF NewTemp, ArtifactTypeOK
<1>8. ASSUME NEW r \in Runs, Write(r) PROVE ArtifactIInv'
  <2>1. PICK old : old = drafts[Draft(r)]
    OBVIOUS
  <2>2. /\ old \in Text /\ old.build = build[r] /\ old.name = Artifact(r).name
        /\ old.executable = Artifact(r).executable /\ old.pieces < Pieces
    BY <1>1, <1>3, <1>8, <2>1 DEF Write, Drafted, ArtifactTypeOK
  <2>3. PICK s \in {"persist", "write"} :
          To(r, s) /\ (s = "persist" <=> old.pieces + 1 = Pieces)
    <3>1. CASE old.pieces + 1 = Pieces
      BY <1>8, <2>1, <3>1 DEF Write
    <3>2. CASE old.pieces + 1 # Pieces
      BY <1>8, <2>1, <3>2 DEF Write
    <3> QED BY <3>1, <3>2
  <2>4. s \in Steps \ {"unlink", "done"}
    BY DEF Steps
  <2>5. PICK text : text = [old EXCEPT !.pieces = @ + 1]
    OBVIOUS
  <2>6. /\ text \in Text /\ text.build = build[r] /\ text.name = Artifact(r).name
        /\ text.pieces = old.pieces + 1 /\ text.executable = Artifact(r).executable
    <3>1. old.pieces + 1 \in 0 .. Pieces
      BY <2>2 DEF Text, ArtifactConstants
    <3> QED BY <2>2, <2>5, <3>1 DEF Text
  <2>7. drafts' = [drafts EXCEPT ![Draft(r)] = text]
    BY <1>1, <1>3, <1>8, <2>1, <2>5 DEF Write, ArtifactTypeOK
  <2>8. /\ drafts' \in [Drafts -> Text \cup {Nil}] /\ drafts'[Draft(r)] = text
        /\ \A d \in Drafts \ {Draft(r)} : drafts'[d] = drafts[d]
    BY <1>1, <1>3, <2>6, <2>7 DEF ArtifactTypeOK
  <2>9. step'[r] = s /\ Draft(r)' = Draft(r) /\ Artifact(r)' = Artifact(r) /\ build' = build
    BY <1>2, <1>8, <2>3, <2>4 DEF Write, Draft, Artifact
  <2>10. Housed(r)'
    BY <1>3, <1>8, <2>9 DEF Write, Housed
  <2>11. Drafted(r)'
    <3>1. (s = "write" => text.pieces < Pieces) /\ (s = "persist" => text.pieces = Pieces)
      <4>1. old.pieces \in 0 .. Pieces /\ Pieces \in Nat
        BY <2>2 DEF Text, ArtifactConstants
      <4> QED BY <2>2, <2>3, <2>6, <4>1
    <3> QED BY <2>6, <2>8, <2>9, <3>1 DEF Drafted
  <2> QED BY <1>1, <1>3, <1>8, <2>3, <2>4, <2>8, <2>10, <2>11, PlainStep DEF Write, ArtifactTypeOK
<1>9. ASSUME NEW r \in Runs, Persist(r) PROVE ArtifactIInv'
  <2>1. /\ step[r] = "persist" /\ shelf[Target(r)] = Nil
        /\ shelf' = [shelf EXCEPT ![Target(r)] = Draft(r)]
        /\ home' = home /\ build' = build /\ drafts' = drafts /\ faulty' = faulty
    BY <1>9 DEF Persist
  <2>2. CASE temps' = temps \ {Draft(r)} /\ Returned(r)
    BY <2>1, <2>2, ReturnStep
  <2>3. CASE temps' = temps /\ item' = item /\ To(r, "unlink")
    <3>1. /\ step' \in [Runs -> Steps] /\ step'[r] = "unlink"
          /\ \A q \in Runs \ {r} : step'[q] = step[q]
      BY <1>1, <2>3, StepGoes DEF Steps
    <3>2. /\ \A path \in Paths : shelf[path] = Nil => Shelved(path)'
          /\ shelf' \in [Paths -> Drafts \cup {Nil}]
          /\ shelf'[Target(r)] # Nil
          /\ \A path \in Paths \ {Target(r)} : shelf'[path] = shelf[path]
      BY <2>1, <2>3, <3>1, PersistedWhole
    <3>3. ArtifactTypeOK'
      BY <1>1, <2>1, <2>3, <3>1, <3>2 DEF ArtifactTypeOK
    <3>4. MovesOf(r)
      BY <1>1, <1>3, <2>1, <2>3, <3>1, <3>2 DEF MovesOf, ArtifactTypeOK
    <3>5. Housed(r)' /\ Drafted(r)'
      BY <1>3, <2>1, <2>3, <3>1 DEF Housed, Drafted
    <3>6. Given(r)'
      <4> SUFFICES ASSUME NEW i \in DOMAIN Wanted, i < item[r] \/ i = item[r]
                   PROVE  shelf'[Path(r, Wanted[i].name)] # Nil
        BY <2>1, <2>3 DEF Given, Path
      <4>1. CASE i < item[r]
        <5>1. Path(r, Wanted[i].name) \in Paths /\ shelf[Path(r, Wanted[i].name)] # Nil
          BY <1>1, <4>1, PathOfWanted DEF ArtifactIInv, Given
        <5> QED BY <3>2, <5>1
      <4>2. CASE i = item[r]
        BY <3>2, <4>2 DEF Target, Artifact
      <4> QED BY <4>1, <4>2
    <3>7. ASSUME NEW d \in temps', d[1] = r PROVE Temporary(d)'
      BY <2>3, <3>1, <3>7 DEF ArtifactIInv, Temporary
    <3> QED BY <3>2, <3>3, <3>4, <3>5, <3>6, <3>7, RunKept
  <2> QED BY <1>9, <2>2, <2>3 DEF Persist
<1>10. ASSUME NEW r \in Runs, Unlink(r) PROVE ArtifactIInv'
  <2>1. shelf[Target(r)] # Nil
    <3>1. Given(r) /\ item[r] \in DOMAIN Wanted /\ step[r] = "unlink"
      BY <1>1, <1>10 DEF ArtifactIInv, ArtifactTypeOK, Unlink
    <3> QED BY <3>1 DEF Given, Target, Artifact
  <2> QED BY <1>10, <2>1, ReturnStep DEF Unlink
<1>11. ASSUME NEW r \in Runs, PersistFails(r) PROVE ArtifactIInv'
  <2>1. To(r, "lost") /\ "lost" \in Steps \ {"unlink", "done"}
    BY <1>11 DEF PersistFails, Steps
  <2>2. faulty \subseteq faulty' /\ faulty' \subseteq Runs /\ (shelf[Target(r)] = Nil => r \in faulty')
    BY <1>1, <1>11 DEF PersistFails, ArtifactTypeOK
  <2>3. Housed(r)' /\ Drafted(r)'
    <3>1. Target(r)' = Target(r) /\ step'[r] = "lost"
      BY <1>2, <1>11, <2>1 DEF PersistFails, Target, Path, Artifact
    <3> QED BY <1>3, <1>11, <2>2, <3>1 DEF PersistFails, Housed, Drafted
  <2> QED BY <1>1, <1>3, <1>11, <2>1, <2>2, <2>3, PlainStep DEF PersistFails, ArtifactTypeOK
<1>12. ASSUME NEW r \in Runs, LookAgain(r) PROVE ArtifactIInv'
  <2>1. CASE shelf[Target(r)] # Nil
    BY <1>12, <2>1, ReturnStep DEF LookAgain
  <2>2. CASE shelf[Target(r)] = Nil
    <3>1. To(r, "failed") /\ item' = item /\ "failed" \in Steps \ {"unlink", "done"}
      BY <1>12, <2>2 DEF LookAgain, Steps
    <3>2. Housed(r)' /\ Drafted(r)'
      BY <1>2, <1>3, <1>12, <2>2, <3>1 DEF LookAgain, Housed, Drafted
    <3> QED BY <1>1, <1>3, <1>12, <3>1, <3>2, PlainStep DEF LookAgain, ArtifactTypeOK
  <2> QED BY <2>1, <2>2
<1>13. ASSUME NEW r \in Runs, SystemFails(r) PROVE ArtifactIInv'
  <2>1. To(r, "failed") /\ faulty' = faulty \cup {r} /\ "failed" \in Steps \ {"unlink", "done"}
    BY <1>13 DEF SystemFails, Fault, Steps
  <2>2. Housed(r)' /\ Drafted(r)'
    BY <1>2, <1>3, <1>13, <2>1 DEF SystemFails, Housed, Drafted
  <2> QED BY <1>1, <1>3, <1>13, <2>1, <2>2, PlainStep DEF SystemFails, ArtifactTypeOK
<1>14. ASSUME NEW r \in Runs, Die(r) PROVE ArtifactIInv'
  <2>1. To(r, "dead") /\ "dead" \in Steps \ {"unlink", "done"}
    BY <1>14 DEF Die, Steps
  <2>2. Housed(r)' /\ Drafted(r)'
    BY <1>2, <1>3, <1>14, <2>1 DEF Die, Housed, Drafted
  <2> QED BY <1>1, <1>3, <1>14, <2>1, <2>2, PlainStep DEF Die, ArtifactTypeOK
<1>15. CASE UNCHANGED artifactVars
  BY <1>15, ZenonT(40) DEF artifactVars, ArtifactIInv, ArtifactTypeOK, Housed, Drafted, Given, Shelved, Whole,
     Temporary, Target, Path, Artifact, Draft
<1> QED BY <1>4, <1>5, <1>6, <1>7, <1>8, <1>9, <1>10, <1>11, <1>12, <1>13, <1>14, <1>15
     DEF ArtifactNext

(* For any runs, builds, artifacts and pieces the invariant holds.         *)
THEOREM ArtifactInvariant ==
  ASSUME ArtifactConstants
  PROVE  ArtifactSpec => []ArtifactIInv
<1>1. ArtifactInit => ArtifactIInv
  <2> SUFFICES ASSUME ArtifactInit PROVE ArtifactIInv
    OBVIOUS
  <2>1. 1 \in DOMAIN Wanted
    BY ArtifactConstants DEF ArtifactConstants
  <2>2. /\ shelf = [path \in Paths |-> Nil] /\ drafts = [d \in Drafts |-> Nil]
        /\ step = [r \in Runs |-> "folder"] /\ item = [r \in Runs |-> 1]
        /\ temps = {} /\ faulty = {} /\ build \in [Runs -> Builds]
    BY DEF ArtifactInit, Paths, ArtifactNames, Drafts
  <2>3. home \in {Nil} \cup [kind : {"folder", "link"}, mine : BOOLEAN, open : BOOLEAN]
    <3>1. PICK S : S = [kind : {"folder", "link"}, mine : BOOLEAN, open : BOOLEAN]
      OBVIOUS
    <3>2. /\ Mine \in S /\ Folder("folder", TRUE, TRUE) \in S /\ Folder("folder", FALSE, FALSE) \in S
          /\ Folder("link", FALSE, FALSE) \in S
      BY <3>1 DEF Mine, Folder
    <3>3. home \in {Nil} \cup S
      BY <3>2 DEF ArtifactInit
    <3> QED BY <3>1, <3>3
  <2>4. ArtifactTypeOK
    BY <2>1, <2>2, <2>3 DEF ArtifactTypeOK, Steps
  <2>5. ASSUME NEW r \in Runs PROVE Housed(r) /\ Drafted(r) /\ Given(r)
    <3>1. DOMAIN Wanted = 1 .. Len(Wanted) /\ Len(Wanted) \in Nat
      BY <2>4, AtArtifact, ArtifactConstants
    <3> QED BY <2>2, <3>1 DEF Housed, Drafted, Given
  <2> QED BY <2>2, <2>4, <2>5 DEF ArtifactIInv, Shelved
<1>2. ArtifactIInv /\ [ArtifactNext]_artifactVars => ArtifactIInv'
  BY ArtifactStep, ArtifactConstants
<1> QED BY <1>1, <1>2, PTL DEF ArtifactSpec

(* What a run was given is there, whole, of its own build and in a folder  *)
(* of its user's; no run fails because another was faster; and only a run  *)
(* that was killed leaves a temporary file.                                *)
THEOREM ArtifactsWhole ==
  ASSUME ArtifactConstants
  PROVE  ArtifactSpec => []MaterializedWhole
<1>1. ArtifactIInv => MaterializedWhole
  <2> SUFFICES ASSUME ArtifactIInv, NEW r \in Runs
               PROVE  /\ \A i \in 1 .. item[r] - (IF step[r] = "done" THEN 0 ELSE 1) :
                           LET d == shelf[Path(r, Wanted[i].name)] IN
                           /\ home = Mine
                           /\ d # Nil /\ Whole(d, Wanted[i].name, Wanted[i].executable, build[r])
                      /\ step[r] = "failed" => r \in faulty \/ home \notin {Nil, Mine}
                      /\ \A d \in temps : d[1] = r =>
                           step[r] \in {"write", "persist", "unlink", "lost", "dead"}
    BY DEF MaterializedWhole
  <2>1. ArtifactTypeOK /\ Housed(r) /\ Given(r)
    BY DEF ArtifactIInv
  <2>2. /\ item[r] \in 1 .. Len(Wanted) /\ DOMAIN Wanted = 1 .. Len(Wanted) /\ Len(Wanted) \in Nat
    BY <2>1, AtArtifact, ArtifactConstants
  <2>3. ASSUME NEW i \in 1 .. item[r] - (IF step[r] = "done" THEN 0 ELSE 1)
        PROVE  LET d == shelf[Path(r, Wanted[i].name)] IN
               /\ home = Mine
               /\ d # Nil /\ Whole(d, Wanted[i].name, Wanted[i].executable, build[r])
    <3>1. i \in DOMAIN Wanted /\ (i < item[r] \/ (i = item[r] /\ step[r] = "done"))
      BY <2>2
    <3>2. home = Mine
      <4>1. CASE i < item[r]
        <5>1. item[r] > 1
          BY <2>2, <3>1, <4>1
        <5> QED BY <2>1, <5>1 DEF Housed
      <4>2. CASE step[r] = "done"
        BY <2>1, <4>2 DEF Housed
      <4> QED BY <3>1, <4>1, <4>2
    <3>3. PICK path \in Paths : path = Path(r, Wanted[i].name)
      BY <2>1, <3>1, PathOfWanted, ArtifactConstants
    <3>4. path[1] = Wanted[i].name /\ path[2] = build[r]
      BY <3>3 DEF Path
    <3>5. PICK d : d = shelf[path]
      OBVIOUS
    <3>6. d # Nil
      BY <2>1, <3>1, <3>3, <3>5 DEF Given
    <3>7. /\ Wanted[d[2]].name = path[1] /\ Whole(d, path[1], Wanted[d[2]].executable, path[2])
      BY <3>5, <3>6 DEF ArtifactIInv, Shelved
    <3>8. d[2] \in DOMAIN Wanted
      BY <2>1, <3>5, <3>6 DEF ArtifactTypeOK, Drafts
    <3>9. Wanted[d[2]].executable = Wanted[i].executable
      BY <3>1, <3>4, <3>7, <3>8, ArtifactConstants DEF ArtifactConstants
    <3> QED BY <3>2, <3>3, <3>4, <3>5, <3>6, <3>7, <3>9
  <2>4. ASSUME NEW d \in temps, d[1] = r
        PROVE  step[r] \in {"write", "persist", "unlink", "lost", "dead"}
    BY <2>4 DEF ArtifactIInv, Temporary
  <2> QED BY <2>1, <2>3, <2>4 DEF Housed
<1> QED BY <1>1, ArtifactInvariant, PTL

-----------------------------------------------------------------------------
(* ExecTracking.                                                           *)

(* What the proofs need of the constants: the processes run in a folder    *)
(* that has a name, and a script of the system is for a program of the     *)
(* system.                                                                 *)
ExecConstants ==
  /\ Cwd \notin {"", ".", Fds}
  /\ \A p \in DOMAIN Disk :
       Disk[p].kind = "script" /\ OfSystem(p) => OfSystem(Disk[p].line.interp)

Passed == [preload : Seq({"user", "fspy"}), payload : {"none", "other", "fspy"}]
Carries(e) == "fspy" \in ToSet(e.preload)

ExecTypeOK ==
  /\ platform \in {"glibc", "musl", "macos"}
  /\ env \in Passed
  /\ preloaded \in BOOLEAN /\ filtered \in BOOLEAN /\ closed \in BOOLEAN
  /\ last.made \in BOOLEAN

(* A program that was just run is tracked, or will be by the library.      *)
Covered == image # NoFile => preloaded \/ filtered \/ closed \/ (last.made /\ Loads)

(* The library is named behind all others, with its payload; and but for   *)
(* the programs of macOS that drop it, one that is given the library has   *)
(* it once it has begun.                                                   *)
NamedLast == Carries(env) => Last(env.preload) = "fspy" /\ env.payload = "fspy"
TakenUp ==
  /\ preloaded => Carries(env) /\ ~(platform = "macos" /\ OfSystem(image))
  /\ Carries(env) /\ ~preloaded => last.made /\ (Loads \/ (platform = "macos" /\ OfSystem(image)))

ExecIInv == ExecTypeOK /\ Covered /\ NamedLast /\ TakenUp

-----------------------------------------------------------------------------
(* Paths and programs.                                                     *)
LEMMA AbsTwice ==
  ASSUME ExecConstants, NEW p
  PROVE  Abs(Abs(p)) = Abs(p) /\ Kind(Abs(p)) = Kind(p) /\ (Kind(p) = "script" => Line(p) = Disk[Abs(p)].line)
<1>1. Abs(Abs(p)) = Abs(p)
  <2>1. CASE p[1] \in {"", ".", Fds}
    <3>1. Abs(p) = <<Cwd, p[2]>>
          BY <2>1 DEF Abs
    <3>2. <<Cwd, p[2]>>[1] \notin {"", ".", Fds}
          BY DEF ExecConstants
    <3>. QED BY <3>1, <3>2 DEF Abs
  <2>2. CASE p[1] \notin {"", ".", Fds}
        BY <2>2 DEF Abs
  <2>. QED BY <2>1, <2>2
<1>. QED BY <1>1 DEF Kind, Line

LEMMA AbsOfSystem ==
  ASSUME ExecConstants, NEW p, OfSystem(p)
  PROVE  OfSystem(Abs(p))
<1>1. CASE p[1] \in {"", "."}
  <2>1. Abs(p) = <<Cwd, p[2]>> /\ Cwd \in {"/bin", "/usr/bin"}
        BY <1>1 DEF Abs, OfSystem
  <2>2. <<Cwd, p[2]>>[1] = Cwd
        OBVIOUS
  <2>. QED BY <2>1, <2>2 DEF OfSystem
<1>2. CASE p[1] \notin {"", "."}
  <2>1. p[1] # Fds
        BY <1>2 DEF OfSystem, Fds
  <2>. QED BY <1>2, <2>1 DEF Abs
<1>. QED BY <1>1, <1>2

(* A record of the kernel's, on its way through the interpreters.          *)
OnItsWay(x) ==
  /\ DOMAIN x = {"err", "done", "prog", "argv", "opened"}
  /\ x = [f \in DOMAIN x |-> x[f]]

LEMMA KernelDynamic ==
  ASSUME NEW x, OnItsWay(x), x.err = Ok, ~x.done, Kind(x.prog) = "dynamic"
  PROVE  /\ OnItsWay(KernelStep(x)) /\ KernelStep(x).done
         /\ KernelStep(x).prog = Abs(x.prog)
<1>1. KernelStep(x) = [x EXCEPT !.done = TRUE, !.opened = Append(x.opened, Abs(x.prog)),
                                !.prog = Abs(x.prog)]
      BY DEF KernelStep, Ok
<1>. QED BY <1>1 DEF OnItsWay

LEMMA KernelSystem ==
  ASSUME ExecConstants, NEW x, OnItsWay(x), OfSystem(x.prog)
  PROVE  OnItsWay(KernelStep(x)) /\ OfSystem(KernelStep(x).prog)
<1> DEFINE kind == Kind(x.prog)
           opened == Append(x.opened, Abs(x.prog))
           argv == <<Line(x.prog).interp>> \o LineArgs(Line(x.prog)) \o <<x.prog>> \o Tail(x.argv)
<1>1. KernelStep(x) =
        IF x.err # Ok \/ x.done THEN x
        ELSE CASE kind = "none" -> [x EXCEPT !.err = "ENOENT"]
               [] kind = "loop" -> [x EXCEPT !.err = "ELOOP"]
               [] kind \in {"plain", "folder"} -> [x EXCEPT !.err = "EACCES"]
               [] kind = "text" \/ (kind = "script" /\ LineError(Line(x.prog)) # Ok) ->
                    [x EXCEPT !.err = "ENOEXEC"]
               [] kind = "script" -> [x EXCEPT !.prog = Line(x.prog).interp, !.opened = opened,
                                               !.argv = argv]
               [] OTHER -> [x EXCEPT !.done = TRUE, !.opened = opened, !.prog = Abs(x.prog)]
      BY DEF KernelStep
<1> HIDE DEF opened, argv
<1>2. CASE KernelStep(x) = x
      BY <1>2
<1>3. CASE \E e : KernelStep(x) = [x EXCEPT !.err = e]
      BY <1>3 DEF OnItsWay
<1>4. CASE /\ kind = "script"
           /\ KernelStep(x) = [x EXCEPT !.prog = Line(x.prog).interp, !.opened = opened, !.argv = argv]
  <2>1. /\ OnItsWay(KernelStep(x)) /\ KernelStep(x).prog = Line(x.prog).interp
        BY <1>4 DEF OnItsWay
  <2>2. Abs(x.prog) \in DOMAIN Disk /\ Disk[Abs(x.prog)].kind = "script"
        BY <1>4 DEF Kind
  <2>3. OfSystem(Line(x.prog).interp)
        BY <2>2, AbsOfSystem DEF ExecConstants, Line
  <2>. QED BY <2>1, <2>3
<1>5. CASE KernelStep(x) = [x EXCEPT !.done = TRUE, !.opened = opened, !.prog = Abs(x.prog)]
  <2>1. OnItsWay(KernelStep(x)) /\ KernelStep(x).prog = Abs(x.prog)
        BY <1>5 DEF OnItsWay
  <2>. QED BY <2>1, AbsOfSystem
<1>6. \/ KernelStep(x) = x
      \/ KernelStep(x) = [x EXCEPT !.err = "ENOENT"]
      \/ KernelStep(x) = [x EXCEPT !.err = "ELOOP"]
      \/ KernelStep(x) = [x EXCEPT !.err = "EACCES"]
      \/ KernelStep(x) = [x EXCEPT !.err = "ENOEXEC"]
      \/ /\ kind = "script"
         /\ KernelStep(x) = [x EXCEPT !.prog = Line(x.prog).interp, !.opened = opened, !.argv = argv]
      \/ KernelStep(x) = [x EXCEPT !.done = TRUE, !.opened = opened, !.prog = Abs(x.prog)]
      BY ONLY <1>1
<1>7. CASE \/ KernelStep(x) = [x EXCEPT !.err = "ENOENT"]
           \/ KernelStep(x) = [x EXCEPT !.err = "ELOOP"]
           \/ KernelStep(x) = [x EXCEPT !.err = "EACCES"]
           \/ KernelStep(x) = [x EXCEPT !.err = "ENOEXEC"]
      BY <1>3, <1>7, Zenon
<1>. QED BY <1>2, <1>4, <1>5, <1>6, <1>7, Zenon

LEMMA ExecStarts ==
  ASSUME NEW p, NEW argv
  PROVE  LET x == [err |-> Ok, done |-> FALSE, prog |-> p, argv |-> argv, opened |-> <<>>] IN
           OnItsWay(x) /\ x.err = Ok /\ ~x.done /\ x.prog = p
BY DEF OnItsWay

LEMMA ExecveDynamic ==
  ASSUME NEW p, NEW argv, Kind(p) = "dynamic"
  PROVE  Execve(p, argv).prog = Abs(p)
<1>1. PICK x : x = [err |-> Ok, done |-> FALSE, prog |-> p, argv |-> argv, opened |-> <<>>]
      OBVIOUS
<1>2. OnItsWay(x) /\ x.err = Ok /\ ~x.done /\ x.prog = p
      BY <1>1, ExecStarts
<1>3. KernelStep(x).done /\ KernelStep(x).prog = Abs(p)
      BY <1>2, KernelDynamic
<1>4. \A y : y.done => KernelStep(y) = y
      BY DEF KernelStep
<1>. QED BY <1>1, <1>3, <1>4 DEF Execve

LEMMA ExecveSystem ==
  ASSUME ExecConstants, NEW p, NEW argv, OfSystem(p)
  PROVE  OfSystem(Execve(p, argv).prog)
<1>1. PICK x : x = [err |-> Ok, done |-> FALSE, prog |-> p, argv |-> argv, opened |-> <<>>]
      OBVIOUS
<1>2. OnItsWay(x) /\ OfSystem(x.prog)
      BY <1>1, ExecStarts
<1>3. PICK y : y = KernelStep(x)
      OBVIOUS
<1>4. OnItsWay(y) /\ OfSystem(y.prog)
      BY <1>2, <1>3, KernelSystem
<1>5. PICK z : z = KernelStep(y)
      OBVIOUS
<1>6. OnItsWay(z) /\ OfSystem(z.prog)
      BY <1>4, <1>5, KernelSystem
<1>. QED BY <1>1, <1>3, <1>5, <1>6, KernelSystem DEF Execve

-----------------------------------------------------------------------------
(* What a call is resolved to, and what is injected into it.               *)
LEMMA FailedSays ==
  ASSUME NEW err, NEW reads
  PROVE  Failed(err, reads).err = err
BY DEF Failed

(* A call that is resolved has a program and arguments.                    *)
LEMMA ResolvedShape ==
  ASSUME NEW call, ResolveExec(call).err = Ok
  PROVE  DOMAIN ResolveExec(call) = {"err", "reads", "prog", "argv"}
<1> DEFINE found == IF call.search /\ call.prog[1] = "" THEN Which(call.prog[2], call.path)
                    ELSE [err |-> Ok, reads |-> {}, prog |-> call.prog]
<1>1. ResolveExec(call) = IF found.err # Ok THEN found ELSE ParseShebang(found, call.argv)
      BY DEF ResolveExec
<1> HIDE DEF found
<1>2. found.err = Ok /\ ResolveExec(call) = ParseShebang(found, call.argv)
      BY <1>1
<1>3. PICK p, reads : p = found.prog /\ reads = found.reads \cup {p}
      OBVIOUS
<1>4. ParseShebang(found, call.argv) =
        IF ReadShebang(p) # Ok THEN Failed(ReadShebang(p), reads)
        ELSE IF Kind(p) = "script"
          THEN [err |-> Ok, reads |-> reads, prog |-> Line(p).interp, argv |-> Splice(p, call.argv)]
          ELSE [err |-> Ok, reads |-> reads, prog |-> p, argv |-> call.argv]
      BY <1>3 DEF ParseShebang
<1>. QED BY <1>2, <1>4, FailedSays

(* The library is appended, with its payload.                              *)
LEMMA AppendedLast ==
  ASSUME NEW list \in Seq({"user", "fspy"})
  PROVE  /\ AppendPathEnv(list) \in Seq({"user", "fspy"})
         /\ "fspy" \in ToSet(AppendPathEnv(list)) /\ Last(AppendPathEnv(list)) = "fspy"
<1>1. CASE list # <<>> /\ Last(list) = "fspy"
      BY <1>1 DEF AppendPathEnv, Last, ToSet
<1>2. CASE ~(list # <<>> /\ Last(list) = "fspy")
  <2>1. AppendPathEnv(list) = Append(list, "fspy")
        BY <1>2 DEF AppendPathEnv
  <2>2. /\ Append(list, "fspy") \in Seq({"user", "fspy"}) /\ Len(Append(list, "fspy")) = Len(list) + 1
        /\ Len(list) + 1 \in DOMAIN Append(list, "fspy") /\ Append(list, "fspy")[Len(list) + 1] = "fspy"
        OBVIOUS
  <2>. QED BY <2>1, <2>2 DEF Last, ToSet
<1>. QED BY <1>1, <1>2

(* What a tracked call gives the program: the library last, or nothing.    *)
WithLibrary(x) ==
  x.env \in Passed /\ Carries(x.env) /\ Last(x.env.preload) = "fspy" /\ x.env.payload = "fspy"
Without(x) == x.env \in Passed /\ ~Carries(x.env)

LEMMA InjectedGives ==
  ASSUME NEW r, DOMAIN r = {"err", "reads", "prog", "argv"}, NEW e \in Passed,
         Injected(r, e).err = Ok
  PROVE  WithLibrary(Injected(r, e)) /\ Injected(r, e).prog = r.prog
<1>1. e.payload # "other"
      BY FailedSays DEF Injected, Ok
<1>2. PICK v : v = [preload |-> AppendPathEnv(e.preload), payload |-> "fspy"]
      OBVIOUS
<1>3. Injected(r, e) = Prepared(r, v, FALSE)
      BY <1>1, <1>2 DEF Injected
<1>4. Injected(r, e).env = v /\ Injected(r, e).prog = r.prog
      BY <1>3 DEF Prepared
<1>5. /\ AppendPathEnv(e.preload) \in Seq({"user", "fspy"})
      /\ "fspy" \in ToSet(AppendPathEnv(e.preload)) /\ Last(AppendPathEnv(e.preload)) = "fspy"
      BY AppendedLast DEF Passed
<1>. QED BY <1>2, <1>4, <1>5 DEF WithLibrary, Passed, Carries

LEMMA StrippedGives ==
  ASSUME NEW r, DOMAIN r = {"err", "reads", "prog", "argv"}, NEW f
  PROVE  /\ Without(Stripped(r, f)) /\ Stripped(r, f).prog = r.prog /\ Stripped(r, f).filter = f
<1>1. PICK v : v = [preload |-> <<>>, payload |-> "none"]
      OBVIOUS
<1>2. Stripped(r, f) = Prepared(r, v, f)
      BY <1>1 DEF Stripped
<1>3. Stripped(r, f).env = v /\ Stripped(r, f).prog = r.prog /\ Stripped(r, f).filter = f
      BY <1>2 DEF Prepared
<1>4. v \in Passed /\ ToSet(v.preload) = {}
      BY <1>1 DEF Passed, ToSet
<1>. QED BY <1>3, <1>4 DEF Without, Carries

(* A tracked call that comes to a program gives it the library, which it   *)
(* will take, or a filter; or it is a program of macOS's own.              *)
Tracks(x) ==
  LET ran == Execve(x.prog, x.argv).prog IN
  \/ /\ WithLibrary(x)
     /\ \/ platform = "glibc" /\ Kind(ran) = "dynamic"
        \/ platform = "macos"
  \/ Without(x) /\ (x.filter \/ (platform = "macos" /\ OfSystem(ran)))

LEMMA HandledTracks ==
  ASSUME ExecConstants, platform \in {"glibc", "musl", "macos"},
         NEW given, "env" \in DOMAIN given, given.env \in Passed, HandleExec(given).err = Ok
  PROVE  Tracks(HandleExec(given))
<1>1. PICK call : call = [given EXCEPT !.prog = ToAbsolutePath(given)]
      OBVIOUS
<1>2. call.env = given.env
      BY <1>1
<1>3. PICK e : e = call.env
      OBVIOUS
<1>4. PICK r : r = IF call.prog = NoFile THEN Failed("the call's own", {}) ELSE ResolveExec(call)
      OBVIOUS
<1>5. HandleExec(given) =
        IF r.err # Ok THEN r
        ELSE IF platform = "macos" THEN MacExec(ReadProgram(r), e) ELSE LinuxExec(ReadProgram(r), e)
      BY <1>1, <1>3, <1>4 DEF HandleExec
<1>6. r.err = Ok
      BY <1>5
<1>7. DOMAIN r = {"err", "reads", "prog", "argv"}
      BY <1>4, <1>6, FailedSays, ResolvedShape DEF Ok
<1>8. PICK q : q = ReadProgram(r)
      OBVIOUS
<1>9. DOMAIN q = {"err", "reads", "prog", "argv"} /\ q.prog = r.prog
      BY <1>7, <1>8 DEF ReadProgram
<1>10. e \in Passed
      BY <1>2, <1>3
<1>11. CASE platform = "macos"
  <2>1. HandleExec(given) = MacExec(q, e)
        BY <1>5, <1>6, <1>8, <1>11
  <2>2. CASE Abs(q.prog) \in DOMAIN Artifacts
    <3>1. PICK s : s = [q EXCEPT !.prog = Artifacts[Abs(q.prog)]]
          OBVIOUS
    <3>2. DOMAIN s = {"err", "reads", "prog", "argv"}
          BY <1>9, <3>1
    <3>3. HandleExec(given) = Injected(s, e)
          BY <2>1, <2>2, <3>1 DEF MacExec
    <3>. QED BY <1>10, <1>11, <3>2, <3>3, InjectedGives DEF Tracks
  <2>3. CASE Abs(q.prog) \notin DOMAIN Artifacts /\ OfSystem(q.prog)
    <3>1. PICK x : x = HandleExec(given)
          OBVIOUS
    <3>2. x = Stripped(q, FALSE)
          BY <2>1, <2>3, <3>1 DEF MacExec
    <3>3. Without(x) /\ x.prog = q.prog
          BY <1>9, <3>2, StrippedGives
    <3>4. OfSystem(Execve(x.prog, x.argv).prog)
          BY <2>3, <3>3, ExecveSystem
    <3>. QED BY <1>11, <3>1, <3>3, <3>4 DEF Tracks
  <2>4. CASE Abs(q.prog) \notin DOMAIN Artifacts /\ ~OfSystem(q.prog)
    <3>1. HandleExec(given) = Injected(q, e)
          BY <2>1, <2>4 DEF MacExec
    <3>. QED BY <1>9, <1>10, <1>11, <3>1, InjectedGives DEF Tracks
  <2>. QED BY <2>2, <2>3, <2>4
<1>12. CASE platform # "macos"
  <2>1. PICK x : x = HandleExec(given)
        OBVIOUS
  <2>2. x = Linked(q, e, TRUE)
        BY <1>5, <1>6, <1>8, <1>12, <2>1 DEF LinuxExec
  <2> DEFINE open == OpenExecutable(q.prog)
             kind == Kind(q.prog)
             stripped == Stripped(q, TRUE)
             injected == Injected(q, e)
             unopened == Failed(open, q.reads)
             folder == Failed("ENODEV", q.reads)
             text == Failed("ENOEXEC", q.reads)
             musl == platform = "musl"
  <2>3. x = IF musl THEN stripped
            ELSE CASE open # Ok -> unopened
                   [] kind = "folder" -> folder
                   [] kind \in {"script", "text"} -> text
                   [] kind = "dynamic" -> injected
                   [] OTHER -> stripped
        BY <2>2 DEF Linked
  <2>4. (open # Ok => unopened.err # Ok) /\ folder.err # Ok /\ text.err # Ok
        BY FailedSays DEF Ok
  <2> HIDE DEF open, kind, stripped, injected, unopened, folder, text
  <2>5. x.err = Ok
        BY <2>1
  <2>6. x = stripped \/ (~musl /\ kind = "dynamic" /\ x = injected)
        BY ONLY <2>3, <2>4, <2>5
  <2>7. CASE x = stripped
        BY <1>9, <2>1, <2>7, StrippedGives DEF Tracks, stripped
  <2>8. CASE ~musl /\ kind = "dynamic" /\ x = injected
    <3>1. WithLibrary(x) /\ x.prog = q.prog
          BY <1>9, <1>10, <2>5, <2>8, InjectedGives DEF injected
    <3>2. Kind(Execve(x.prog, x.argv).prog) = "dynamic"
          BY <2>8, <3>1, ExecveDynamic, AbsTwice DEF kind
    <3>. QED BY <1>12, <2>1, <2>8, <3>1, <3>2 DEF Tracks, musl
  <2>. QED BY <2>1, <2>6, <2>7, <2>8
<1>. QED BY <1>11, <1>12

-----------------------------------------------------------------------------
(* The steps.                                                              *)
LEMMA ExecInitInv ==
  ExecInit => ExecIInv
<1> SUFFICES ASSUME ExecInit PROVE ExecIInv
    OBVIOUS
<1>1. PICK list \in {<<>>, <<"user">>} : env = [preload |-> list, payload |-> "none"]
      BY DEF ExecInit
<1>2. list \in Seq({"user", "fspy"}) /\ "fspy" \notin ToSet(list)
  <2>1. CASE list = <<>>
        BY <2>1 DEF ToSet
  <2>2. CASE list = <<"user">>
    <3>1. Len(list) = 1 /\ list[1] = "user" /\ DOMAIN list = 1..1
          BY <2>2
    <3>. QED BY <2>2, <3>1 DEF ToSet
  <2>. QED BY <1>1, <2>1, <2>2
<1>3. env \in Passed /\ ~Carries(env)
      BY <1>1, <1>2 DEF Passed, Carries
<1>4. last.made = FALSE /\ preloaded = FALSE /\ filtered = FALSE /\ closed = FALSE
      BY DEF ExecInit, NoCall
<1>. QED BY <1>3, <1>4 DEF ExecInit, ExecIInv, ExecTypeOK, Covered, NamedLast, TakenUp

(* A call that fails leaves all as it was, but for a filter.               *)
LEMMA BecomesStep ==
  ASSUME ExecIInv, ~last.made, NEW call, NEW x, NEW by, NEW recorded, NEW refused,
         x.err = Ok => Tracks(x) \/ (Without(x) /\ (filtered \/ closed)),
         Becomes(call, x, by, recorded, refused)
  PROVE  ExecIInv'
<1>1. PICK ran : ran = Execve(x.prog, x.argv)
      OBVIOUS
<1>2. CASE refused \/ x.err # Ok \/ ran.err # Ok
  <2>1. /\ last'.made = TRUE /\ UNCHANGED <<platform, image, env, preloaded, closed>>
        /\ filtered' \in BOOLEAN /\ (filtered => filtered')
    <3>1. /\ last'.made = TRUE /\ UNCHANGED <<platform, image, env, preloaded, closed>>
          /\ filtered' = (filtered \/ (x.err = Ok /\ x.filter /\ ~call.spawn))
          BY <1>1, <1>2 DEF Becomes
    <3>. QED BY <3>1
  <2>2. ~preloaded => ~Carries(env)
        BY DEF ExecIInv, TakenUp
  <2>3. Covered'
        BY <2>1 DEF ExecIInv, Covered
  <2>. QED BY <2>1, <2>2, <2>3 DEF ExecIInv, ExecTypeOK, NamedLast, TakenUp, Carries, Passed
<1>3. CASE ~(refused \/ x.err # Ok \/ ran.err # Ok)
  <2>1. /\ last'.made = TRUE /\ image' = ran.prog /\ env' = x.env /\ preloaded' = FALSE
        /\ platform' = platform
        /\ filtered' = (filtered \/ x.filter)
        /\ closed' = (closed \/ (platform = "macos" /\ OfSystem(ran.prog)))
        BY <1>1, <1>3 DEF Becomes
  <2>2. platform \in {"glibc", "musl", "macos"} /\ platform' \in {"glibc", "musl", "macos"}
        BY <2>1 DEF ExecIInv, ExecTypeOK
  <2>3. filtered' \in BOOLEAN /\ closed' \in BOOLEAN
        BY <2>1
  <2>4. CASE /\ WithLibrary(x)
             /\ (platform = "glibc" /\ Kind(ran.prog) = "dynamic") \/ platform = "macos"
    <3>1. Carries(env)' /\ env' \in Passed /\ Last(env'.preload) = "fspy" /\ env'.payload = "fspy"
          BY <2>1, <2>4 DEF WithLibrary, Carries
    <3>2. Loads' \/ (platform' = "macos" /\ OfSystem(image)')
          BY <2>1, <2>4, <3>1 DEF Loads, Kind, Abs, OfSystem, Carries
    <3>3. (platform' = "macos" /\ OfSystem(image)') => closed'
          BY <2>1 DEF OfSystem
    <3>. QED BY <2>1, <2>2, <2>3, <3>1, <3>2, <3>3
             DEF ExecIInv, ExecTypeOK, Covered, NamedLast, TakenUp, Passed
  <2>5. CASE Without(x) /\ (filtered' \/ closed')
    <3>1. ~Carries(env)' /\ env' \in Passed
          BY <2>1, <2>5 DEF Without, Carries
    <3>. QED BY <2>1, <2>2, <2>3, <2>5, <3>1
             DEF ExecIInv, ExecTypeOK, Covered, NamedLast, TakenUp, Passed
  <2>6. Tracks(x) \/ (Without(x) /\ (filtered \/ closed))
        BY <1>3
  <2>. QED BY <1>1, <2>1, <2>4, <2>5, <2>6 DEF Tracks
<1>. QED BY <1>2, <1>3

(* What a program passes on: it names the library only if it has it.       *)
LEMMA EnvsPassed ==
  ASSUME ExecIInv, ~last.made, NEW e \in Envs
  PROVE  e \in Passed /\ (~preloaded => ~Carries(e))
<1>1. env \in Passed /\ (~preloaded => ~Carries(env))
      BY DEF ExecIInv, ExecTypeOK, TakenUp
<1>2. PICK list : list = env.preload
      OBVIOUS
<1>3. list \in Seq({"user", "fspy"}) /\ (~preloaded => "fspy" \notin ToSet(list))
      BY <1>1, <1>2 DEF Passed, Carries
<1>4. /\ <<"user">> \o list \in Seq({"user", "fspy"}) /\ Append(list, "user") \in Seq({"user", "fspy"})
      /\ ToSet(<<"user">> \o list) = {"user"} \cup ToSet(list)
      /\ ToSet(Append(list, "user")) = {"user"} \cup ToSet(list)
  <2>1. /\ <<"user">> \o list \in Seq({"user", "fspy"})
        /\ Len(<<"user">> \o list) = Len(list) + 1
        /\ (<<"user">> \o list)[1] = "user"
        /\ \A i \in 1..Len(list) : (<<"user">> \o list)[i + 1] = list[i]
        BY <1>3
  <2>2. /\ Append(list, "user") \in Seq({"user", "fspy"})
        /\ Len(Append(list, "user")) = Len(list) + 1
        /\ Append(list, "user")[Len(list) + 1] = "user"
        /\ \A i \in 1..Len(list) : Append(list, "user")[i] = list[i]
        BY <1>3
  <2>3. ToSet(<<"user">> \o list) = {"user"} \cup ToSet(list)
    <3>1. PICK front : front = <<"user">> \o list
          OBVIOUS
    <3>2. DOMAIN front = 1..(Len(list) + 1) /\ DOMAIN list = 1..Len(list) /\ Len(list) \in Nat
          BY <1>3, <2>1, <3>1
    <3>3. front[1] = "user" /\ \A i \in 1..Len(list) : front[i + 1] = list[i]
          BY <2>1, <3>1
    <3>4. \A i \in DOMAIN front : i = 1 \/ (i - 1 \in DOMAIN list /\ front[i] = list[i - 1])
          BY <3>2, <3>3
    <3>5. \A i \in DOMAIN list : i + 1 \in DOMAIN front /\ front[i + 1] = list[i]
          BY <3>2, <3>3
    <3>6. 1 \in DOMAIN front
          BY <3>2
    <3>. QED BY <3>1, <3>3, <3>4, <3>5, <3>6 DEF ToSet
  <2>4. ToSet(Append(list, "user")) = {"user"} \cup ToSet(list)
        BY <1>3, <2>2 DEF ToSet
  <2>. QED BY <2>1, <2>2, <2>3, <2>4
<1>5. CASE e = env
      BY <1>1, <1>5
<1>6. CASE e = [env EXCEPT !.preload = <<"user">> \o @]
  <2>1. e.preload = <<"user">> \o list /\ e.payload = env.payload /\ e \in Passed
        BY <1>1, <1>2, <1>4, <1>6 DEF Passed
  <2>. QED BY <1>3, <1>4, <2>1 DEF Carries
<1>7. CASE e = [env EXCEPT !.preload = Append(@, "user")]
  <2>1. e.preload = Append(list, "user") /\ e.payload = env.payload /\ e \in Passed
        BY <1>1, <1>2, <1>4, <1>7 DEF Passed
  <2>. QED BY <1>3, <1>4, <2>1 DEF Carries
<1>8. CASE e = [preload |-> <<>>, payload |-> "none"]
      BY <1>8 DEF Passed, Carries, ToSet
<1>9. CASE e = [preload |-> <<"fspy">>, payload |-> "other"] /\ preloaded
      BY <1>9 DEF Passed
<1>. QED BY <1>5, <1>6, <1>7, <1>8, <1>9 DEF Envs

LEMMA CallStep ==
  ASSUME ExecConstants, ExecIInv, Call
  PROVE  ExecIInv'
<1>1. ~last.made /\ platform \in {"glibc", "musl", "macos"}
      BY DEF Call, ExecIInv, ExecTypeOK
<1>2. PICK c \in Shapes, e \in Envs :
        LET call == [prog |-> c.prog, search |-> c.search, spawn |-> c.spawn, path |-> c.path,
                     at |-> c.at, empty |-> c.empty, argv |-> c.argv, env |-> e] IN
        Launch(call) \/ Intercepted(call) \/ Trapped(call)
      BY DEF Call
<1>3. PICK call : call = [prog |-> c.prog, search |-> c.search, spawn |-> c.spawn, path |-> c.path,
                          at |-> c.at, empty |-> c.empty, argv |-> c.argv, env |-> e]
      OBVIOUS
<1>4. /\ Launch(call) \/ Intercepted(call) \/ Trapped(call)
      /\ "env" \in DOMAIN call /\ "prog" \in DOMAIN call /\ call.env = e
      BY <1>2, <1>3
<1>5. e \in Passed /\ (~preloaded => ~Carries(e))
      BY <1>1, EnvsPassed
<1>6. CASE Launch(call)
  <2>1. PICK at, recorded :
          /\ "env" \in DOMAIN at /\ at.env = e
          /\ Becomes(at, HandleExec(at), "client", recorded, FALSE)
    <3>1. PICK first : first = CHOOSE i \in OnPath(call) : \A j \in OnPath(call) : i <= j
          OBVIOUS
    <3>2. PICK at : at = [call EXCEPT !.prog = Abs(<<call.path[first], call.prog[2]>>)]
          OBVIOUS
    <3>3. "env" \in DOMAIN at /\ at.env = e
          BY <1>4, <3>2
    <3>4. Becomes(at, HandleExec(at), "client", {Abs(p) : p \in HandleExec(at).reads}, FALSE)
          BY <1>6, <3>1, <3>2 DEF Launch
    <3>. QED BY <3>3, <3>4
  <2>2. PICK x : x = HandleExec(at)
        OBVIOUS
  <2>3. x.err = Ok => Tracks(x)
        BY <1>1, <1>5, <2>1, <2>2, HandledTracks
  <2>. QED BY <1>1, <2>1, <2>2, <2>3, BecomesStep
<1>7. CASE Intercepted(call)
  <2>1. PICK x : x = WithFilter(HandleExec(call))
        OBVIOUS
  <2>2. \E refused \in BOOLEAN : Becomes(call, x, "client", Sent(x.reads), refused)
        BY <1>7, <2>1 DEF Intercepted
  <2>3. x.err = Ok => x = HandleExec(call)
        BY <2>1, FailedSays DEF WithFilter, Ok
  <2>4. x.err = Ok => Tracks(x)
        BY <1>1, <1>4, <1>5, <2>3, HandledTracks
  <2>5. PICK recorded : recorded = Sent(x.reads)
        OBVIOUS
  <2>. QED BY <1>1, <2>2, <2>4, <2>5, BecomesStep
<1>8. CASE Trapped(call)
  <2>1. PICK y : y = Libc(call)
        OBVIOUS
  <2>2. PICK x : x = IF y.err = Ok THEN [err |-> Ok, prog |-> y.prog, argv |-> y.argv,
                                         env |-> call.env, filter |-> FALSE] ELSE y
        OBVIOUS
  <2>3. PICK by, recorded : Becomes(call, x, by, recorded, FALSE)
        BY <1>8, <2>1, <2>2 DEF Trapped
  <2>4. image # NoFile /\ ~preloaded
        BY <1>8 DEF Trapped
  <2>5. filtered \/ closed
        BY <1>1, <2>4 DEF ExecIInv, Covered
  <2>6. x.err = Ok => Without(x)
        BY <1>4, <1>5, <2>2, <2>4 DEF Without
  <2>. QED BY <1>1, <2>3, <2>5, <2>6, BecomesStep
<1>. QED BY <1>4, <1>6, <1>7, <1>8

LEMMA BeginStep ==
  ASSUME ExecIInv, Begin
  PROVE  ExecIInv'
<1>1. /\ last'.made = FALSE /\ preloaded' = (preloaded \/ Loads)
      /\ UNCHANGED <<platform, image, filtered, closed>>
      /\ env' = IF platform = "macos" /\ OfSystem(image) THEN [env EXCEPT !.preload = <<>>] ELSE env
      BY DEF Begin, NoCall
<1>2. ExecTypeOK /\ Covered /\ NamedLast /\ TakenUp
      BY DEF ExecIInv
<1>3. CASE platform = "macos" /\ OfSystem(image)
  <2>1. ~preloaded'
        BY <1>1, <1>2, <1>3 DEF TakenUp, Loads, ExecTypeOK
  <2>2. env' \in Passed /\ env'.preload = <<>>
    <3>1. PICK e : e = [env EXCEPT !.preload = <<>>]
          OBVIOUS
    <3>2. <<>> \in Seq({"user", "fspy"}) /\ env \in Passed
          BY <1>2 DEF ExecTypeOK
    <3>3. e \in Passed /\ e.preload = <<>>
          BY <3>1, <3>2 DEF Passed
    <3>. QED BY <1>1, <1>3, <3>1, <3>3 DEF Passed
  <2>3. ~Carries(env)'
        BY <2>2 DEF Carries, ToSet
  <2>4. Covered'
        BY <1>1, <1>2, <1>3 DEF Covered, Loads
  <2>. QED BY <1>1, <1>2, <2>1, <2>2, <2>3, <2>4 DEF ExecIInv, ExecTypeOK, NamedLast, TakenUp, Passed
<1>4. CASE ~(platform = "macos" /\ OfSystem(image))
  <2>1. env' = env
        BY <1>1, <1>4
  <2>2. Loads => Carries(env)
        BY DEF Loads, Carries
  <2>3. ExecTypeOK'
        BY <1>1, <1>2, <2>1 DEF ExecTypeOK, Passed
  <2>4. Covered'
        BY <1>1, <1>2 DEF Covered
  <2>5. NamedLast' /\ TakenUp'
        BY <1>1, <1>2, <1>4, <2>1, <2>2 DEF NamedLast, TakenUp, Carries, OfSystem
  <2>. QED BY <2>3, <2>4, <2>5 DEF ExecIInv
<1>. QED BY <1>3, <1>4

(* Whatever programs a task's processes run, and through whatever          *)
(* environments: what is tracked, by whom, and what is passed on agree.    *)
THEOREM ExecInvariant == ASSUME ExecConstants PROVE ExecInit /\ [][ExecNext]_execVars => []ExecIInv
<1>1. ExecIInv /\ UNCHANGED execVars => ExecIInv'
  <2> SUFFICES ASSUME ExecIInv, UNCHANGED execVars PROVE ExecIInv'
      OBVIOUS
  <2>1. UNCHANGED <<platform, image, env, preloaded, filtered, last, closed>>
        BY DEF execVars
  <2>2. ExecTypeOK /\ Covered /\ NamedLast /\ TakenUp
        BY DEF ExecIInv
  <2>3. ExecTypeOK'
        BY <2>1, <2>2 DEF ExecTypeOK, Passed
  <2>4. Loads' <=> Loads
        BY <2>1 DEF Loads, Kind, Abs, OfSystem
  <2>5. Covered'
        BY <2>1, <2>2, <2>4 DEF Covered
  <2>6. NamedLast'
        BY <2>1, <2>2 DEF NamedLast, Carries
  <2>7. TakenUp'
        BY <2>1, <2>2, <2>4 DEF TakenUp, Carries, OfSystem
  <2>. QED BY <2>3, <2>5, <2>6, <2>7 DEF ExecIInv
<1>2. ExecIInv /\ [ExecNext]_execVars => ExecIInv'
      BY <1>1, BeginStep, CallStep DEF ExecNext
<1>. QED BY <1>2, ExecInitInv, PTL

(* Every program that runs on Unix is tracked, by the library or by a      *)
(* filter, or comes after a program of macOS that takes no library; and    *)
(* where the library is, it is named last and has its payload.             *)
THEOREM ExecStaysTracked ==
  ASSUME ExecConstants PROVE ExecInit /\ [][ExecNext]_execVars => []StaysTracked
<1>1. ExecIInv => StaysTracked
      BY DEF ExecIInv, Covered, NamedLast, TakenUp, StaysTracked
<1>. QED BY <1>1, ExecInvariant, PTL
=============================================================================
