------------------------------ MODULE LeafProofs ------------------------------
(***************************************************************************)
(* Proofs about a leaf: what it does with its output, its cache entry and  *)
(* the remote cache, and what holds its process.                           *)
(*                                                                         *)
(* SpawnPipeline, for any amount of output: a cached run is whole and no   *)
(* process is orphaned.  RemoteLookup, for blobs and channels of any size: *)
(* an archive is whole, and no file is left of a lookup that misses.       *)
(* RemoteUploads, for any number of tasks: the summary sees what became of *)
(* every upload, and stores share one request for a token.                 *)
(*                                                                         *)
(* Supervisor, for any number of targets and of system calls: an access is *)
(* recorded before it happens, and stop() comes back after everything that *)
(* is tracked has ended.  ChildTree, on every platform and in every mode:  *)
(* what the process is given, and what a leaf that is over leaves behind.  *)
(* ChunkPool, the memory of the code inside the process, for any number of *)
(* threads, slots and addresses and any sizes of chunk, page and request:  *)
(* what is mapped has one owner, and the size that comes back tells what   *)
(* it is.                                                                  *)
(***************************************************************************)
EXTENDS SpawnPipeline, RemoteLookup, RemoteUploads, Supervisor, ChildTree, ChunkPool,
        SequenceTheorems, TLAPS

-----------------------------------------------------------------------------
(* SpawnPipeline.                                                          *)

(* Nothing runs before the spawn, and the channel opens with it.           *)
Unspawned ==
  /\ stage \in {"lookup", "hit", "miss"} =>
       process = "none" /\ writers = {} /\ ipc = "none" /\ tracking \in {"none", "asked"}
  /\ tracking = "asked" => stage \in {"lookup", "hit", "miss", "done"}

(* A process that runs holds its pipes, and nothing runs once waited for.  *)
ProcessKnown ==
  /\ process = "running" <=> "process" \in writers
  /\ stage \in {"stopping", "joined", "recording", "done"} => process # "running"

(* The server is drained, and the channel closed, when the join is over.   *)
Joined ==
  /\ guests = 1 => ipc = "serving"
  /\ stage \in {"stopping", "joined", "recording"} =>
       tracking \in {"none", "complete", "lost"}
  /\ stage = "joined" => ipc \in {"ok", "error"}

(* Without a cancelled token the pipes were read to their end.             *)
ReadToTheEnd ==
  stage \in {"waiting", "stopping", "joined"} /\ ~failToken =>
    writers = {} /\ captured = written

Whole ==
  /\ process = "exited"
  /\ writers = {} /\ captured = written
  /\ ipc = "ok" /\ ~disabled
  /\ tracking \in {"none", "complete"}

WholeWhenRecorded ==
  /\ stage = "recording" \/ recorded => Whole
  /\ recorded \/ report # "none" => stage = "done"

IInv == SpawnTypeOK /\ Unspawned /\ ProcessKnown /\ Joined /\ ReadToTheEnd /\ WholeWhenRecorded

-----------------------------------------------------------------------------
(* Every step keeps the types.                                             *)
LEMMA TypeStep ==
  ASSUME SpawnTypeOK, [SpawnNext]_spawnVars
  PROVE  SpawnTypeOK'
<1>1. CASE LookupFails
  BY <1>1, ChunksAssumption DEF LookupFails, SpawnTypeOK, Finish, task, tokens, ends
<1>2. CASE Lookup
  BY <1>2, ChunksAssumption DEF Lookup, SpawnTypeOK, Finish, task, tokens, ends, TokenCancelled
<1>3. CASE Replay
  BY <1>3, ChunksAssumption DEF Replay, SpawnTypeOK, Finish, task, tokens, ends
<1>4. CASE CannotSpawn
  BY <1>4, ChunksAssumption DEF CannotSpawn, SpawnTypeOK, Finish, task, tokens, ends
<1>5. CASE Spawn
  BY <1>5, ChunksAssumption DEF Spawn, SpawnTypeOK, Finish, task, tokens, ends
<1>6. CASE ReadChunk
  BY <1>6, ChunksAssumption DEF ReadChunk, SpawnTypeOK, Finish, task, tokens, ends
<1>7. CASE ReadEof
  BY <1>7, ChunksAssumption DEF ReadEof, SpawnTypeOK, Finish, task, tokens, ends
<1>8. CASE PipeCancelled
  BY <1>8, ChunksAssumption DEF PipeCancelled, SpawnTypeOK, Finish, task, tokens, ends
<1>9. CASE PipeBreaks
  BY <1>9, ChunksAssumption DEF PipeBreaks, SpawnTypeOK, Finish, task, tokens, ends
<1>10. CASE Kill
  BY <1>10, ChunksAssumption DEF Kill, SpawnTypeOK, Finish, task, tokens, ends
<1>11. CASE CloseTracking
  BY <1>11, ChunksAssumption DEF CloseTracking, SpawnTypeOK, Finish, task, tokens, ends
<1>12. CASE Waited
  BY <1>12, ChunksAssumption DEF Waited, SpawnTypeOK, Finish, task, tokens, ends
<1>13. CASE Drained
  BY <1>13, ChunksAssumption DEF Drained, SpawnTypeOK, Finish, task, tokens, ends
<1>14. CASE JoinFails
  BY <1>14, ChunksAssumption DEF JoinFails, SpawnTypeOK, Finish, task, tokens, ends
<1>15. CASE Decide
  BY <1>15, ChunksAssumption DEF Decide, SpawnTypeOK, Finish, task, tokens, ends, Cacheable, TokenCancelled
<1>16. CASE Record
  BY <1>16, ChunksAssumption DEF Record, SpawnTypeOK, Finish, task, tokens, ends
<1>17. CASE Output
  BY <1>17, ChunksAssumption DEF Output, SpawnTypeOK, Finish, task, tokens, ends
<1>18. CASE Fork
  BY <1>18, ChunksAssumption DEF Fork, SpawnTypeOK, Finish, task, tokens, ends
<1>19. CASE OrphanExits
  BY <1>19, ChunksAssumption, ZenonT(40) DEF OrphanExits, SpawnTypeOK, Finish, task, tokens, ends
<1>20. CASE TaskExits
  BY <1>20, ChunksAssumption DEF TaskExits, SpawnTypeOK, Finish, task, tokens, ends
<1>21. CASE ToolConnects
  BY <1>21, ChunksAssumption DEF ToolConnects, SpawnTypeOK, Finish, task, tokens, ends
<1>22. CASE ToolSpeaks
  <2>1. CASE disabled' = TRUE /\ UNCHANGED <<ipc, guests>>
    BY <1>22, <2>1, ChunksAssumption DEF ToolSpeaks, SpawnTypeOK, tokens, ends
  <2>2. CASE ipc' = "broken" /\ guests' = 0 /\ UNCHANGED disabled
    BY <1>22, <2>2, ChunksAssumption DEF ToolSpeaks, SpawnTypeOK, tokens, ends
  <2> QED
    BY <1>22, <2>1, <2>2 DEF ToolSpeaks
<1>23. CASE ToolLeaves
  BY <1>23, ChunksAssumption DEF ToolLeaves, SpawnTypeOK, Finish, task, tokens, ends
<1>24. CASE SiblingFails
  BY <1>24, ChunksAssumption DEF SiblingFails, SpawnTypeOK, Finish, task, tokens, ends
<1>25. CASE PressCtrlC
  BY <1>25, ChunksAssumption DEF PressCtrlC, SpawnTypeOK, Finish, task, tokens, ends
<1>26. CASE Handler
  BY <1>26, ChunksAssumption DEF Handler, SpawnTypeOK, Finish, task, tokens, ends
<1>27. CASE UNCHANGED spawnVars
  BY <1>27 DEF spawnVars, task, tokens, ends, SpawnTypeOK
<1> QED
  BY <1>1, <1>2, <1>3, <1>4, <1>5, <1>6, <1>7, <1>8, <1>9, <1>10, <1>11, <1>12, <1>13, <1>14, <1>15, <1>16, <1>17, <1>18, <1>19, <1>20, <1>21, <1>22, <1>23, <1>24, <1>25, <1>26, <1>27 DEF SpawnNext, Pipeline, Around

(* Every step keeps what the types alone do not say.                       *)
LEMMA ControlStep ==
  ASSUME IInv, [SpawnNext]_spawnVars
  PROVE  (Unspawned /\ ProcessKnown /\ Joined /\ ReadToTheEnd /\ WholeWhenRecorded)'
<1> USE DEF IInv, SpawnTypeOK, Unspawned, ProcessKnown, Joined, ReadToTheEnd, WholeWhenRecorded,
            Whole
<1>1. CASE LookupFails
  BY <1>1 DEF LookupFails, Finish, task, tokens, ends
<1>2. CASE Lookup
  BY <1>2 DEF Lookup, Finish, task, tokens, ends, TokenCancelled
<1>3. CASE Replay
  BY <1>3 DEF Replay, Finish, task, tokens, ends
<1>4. CASE CannotSpawn
  BY <1>4 DEF CannotSpawn, Finish, task, tokens, ends
<1>5. CASE Spawn
  BY <1>5 DEF Spawn, Finish, task, tokens, ends
<1>6. CASE ReadChunk
  BY <1>6 DEF ReadChunk, Finish, task, tokens, ends
<1>7. CASE ReadEof
  BY <1>7 DEF ReadEof, Finish, task, tokens, ends
<1>8. CASE PipeCancelled
  BY <1>8 DEF PipeCancelled, Finish, task, tokens, ends
<1>9. CASE PipeBreaks
  BY <1>9 DEF PipeBreaks, Finish, task, tokens, ends
<1>10. CASE Kill
  BY <1>10 DEF Kill, Finish, task, tokens, ends
<1>11. CASE CloseTracking
  BY <1>11 DEF CloseTracking, Finish, task, tokens, ends
<1>12. CASE Waited
  <2>1. /\ stage = "waiting" /\ stage' = "stopping"
        /\ process # "running" /\ tracking # "open"
        /\ UNCHANGED <<task, captured, ends, tokens>>
    BY <1>12 DEF Waited
  <2>2. tracking \in {"none", "complete", "lost"}
    BY <2>1
  <2> QED
    BY <2>1, <2>2 DEF task, tokens, ends
<1>13. CASE Drained
  BY <1>13 DEF Drained, Finish, task, tokens, ends
<1>14. CASE JoinFails
  BY <1>14 DEF JoinFails, Finish, task, tokens, ends
<1>15. CASE Decide
  BY <1>15 DEF Decide, Finish, task, tokens, ends, Cacheable, TokenCancelled
<1>16. CASE Record
  BY <1>16 DEF Record, Finish, task, tokens, ends
<1>17. CASE Output
  BY <1>17 DEF Output, Finish, task, tokens, ends
<1>18. CASE Fork
  BY <1>18 DEF Fork, Finish, task, tokens, ends
<1>19. CASE OrphanExits
  BY <1>19 DEF OrphanExits, Finish, task, tokens, ends
<1>20. CASE TaskExits
  BY <1>20 DEF TaskExits, Finish, task, tokens, ends
<1>21. CASE ToolConnects
  BY <1>21 DEF ToolConnects, Finish, task, tokens, ends
<1>22. CASE ToolSpeaks
  BY <1>22 DEF ToolSpeaks, Finish, task, tokens, ends
<1>23. CASE ToolLeaves
  BY <1>23 DEF ToolLeaves, Finish, task, tokens, ends
<1>24. CASE SiblingFails
  BY <1>24 DEF SiblingFails, Finish, task, tokens, ends
<1>25. CASE PressCtrlC
  BY <1>25 DEF PressCtrlC, Finish, task, tokens, ends
<1>26. CASE Handler
  BY <1>26 DEF Handler, Finish, task, tokens, ends
<1>27. CASE UNCHANGED spawnVars
  BY <1>27 DEF spawnVars, task, tokens, ends
<1> QED
  BY <1>1, <1>2, <1>3, <1>4, <1>5, <1>6, <1>7, <1>8, <1>9, <1>10, <1>11, <1>12, <1>13, <1>14, <1>15, <1>16, <1>17, <1>18, <1>19, <1>20, <1>21, <1>22, <1>23, <1>24, <1>25, <1>26, <1>27 DEF SpawnNext, Pipeline, Around

-----------------------------------------------------------------------------
(* The conjunction of these parts is inductive.                            *)
THEOREM PipelineInvariant == SpawnSpec => []IInv
<1>1. SpawnInit => IInv
  <2>1. SpawnInit => SpawnTypeOK
    <3>1. SUFFICES ASSUME SpawnInit PROVE SpawnTypeOK
      OBVIOUS
    <3>2. {disabled, filtered, failed, recorded, sigint, failToken, cancelToken, interrupted}
            \subseteq BOOLEAN
      BY <3>1, Zenon DEF SpawnInit
    <3> QED
      BY <3>1, <3>2, ChunksAssumption DEF SpawnInit, SpawnTypeOK
  <2>2. SpawnInit => Unspawned /\ ProcessKnown /\ Joined /\ ReadToTheEnd /\ WholeWhenRecorded
    BY DEF SpawnInit, Unspawned, ProcessKnown, Joined, ReadToTheEnd, WholeWhenRecorded
  <2> QED
    BY <2>1, <2>2 DEF IInv
<1>2. IInv /\ [SpawnNext]_spawnVars => IInv'
  BY TypeStep, ControlStep DEF IInv
<1> QED
  BY <1>1, <1>2, PTL DEF SpawnSpec

(* Every variable has its type, and no more is captured than was written.  *)
THEOREM PipelineTypes == SpawnSpec => []SpawnTypeOK
<1>1. IInv => SpawnTypeOK
  BY DEF IInv
<1> QED
  BY <1>1, PipelineInvariant, PTL

(* What is cached is the whole of a run that ended with zero by itself.    *)
THEOREM CachedWhole == SpawnSpec => []CachedRunIsWhole
<1>1. IInv => CachedRunIsWhole
  BY DEF IInv, WholeWhenRecorded, Whole, CachedRunIsWhole
<1> QED
  BY <1>1, PipelineInvariant, PTL

(* When the pipeline has reported, its process does not run.               *)
THEOREM NeverOrphaned == SpawnSpec => []NotOrphaned
<1>1. IInv => NotOrphaned
  BY DEF IInv, WholeWhenRecorded, ProcessKnown, NotOrphaned
<1> QED
  BY <1>1, PipelineInvariant, PTL

-----------------------------------------------------------------------------

USE LookupAssumption, UploadsAssumption

-----------------------------------------------------------------------------
(* RemoteLookup.                                                           *)

LookupTypeOK ==
  /\ at \in {"fetching", "requesting", "downloading", "hit", "replaying",
             "missed", "dropped", "restored", "failed"}
  /\ halt \in BOOLEAN
  /\ chosen \in {"none"} \cup Valid
  /\ feed \in {"off", "open", "ended", "broken", "halted"}
  /\ arrived \in Nat /\ queued \in Nat /\ onDisk \in Nat
  /\ inHand \in BOOLEAN
  /\ reader \in {"off", "reading", "unwritable", "corrupt", "passed"}
  /\ file \in {"absent", "open", "closed", "archive"}

(* Before the download nothing of it is there.                             *)
NotBegun ==
  /\ at \in {"fetching", "requesting"} =>
       feed = "off" /\ reader = "off" /\ file = "absent"
  /\ at = "requesting" => chosen \in {"whole", "cut"}

(* Both halves run inside the download, and the check has the file open.   *)
InDownload ==
  /\ feed = "open" => at = "downloading"
  /\ at = "downloading" => reader # "off" /\ feed # "off" /\ chosen \in {"whole", "cut"}
  /\ reader = "reading" => at = "downloading" /\ file = "open"
  /\ at = "downloading" => file = IF reader = "reading" THEN "open" ELSE "closed"

(* What has passed the check is whole.                                     *)
PassedWhole == reader = "passed" => chosen = "whole" /\ onDisk = Blob

(* What becomes of the file.                                               *)
Outcome ==
  /\ file = "archive" => reader = "passed"
  /\ at \in {"missed", "failed"} => file = "absent"
  /\ at \in {"hit", "replaying", "restored"} => chosen = "plain" \/ file = "archive"

LookupIInv == LookupTypeOK /\ NotBegun /\ InDownload /\ PassedWhole /\ Outcome

-----------------------------------------------------------------------------
LEMMA LookupStart == LookupInit => LookupIInv
<1> SUFFICES ASSUME LookupInit PROVE LookupIInv
  OBVIOUS
<1>1. LookupTypeOK
  BY DEF LookupInit, LookupTypeOK
<1> QED
  BY <1>1 DEF LookupInit, LookupIInv, NotBegun, InDownload, PassedWhole, Outcome

(* What is chosen has passed.                                              *)
LEMMA FetchSteps ==
  ASSUME LookupIInv,
         \/ NothingFetched
         \/ \E entries \in Responses : FetchedExact(entries) \/ FetchedNoneValid(entries)
  PROVE  LookupIInv'
<1> USE DEF LookupIInv, LookupTypeOK, NotBegun, InDownload, PassedWhole, Outcome, Miss, download
<1>1. CASE NothingFetched
  BY <1>1 DEF NothingFetched
<1>2. ASSUME NEW entries, FetchedExact(entries) PROVE LookupIInv'
  <2>1. chosen' \in Valid /\ at' = IF chosen' = "plain" THEN "hit" ELSE "requesting"
    BY <1>2 DEF FetchedExact, Passes
  <2> QED
    BY <1>2, <2>1 DEF FetchedExact, Valid
<1>3. ASSUME NEW entries, FetchedNoneValid(entries) PROVE LookupIInv'
  BY <1>3 DEF FetchedNoneValid
<1> QED
  BY <1>1, <1>2, <1>3

(* The two halves of a download.                                           *)
LEMMA DownloadSteps ==
  ASSUME LookupIInv,
         \/ NoDownload \/ BeginDownload
         \/ TakeChunk \/ LastChunk \/ NetworkFails \/ PutChunk \/ FeedRefused \/ FeedHalted
         \/ CheckChunk \/ CheckEnd \/ Join
  PROVE  LookupIInv'
<1> USE DEF LookupIInv, LookupTypeOK, NotBegun, InDownload, PassedWhole, Outcome, Valid
<1>1. CASE NoDownload
  BY <1>1 DEF NoDownload, Miss, download
<1>2. CASE BeginDownload
  BY <1>2 DEF BeginDownload
<1>3. CASE TakeChunk
  BY <1>3 DEF TakeChunk
<1>4. ASSUME NEW how \in {"ended", "broken", "halted"}, EndFeed(how) PROVE LookupIInv'
  BY <1>4 DEF EndFeed
<1>5. CASE PutChunk
  <2>1. /\ inHand' = FALSE /\ queued' = queued + 1
        /\ UNCHANGED <<at, halt, chosen, feed, arrived, reader, onDisk, file>>
    BY <1>5 DEF PutChunk
  <2>2. inHand' \in BOOLEAN
    BY <2>1
  <2>3. queued' \in Nat
    BY <2>1
  <2> QED
    BY <2>1, <2>2, <2>3
<1>6. CASE CheckChunk
  BY <1>6 DEF CheckChunk, EndCheck
<1>7. CASE CheckEnd
  BY <1>7 DEF CheckEnd, EndCheck
<1>8. CASE Join
  <2>1. /\ at = "downloading" /\ feed # "open" /\ reader # "reading"
        /\ UNCHANGED <<halt, chosen, feed, arrived, inHand, queued, reader, onDisk>>
    BY <1>8 DEF Join, download
  <2>2. CASE file' = "absent" /\ at' = "missed"
    BY <2>1, <2>2
  <2>3. CASE reader = "passed" /\ file' = "archive" /\ at' = "hit"
    BY <2>1, <2>3
  <2> QED
    BY <1>8, <2>2, <2>3 DEF Join, Miss
<1> QED
  BY <1>1, <1>2, <1>3, <1>4, <1>5, <1>6, <1>7, <1>8 DEF LastChunk, NetworkFails, FeedRefused, FeedHalted

(* The pipeline, and the cancellation.                                     *)
LEMMA HitSteps ==
  ASSUME LookupIInv, LookedUp \/ Restored \/ RestoreFails \/ Halt
  PROVE  LookupIInv'
BY ZenonT(40) DEF LookupIInv, LookupTypeOK, NotBegun, InDownload, PassedWhole, Outcome, LookedUp, Restored,
   RestoreFails, Halt, download

-----------------------------------------------------------------------------
(* The halves of a download, its file and the lookup agree.                *)
THEOREM LookupInvariant == LookupSpec => []LookupIInv
<1>1. LookupIInv /\ [LookupNext]_lookupVars => LookupIInv'
  <2> SUFFICES ASSUME LookupIInv, [LookupNext]_lookupVars PROVE LookupIInv'
    OBVIOUS
  <2>1. CASE UNCHANGED lookupVars
    BY <2>1 DEF lookupVars, LookupIInv, LookupTypeOK, NotBegun, InDownload, PassedWhole, Outcome
  <2>2. CASE LookupNext
    BY <2>2, FetchSteps, DownloadSteps, HitSteps DEF LookupNext
  <2> QED
    BY <2>1, <2>2
<1> QED
  BY <1>1, LookupStart, PTL DEF LookupSpec

(* An archive is whole, a miss leaves no file, and an open file stays.     *)
THEOREM CheckedArchives == LookupSpec => []DownloadChecked
<1>1. LookupIInv => DownloadChecked
  BY DEF LookupIInv, LookupTypeOK, InDownload, PassedWhole, Outcome, DownloadChecked
<1> QED
  BY <1>1, LookupInvariant, PTL
-----------------------------------------------------------------------------
(* RemoteUploads.                                                          *)

UploadsTypeOK ==
  /\ graph \in {"running", "waiting", "stopping", "summary"}
  /\ signals \subseteq {"ctrl-c", "fast-fail"}
  /\ upload \in [Jobs -> {"off", "none", "ended"} \cup Active]
  /\ slot \in [Jobs -> {NoError, "failed", "interrupted"}]
  /\ stored \subseteq Jobs
  /\ auth \in {"ready", "failed"}
  /\ token \in {"none", "fresh", "old"}
  /\ holder \in Jobs \cup {NoJob}
  /\ cancel \in BOOLEAN

(* How an upload ended can be told, and only Ctrl-C cancels uploads.       *)
EndKnown(j) ==
  /\ upload[j] = "ended" => slot[j] # NoError \/ j \in stored
  /\ slot[j] = "interrupted" => "ctrl-c" \in signals

(* No task begins an upload once the graph is done, and none is left when  *)
(* the summary is made.                                                    *)
NoneLate(j) ==
  /\ graph # "running" => upload[j] # "off"
  /\ graph = "summary" => upload[j] \in {"none", "ended"}

(* The store that asks for a token holds the lock, and nobody else.        *)
HoldsLock(j) ==
  upload[j] = "requesting" <=> holder = j

AskingIsNeeded == holder # NoJob => auth = "ready" /\ token # "fresh"

UploadsIInv ==
  /\ UploadsTypeOK
  /\ AskingIsNeeded
  /\ cancel => "ctrl-c" \in signals
  /\ \A j \in Jobs : EndKnown(j) /\ NoneLate(j) /\ HoldsLock(j)

-----------------------------------------------------------------------------
LEMMA UploadsStart == UploadsInit => UploadsIInv
BY DEF UploadsInit, UploadsIInv, UploadsTypeOK, AskingIsNeeded, EndKnown, NoneLate, HoldsLock, Active

(* What the tasks and the graph do.                                        *)
LEMMA GraphSteps ==
  ASSUME UploadsIInv,
         \/ \E j \in Jobs : NotRecorded(j) \/ EntryRecorded(j)
         \/ \E s \in {"ctrl-c", "fast-fail"} : Signal(s)
         \/ TasksDone \/ TokenAges \/ WaitEnds \/ InterruptWait
  PROVE  UploadsIInv'
<1> USE DEF UploadsIInv, UploadsTypeOK, AskingIsNeeded, EndKnown, NoneLate, HoldsLock, Active
<1>1. ASSUME NEW j \in Jobs, NotRecorded(j) PROVE UploadsIInv'
  BY <1>1 DEF NotRecorded, Advance
<1>2. ASSUME NEW j \in Jobs, EntryRecorded(j) PROVE UploadsIInv'
  BY <1>2 DEF EntryRecorded, Advance, Report
<1>3. ASSUME NEW s \in {"ctrl-c", "fast-fail"}, Signal(s) PROVE UploadsIInv'
  BY <1>3 DEF Signal
<1>4. ASSUME TasksDone PROVE UploadsIInv'
  BY <1>4 DEF TasksDone
<1>5. ASSUME TokenAges PROVE UploadsIInv'
  BY <1>5 DEF TokenAges
<1>6. ASSUME WaitEnds PROVE UploadsIInv'
  BY <1>6 DEF WaitEnds, NoneLeft
<1>7. ASSUME InterruptWait PROVE UploadsIInv'
  BY <1>7 DEF InterruptWait, Interrupted
<1> QED
  BY <1>1, <1>2, <1>3, <1>4, <1>5, <1>6, <1>7

(* What one upload does, up to the store.                                  *)
LEMMA TokenSteps ==
  ASSUME UploadsIInv, NEW j \in Jobs,
         AskForToken(j) \/ ReuseToken(j) \/ NoToken(j) \/ TokenGranted(j) \/ TokenRefused(j)
  PROVE  UploadsIInv'
<1> USE DEF UploadsIInv, UploadsTypeOK, AskingIsNeeded, EndKnown, NoneLate, HoldsLock, Active, Polls
<1>1. CASE AskForToken(j)
  BY <1>1 DEF AskForToken, MayAsk, Advance
<1>2. CASE ReuseToken(j)
  BY <1>2 DEF ReuseToken, Advance
<1>3. CASE NoToken(j)
  BY <1>3 DEF NoToken, Advance, Report
<1>4. CASE TokenGranted(j)
  BY <1>4 DEF TokenGranted, Advance, Release
<1>5. CASE TokenRefused(j)
  BY <1>5 DEF TokenRefused, Advance, Report, Release
<1> QED
  BY <1>1, <1>2, <1>3, <1>4, <1>5

(* The store, its answer, and the cancellation.                            *)
LEMMA StoreSteps ==
  ASSUME UploadsIInv, NEW j \in Jobs,
         ServerStores(j) \/ StoreAnswered(j) \/ StoreFails(j) \/ StopUpload(j)
  PROVE  UploadsIInv'
<1> USE DEF UploadsIInv, UploadsTypeOK, AskingIsNeeded, EndKnown, NoneLate, HoldsLock, Active, Polls
<1>1. CASE ServerStores(j)
  BY <1>1 DEF ServerStores
<1>2. CASE StoreAnswered(j)
  BY <1>2 DEF StoreAnswered, Advance
<1>3. CASE StoreFails(j)
  BY <1>3 DEF StoreFails, Advance, Report
<1>4. CASE StopUpload(j)
  BY <1>4 DEF StopUpload, Advance, Report, Release
<1> QED
  BY <1>1, <1>2, <1>3, <1>4

-----------------------------------------------------------------------------
(* Whoever asks holds the lock, and no upload ends unaccounted for.        *)
THEOREM UploadsInvariant == UploadsSpec => []UploadsIInv
<1>1. UploadsIInv /\ [UploadsNext]_uploadVars => UploadsIInv'
  <2> SUFFICES ASSUME UploadsIInv, [UploadsNext]_uploadVars PROVE UploadsIInv'
    OBVIOUS
  <2>1. CASE UNCHANGED uploadVars
    BY <2>1 DEF uploadVars, UploadsIInv, UploadsTypeOK, AskingIsNeeded, EndKnown, NoneLate, HoldsLock
  <2>2. CASE UploadsNext
    BY <2>2, GraphSteps, TokenSteps, StoreSteps DEF UploadsNext, Uploading
  <2> QED
    BY <2>1, <2>2
<1> QED
  BY <1>1, UploadsStart, PTL DEF UploadsSpec

(* The summary accounts for every upload, and at most one request for a    *)
(* token is under way, and it is needed.                                   *)
THEOREM SoundUploads == UploadsSpec => []UploadsSound
<1>1. UploadsIInv => UploadsAccounted
  BY DEF UploadsIInv, EndKnown, NoneLate, UploadsAccounted
<1>2. UploadsIInv => OneTokenRequest
  BY DEF UploadsIInv, AskingIsNeeded, HoldsLock, OneTokenRequest
<1>3. UploadsIInv => UploadsSound
  BY <1>1, <1>2 DEF UploadsSound
<1> QED
  BY <1>3, UploadsInvariant, PTL

-----------------------------------------------------------------------------
(* Supervisor.                                                             *)

SupTypeOK ==
  /\ target \in [Traced -> {"none", "connected", "running", "trapped", "refused",
                            "failed", "aborted", "gone"}]
  /\ call \in [Traced -> Nat]
  /\ backlog \in Seq(Traced)
  /\ loop \in {"accepting", "receiving", "joining", "returned", "error"}
  /\ loop = "receiving" => incoming \in Traced
  /\ handler \in [Traced -> {"none", "waiting", "handling", "answering", "ignoring", "done",
                             "error"}]
  /\ notified \in [Traced -> Nat]

(* What is about to be answered is recorded, unless its target is gone.    *)
AnsweredRecorded(t) ==
  handler[t] = "answering" => target[t] = "gone" \/ <<t, notified[t]>> \in kept

(* A handler returns when its target is gone, and no handler is left when  *)
(* the loop has returned.                                                  *)
DoneWithTarget(t) ==
  /\ handler[t] = "done" => target[t] = "gone"
  /\ loop = "returned" => handler[t] \in {"none", "done"}

SupIInv ==
  /\ SupTypeOK
  /\ RecordedFirst
  /\ \A t \in Traced : AnsweredRecorded(t) /\ DoneWithTarget(t)

-----------------------------------------------------------------------------
(* Every step keeps the types.                                             *)
LEMMA SupTypeStep ==
  ASSUME SupTypeOK, [SupNext]_supVars
  PROVE  SupTypeOK'
<1> USE DEF SupTypeOK, tracked, control, Step, Work, EndLoop
<1>1. CASE BreakLoop
  BY <1>1 DEF BreakLoop
<1>2. CASE AcceptTarget
  BY <1>2 DEF AcceptTarget
<1>3. CASE ReceiveFd
  BY <1>3 DEF ReceiveFd
<1>4. CASE ReceiveFails
  BY <1>4 DEF ReceiveFails
<1>5. CASE AllJoined
  BY <1>5 DEF AllJoined
<1>6. CASE Stop
  BY <1>6 DEF Stop
<1>7. ASSUME NEW t \in Traced, Handling(t)
      PROVE  SupTypeOK'
  <2>1. CASE ReceiveNotification(t)
    BY <2>1 DEF ReceiveNotification
  <2>2. CASE HandleNotify(t)
    BY <2>2 DEF HandleNotify
  <2>3. CASE SendContinue(t)
    BY <2>3 DEF SendContinue, Continue, Answers
  <2>4. CASE HandlerReturns(t)
    BY <2>4 DEF HandlerReturns
  <2> QED
    BY <1>7, <2>1, <2>2, <2>3, <2>4 DEF Handling
<1>8. ASSUME NEW t \in Traced, TargetStep(t)
      PROVE  SupTypeOK'
  <2>1. CASE Install(t)
    <3>1. CASE Over
      BY <2>1, <3>1 DEF Install
    <3>2. CASE ~Over
      <4>1. target' \in [Traced -> {"none", "connected", "running", "trapped", "refused",
                                    "failed", "aborted", "gone"}]
        BY <2>1, <3>2 DEF Install
      <4>2. backlog' \in Seq(Traced)
        <5>1. backlog' = Append(backlog, t) /\ backlog \in Seq(Traced)
          BY <2>1, <3>2 DEF Install
        <5> QED
          BY <5>1, AppendProperties
      <4> QED
        BY <2>1, <4>1, <4>2 DEF Install
    <3> QED
      BY <3>1, <3>2
  <2>2. CASE SendFd(t)
    BY <2>2 DEF SendFd
  <2>3. CASE Trap(t)
    BY <2>3 DEF Trap
  <2>4. CASE Interrupt(t) \/ NoSupervisor(t) \/ TargetDies(t) \/ TargetKilled(t)
    BY <2>4 DEF Interrupt, NoSupervisor, TargetDies, TargetKilled
  <2> QED
    BY <1>8, <2>1, <2>2, <2>3, <2>4 DEF TargetStep
<1>9. CASE UNCHANGED supVars
  BY <1>9 DEF supVars
<1> QED
  BY <1>1, <1>2, <1>3, <1>4, <1>5, <1>6, <1>7, <1>8, <1>9 DEF SupNext, Loop

-----------------------------------------------------------------------------
(* Steps of the loop and of the targets leave what is recorded, and what   *)
(* was let through, alone.                                                 *)

Kept(t) == AnsweredRecorded(t) /\ DoneWithTarget(t)

LEMMA LoopStep ==
  ASSUME SupIInv, Loop \/ Stop
  PROVE  RecordedFirst' /\ \A t \in Traced : Kept(t)'
<1> USE DEF SupIInv, SupTypeOK, tracked, RecordedFirst, Kept, AnsweredRecorded, DoneWithTarget
<1>1. CASE BreakLoop
  BY <1>1 DEF BreakLoop
<1>2. CASE AcceptTarget
  BY <1>2 DEF AcceptTarget
<1>3. CASE ReceiveFd
  BY <1>3 DEF ReceiveFd, Work
<1>4. CASE ReceiveFails
  BY <1>4 DEF ReceiveFails, EndLoop
<1>5. CASE AllJoined
  BY <1>5 DEF AllJoined, EndLoop
<1>6. CASE Stop
  BY <1>6 DEF Stop
<1> QED
  BY <1>1, <1>2, <1>3, <1>4, <1>5, <1>6 DEF Loop

(* A target that is gone stays gone.                                       *)
LEMMA TargetSteps ==
  ASSUME SupIInv, NEW t \in Traced, TargetStep(t)
  PROVE  RecordedFirst' /\ \A u \in Traced : Kept(u)'
<1>1. \A u \in Traced : target[u] = "gone" => target'[u] = "gone"
  BY DEF SupIInv, SupTypeOK, TargetStep, Install, SendFd, Trap, Interrupt, NoSupervisor,
         TargetDies, TargetKilled, Step
<1>2. UNCHANGED <<performed, loop, handler, notified, kept>>
  BY DEF TargetStep, Install, SendFd, Trap, Interrupt, NoSupervisor, TargetDies,
         TargetKilled, control
<1> QED
  BY <1>1, <1>2 DEF SupIInv, RecordedFirst, Kept, AnsweredRecorded, DoneWithTarget

(* A handler's task records before it answers.                             *)
LEMMA HandlingSteps ==
  ASSUME SupIInv, NEW t \in Traced, Handling(t)
  PROVE  RecordedFirst' /\ \A u \in Traced : Kept(u)'
<1> USE DEF SupIInv, SupTypeOK, tracked, control, RecordedFirst, Kept, AnsweredRecorded,
            DoneWithTarget, Work
<1>1. CASE ReceiveNotification(t)
  BY <1>1 DEF ReceiveNotification
<1>2. CASE HandleNotify(t)
  BY <1>2 DEF HandleNotify
<1>3. CASE SendContinue(t)
  <2>1. CASE target[t] = "trapped" /\ call[t] = notified[t]
    <3>1. handler[t] = "answering" => <<t, notified[t]>> \in kept
      BY <2>1
    <3> QED
      BY <1>3, <2>1, <3>1 DEF SendContinue, Continue, Answers, Step
  <2>2. CASE ~(target[t] = "trapped" /\ call[t] = notified[t])
    BY <1>3, <2>2 DEF SendContinue, Answers
  <2> QED
    BY <2>1, <2>2
<1>4. CASE HandlerReturns(t)
  BY <1>4 DEF HandlerReturns
<1> QED
  BY <1>1, <1>2, <1>3, <1>4 DEF Handling

-----------------------------------------------------------------------------
(* The theorems.                                                           *)

(* The strengthening holds in every behaviour of the supervisor.           *)
THEOREM SupervisorInvariant == SupSpec => []SupIInv
<1>1. SupInit => SupIInv
  BY DEF SupInit, SupIInv, SupTypeOK, RecordedFirst, AnsweredRecorded, DoneWithTarget
<1>2. SupIInv /\ [SupNext]_supVars => SupIInv'
  <2> SUFFICES ASSUME SupIInv, [SupNext]_supVars
               PROVE  RecordedFirst' /\ \A t \in Traced : Kept(t)'
    BY SupTypeStep DEF SupIInv, Kept
  <2>1. CASE UNCHANGED supVars
    BY <2>1 DEF supVars, SupIInv, RecordedFirst, Kept, AnsweredRecorded, DoneWithTarget
  <2>2. CASE Loop \/ Stop
    BY <2>2, LoopStep
  <2>3. ASSUME NEW t \in Traced, Handling(t) \/ TargetStep(t)
        PROVE  RecordedFirst' /\ \A u \in Traced : Kept(u)'
    BY <2>3, HandlingSteps, TargetSteps
  <2> QED
    BY <2>1, <2>2, <2>3 DEF SupNext
<1> QED
  BY <1>1, <1>2, PTL DEF SupSpec

(* No call is let through before its access is recorded, however often it  *)
(* was interrupted and made again, and when stop() has come back every     *)
(* handler is done and its target gone.                                    *)
THEOREM AccessesRecorded == SupSpec => []RecordsComplete
<1>1. SupIInv => RecordedFirst
  BY DEF SupIInv
<1>2. SupIInv => StoppedAfterTargets
  BY DEF SupIInv, SupTypeOK, DoneWithTarget, StoppedAfterTargets
<1>3. SupIInv => RecordsComplete
  BY <1>1, <1>2 DEF RecordsComplete
<1> QED
  BY <1>3, SupervisorInvariant, PTL

-----------------------------------------------------------------------------
(* EnvNames: what inserting a name does to a map.                          *)

(* The names it writes are equal to the name; the others keep their value. *)
LEMMA InsertFacts ==
  ASSUME NEW windows \in BOOLEAN, NEW map, NEW name, NEW value
  PROVE  /\ DOMAIN Insert(windows, map, name, value) \subseteq DOMAIN map \cup {name}
         /\ DOMAIN map \subseteq DOMAIN Insert(windows, map, name, value)
         /\ \E k \in DOMAIN Insert(windows, map, name, value) : SameName(windows, k, name)
         /\ \A k \in DOMAIN Insert(windows, map, name, value) :
              Insert(windows, map, name, value)[k] =
                IF SameName(windows, k, name) THEN value ELSE map[k]
<1> DEFINE there == Equal(windows, map, name)
           names == IF there = {} THEN {name} ELSE there
<1>1. Insert(windows, map, name, value) =
        [k \in DOMAIN map \cup names |-> IF k \in names THEN value ELSE map[k]]
  BY DEF Insert
<1>2. SameName(windows, name, name)
  BY DEF SameName
<1>3. /\ names \subseteq DOMAIN map \cup {name} /\ names # {}
      /\ \A k \in names : SameName(windows, k, name)
      /\ \A k \in DOMAIN map : SameName(windows, k, name) => k \in names
  BY <1>2 DEF Equal
<1> HIDE DEF names
<1> QED
  BY <1>1, <1>3

-----------------------------------------------------------------------------
(* ChildTree.                                                              *)

TreeTypeOK ==
  /\ platform \in {"unix", "windows"}
  /\ mode \in {"auto", "cached", "piped", "inherited"}
  /\ leg \in {"build", "spawn", "prepare", "assign", "run", "wait", "broken", "done"}
  /\ handles \in {"none", "terminal", "pipes", "null"}
  /\ child \in {"none", "suspended", "running", "exited", "killed"}
  /\ kin \subseteq {"inside", "outside"}
  /\ job \in {"none", "held", "closed"}
  /\ said \in {"none", "spawned", "failed"}

(* What "IPC" names is the leaf's own server, or the one around it.        *)
EnvInv ==
  /\ "PRELOAD" \notin DOMAIN given
  /\ leg = "spawn" => "PRELOAD" \notin DOMAIN envs
  /\ leg = "spawn" \/ child # "none" =>
       Found(envs, "IPC") = IF IsCached THEN {"own"} ELSE Found(given, "IPC")

(* A process that may run is given its handles, and what tracks it.        *)
PreparedInv ==
  /\ child # "none" => handles = Stdio
  /\ Windows => ready \subseteq TrackingNeeds
  /\ child \in {"running", "exited"} /\ Tracked => TrackingNeeds \subseteq ready
  /\ leg = "prepare" => Windows /\ Tracked /\ child = "suspended"
  /\ child = "suspended" => leg = "prepare"

(* What is in the job goes with it, and the job goes with the leaf.        *)
JobInv ==
  /\ "inside" \in kin => job = "held"
  /\ job = "held" => leg \in {"run", "wait", "broken"}
  /\ leg \in {"build", "spawn"} => child = "none"
  /\ leg \in {"assign", "run", "wait", "broken"} => child # "none"
  /\ leg = "assign" => Windows
  /\ leg \in {"build", "spawn", "prepare", "assign"} => job = "none"
  /\ leg = "done" <=> said # "none"

(* A leaf that is over has waited for its process, or has lost it while it *)
(* was put into its job.                                                   *)
OverInv ==
  /\ said = "spawned" => child \in {"exited", "killed"}
  /\ said = "failed" => child \in Gone \/ (Windows /\ child = "running" /\ job = "none")

TreeInv == TreeTypeOK /\ EnvInv /\ PreparedInv /\ JobInv /\ OverInv

-----------------------------------------------------------------------------
(* What a program finds of a name that was just put there, and of another. *)
LEMMA FoundPut ==
  ASSUME NEW env, NEW name, NEW value, Upper(name) = name,
         NEW new, new = Put(env, name, value)
  PROVE  Found(new, name) = {value}
<1>1. Windows \in BOOLEAN
  BY DEF Windows
<1>2. /\ \E k \in DOMAIN new : SameName(Windows, k, name)
      /\ \A k \in DOMAIN new : SameName(Windows, k, name) => new[k] = value
  BY <1>1, InsertFacts DEF Put
<1>3. \A k : SameName(Windows, k, name) <=> k = name \/ (Windows /\ Upper(k) = name)
  BY DEF SameName, Fold
<1> QED
  BY <1>2, <1>3 DEF Found

LEMMA FoundOther ==
  ASSUME NEW env, NEW name, NEW value, NEW other,
         Upper(name) = name, Upper(other) = other, name # other,
         NEW new, new = Put(env, name, value)
  PROVE  Found(new, other) = Found(env, other)
<1>1. Windows \in BOOLEAN
  BY DEF Windows
<1>2. /\ DOMAIN new \subseteq DOMAIN env \cup {name} /\ DOMAIN env \subseteq DOMAIN new
      /\ \A k \in DOMAIN new : ~SameName(Windows, k, name) => new[k] = env[k]
  BY <1>1, InsertFacts DEF Put
<1>3. \A k : k = other \/ (Windows /\ Upper(k) = other) => ~SameName(Windows, k, name) /\ k # name
  BY DEF SameName, Fold
<1>4. \A k : k \in DOMAIN new /\ (k = other \/ (Windows /\ Upper(k) = other))
              <=> k \in DOMAIN env /\ (k = other \/ (Windows /\ Upper(k) = other))
  BY <1>2, <1>3
<1> QED
  BY <1>2, <1>3, <1>4 DEF Found

-----------------------------------------------------------------------------
(* The invariant holds at the start and every step keeps it.               *)

LEMMA TreeStarts ==
  TreeInit => TreeInv
<1> SUFFICES ASSUME TreeInit PROVE TreeInv
  OBVIOUS
<1>1. "PRELOAD" \notin DOMAIN given
  <2>1. CASE given = <<>>
    BY <2>1
  <2>2. CASE given # <<>>
    BY <2>2 DEF TreeInit
  <2> QED
    BY <2>1, <2>2
<1> QED
  BY <1>1 DEF TreeInit, TreeInv, TreeTypeOK, EnvInv, PreparedInv, JobInv, OverInv, Gone

(* Build: the own server is found, or what the plan names.                 *)
LEMMA BuildKeeps ==
  TreeInv /\ Build => TreeInv'
<1> SUFFICES ASSUME TreeInv, Build PROVE TreeInv'
  OBVIOUS
<1> USE DEF TreeInv
<1>1. "PRELOAD" \notin DOMAIN InjectedEnvs
  <2>1. DOMAIN Put(given, "IPC", "own") \subseteq DOMAIN given \cup {"IPC"}
    BY InsertFacts DEF Put, Windows
  <2> QED
    BY <2>1 DEF InjectedEnvs, EnvInv
<1>2. Found(InjectedEnvs, "IPC") = IF IsCached THEN {"own"} ELSE Found(given, "IPC")
  <2>1. Upper("IPC") = "IPC"
    BY DEF Upper
  <2>2. Found(Put(given, "IPC", "own"), "IPC") = {"own"}
    BY <2>1, FoundPut
  <2> QED
    BY <2>2 DEF InjectedEnvs
<1>3. EnvInv'
  <2>1. /\ Found(envs, "IPC")' = Found(InjectedEnvs, "IPC")
        /\ Found(given, "IPC")' = Found(given, "IPC")
        /\ IsCached' = IsCached /\ given' = given
    BY DEF Build, plan, Found, Windows, IsCached
  <2>2. envs' = InjectedEnvs
    BY DEF Build
  <2> QED
    BY <1>1, <1>2, <2>1, <2>2 DEF EnvInv
<1>4. TreeTypeOK'
  BY DEF TreeTypeOK, Build, plan, world
<1>5. PreparedInv'
  BY DEF PreparedInv, JobInv, Build, plan, world, Stdio, Piped, Windows, Tracked, TrackingNeeds
<1>6. JobInv' /\ OverInv'
  BY DEF JobInv, OverInv, Build, plan, world, Gone, Windows
<1> QED
  BY <1>3, <1>4, <1>5, <1>6

(* Start: what fspy adds leaves the name of the server as it is.           *)
LEMMA StartKeeps ==
  TreeInv /\ StartChild => TreeInv'
<1> SUFFICES ASSUME TreeInv, StartChild PROVE TreeInv'
  OBVIOUS
<1> USE DEF TreeInv
<1> DEFINE put == Put(envs, "PRELOAD", "own")
<1>1. /\ Found(put, "IPC") = Found(envs, "IPC")
      /\ ~Windows => "PRELOAD" \in DOMAIN put
  <2>1. Upper("IPC") = "IPC" /\ Upper("PRELOAD") = "PRELOAD"
    BY DEF Upper
  <2>2. Found(put, "IPC") = Found(envs, "IPC")
    BY <2>1, FoundOther
  <2>3. Found(put, "PRELOAD") = {"own"}
    BY <2>1, FoundPut
  <2> HIDE DEF put
  <2> QED
    BY <2>2, <2>3 DEF Found
<1>2. envs' = IF Tracked /\ ~Windows THEN put ELSE envs
  BY DEF StartChild
<1>3. leg = "spawn" /\ given' = given /\ platform' = platform /\ mode' = mode
  BY DEF StartChild, plan
<1> HIDE DEF put
<1>4. Found(envs, "IPC")' = Found(envs, "IPC")
  BY <1>1, <1>2, <1>3 DEF Found, Windows
<1>5. EnvInv'
  BY <1>3, <1>4 DEF EnvInv, Found, Windows, IsCached, StartChild
<1>6. /\ Windows => ready' = {}
      /\ Tracked /\ ~Windows => ready' = {"PRELOAD"}
  BY <1>1, <1>2, <1>3 DEF StartChild, EnvInv
<1>7. TreeTypeOK'
  BY DEF TreeTypeOK, StartChild, plan, world, Stdio
<1>8. PreparedInv'
  BY <1>3, <1>6 DEF PreparedInv, StartChild, Stdio, Piped, Windows, Tracked, TrackingNeeds
<1>9. JobInv' /\ OverInv'
  BY DEF JobInv, OverInv, StartChild, plan, world, Gone, Windows
<1> QED
  BY <1>5, <1>7, <1>8, <1>9

(* A step that leaves the environment alone, once there is none to build.  *)
LEMMA EnvKept ==
  ASSUME EnvInv, UNCHANGED <<plan, envs>>,
         leg' = "spawn" => leg = "spawn", child' # "none" => child # "none"
  PROVE  EnvInv'
BY DEF EnvInv, plan, Found, Windows, IsCached

(* What is done to a suspended process.                                    *)
LEMMA PrepareKeeps ==
  TreeInv /\ (Prepare \/ PrepareFails) => TreeInv'
<1> SUFFICES ASSUME TreeInv, Prepare \/ PrepareFails PROVE TreeInv'
  OBVIOUS
<1> USE DEF TreeInv
<1>1. EnvInv'
  BY EnvKept DEF Prepare, PrepareFails, SayOutcome, PreparedInv
<1>2. TreeTypeOK'
  BY ZenonT(40) DEF TreeTypeOK, Prepare, PrepareFails, SayOutcome, plan, world
<1>3. PreparedInv'
  BY DEF PreparedInv, Prepare, PrepareFails, SayOutcome, plan, Stdio, Piped, Windows, Tracked, TrackingNeeds
<1>4. JobInv' /\ OverInv'
  BY DEF JobInv, OverInv, PreparedInv, Prepare, PrepareFails, SayOutcome, plan, world, Gone, Windows
<1> QED
  BY <1>1, <1>2, <1>3, <1>4

(* A start that fails, the job, the draining and the wait.                 *)
LEMMA RunKeeps ==
  TreeInv /\ (StartFails \/ AssignJob \/ AssignFails \/ DrainPipes \/ DrainBreaks \/ ChildWaited)
    => TreeInv'
<1> SUFFICES ASSUME TreeInv,
                    StartFails \/ AssignJob \/ AssignFails \/ DrainPipes \/ DrainBreaks \/ ChildWaited
             PROVE  TreeInv'
  OBVIOUS
<1>1. TreeTypeOK'
  <2>1. TreeTypeOK
    BY DEF TreeInv
  <2>2. CASE ChildWaited
    BY <2>1, <2>2 DEF ChildWaited, TreeTypeOK, SayOutcome, plan
  <2>3. CASE StartFails \/ AssignFails
    BY <2>1, <2>3 DEF StartFails, AssignFails, TreeTypeOK, SayOutcome, plan, world
  <2>4. CASE AssignJob \/ DrainPipes
    BY <2>1, <2>4, ZenonT(40) DEF AssignJob, DrainPipes, TreeTypeOK, plan, world
  <2>5. CASE DrainBreaks
    BY <2>1, <2>5 DEF DrainBreaks, TreeTypeOK, plan
  <2> QED
    BY <2>2, <2>3, <2>4, <2>5
<1> USE DEF TreeInv, StartFails, AssignJob, AssignFails, DrainPipes, DrainBreaks, ChildWaited, SayOutcome
<1>2. EnvInv'
  BY EnvKept
<1>3. PreparedInv'
  BY DEF PreparedInv, JobInv, plan, Stdio, Piped, Windows, Tracked, TrackingNeeds
<1>4. JobInv'
  BY DEF JobInv, PreparedInv, TreeTypeOK, plan, world, Windows
<1>5. OverInv'
  BY DEF OverInv, JobInv, PreparedInv, TreeTypeOK, plan, world, Gone, Windows
<1> QED
  BY <1>1, <1>2, <1>3, <1>4, <1>5

(* The token, the process and what it starts.                              *)
LEMMA WorldKeeps ==
  TreeInv /\ (KillTree \/ ForkChild \/ LeafExits \/ KinExits \/ TokenFires) => TreeInv'
<1> SUFFICES ASSUME TreeInv, KillTree \/ ForkChild \/ LeafExits \/ KinExits \/ TokenFires
             PROVE  TreeInv'
  OBVIOUS
<1> USE DEF TreeInv, KillTree, ForkChild, LeafExits, KinExits, TokenFires
<1>1. EnvInv'
  BY EnvKept
<1>2. TreeTypeOK'
  <2>1. CASE KillTree
    BY <2>1 DEF TreeTypeOK, plan
  <2>2. CASE ForkChild
    <3>1. kin' \subseteq {"inside", "outside"}
      BY <2>2 DEF TreeTypeOK
    <3>2. UNCHANGED <<platform, mode, leg, handles, child, job, said>>
      BY <2>2 DEF plan
    <3> QED BY <3>1, <3>2 DEF TreeTypeOK
  <2>5. CASE TokenFires
    BY <2>5 DEF TreeTypeOK, plan
  <2>3. CASE LeafExits
    BY <2>3 DEF TreeTypeOK, plan, world
  <2>4. CASE KinExits
    BY <2>4 DEF TreeTypeOK, plan
  <2> QED BY <2>1, <2>2, <2>3, <2>4, <2>5
<1>3. PreparedInv'
  BY DEF PreparedInv, plan, world, Stdio, Piped, Windows, Tracked, TrackingNeeds
<1>4. JobInv'
  BY DEF JobInv, plan, world, Windows
<1>5. OverInv'
  BY DEF OverInv, JobInv, plan, world, Gone, Windows
<1> QED
  BY <1>1, <1>2, <1>3, <1>4, <1>5

(* What holds of a leaf's process, its environment, its handles and its    *)
(* job after every step, whatever fails and whoever cancels (spawn.rs,     *)
(* run_child).                                                             *)
THEOREM TreeInvariant == TreeSpec => []TreeInv
<1>1. TreeInv /\ [TreeNext]_treeVars => TreeInv'
  <2> SUFFICES ASSUME TreeInv, [TreeNext]_treeVars PROVE TreeInv'
    OBVIOUS
  <2>1. CASE TreeNext
    BY <2>1, BuildKeeps, StartKeeps, PrepareKeeps, RunKeeps, WorldKeeps
       DEF TreeNext, Steps, Faults
  <2>2. CASE UNCHANGED treeVars
    BY <2>2 DEF treeVars, plan, world, TreeInv, TreeTypeOK, EnvInv, PreparedInv, JobInv, OverInv,
       Found, Windows, IsCached, Stdio, Piped, Tracked, TrackingNeeds, Gone
  <2> QED
    BY <2>1, <2>2
<1> QED
  BY TreeStarts, <1>1, PTL DEF TreeSpec

(* A leaf that is over has left nothing in its job and no process but one  *)
(* that no job would take; a cached leaf's process finds the leaf's own    *)
(* server and no other; and no process runs an instruction before its      *)
(* handles and all that tracks it are in place.                            *)
THEOREM TreeIsSound == TreeSpec => []TreeSound
<1>1. TreeInv => TreeSound
  <2> SUFFICES ASSUME TreeInv PROVE TreeSound
    OBVIOUS
  <2> USE DEF TreeInv
  <2>1. NothingLeft
    BY DEF NothingLeft, JobInv, OverInv, PreparedInv, TreeTypeOK, Gone
  <2>2. ReachesServer
    BY DEF ReachesServer, EnvInv, HasRun
  <2>3. StartsWhole
    BY DEF StartsWhole, PreparedInv, HasRun, Stdio, Piped
  <2> QED
    BY <2>1, <2>2, <2>3 DEF TreeSound
<1> QED
  BY TreeInvariant, <1>1, PTL

-----------------------------------------------------------------------------
(* ChunkPool.                                                              *)

USE PoolAssumption

-----------------------------------------------------------------------------
(* Rounding up to whole pages.                                             *)

LEMMA Quotient ==
  ASSUME NEW n \in Nat, NEW p \in Nat \ {0}
  PROVE  /\ n \div p \in Nat
         /\ (n \div p) * p <= n
         /\ n < (n \div p) * p + p
OBVIOUS

LEMMA RoundUpBounds ==
  ASSUME NEW n \in Nat
  PROVE  /\ RoundUp(n) \in Nat
         /\ n <= RoundUp(n)
         /\ RoundUp(n) < n + Page
<1> DEFINE q == (n + Page - 1) \div Page
<1>1. n + Page - 1 \in Nat /\ Page \in Nat \ {0}
  OBVIOUS
<1>2. q \in Nat /\ q * Page <= n + Page - 1 /\ n + Page - 1 < q * Page + Page
  BY <1>1, Quotient
<1>3. RoundUp(n) = q * Page
  BY DEF RoundUp
<1>4. q * Page \in Nat
  BY <1>2
<1> QED
  BY <1>2, <1>3, <1>4

(* A size between a request and the block it was given takes the same      *)
(* pages.                                                                  *)
LEMMA SamePages ==
  ASSUME NEW n \in Nat, NEW m \in Nat, n <= m, m <= RoundUp(n)
  PROVE  RoundUp(m) = RoundUp(n)
<1> DEFINE q == (n + Page - 1) \div Page
<1> DEFINE r == (m + Page - 1) \div Page
<1>1. n + Page - 1 \in Nat /\ m + Page - 1 \in Nat /\ Page \in Nat \ {0}
  OBVIOUS
<1>2. q \in Nat /\ q * Page <= n + Page - 1 /\ n + Page - 1 < q * Page + Page
  BY <1>1, Quotient
<1>3. r \in Nat /\ r * Page <= m + Page - 1 /\ m + Page - 1 < r * Page + Page
  BY <1>1, Quotient
<1>4. RoundUp(n) = q * Page /\ RoundUp(m) = r * Page
  BY DEF RoundUp
<1>5. r * Page < q * Page + Page /\ q * Page < r * Page + Page
  BY <1>2, <1>3, <1>4
<1>6. r < q + 1 /\ q < r + 1
  BY <1>2, <1>3, <1>5
<1> QED
  BY <1>2, <1>3, <1>4, <1>6

(* A block has room for what was asked for.                                *)
LEMMA LengthBounds ==
  ASSUME NEW n \in Nat \ {0}
  PROVE  /\ Length(n) \in Nat /\ n \in 1 .. Length(n)
         /\ n <= ChunkSize => Length(n) = ChunkSize
         /\ n > ChunkSize => Length(n) = RoundUp(n)
<1>1. CASE n > ChunkSize
  BY <1>1, RoundUpBounds DEF Length
<1>2. CASE ~(n > ChunkSize)
  BY <1>2, RoundUpBounds DEF Length
<1> QED
  BY <1>1, <1>2

-----------------------------------------------------------------------------
(* The inductive invariant.                                                *)

(* A thread has the size it was called with, and a block in hand only while*)
(* it gives it back, which is as long as its next step takes it to be.     *)
ThreadOK(t) ==
  /\ doing[t] \in {"looking", "swapping", "mapping"} => size[t] # 0
  /\ doing[t] \in {"looking", "swapping"} => size[t] <= ChunkSize
  /\ doing[t] \in {"swapping", "exchanging"} => scan[t] \in Slots
  /\ doing[t] \in {"idle", "looking", "swapping", "mapping"} => hand[t] = Null
  /\ doing[t] \in {"offering", "exchanging", "unmapping"} => hand[t] # Null
  /\ doing[t] \in {"offering", "exchanging"} => mapped[hand[t]] = ChunkSize
  /\ doing[t] = "unmapping" => mapped[hand[t]] = RoundUp(size[t])
  /\ hand[t] # Null => mapped[hand[t]] # 0

PoolInv == PoolTypeOK /\ OneOwner /\ ChunksWhole /\ \A t \in Threads : ThreadOK(t)

-----------------------------------------------------------------------------
LEMMA ScanStep ==
  ASSUME scan \in [Threads -> 1 .. SlotCount + 1], NEW t \in Threads,
         scan[t] \in 1 .. SlotCount, scan' = [scan EXCEPT ![t] = @ + 1]
  PROVE  scan' \in [Threads -> 1 .. SlotCount + 1]
OBVIOUS

(* Every step keeps the types.                                             *)
LEMMA PoolTypeStep ==
  ASSUME PoolInv, [PoolNext]_poolVars
  PROVE  PoolTypeOK'
<1> USE DEF PoolInv, PoolTypeOK, Goto, Leave, NextSlot, Receive, Slots
<1>1. ASSUME NEW t \in Threads, NEW n \in Requests, BeginAllocate(t, n)
      PROVE  PoolTypeOK'
  BY <1>1 DEF BeginAllocate
<1>2. ASSUME NEW t \in Threads, LookForChunk(t)
      PROVE  PoolTypeOK'
  <2>1. CASE slots[scan[t]] = Null
    <3>1. scan[t] \in 1 .. SlotCount /\ scan' = [scan EXCEPT ![t] = @ + 1]
      BY <1>2, <2>1 DEF LookForChunk
    <3>2. scan' \in [Threads -> 1 .. SlotCount + 1]
      BY <3>1, ScanStep
    <3> QED
      BY <1>2, <2>1, <3>2 DEF LookForChunk
  <2>2. CASE slots[scan[t]] # Null
    BY <1>2, <2>2 DEF LookForChunk
  <2> QED
    BY <2>1, <2>2
<1>3. ASSUME NEW t \in Threads, SwapOut(t)
      PROVE  PoolTypeOK'
  <2>1. scan[t] \in Slots
    BY <1>3 DEF SwapOut, ThreadOK
  <2>2. CASE slots[scan[t]] = Null
    <3>1. scan' \in [Threads -> 1 .. SlotCount + 1]
      BY <1>3, <2>1, <2>2, ScanStep DEF SwapOut
    <3>2. slots' \in [Slots -> Addresses \cup {Null}]
      BY <1>3, <2>1 DEF SwapOut
    <3>3. doing' = [doing EXCEPT ![t] = "looking"]
          /\ UNCHANGED <<mapped, asked, owned, hand, size>>
      BY <1>3, <2>2 DEF SwapOut
    <3> QED
      BY <3>1, <3>2, <3>3
  <2>3. CASE slots[scan[t]] # Null
    <3>1. slots[scan[t]] \in Addresses
      BY <2>1, <2>3
    <3> QED
      <4>1. slots' \in [Slots -> Addresses \cup {Null}]
        BY <1>3, <2>1 DEF SwapOut
      <4>2. Receive(t, slots[scan[t]]) /\ UNCHANGED <<mapped, hand>>
        BY <1>3, <2>3 DEF SwapOut
      <4> QED
        BY <3>1, <4>1, <4>2
  <2> QED
    BY <2>2, <2>3
<1>4. ASSUME NEW t \in Threads, NoChunkCached(t) \/ NoRoom(t)
      PROVE  PoolTypeOK'
  <2>1. CASE NoChunkCached(t)
    BY <2>1 DEF NoChunkCached
  <2>2. CASE NoRoom(t)
    BY <2>2 DEF NoRoom
  <2> QED
    BY <1>4, <2>1, <2>2
<1>5. ASSUME NEW t \in Threads, NEW a \in Addresses, Map(t, a)
      PROVE  PoolTypeOK'
  <2>1. Length(size[t]) \in Nat
    BY <1>5, LengthBounds DEF Map, ThreadOK
  <2> QED
    BY <1>5, <2>1 DEF Map
<1>6. ASSUME NEW t \in Threads, MapFails(t) \/ Vanish(t)
      PROVE  PoolTypeOK'
  <2>1. CASE MapFails(t)
    BY <2>1 DEF MapFails
  <2>2. CASE Vanish(t)
    BY <2>2 DEF Vanish
  <2> QED
    BY <1>6, <2>1, <2>2
<1>7. ASSUME NEW t \in Threads, NEW a \in Addresses, NEW n \in 1 .. mapped[a],
             BeginDeallocate(t, a, n)
      PROVE  PoolTypeOK'
  BY <1>7 DEF BeginDeallocate, Destination
<1>8. ASSUME NEW t \in Threads, LookForRoom(t)
      PROVE  PoolTypeOK'
  <2>1. CASE slots[scan[t]] # Null
    <3>1. scan[t] \in 1 .. SlotCount /\ scan' = [scan EXCEPT ![t] = @ + 1]
      BY <1>8, <2>1 DEF LookForRoom
    <3>2. scan' \in [Threads -> 1 .. SlotCount + 1]
      BY <3>1, ScanStep
    <3> QED
      BY <1>8, <2>1, <3>2 DEF LookForRoom
  <2>2. CASE slots[scan[t]] = Null
    BY <1>8, <2>2 DEF LookForRoom
  <2> QED
    BY <2>1, <2>2
<1>9. ASSUME NEW t \in Threads, ExchangeIn(t)
      PROVE  PoolTypeOK'
  <2>1. scan[t] \in Slots
    BY <1>9 DEF ExchangeIn, ThreadOK
  <2>2. CASE slots[scan[t]] = Null
    <3>1. slots' \in [Slots -> Addresses \cup {Null}]
      <4>1. slots' = [slots EXCEPT ![scan[t]] = hand[t]]
        BY <1>9, <2>2 DEF ExchangeIn
      <4>2. slots \in [Slots -> Addresses \cup {Null}] /\ hand[t] \in Addresses \cup {Null}
        OBVIOUS
      <4> QED
        BY <4>1, <4>2
    <3>2. Leave(t, "idle") /\ hand' = [hand EXCEPT ![t] = Null]
          /\ UNCHANGED <<mapped, asked, owned>>
      BY <1>9, <2>2 DEF ExchangeIn
    <3> QED
      BY <3>1, <3>2
  <2>3. CASE slots[scan[t]] # Null
    <3>1. scan[t] \in 1 .. SlotCount /\ scan' = [scan EXCEPT ![t] = @ + 1]
      BY <1>9, <2>1, <2>3 DEF ExchangeIn
    <3>2. scan' \in [Threads -> 1 .. SlotCount + 1]
      BY <3>1, ScanStep
    <3> QED
      BY <1>9, <2>3, <3>2 DEF ExchangeIn
  <2> QED
    BY <2>2, <2>3
<1>10. ASSUME NEW t \in Threads, Unmap(t)
       PROVE  PoolTypeOK'
  <2>1. hand[t] \in Addresses /\ mapped[hand[t]] = RoundUp(size[t])
    BY <1>10 DEF Unmap, ThreadOK
  <2> QED
    BY <1>10, <2>1 DEF Unmap
<1>11. CASE UNCHANGED poolVars
  BY <1>11 DEF poolVars
<1> QED
  BY <1>1, <1>2, <1>3, <1>4, <1>5, <1>6, <1>7, <1>8, <1>9, <1>10, <1>11
     DEF PoolNext, Operation

-----------------------------------------------------------------------------
(* Steps that move no block: only where thread t is changes.               *)

(* A thread whose variables, and whose block, stay as they are.            *)
LEMMA ThreadKept ==
  ASSUME NEW u \in Threads, ThreadOK(u),
         doing'[u] = doing[u], size'[u] = size[u], scan'[u] = scan[u], hand'[u] = hand[u],
         hand[u] # Null => mapped'[hand[u]] = mapped[hand[u]]
  PROVE  ThreadOK(u)'
BY DEF ThreadOK

LEMMA NoBlockMoves ==
  ASSUME PoolInv, NEW t \in Threads, UNCHANGED <<slots, mapped, asked, owned, hand>>,
         \A u \in Threads \ {t} :
           doing'[u] = doing[u] /\ size'[u] = size[u] /\ scan'[u] = scan[u],
         ThreadOK(t)'
  PROVE  (OneOwner /\ ChunksWhole /\ \A u \in Threads : ThreadOK(u))'
<1>1. OneOwner' /\ ChunksWhole'
  BY DEF PoolInv, OneOwner, ChunksWhole
<1>2. ASSUME NEW u \in Threads \ {t}
      PROVE  ThreadOK(u)'
  BY <1>2, ThreadKept DEF PoolInv
<1> QED
  BY <1>1, <1>2

LEMMA LookingSteps ==
  ASSUME PoolInv, NEW t \in Threads,
         \/ \E n \in Requests : BeginAllocate(t, n)
         \/ LookForChunk(t) \/ NoChunkCached(t) \/ MapFails(t)
         \/ LookForRoom(t) \/ NoRoom(t) \/ Vanish(t)
         \/ SwapOut(t) /\ slots[scan[t]] = Null
         \/ ExchangeIn(t) /\ slots[scan[t]] # Null
  PROVE  (OneOwner /\ ChunksWhole /\ \A u \in Threads : ThreadOK(u))'
<1> USE DEF PoolTypeOK, Goto, Leave, NextSlot
<1>1. PoolTypeOK /\ ThreadOK(t)
  BY DEF PoolInv
<1>2. ASSUME NEW n \in Requests, BeginAllocate(t, n)
      PROVE  ThreadOK(t)'
  BY <1>1, <1>2 DEF BeginAllocate, ThreadOK
<1>3. CASE LookForChunk(t)
  <2>1. ThreadOK(t)'
    BY <1>1, <1>3 DEF LookForChunk, ThreadOK
  <2> QED
    BY <1>1, <1>3, <2>1, NoBlockMoves DEF LookForChunk
<1>4. CASE NoChunkCached(t)
  <2>1. ThreadOK(t)'
    BY <1>1, <1>4 DEF NoChunkCached, ThreadOK
  <2> QED
    BY <1>1, <1>4, <2>1, NoBlockMoves DEF NoChunkCached
<1>5. CASE MapFails(t)
  <2>1. ThreadOK(t)'
    BY <1>1, <1>5 DEF MapFails, ThreadOK
  <2> QED
    BY <1>1, <1>5, <2>1, NoBlockMoves DEF MapFails
<1>6. CASE LookForRoom(t)
  <2>1. ThreadOK(t)'
    BY <1>1, <1>6 DEF LookForRoom, ThreadOK
  <2> QED
    BY <1>1, <1>6, <2>1, NoBlockMoves DEF LookForRoom
<1>7. CASE NoRoom(t)
  <2>1. ThreadOK(t)'
    BY <1>1, <1>7 DEF NoRoom, ThreadOK
  <2> QED
    BY <1>1, <1>7, <2>1, NoBlockMoves DEF NoRoom
<1>8. CASE Vanish(t)
  <2>1. ThreadOK(t)'
    BY <1>1, <1>8 DEF Vanish, ThreadOK
  <2> QED
    BY <1>1, <1>8, <2>1, NoBlockMoves DEF Vanish
<1>9. CASE SwapOut(t) /\ slots[scan[t]] = Null
  <2>1. slots' = slots /\ UNCHANGED <<mapped, asked, owned, hand, size>>
        /\ doing' = [doing EXCEPT ![t] = "looking"] /\ scan' = [scan EXCEPT ![t] = @ + 1]
    BY <1>1, <1>9 DEF SwapOut
  <2>2. ThreadOK(t)'
    BY <1>1, <1>9, <2>1 DEF SwapOut, ThreadOK
  <2> QED
    BY <1>1, <2>1, <2>2, NoBlockMoves
<1>10. CASE ExchangeIn(t) /\ slots[scan[t]] # Null
  <2>1. UNCHANGED <<slots, mapped, asked, owned, hand, size>>
        /\ doing' = [doing EXCEPT ![t] = "offering"] /\ scan' = [scan EXCEPT ![t] = @ + 1]
    BY <1>10 DEF ExchangeIn
  <2>2. ThreadOK(t)'
    BY <1>1, <1>10, <2>1 DEF ExchangeIn, ThreadOK
  <2> QED
    BY <1>1, <2>1, <2>2, NoBlockMoves
<1>11. ASSUME NEW n \in Requests, BeginAllocate(t, n)
       PROVE  (OneOwner /\ ChunksWhole /\ \A u \in Threads : ThreadOK(u))'
  BY <1>1, <1>2, <1>11, NoBlockMoves DEF BeginAllocate
<1> QED
  BY <1>3, <1>4, <1>5, <1>6, <1>7, <1>8, <1>9, <1>10, <1>11

-----------------------------------------------------------------------------
(* Steps that move a block from one owner to another.                      *)

(* A chunk goes from its slot to the thread that swapped it out.           *)
LEMMA SwapOutStep ==
  ASSUME PoolInv, NEW t \in Threads, SwapOut(t), slots[scan[t]] # Null
  PROVE  (OneOwner /\ ChunksWhole /\ \A u \in Threads : ThreadOK(u))'
<1> DEFINE i == scan[t]
<1> DEFINE a == slots[i]
<1>1. PoolTypeOK /\ i \in Slots /\ a \in Addresses /\ size[t] \in 1 .. ChunkSize
  BY DEF PoolInv, PoolTypeOK, ThreadOK, SwapOut
<1>2. /\ slots' = [slots EXCEPT ![i] = Null]
      /\ owned' = [owned EXCEPT ![t] = @ \cup {a}]
      /\ asked' = [asked EXCEPT ![a] = size[t]]
      /\ doing' = [doing EXCEPT ![t] = "idle"]
      /\ scan' = [scan EXCEPT ![t] = 1]
      /\ size' = [size EXCEPT ![t] = 0]
      /\ UNCHANGED <<mapped, hand>>
  BY DEF SwapOut, Receive, Leave, Goto
<1>3. OneOwner'
  <2>1. \A j \in Slots : slots'[j] # Null => slots'[j] = slots[j] /\ slots'[j] # a
    BY <1>1, <1>2 DEF PoolInv, OneOwner, PoolTypeOK
  <2>2. \A u \in Threads : a \notin owned[u] /\ a # hand[u]
    BY <1>1 DEF PoolInv, OneOwner
  <2>3. \A u \in Threads : \A b : b \in owned'[u] => b \in owned[u] \/ (u = t /\ b = a)
    BY <1>1, <1>2 DEF PoolTypeOK
  <2>4. \A b \in Addresses, j \in Slots : slots[j] = b => b = a \/ slots'[j] = b
    BY <1>1, <1>2 DEF PoolTypeOK
  <2>5. \A j, k \in Slots : slots'[j] # Null /\ slots'[j] = slots'[k] => j = k
    BY <2>1 DEF PoolInv, OneOwner
  <2>6. \A u, v \in Threads : u # v => owned'[u] \cap owned'[v] = {}
    <3>1. \A u, v \in Threads : u # v => owned[u] \cap owned[v] = {}
      BY DEF PoolInv, OneOwner
    <3> QED
      BY <2>2, <2>3, <3>1
  <2>7. \A u, v \in Threads : hand[u] \notin owned'[v]
    <3>1. \A u, v \in Threads : hand[u] \notin owned[v]
      BY DEF PoolInv, OneOwner
    <3> QED
      BY <2>2, <2>3, <3>1
  <2>8. \A j \in Slots, u \in Threads :
          slots'[j] # Null => slots'[j] # hand[u] /\ slots'[j] \notin owned'[u]
    <3>1. \A j \in Slots, u \in Threads :
            slots[j] # Null => slots[j] # hand[u] /\ slots[j] \notin owned[u]
      BY DEF PoolInv, OneOwner
    <3> QED
      BY <2>1, <2>3, <3>1
  <2>9. \A b \in Addresses : mapped[b] # 0 =>
          (\E j \in Slots : slots'[j] = b)
            \/ (\E u \in Threads : b \in owned'[u] \/ b = hand[u])
    <3>1. \A u \in Threads : owned[u] \subseteq owned'[u]
      BY <1>1, <1>2 DEF PoolTypeOK
    <3>2. a \in owned'[t]
      BY <1>1, <1>2 DEF PoolTypeOK
    <3> QED
      BY <2>4, <3>1, <3>2 DEF PoolInv, OneOwner
  <2> QED
    BY <1>2, <2>5, <2>6, <2>7, <2>8, <2>9 DEF PoolInv, OneOwner
<1>4. ChunksWhole'
  <2>1. Length(size[t]) = ChunkSize /\ mapped[a] = ChunkSize
    BY <1>1, LengthBounds DEF PoolInv, ChunksWhole
  <2>2. \A u \in Threads : owned'[u] \subseteq owned[u] \cup {a}
    BY <1>1, <1>2 DEF PoolTypeOK
  <2>3. \A j \in Slots : slots'[j] # Null => slots'[j] = slots[j]
    BY <1>1, <1>2 DEF PoolTypeOK
  <2>4. asked'[a] = size[t] /\ \A b \in Addresses \ {a} : asked'[b] = asked[b]
    BY <1>1, <1>2 DEF PoolTypeOK
  <2>5. \A u \in Threads : owned[u] \subseteq Addresses
    BY <1>1 DEF PoolTypeOK
  <2> QED
    BY <1>1, <1>2, <2>1, <2>2, <2>3, <2>4, <2>5 DEF PoolInv, ChunksWhole
<1>5. ThreadOK(t)'
  BY <1>1, <1>2 DEF PoolInv, PoolTypeOK, ThreadOK, SwapOut
<1>6. ASSUME NEW u \in Threads \ {t}
      PROVE  ThreadOK(u)'
  BY <1>1, <1>2, ThreadKept DEF PoolInv, PoolTypeOK
<1> QED
  BY <1>3, <1>4, <1>5, <1>6

(* A chunk goes from the thread that gives it back to an empty slot.       *)
LEMMA ExchangeInStep ==
  ASSUME PoolInv, NEW t \in Threads, ExchangeIn(t), slots[scan[t]] = Null
  PROVE  (OneOwner /\ ChunksWhole /\ \A u \in Threads : ThreadOK(u))'
<1> DEFINE i == scan[t]
<1> DEFINE a == hand[t]
<1>1. PoolTypeOK /\ i \in Slots /\ a \in Addresses /\ mapped[a] = ChunkSize
  BY DEF PoolInv, PoolTypeOK, ThreadOK, ExchangeIn
<1>2. /\ slots' = [slots EXCEPT ![i] = a]
      /\ hand' = [hand EXCEPT ![t] = Null]
      /\ doing' = [doing EXCEPT ![t] = "idle"]
      /\ scan' = [scan EXCEPT ![t] = 1]
      /\ size' = [size EXCEPT ![t] = 0]
      /\ UNCHANGED <<mapped, asked, owned>>
  BY DEF ExchangeIn, Leave, Goto
<1>3. \A j \in Slots : slots'[j] = IF j = i THEN a ELSE slots[j]
  BY <1>1, <1>2 DEF PoolTypeOK
<1>4. \A u \in Threads : hand'[u] = IF u = t THEN Null ELSE hand[u]
  BY <1>1, <1>2 DEF PoolTypeOK
<1>5. OneOwner'
  <2>1. \A j \in Slots : slots[j] # a
    BY <1>1 DEF PoolInv, OneOwner
  <2>2. \A u \in Threads : a \notin owned[u] /\ (u # t => hand[u] # a)
    BY <1>1 DEF PoolInv, OneOwner
  <2>3. \A u \in Threads : Null \notin owned[u]
    BY <1>1 DEF PoolTypeOK
  <2>4. \A b \in Addresses, u \in Threads : b = hand[u] => b = a \/ b = hand'[u]
    BY <1>4
  <2>5. \A b \in Addresses, j \in Slots : slots[j] = b => slots'[j] = b
    BY <1>1, <1>3
  <2> QED
    BY <1>1, <1>2, <1>3, <1>4, <2>1, <2>2, <2>3, <2>4, <2>5 DEF PoolInv, OneOwner
<1>6. ChunksWhole'
  BY <1>1, <1>2, <1>3 DEF PoolInv, ChunksWhole
<1>7. ThreadOK(t)'
  BY <1>1, <1>2 DEF PoolInv, PoolTypeOK, ThreadOK, ExchangeIn
<1>8. ASSUME NEW u \in Threads \ {t}
      PROVE  ThreadOK(u)'
  BY <1>1, <1>2, ThreadKept DEF PoolInv, PoolTypeOK
<1> QED
  BY <1>5, <1>6, <1>7, <1>8

(* An address where nothing is mapped is nobody's.                         *)
LEMMA Unowned ==
  ASSUME PoolInv, NEW a \in Addresses, mapped[a] = 0
  PROVE  /\ \A i \in Slots : slots[i] # a
         /\ \A u \in Threads : a \notin owned[u] /\ a # hand[u]
<1>1. \A i \in Slots : slots[i] # a
  BY DEF PoolInv, ChunksWhole
<1>2. \A u \in Threads : a \notin owned[u]
  BY DEF PoolInv, ChunksWhole
<1>3. \A u \in Threads : a # hand[u]
  BY DEF PoolInv, ThreadOK
<1> QED
  BY <1>1, <1>2, <1>3

(* The kernel maps a block for the thread that asked.                      *)
LEMMA MapStep ==
  ASSUME PoolInv, NEW t \in Threads, NEW a \in Addresses, Map(t, a)
  PROVE  (OneOwner /\ ChunksWhole /\ \A u \in Threads : ThreadOK(u))'
<1>1. PoolTypeOK /\ mapped[a] = 0 /\ size[t] \in Nat \ {0}
  BY DEF PoolInv, PoolTypeOK, ThreadOK, Map
<1>2. /\ mapped' = [mapped EXCEPT ![a] = Length(size[t])]
      /\ owned' = [owned EXCEPT ![t] = @ \cup {a}]
      /\ asked' = [asked EXCEPT ![a] = size[t]]
      /\ doing' = [doing EXCEPT ![t] = "idle"]
      /\ scan' = [scan EXCEPT ![t] = 1]
      /\ size' = [size EXCEPT ![t] = 0]
      /\ UNCHANGED <<slots, hand>>
  BY DEF Map, Receive, Leave, Goto
<1>3. \A u \in Threads : \A b : b \in owned'[u] => b \in owned[u] \/ (u = t /\ b = a)
  BY <1>1, <1>2 DEF PoolTypeOK
<1>4. \A b \in Addresses \ {a} : mapped'[b] = mapped[b] /\ asked'[b] = asked[b]
  BY <1>1, <1>2 DEF PoolTypeOK
<1>5. mapped'[a] = Length(size[t]) /\ asked'[a] = size[t]
  BY <1>1, <1>2 DEF PoolTypeOK
<1>6. /\ \A i \in Slots : slots[i] # a
      /\ \A u \in Threads : a \notin owned[u] /\ a # hand[u]
  BY <1>1, Unowned
<1>7. OneOwner'
  <2>1. \A u, v \in Threads : u # v => owned'[u] \cap owned'[v] = {}
    <3>1. \A u, v \in Threads : u # v => owned[u] \cap owned[v] = {}
      BY DEF PoolInv, OneOwner
    <3> QED
      BY <1>3, <1>6, <3>1
  <2>2. \A u, v \in Threads : hand[u] \notin owned'[v]
    <3>1. \A u, v \in Threads : hand[u] \notin owned[v]
      BY DEF PoolInv, OneOwner
    <3> QED
      BY <1>3, <1>6, <3>1
  <2>3. \A i \in Slots, u \in Threads :
          slots[i] # Null => slots[i] # hand[u] /\ slots[i] \notin owned'[u]
    <3>1. \A i \in Slots, u \in Threads :
            slots[i] # Null => slots[i] # hand[u] /\ slots[i] \notin owned[u]
      BY DEF PoolInv, OneOwner
    <3> QED
      BY <1>3, <1>6, <3>1
  <2>4. \A b \in Addresses : mapped'[b] # 0 =>
          (\E i \in Slots : slots[i] = b)
            \/ (\E u \in Threads : b \in owned'[u] \/ b = hand[u])
    <3>1. \A u \in Threads : owned[u] \subseteq owned'[u]
      BY <1>1, <1>2 DEF PoolTypeOK
    <3>2. a \in owned'[t]
      BY <1>1, <1>2 DEF PoolTypeOK
    <3> QED
      BY <1>4, <3>1, <3>2 DEF PoolInv, OneOwner
  <2> QED
    BY <1>2, <2>1, <2>2, <2>3, <2>4 DEF PoolInv, OneOwner
<1>8. ChunksWhole'
  <2>1. \A i \in Slots : slots[i] # Null => mapped'[slots[i]] = ChunkSize
    BY <1>1, <1>4, <1>6 DEF PoolInv, ChunksWhole, PoolTypeOK
  <2>2. ASSUME NEW u \in Threads, NEW b \in owned'[u]
        PROVE  mapped'[b] = Length(asked'[b]) /\ asked'[b] \in 1 .. mapped'[b]
    <3>1. CASE b = a
      BY <1>1, <1>5, <3>1, LengthBounds
    <3>2. CASE b # a
      <4>1. b \in owned[u] /\ b \in Addresses \ {a}
        BY <1>1, <1>3, <2>2, <3>2 DEF PoolTypeOK
      <4> QED
        BY <1>4, <4>1 DEF PoolInv, ChunksWhole
    <3> QED
      BY <3>1, <3>2
  <2> QED
    BY <1>2, <2>1, <2>2 DEF ChunksWhole
<1>9. ThreadOK(t)'
  BY <1>1, <1>2 DEF PoolInv, PoolTypeOK, ThreadOK, Map
<1>10. ASSUME NEW u \in Threads \ {t}
       PROVE  ThreadOK(u)'
  BY <1>1, <1>2, <1>4, <1>6, ThreadKept DEF PoolInv, PoolTypeOK
<1> QED
  BY <1>7, <1>8, <1>9, <1>10

(* A block leaves its thread's arenas, and its size says where it goes.    *)
LEMMA BeginDeallocateStep ==
  ASSUME PoolInv, NEW t \in Threads, NEW a \in Addresses, NEW n \in 1 .. mapped[a],
         BeginDeallocate(t, a, n)
  PROVE  (OneOwner /\ ChunksWhole /\ \A u \in Threads : ThreadOK(u))'
<1>1. /\ PoolTypeOK /\ ThreadOK(t) /\ doing[t] = "idle" /\ a \in owned[t]
      /\ n \in asked[a] .. Granted(a)
  BY DEF PoolInv, BeginDeallocate
<1>2. /\ owned' = [owned EXCEPT ![t] = @ \ {a}]
      /\ hand' = [hand EXCEPT ![t] = a]
      /\ size' = [size EXCEPT ![t] = n]
      /\ asked' = [asked EXCEPT ![a] = 0]
      /\ doing' = [doing EXCEPT ![t] = Destination(n)]
      /\ UNCHANGED <<slots, mapped, scan>>
  BY DEF BeginDeallocate, Goto
<1>3. /\ asked[a] \in Nat \ {0} /\ mapped[a] = Length(asked[a]) /\ mapped[a] # 0
      /\ n \in Nat \ {0}
  BY <1>1 DEF PoolInv, ChunksWhole, PoolTypeOK
<1>4. /\ \A i \in Slots : slots[i] # a
      /\ \A u \in Threads : a # hand[u] /\ (u # t => a \notin owned[u])
  <2>1. \A i \in Slots : slots[i] # a
    BY <1>1 DEF PoolInv, OneOwner, PoolTypeOK
  <2>2. \A u \in Threads : a # hand[u]
    BY <1>1 DEF PoolInv, OneOwner
  <2>3. \A u \in Threads : u # t => a \notin owned[u]
    BY <1>1 DEF PoolInv, OneOwner
  <2> QED
    BY <2>1, <2>2, <2>3
<1>5. \A u \in Threads : owned'[u] = IF u = t THEN owned[u] \ {a} ELSE owned[u]
  BY <1>1, <1>2 DEF PoolTypeOK
<1>6. \A u \in Threads : hand'[u] = IF u = t THEN a ELSE hand[u]
  BY <1>1, <1>2 DEF PoolTypeOK
<1>7. OneOwner'
  <2>1. \A u, v \in Threads : u # v => owned'[u] \cap owned'[v] = {}
    <3>1. \A u, v \in Threads : u # v => owned[u] \cap owned[v] = {}
      BY DEF PoolInv, OneOwner
    <3> QED
      BY <1>5, <3>1
  <2>2. \A u, v \in Threads : hand'[u] # Null /\ hand'[u] = hand'[v] => u = v
    BY <1>4, <1>6 DEF PoolInv, OneOwner
  <2>3. \A u, v \in Threads : hand'[u] \notin owned'[v]
    <3>1. \A u, v \in Threads : hand[u] \notin owned[v]
      BY DEF PoolInv, OneOwner
    <3> QED
      BY <1>4, <1>5, <1>6, <3>1
  <2>4. \A i \in Slots, u \in Threads :
          slots[i] # Null => slots[i] # hand'[u] /\ slots[i] \notin owned'[u]
    <3>1. \A i \in Slots, u \in Threads :
            slots[i] # Null => slots[i] # hand[u] /\ slots[i] \notin owned[u]
      BY DEF PoolInv, OneOwner
    <3> QED
      BY <1>4, <1>5, <1>6, <3>1
  <2>5. \A b \in Addresses : mapped[b] # 0 =>
          (\E i \in Slots : slots[i] = b)
            \/ (\E u \in Threads : b \in owned'[u] \/ b = hand'[u])
    <3>1. hand[t] = Null
      BY <1>1 DEF ThreadOK
    <3>2. \A b \in Addresses, u \in Threads :
            b \in owned[u] => b \in owned'[u] \/ b = hand'[t]
      BY <1>5, <1>6
    <3>3. \A b \in Addresses, u \in Threads : b = hand[u] => b = hand'[u]
      BY <1>6, <3>1
    <3> QED
      BY <3>2, <3>3 DEF PoolInv, OneOwner
  <2> QED
    BY <1>2, <2>1, <2>2, <2>3, <2>4, <2>5 DEF PoolInv, OneOwner
<1>8. ChunksWhole'
  <2>1. ASSUME NEW u \in Threads, NEW b \in owned'[u]
        PROVE  mapped[b] = Length(asked'[b]) /\ asked'[b] \in 1 .. mapped[b]
    <3>1. b \in owned[u] /\ b # a /\ b \in Addresses
      BY <1>1, <1>4, <1>5, <2>1 DEF PoolTypeOK
    <3>2. asked'[b] = asked[b]
      BY <1>1, <1>2, <3>1 DEF PoolTypeOK
    <3> QED
      BY <3>1, <3>2 DEF PoolInv, ChunksWhole
  <2> QED
    BY <1>2, <2>1 DEF PoolInv, ChunksWhole
<1>9. ThreadOK(t)'
  <2>1. hand'[t] = a /\ size'[t] = n /\ doing'[t] = Destination(n) /\ mapped' = mapped
    BY <1>1, <1>2 DEF PoolTypeOK
  <2>2. CASE n > ChunkSize
    <3>1. asked[a] > ChunkSize
      BY <1>1, <1>3, <2>2 DEF Granted
    <3>2. n <= mapped[a] /\ asked[a] <= n
      BY <1>1, <1>3, <3>1 DEF Granted, PoolTypeOK
    <3>3. mapped[a] = RoundUp(asked[a])
      BY <1>3, <3>1, LengthBounds
    <3>4. mapped[a] = RoundUp(n)
      BY <1>3, <3>2, <3>3, SamePages
    <3> QED
      BY <1>3, <2>1, <2>2, <3>4 DEF ThreadOK, Destination
  <2>3. CASE ~(n > ChunkSize)
    <3>1. asked[a] <= ChunkSize
      BY <1>1, <1>3, <2>3 DEF Granted, PoolTypeOK
    <3>2. mapped[a] = ChunkSize
      BY <1>3, <3>1, LengthBounds
    <3> QED
      BY <1>3, <2>1, <2>3, <3>2 DEF ThreadOK, Destination
  <2> QED
    BY <2>2, <2>3
<1>10. ASSUME NEW u \in Threads \ {t}
       PROVE  ThreadOK(u)'
  BY <1>1, <1>2, ThreadKept DEF PoolInv, PoolTypeOK
<1> QED
  BY <1>7, <1>8, <1>9, <1>10

(* The whole of the block in hand goes back to the kernel.                 *)
LEMMA UnmapStep ==
  ASSUME PoolInv, NEW t \in Threads, Unmap(t)
  PROVE  (OneOwner /\ ChunksWhole /\ \A u \in Threads : ThreadOK(u))'
<1> DEFINE a == hand[t]
<1>1. PoolTypeOK /\ a \in Addresses /\ mapped[a] = RoundUp(size[t]) /\ size[t] \in Nat
  BY DEF PoolInv, PoolTypeOK, ThreadOK, Unmap
<1>2. /\ mapped' = [mapped EXCEPT ![a] = @ - RoundUp(size[t])]
      /\ hand' = [hand EXCEPT ![t] = Null]
      /\ doing' = [doing EXCEPT ![t] = "idle"]
      /\ scan' = [scan EXCEPT ![t] = 1]
      /\ size' = [size EXCEPT ![t] = 0]
      /\ UNCHANGED <<slots, asked, owned>>
  BY DEF Unmap, Leave, Goto
<1>3. mapped'[a] = 0 /\ \A b \in Addresses \ {a} : mapped'[b] = mapped[b]
  <2>1. mapped'[a] = mapped[a] - RoundUp(size[t])
    BY <1>1, <1>2 DEF PoolTypeOK
  <2>2. mapped[a] \in Nat
    BY <1>1 DEF PoolTypeOK
  <2> QED
    BY <1>1, <1>2, <2>1, <2>2 DEF PoolTypeOK
<1>4. \A u \in Threads : hand'[u] = IF u = t THEN Null ELSE hand[u]
  BY <1>1, <1>2 DEF PoolTypeOK
<1>5. /\ \A i \in Slots : slots[i] # a
      /\ \A u \in Threads : a \notin owned[u] /\ (u # t => hand[u] # a)
  <2>1. \A i \in Slots : slots[i] # a
    BY <1>1 DEF PoolInv, OneOwner
  <2>2. \A u \in Threads : a \notin owned[u]
    BY <1>1 DEF PoolInv, OneOwner
  <2>3. \A u \in Threads : u # t => hand[u] # a
    BY <1>1 DEF PoolInv, OneOwner
  <2> QED
    BY <2>1, <2>2, <2>3
<1>6. OneOwner'
  <2>1. \A u \in Threads : Null \notin owned[u]
    BY <1>1 DEF PoolTypeOK
  <2>2. \A b \in Addresses : mapped'[b] # 0 =>
          (\E i \in Slots : slots[i] = b)
            \/ (\E u \in Threads : b \in owned[u] \/ b = hand'[u])
    <3>1. \A b \in Addresses \ {a}, u \in Threads : b = hand[u] => b = hand'[u]
      BY <1>4
    <3> QED
      BY <1>3, <3>1 DEF PoolInv, OneOwner
  <2> QED
    BY <1>2, <1>4, <2>1, <2>2 DEF PoolInv, OneOwner
<1>7. ChunksWhole'
  <2>1. \A i \in Slots : slots[i] # Null => mapped'[slots[i]] = ChunkSize
    BY <1>1, <1>3, <1>5 DEF PoolInv, ChunksWhole, PoolTypeOK
  <2>2. \A u \in Threads : \A b \in owned[u] : mapped'[b] = mapped[b]
    BY <1>1, <1>3, <1>5 DEF PoolTypeOK
  <2> QED
    BY <1>2, <2>1, <2>2 DEF PoolInv, ChunksWhole
<1>8. ThreadOK(t)'
  BY <1>1, <1>2 DEF PoolInv, PoolTypeOK, ThreadOK, Unmap
<1>9. ASSUME NEW u \in Threads \ {t}
      PROVE  ThreadOK(u)'
  BY <1>1, <1>2, <1>3, <1>5, ThreadKept DEF PoolInv, PoolTypeOK
<1> QED
  BY <1>6, <1>7, <1>8, <1>9

-----------------------------------------------------------------------------
(* The theorems.                                                           *)

LEMMA InvariantInit == PoolInit => PoolInv
<1>1. PoolInit => PoolTypeOK
  BY DEF PoolInit, PoolTypeOK, Slots
<1>2. PoolInit => OneOwner /\ ChunksWhole /\ \A t \in Threads : ThreadOK(t)
  BY DEF PoolInit, OneOwner, ChunksWhole, ThreadOK, Slots
<1> QED
  BY <1>1, <1>2 DEF PoolInv

LEMMA InvariantStep == PoolInv /\ [PoolNext]_poolVars => PoolInv'
<1> SUFFICES ASSUME PoolInv, [PoolNext]_poolVars
             PROVE  (OneOwner /\ ChunksWhole /\ \A u \in Threads : ThreadOK(u))'
  BY PoolTypeStep DEF PoolInv
<1>1. CASE UNCHANGED poolVars
  BY <1>1 DEF poolVars, PoolInv, OneOwner, ChunksWhole, ThreadOK
<1>2. ASSUME NEW t \in Threads, Operation(t)
      PROVE  (OneOwner /\ ChunksWhole /\ \A u \in Threads : ThreadOK(u))'
  <2>1. CASE SwapOut(t)
    BY <2>1, LookingSteps, SwapOutStep
  <2>2. CASE ExchangeIn(t)
    BY <2>2, LookingSteps, ExchangeInStep
  <2>3. CASE \E a \in Addresses : Map(t, a)
    BY <2>3, MapStep
  <2>4. CASE Unmap(t)
    BY <2>4, UnmapStep
  <2>5. CASE LookForChunk(t) \/ NoChunkCached(t) \/ MapFails(t) \/ LookForRoom(t) \/ NoRoom(t)
    BY <2>5, LookingSteps
  <2> QED
    BY <1>2, <2>1, <2>2, <2>3, <2>4, <2>5 DEF Operation
<1>3. ASSUME NEW t \in Threads,
             (\E n \in Requests : BeginAllocate(t, n)) \/ Vanish(t)
      PROVE  (OneOwner /\ ChunksWhole /\ \A u \in Threads : ThreadOK(u))'
  BY <1>3, LookingSteps
<1>4. ASSUME NEW t \in Threads, NEW a \in Addresses, NEW n \in 1 .. mapped[a],
             BeginDeallocate(t, a, n)
      PROVE  (OneOwner /\ ChunksWhole /\ \A u \in Threads : ThreadOK(u))'
  BY <1>4, BeginDeallocateStep
<1> QED
  BY <1>1, <1>2, <1>3, <1>4 DEF PoolNext

(* Types, one owner, whole chunks and what each step takes for granted     *)
(* hold together in every behaviour.                                       *)
THEOREM PoolInvariant == PoolSpec => []PoolInv
BY InvariantInit, InvariantStep, PTL DEF PoolSpec

(* Every variable of the pool has its type.                                *)
THEOREM PoolTypes == PoolSpec => []PoolTypeOK
<1>1. PoolInv => PoolTypeOK
  BY DEF PoolInv
<1> QED
  BY <1>1, PoolInvariant, PTL

(* What is mapped has exactly one owner, at any number of threads, slots   *)
(* and addresses, wherever threads vanish; a cached block is one chunk and *)
(* a block in use is as long as its size says, for every chunk size that   *)
(* is a multiple of the page.                                              *)
THEOREM SoundPool == PoolSpec => []PoolSound
<1>1. PoolInv => PoolSound
  BY DEF PoolInv, PoolSound
<1> QED
  BY <1>1, PoolInvariant, PTL
=============================================================================
