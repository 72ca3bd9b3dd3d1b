---------------------------- MODULE RemoteLookup ----------------------------
(***************************************************************************)
(* The remote half of a cache lookup: the fetch, the choice among the      *)
(* entries it brings, the download that is checked while it arrives, and   *)
(* what becomes of the archive (crates/vt/src/session/cache/remote.rs,     *)
(* try_hit_remote and restore in cache/mod.rs, the client in               *)
(* crates/vt_remote_cache).                                                *)
(*                                                                         *)
(* The download has two halves.  The runner takes chunks from the network  *)
(* and puts them into a channel; a blocking thread takes them out, writes  *)
(* them to a temporary file and decodes them.  The server, the network and *)
(* the disk may fail at every step, and the run may be cancelled.          *)
(***************************************************************************)
EXTENDS Integers, Sequences

CONSTANTS
  Blob,         \* bound: chunks of a blob
  Room          \* CHECK_BUFFER_CHUNKS

ASSUME LookupAssumption == Blob \in Nat /\ Room \in Nat \ {0}

VARIABLES
  at,           \* where the lookup is
  halt,         \* cancel_token
  chosen,       \* the entry that passed: "plain" without a blob, or its blob, which
                \* decodes if it is "whole" and not if it is "cut"
  feed,         \* send_chunks: "off", "open", then how it ended
  arrived,      \* chunks taken from the network
  inHand,       \* the one that waits for room in the channel
  queued,       \* chunks in the channel
  reader,       \* check_output_archive: "off", "reading", then what it found
  onDisk,       \* chunks in the file
  file          \* "absent", "open" or "closed" as a .tmp, "archive" once renamed

lookupVars == <<at, halt, chosen, feed, arrived, inHand, queued, reader, onDisk, file>>
download == <<feed, arrived, inHand, queued, reader, onDisk>>

(* What an entry of an exact match can be: its value may not decode, its   *)
(* blob may be missing where the value has an archive, or be there where   *)
(* it has none, and it may fail validation, or not be validated at all.    *)
Valid == {"plain", "whole", "cut"}
Entry == Valid \cup {"corrupt", "mismatched", "stale", "unvalidated"}

Responses == {<<e>> : e \in Entry} \cup {<<e, f>> : e, f \in Entry}

LookupInit ==
  /\ at = "fetching"
  /\ halt = FALSE
  /\ chosen = "none"
  /\ feed = "off"
  /\ arrived = 0
  /\ inHand = FALSE
  /\ queued = 0
  /\ reader = "off"
  /\ onDisk = 0
  /\ file = "absent"

Miss == at' = "missed"

-----------------------------------------------------------------------------
(* RemoteClients::fetch and resolve().                                     *)

(* An error, no match, or a match of the secondary key only.               *)
NothingFetched ==
  /\ at = "fetching"
  /\ Miss
  /\ UNCHANGED <<halt, chosen, download, file>>

(* The newest entry that passes is restored.                               *)
Passes(entries, i) == entries[i] \in Valid /\ \A k \in 1 .. i - 1 : entries[k] \notin Valid

FetchedExact(entries) ==
  /\ at = "fetching"
  /\ ~halt
  /\ \E i \in DOMAIN entries :
       /\ Passes(entries, i)
       /\ chosen' = entries[i]
       /\ at' = IF entries[i] = "plain" THEN "hit" ELSE "requesting"
  /\ UNCHANGED <<halt, download, file>>

FetchedNoneValid(entries) ==
  /\ at = "fetching"
  /\ ~halt
  /\ \A i \in DOMAIN entries : entries[i] \notin Valid
  /\ Miss
  /\ UNCHANGED <<halt, chosen, download, file>>

-----------------------------------------------------------------------------
(* download_checked().                                                     *)

(* The request fails, or the file cannot be created.                       *)
NoDownload ==
  /\ at = "requesting"
  /\ Miss
  /\ UNCHANGED <<halt, chosen, download, file>>

BeginDownload ==
  /\ at = "requesting"
  /\ ~halt
  /\ at' = "downloading"
  /\ file' = "open"
  /\ feed' = "open"
  /\ reader' = "reading"
  /\ UNCHANGED <<halt, chosen, arrived, inHand, queued, onDisk>>

(* send_chunks(): a chunk, the end of the blob or an error.                *)
TakeChunk ==
  /\ feed = "open" /\ ~inHand /\ ~halt
  /\ arrived < Blob
  /\ arrived' = arrived + 1
  /\ inHand' = TRUE
  /\ UNCHANGED <<at, halt, chosen, feed, queued, reader, onDisk, file>>

EndFeed(how) ==
  /\ feed = "open"
  /\ feed' = how
  /\ inHand' = FALSE
  /\ UNCHANGED <<at, halt, chosen, arrived, queued, reader, onDisk, file>>

LastChunk == ~inHand /\ ~halt /\ arrived = Blob /\ EndFeed("ended")
NetworkFails == ~inHand /\ ~halt /\ EndFeed("broken")

PutChunk ==
  /\ feed = "open" /\ inHand /\ ~halt
  /\ reader = "reading" /\ queued < Room
  /\ inHand' = FALSE
  /\ queued' = queued + 1
  /\ UNCHANGED <<at, halt, chosen, feed, arrived, reader, onDisk, file>>

(* The check has ended: nobody takes chunks any more.                      *)
FeedRefused == reader # "reading" /\ ~halt /\ EndFeed("ended")

(* Mutant: the sender is kept when the download is cancelled.              *)
FeedIgnoresHalt == halt /\ ~inHand /\ arrived = Blob /\ EndFeed("halted")

FeedHalted == halt /\ EndFeed("halted")

(* The check ends, and closes the file.                                    *)
EndCheck(found) ==
  /\ reader' = found
  /\ file' = "closed"

(* DownloadReader::read(): the chunk is written before it is decoded.      *)
CheckChunk ==
  /\ reader = "reading"
  /\ queued > 0
  /\ queued' = queued - 1
  /\ \/ EndCheck("unwritable") /\ UNCHANGED onDisk
     \/ onDisk' = onDisk + 1 /\ UNCHANGED <<reader, file>>
     \/ chosen = "cut" /\ onDisk' = onDisk + 1 /\ EndCheck("corrupt")
  /\ UNCHANGED <<at, halt, chosen, feed, arrived, inHand>>

CheckEnd ==
  /\ reader = "reading"
  /\ queued = 0 /\ feed # "open"
  /\ EndCheck(IF chosen = "whole" /\ onDisk = Blob THEN "passed" ELSE "corrupt")
  /\ UNCHANGED <<at, halt, chosen, feed, arrived, inHand, queued, onDisk>>

(* Mutant: the file is removed as soon as the sender has failed.           *)
JoinAtOnce ==
  /\ at = "downloading"
  /\ feed # "open"
  /\ feed = "ended" => reader # "reading"
  /\ \/ file' = "absent" /\ Miss
     \/ feed = "ended" /\ reader = "passed" /\ file' = "archive" /\ at' = "hit"
  /\ UNCHANGED <<halt, chosen, download>>

(* Both halves are over, the cancelled download's too.  The file is        *)
(* renamed, which may fail, or removed; the removal is best-effort in the  *)
(* code and taken to succeed here.                                         *)
Join ==
  /\ at = "downloading"
  /\ feed # "open" /\ reader # "reading"
  /\ \/ file' = "absent" /\ Miss
     \/ feed = "ended" /\ reader = "passed" /\ file' = "archive" /\ at' = "hit"
  /\ UNCHANGED <<halt, chosen, download>>

-----------------------------------------------------------------------------
(* The pipeline, with the hit in hand.                                     *)

(* A run that was cancelled meanwhile restores nothing.                    *)
LookedUp ==
  /\ at = "hit"
  /\ at' = IF halt THEN "dropped" ELSE "replaying"
  /\ UNCHANGED <<halt, chosen, download, file>>

(* An entry that cannot be recorded does not fail the task.                *)
Restored ==
  /\ at = "replaying"
  /\ at' = "restored"
  /\ UNCHANGED <<halt, chosen, download, file>>

(* The outputs cannot be written: the archive goes, and is fetched again.  *)
RestoreFails ==
  /\ at = "replaying"
  /\ file = "archive"
  /\ at' = "failed"
  /\ file' = "absent"
  /\ UNCHANGED <<halt, chosen, download>>

(* Ctrl-C, or a task that failed.                                          *)
Halt ==
  /\ ~halt
  /\ halt' = TRUE
  /\ UNCHANGED <<at, chosen, download, file>>

-----------------------------------------------------------------------------
(* What the runner and its thread do on their own, once it is cancelled.   *)
Unwinding ==
  \/ halt /\ NothingFetched
  \/ halt /\ NoDownload
  \/ FeedHalted \/ CheckChunk \/ CheckEnd \/ Join
  \/ LookedUp \/ Restored \/ RestoreFails

LookupNext ==
  \/ NothingFetched
  \/ \E entries \in Responses : FetchedExact(entries) \/ FetchedNoneValid(entries)
  \/ NoDownload \/ BeginDownload
  \/ TakeChunk \/ LastChunk \/ NetworkFails \/ PutChunk \/ FeedRefused \/ FeedHalted
  \/ CheckChunk \/ CheckEnd \/ Join
  \/ LookedUp \/ Restored \/ RestoreFails \/ Halt

LookupSpec == LookupInit /\ [][LookupNext]_lookupVars

(* The executor and the blocking thread run; the network need not answer.  *)
FairLookupSpec == LookupSpec /\ WF_lookupVars(Unwinding)

-----------------------------------------------------------------------------
(* remote.rs: "downloaded to a `.tmp` file, which is renamed once the      *)
(* check passes and removed otherwise".  An archive is whole, a lookup     *)
(* that misses leaves no file behind, and no file is removed while the     *)
(* check has it open, which Windows would refuse.                          *)
DownloadChecked ==
  /\ file = "archive" => chosen = "whole" /\ onDisk = Blob
  /\ at \in {"missed", "failed"} => file = "absent"
  /\ reader = "reading" => file = "open"
  /\ at \in {"hit", "replaying", "restored"} /\ chosen = "whole" => file = "archive"

(* docs/cancellation.md: "Both kinds of cancellation stop remote cache     *)
(* lookups and downloads right away instead of waiting for them to finish  *)
(* or time out."  The lookup ends though the network stays silent.         *)
CancelledLookupEnds ==
  halt ~> at \in {"missed", "dropped", "restored", "failed"}
=============================================================================
