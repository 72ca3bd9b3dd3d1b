---------------------------- MODULE RemoteUploads ----------------------------
(***************************************************************************)
(* The uploads to the remote cache that run behind a session's tasks, the  *)
(* wait for them before the summary, and the token the stores of a GitHub  *)
(* job share (RemoteUploads in crates/vt/src/session/cache/remote.rs,      *)
(* update in cache/mod.rs, execute_graph in execute/scheduler.rs, Client   *)
(* and GithubOidc in crates/vt_remote_cache).                              *)
(*                                                                         *)
(* The server may take an entry and its answer be lost; it may also stay   *)
(* silent.                                                                 *)
(***************************************************************************)
CONSTANTS
  Jobs,         \* the tasks of the graph
  NoJob,        \* holds the lock while it is free
  NoError

ASSUME UploadsAssumption == NoJob \notin Jobs /\ NoError \notin {"failed", "interrupted"}

VARIABLES
  graph,        \* "running", "waiting" for the uploads, "stopping" them, "summary"
  signals,      \* what has cancelled: "ctrl-c", "fast-fail"
  upload,       \* the upload of each task, "off" while it runs
  slot,         \* the cell an upload's error is set in
  stored,       \* the tasks whose entry the server has
  auth,         \* the state behind GithubOidc's lock: "ready" or "failed"
  token,        \* the token it keeps: "none", "fresh" or "old"
  holder,       \* the store that holds the lock during its request
  cancel        \* the token that stops the uploads

uploadVars == <<graph, signals, upload, slot, stored, auth, token, holder, cancel>>

Active == {"spawned", "requesting", "sending"}

(* A request URL that is none, or a token that no header can hold, has     *)
(* failed from the start.                                                  *)
UploadsInit ==
  /\ graph = "running"
  /\ signals = {}
  /\ upload = [j \in Jobs |-> "off"]
  /\ slot = [j \in Jobs |-> NoError]
  /\ stored = {}
  /\ auth \in {"ready", "failed"}
  /\ token = "none"
  /\ holder = NoJob
  /\ cancel = FALSE

Advance(j, where) == upload' = [upload EXCEPT ![j] = where]
Report(j, error) == slot' = [slot EXCEPT ![j] = error]
Release(j) == holder' = IF holder = j THEN NoJob ELSE holder

-----------------------------------------------------------------------------
(* The tasks, until the graph is done.                                     *)

(* Failed, cancelled, a hit, or not cached.                                *)
NotRecorded(j) ==
  /\ graph = "running"
  /\ upload[j] = "off"
  /\ Advance(j, "none")
  /\ UNCHANGED <<graph, signals, slot, stored, auth, token, holder, cancel>>

(* ExecutionCache::update, once the entry is in the local cache: the       *)
(* endpoint may be refused, and the entry be too large.                    *)
EntryRecorded(j) ==
  /\ graph = "running"
  /\ upload[j] = "off"
  /\ \/ Advance(j, "spawned") /\ UNCHANGED slot
     \/ Advance(j, "ended") /\ Report(j, "failed")
  /\ UNCHANGED <<graph, signals, stored, auth, token, holder, cancel>>

(* Ctrl-C cancels both tokens, a failed task one of them.                  *)
Signal(s) ==
  /\ s \notin signals
  /\ graph # "summary"
  /\ s = "fast-fail" => graph = "running"
  /\ signals' = signals \cup {s}
  /\ UNCHANGED <<graph, upload, slot, stored, auth, token, holder, cancel>>

TasksDone ==
  /\ graph = "running"
  /\ \A j \in Jobs : upload[j] # "off"
  /\ graph' = "waiting"
  /\ UNCHANGED <<signals, upload, slot, stored, auth, token, holder, cancel>>

-----------------------------------------------------------------------------
(* One upload.  Whenever it is polled, the cancellation comes first.       *)

Polls(j, where) == upload[j] = where /\ ~cancel

(* Mutant: the lock is not held during the request.                        *)
MayAskUnlocked == auth = "ready" /\ token # "fresh"

(* GithubOidc::authorization: with the lock, and no token that is good.    *)
MayAsk == holder = NoJob /\ auth = "ready" /\ token # "fresh"

AskForToken(j) ==
  /\ Polls(j, "spawned")
  /\ MayAsk
  /\ Advance(j, "requesting")
  /\ holder' = j
  /\ UNCHANGED <<graph, signals, slot, stored, auth, token, cancel>>

(* The token of an earlier request is still good.                          *)
ReuseToken(j) ==
  /\ Polls(j, "spawned")
  /\ holder = NoJob /\ auth = "ready" /\ token = "fresh"
  /\ Advance(j, "sending")
  /\ UNCHANGED <<graph, signals, slot, stored, auth, token, holder, cancel>>

(* An earlier request has failed.                                          *)
NoToken(j) ==
  /\ Polls(j, "spawned")
  /\ holder = NoJob /\ auth = "failed"
  /\ Advance(j, "ended")
  /\ Report(j, "failed")
  /\ UNCHANGED <<graph, signals, stored, auth, token, holder, cancel>>

(* A token that expires within the margin serves this store only.          *)
TokenGranted(j) ==
  /\ Polls(j, "requesting")
  /\ token' \in {"fresh", "old"}
  /\ Advance(j, "sending")
  /\ Release(j)
  /\ UNCHANGED <<graph, signals, slot, stored, auth, cancel>>

TokenRefused(j) ==
  /\ Polls(j, "requesting")
  /\ auth' = "failed"
  /\ Advance(j, "ended")
  /\ Report(j, "failed")
  /\ Release(j)
  /\ UNCHANGED <<graph, signals, stored, token, cancel>>

TokenAges ==
  /\ token = "fresh"
  /\ token' = "old"
  /\ UNCHANGED <<graph, signals, upload, slot, stored, auth, holder, cancel>>

(* Client::store.  The whole request is with the server.                   *)
ServerStores(j) ==
  /\ upload[j] = "sending"
  /\ j \notin stored
  /\ stored' = stored \cup {j}
  /\ UNCHANGED <<graph, signals, upload, slot, auth, token, holder, cancel>>

(* Status 200.                                                             *)
StoreAnswered(j) ==
  /\ Polls(j, "sending")
  /\ j \in stored
  /\ Advance(j, "ended")
  /\ UNCHANGED <<graph, signals, slot, stored, auth, token, holder, cancel>>

(* The archive is gone, the network fails, or any other status.            *)
StoreFails(j) ==
  /\ Polls(j, "sending")
  /\ Advance(j, "ended")
  /\ Report(j, "failed")
  /\ UNCHANGED <<graph, signals, stored, auth, token, holder, cancel>>

(* Mutant: a cancelled upload is aborted.                                  *)
StopUploadSilently(j) ==
  /\ cancel /\ upload[j] \in Active
  /\ Advance(j, "ended")
  /\ Release(j)
  /\ UNCHANGED <<graph, signals, slot, stored, auth, token, cancel>>

(* A cancelled upload sets its error itself.  The lock goes with it.       *)
StopUpload(j) ==
  /\ cancel /\ upload[j] \in Active
  /\ Advance(j, "ended")
  /\ Report(j, "interrupted")
  /\ Release(j)
  /\ UNCHANGED <<graph, signals, stored, auth, token, cancel>>

-----------------------------------------------------------------------------
(* RemoteUploads::wait.                                                    *)

NoneLeft == \A j \in Jobs : upload[j] \notin Active

WaitEnds ==
  /\ graph \in {"waiting", "stopping"}
  /\ NoneLeft
  /\ graph' = "summary"
  /\ UNCHANGED <<signals, upload, slot, stored, auth, token, holder, cancel>>

(* Only Ctrl-C cancels the interrupt token.                                *)
Interrupted == "ctrl-c" \in signals

(* Mutant: an interrupted wait leaves the uploads alone.                   *)
InterruptWaitOnly ==
  /\ graph = "waiting"
  /\ ~NoneLeft /\ Interrupted
  /\ graph' = "stopping"
  /\ UNCHANGED <<signals, upload, slot, stored, auth, token, holder, cancel>>

InterruptWait ==
  /\ graph = "waiting"
  /\ ~NoneLeft /\ Interrupted
  /\ cancel' = TRUE
  /\ graph' = "stopping"
  /\ UNCHANGED <<signals, upload, slot, stored, auth, token, holder>>

-----------------------------------------------------------------------------
Uploading(j) ==
  \/ AskForToken(j) \/ ReuseToken(j) \/ NoToken(j)
  \/ TokenGranted(j) \/ TokenRefused(j)
  \/ ServerStores(j) \/ StoreAnswered(j) \/ StoreFails(j)

UploadsNext ==
  \/ \E j \in Jobs : NotRecorded(j) \/ EntryRecorded(j) \/ Uploading(j) \/ StopUpload(j)
  \/ \E s \in {"ctrl-c", "fast-fail"} : Signal(s)
  \/ TasksDone \/ TokenAges \/ WaitEnds \/ InterruptWait

UploadsSpec == UploadsInit /\ [][UploadsNext]_uploadVars

(* The runtime polls the wait and what it cancels; the network, the server *)
(* and the tasks need not get anywhere.                                    *)
FairUploadsSpec ==
  /\ UploadsSpec
  /\ WF_uploadVars(WaitEnds \/ InterruptWait)
  /\ \A j \in Jobs : WF_uploadVars(StopUpload(j))

-----------------------------------------------------------------------------
(* remote.rs: "every cancelled upload has one", an error.  When the        *)
(* summary is made no upload is left, so no error comes too late for it,   *)
(* each entry is with the server or has an error in its task's cell, and   *)
(* only Ctrl-C interrupts: "Fast-fail doesn't cancel them."                *)
UploadsAccounted ==
  graph = "summary" =>
    \A j \in Jobs :
      /\ upload[j] \in {"none", "ended"}
      /\ upload[j] = "ended" => slot[j] # NoError \/ j \in stored
      /\ slot[j] = "interrupted" => "ctrl-c" \in signals

(* github_oidc.rs: "Concurrent stores wait for the same request.  Once a   *)
(* request fails, every later store fails the same way, without another    *)
(* request", also when the store that asked is cancelled with the lock.    *)
OneTokenRequest ==
  \A j \in Jobs : upload[j] = "requesting" =>
    /\ \A k \in Jobs : upload[k] = "requesting" => k = j
    /\ auth = "ready" /\ token # "fresh"

(* Background uploads that share a token end, are cancelled and fail       *)
(* without one that is forgotten or asked for twice.                       *)
UploadsSound == UploadsAccounted /\ OneTokenRequest

(* docs/cancellation.md: Ctrl-C "cancels the uploads right away", and the  *)
(* summary comes though the server stays silent.                           *)
InterruptedWaitEnds ==
  graph = "waiting" /\ Interrupted ~> graph = "summary"
=============================================================================
