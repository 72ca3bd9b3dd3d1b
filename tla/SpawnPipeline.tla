---------------------------- MODULE SpawnPipeline ----------------------------
(***************************************************************************)
(* The life of one cached task: execute_spawn and run_child in             *)
(* crates/vt/src/session/execute/mod.rs, pipe.rs, spawn.rs, the guards of  *)
(* cache_update.rs and, where the task is tracked, the background wait of  *)
(* crates/fspy/src/unix/mod.rs.                                            *)
(*                                                                         *)
(* Around the pipeline run the task's process, what it leaves behind, the  *)
(* tools that talk to the IPC server, the other tasks, whose failure       *)
(* cancels the fast-fail token, and the Ctrl-C handler's own thread.       *)
(***************************************************************************)
EXTENDS Integers

CONSTANT
  MaxChunks     \* bound: chunks of output

ASSUME ChunksAssumption  == MaxChunks \in Nat

VARIABLES
  stage,        \* where the pipeline is
  process,      \* the task's process
  writers,      \* what holds the write ends of its pipes
  written,      \* chunks written into the pipes
  captured,     \* chunks read and kept for the cache entry
  ipc,          \* the IPC server's driver
  guests,       \* connections the IPC server has open
  disabled,     \* a tool has asked not to cache
  tracking,     \* the path accesses; "none" for a task that infers nothing
  filtered,     \* something it left behind runs under the seccomp filter
  failed,       \* an error the pipeline has in hand
  report,       \* what finish() was called with
  recorded,     \* the entry was stored
  sigint,       \* the terminal has delivered Ctrl-C to everybody
  failToken,     \* fast_fail_token
  cancelToken,        \* cancel_token, as the handler cancels it
  interrupted   \* history: Ctrl-C arrived while the task ran

task   == <<process, writers, written, ipc, guests, disabled, tracking, filtered>>
tokens == <<sigint, failToken, cancelToken, interrupted>>
ends   == <<report, recorded>>
spawnVars   == <<stage, task, captured, failed, ends, tokens>>

TokenCancelled == failToken \/ cancelToken

SpawnInit ==
  /\ stage = "lookup"
  /\ process = "none"
  /\ writers = {}
  /\ written = 0
  /\ captured = 0
  /\ ipc = "none"
  /\ guests = 0
  /\ disabled = FALSE
  /\ tracking \in {"none", "asked"}
  /\ filtered = FALSE
  /\ failed = FALSE
  /\ report = "none"
  /\ recorded = FALSE
  /\ sigint = FALSE
  /\ failToken = FALSE
  /\ cancelToken = FALSE
  /\ interrupted = FALSE

Finish(r) == stage' = "done" /\ report' = r

-----------------------------------------------------------------------------
(* Up to the spawn.                                                        *)

LookupFails ==
  /\ stage = "lookup"
  /\ Finish("failed")
  /\ UNCHANGED <<task, captured, failed, recorded, tokens>>

Lookup ==
  /\ stage = "lookup"
  /\ \/ /\ TokenCancelled
        /\ Finish("cancelled")
     \/ /\ ~TokenCancelled
        /\ stage' \in {"hit", "miss"}
        /\ UNCHANGED report
  /\ UNCHANGED <<task, captured, failed, recorded, tokens>>

(* replay_cache_hit: the outputs are restored, or could not be.            *)
Replay ==
  /\ stage = "hit"
  /\ Finish("hit") \/ Finish("failed")
  /\ UNCHANGED <<task, captured, failed, recorded, tokens>>

(* ExecutionMode::build binds the IPC server; that or spawn() may fail.    *)
CannotSpawn ==
  /\ stage = "miss"
  /\ Finish("failed")
  /\ UNCHANGED <<task, captured, failed, recorded, tokens>>

Spawn ==
  /\ stage = "miss"
  /\ stage' = "piping"
  /\ process' = "running"
  /\ writers' = {"process"}
  /\ ipc' = "serving"
  /\ tracking' = IF tracking = "asked" THEN "open" ELSE "none"
  /\ UNCHANGED <<written, guests, disabled, filtered, captured, failed, ends, tokens>>

-----------------------------------------------------------------------------
(* pipe_stdio.                                                             *)

(* A chunk is forwarded and appended to the captured output.               *)
ReadChunk ==
  /\ stage = "piping"
  /\ captured < written
  /\ captured' = captured + 1
  /\ UNCHANGED <<stage, task, failed, ends, tokens>>

(* Both streams are at their end: nothing holds a write end any more.      *)
ReadEof ==
  /\ stage = "piping"
  /\ writers = {} /\ captured = written
  /\ stage' = "waiting"
  /\ UNCHANGED <<task, captured, failed, ends, tokens>>

(* Mutant: the draining goes on to the end of the streams.                 *)
PipeDrainedFirst ==
  /\ stage = "piping"
  /\ failToken
  /\ writers = {}
  /\ stage' = "waiting"
  /\ UNCHANGED <<task, captured, failed, ends, tokens>>

(* The token interrupts the draining; what is unread is dropped.           *)
PipeCancelled ==
  /\ stage = "piping"
  /\ failToken
  /\ stage' = "waiting"
  /\ UNCHANGED <<task, captured, failed, ends, tokens>>

(* Mutant: the error is returned without cancelling the child.             *)
PipeBreaksQuietly ==
  /\ stage = "piping"
  /\ captured < written
  /\ failed' = TRUE
  /\ stage' = "waiting"
  /\ UNCHANGED <<task, captured, ends, tokens>>

(* A read or a write downstream fails: run_child cancels the fast-fail     *)
(* token, so the wait that follows kills the child.                        *)
PipeBreaks ==
  /\ stage = "piping"
  /\ captured < written
  /\ failed' = TRUE
  /\ failToken' = TRUE
  /\ stage' = "waiting"
  /\ UNCHANGED <<task, captured, ends, sigint, cancelToken, interrupted>>

-----------------------------------------------------------------------------
(* The wait, the end of the IPC server, and the decision.                  *)

(* Without fspy the wait is polled only once the pipes are drained; with   *)
(* it a background task waits from the start.                              *)
Kill ==
  /\ process = "running"
  /\ failToken
  /\ tracking = "open" \/ stage = "waiting"
  /\ process' = "killed"
  /\ writers' = writers \ {"process"}
  /\ UNCHANGED <<stage, written, ipc, guests, disabled, tracking, filtered, captured,
                 failed, ends, tokens>>

(* fspy closes the channel, which may have overflowed, once the process is *)
(* gone and supervisor.stop() has returned: it waits for everything that   *)
(* runs under the filter (Supervisor).                                     *)
CloseTracking ==
  /\ tracking = "open"
  /\ process # "running" /\ ~filtered
  /\ tracking' \in {"complete", "lost"}
  /\ UNCHANGED <<stage, process, writers, written, ipc, guests, disabled, filtered,
                 captured, failed, ends, tokens>>

(* Mutant: a run whose output could not be forwarded leaves at once.       *)
WaitedOrFailed ==
  /\ stage = "waiting"
  /\ failed \/ (process # "running" /\ tracking # "open")
  /\ stage' = "stopping"
  /\ UNCHANGED <<task, captured, failed, ends, tokens>>

(* child.wait came back, perhaps with an error of its own, and             *)
(* stop_accepting was signalled.                                           *)
Waited ==
  /\ stage = "waiting"
  /\ process # "running" /\ tracking # "open"
  /\ stage' = "stopping"
  /\ failed' \in {failed, TRUE}
  /\ UNCHANGED <<task, captured, ends, tokens>>

(* The driver has drained its connections (IpcServer).                     *)
Drained ==
  /\ stage = "stopping"
  /\ ipc \in {"serving", "broken"} /\ guests = 0
  /\ ipc' = IF ipc = "serving" THEN "ok" ELSE "error"
  /\ stage' = "joined"
  /\ UNCHANGED <<process, writers, written, guests, disabled, tracking, filtered,
                 captured, failed, ends, tokens>>

(* tokio::join! is over: an error of the wait first, then of the server.   *)
JoinFails ==
  /\ stage = "joined"
  /\ failed \/ ipc = "error"
  /\ Finish(IF failed THEN "failed" ELSE "spawned")
  /\ UNCHANGED <<task, captured, failed, recorded, tokens>>

(* Mutant: a clean exit is trusted, whatever happened to the run.          *)
CacheableIfClean ==
  ~disabled /\ process = "exited" /\ tracking # "lost"

(* The guards of update_cache.                                             *)
Cacheable ==
  ~disabled /\ ~TokenCancelled /\ process = "exited" /\ tracking # "lost"

Decide ==
  /\ stage = "joined"
  /\ ~failed /\ ipc = "ok"
  /\ IF Cacheable THEN stage' = "recording" /\ UNCHANGED report
                  ELSE Finish("spawned")
  /\ UNCHANGED <<task, captured, failed, recorded, tokens>>

(* Fingerprint, archive and cache.update: done, or one of them failed.     *)
Record ==
  /\ stage = "recording"
  /\ recorded' \in BOOLEAN
  /\ Finish("spawned")
  /\ UNCHANGED <<task, captured, failed, tokens>>

-----------------------------------------------------------------------------
(* The task's process and what it starts.                                  *)

Output ==
  /\ writers # {}
  /\ stage = "piping"
  /\ written < MaxChunks
  /\ written' = written + 1
  /\ UNCHANGED <<stage, process, writers, ipc, guests, disabled, tracking, filtered,
                 captured, failed, ends, tokens>>

(* It leaves a process behind that inherits its standard output, and the   *)
(* filter where a statically linked program tracked by seccomp is among    *)
(* what started it.                                                        *)
Fork ==
  /\ process = "running"
  /\ "orphan" \notin writers
  /\ writers' = writers \cup {"orphan"}
  /\ filtered' \in {FALSE, tracking = "open"}
  /\ UNCHANGED <<stage, process, written, ipc, guests, disabled, tracking, captured,
                 failed, ends, tokens>>

OrphanExits ==
  /\ "orphan" \in writers
  /\ writers' = writers \ {"orphan"}
  /\ filtered' = FALSE
  /\ UNCHANGED <<stage, process, written, ipc, guests, disabled, tracking, captured,
                 failed, ends, tokens>>

(* It exits by itself, with zero or with something else, with an interrupt *)
(* or without.                                                             *)
TaskExits ==
  /\ process = "running"
  /\ process' \in {"exited", "failed"}
  /\ writers' = writers \ {"process"}
  /\ UNCHANGED <<stage, written, ipc, guests, disabled, tracking, filtered, captured,
                 failed, ends, tokens>>

(* A tool connects, may ask not to cache, may break the protocol, and      *)
(* goes.                                                                   *)
ToolConnects ==
  /\ ipc = "serving" /\ guests = 0
  /\ process = "running" \/ "orphan" \in writers
  /\ stage \in {"piping", "waiting"}
  /\ guests' = 1
  /\ UNCHANGED <<stage, process, writers, written, ipc, disabled, tracking, filtered,
                 captured, failed, ends, tokens>>

ToolSpeaks ==
  /\ guests = 1
  /\ \/ disabled' = TRUE /\ UNCHANGED <<ipc, guests>>
     \/ ipc' = "broken" /\ guests' = 0 /\ UNCHANGED disabled
  /\ UNCHANGED <<stage, process, writers, written, tracking, filtered, captured, failed,
                 ends, tokens>>

ToolLeaves ==
  /\ guests = 1
  /\ guests' = 0
  /\ UNCHANGED <<stage, process, writers, written, ipc, disabled, tracking, filtered,
                 captured, failed, ends, tokens>>

-----------------------------------------------------------------------------
(* Cancellation from outside.                                              *)

SiblingFails ==
  /\ ~failToken
  /\ stage # "done"
  /\ failToken' = TRUE
  /\ UNCHANGED <<stage, task, captured, failed, ends, sigint, cancelToken, interrupted>>

(* The terminal signals every process of the foreground group.             *)
PressCtrlC ==
  /\ ~sigint
  /\ stage # "done"
  /\ sigint' = TRUE
  /\ interrupted' = (process = "running")
  /\ UNCHANGED <<stage, task, captured, failed, ends, failToken, cancelToken>>

(* The handler's thread gets to run.                                       *)
Handler ==
  /\ sigint /\ ~cancelToken
  /\ cancelToken' = TRUE
  /\ UNCHANGED <<stage, task, captured, failed, ends, sigint, failToken, interrupted>>

Pipeline ==
  \/ LookupFails \/ Lookup \/ Replay \/ CannotSpawn \/ Spawn
  \/ ReadChunk \/ ReadEof \/ PipeCancelled \/ PipeBreaks
  \/ Kill \/ CloseTracking \/ Waited \/ Drained \/ JoinFails \/ Decide \/ Record

Around ==
  \/ Output \/ Fork \/ OrphanExits \/ TaskExits
  \/ ToolConnects \/ ToolSpeaks \/ ToolLeaves
  \/ SiblingFails \/ PressCtrlC \/ Handler

SpawnNext == Pipeline \/ Around

SpawnSpec == SpawnInit /\ [][SpawnNext]_spawnVars

(* The runtime polls the pipeline, and a token that is cancelled is seen.  *)
(* Neither the process nor an orphan is assumed ever to exit by itself; a  *)
(* tool that is connected is, for the drain waits for it.                  *)
FairSpawnSpec ==
  /\ SpawnSpec
  /\ WF_spawnVars(Pipeline) /\ WF_spawnVars(Kill) /\ WF_spawnVars(PipeCancelled)
  /\ WF_spawnVars(CloseTracking) /\ WF_spawnVars(ToolLeaves)

-----------------------------------------------------------------------------
(* Properties.                                                             *)

(* Every variable has its type, and nothing is captured twice.             *)
SpawnTypeOK ==
  /\ stage \in {"lookup", "hit", "miss", "piping", "waiting", "stopping", "joined",
                "recording", "done"}
  /\ process \in {"none", "running", "exited", "failed", "killed"}
  /\ writers \subseteq {"process", "orphan"}
  /\ written \in 0 .. MaxChunks
  /\ captured \in 0 .. written
  /\ ipc \in {"none", "serving", "broken", "ok", "error"}
  /\ guests \in 0 .. 1
  /\ tracking \in {"none", "asked", "open", "complete", "lost"}
  /\ report \in {"none", "failed", "hit", "spawned", "cancelled"}
  /\ {disabled, filtered, failed, recorded, sigint, failToken, cancelToken, interrupted} \subseteq BOOLEAN

(* What is cached is a whole run: the process ended with zero by itself,   *)
(* its output and that of everything it left behind was captured to the    *)
(* end, every report arrived and no access was lost.                       *)
CachedRunIsWhole ==
  recorded => /\ process = "exited"
              /\ writers = {} /\ captured = written
              /\ ipc = "ok" /\ ~disabled
              /\ tracking \in {"none", "complete"}

(* The pipeline never leaves the task's process running, on any error path *)
(* (mod.rs: "so the wait future kills it instead of orphaning it").        *)
NotOrphaned == report # "none" => process # "running"

(* Once the fast-fail token is cancelled, or output cannot be forwarded,   *)
(* the pipeline ends, though the process would never exit and an orphan    *)
(* holds its output open.  Only an orphan under the seccomp filter can     *)
(* hold it up.                                                             *)
FastFailEnds == (failToken \/ failed) ~> (stage = "done" \/ []filtered)

(* docs/cancellation.md: "Results of in-flight tasks are **not cached**,   *)
(* even if a task handles the signal gracefully and exits 0."              *)
InterruptedNotCached == interrupted => ~recorded
=============================================================================
