# A verification development for vite-task

`vp run` expands the tasks of a workspace into a graph of commands, runs them with bounded
concurrency, watches which files each command touches, talks to the tools that cooperate, and
restores the outputs of commands whose inputs have not changed. This directory holds TLA+ models
of the parts where order, failure and concurrency decide whether that is correct, the TLC
configurations that check them, and TLAPS proofs about thirteen of the models.

To check a model: `tlc -config Runner.cfg MCRunner`; to check proofs: `tlapm ChannelProofs.tla`.
`PROJECT.json` lists the runs, the properties, for every property at least one mutant of the model
that breaks it, the theorems, and for every definition the lines of code it models.

## 1. The system

Paths are relative to `src/crates`.

| Part | State it keeps | Operations | Made correct by | Module |
|---|---|---|---|---|
| Access-tracking channel (`fspy_shared/src/ipc/channel`) | a shared-memory region: claim counter with a gate bit, payload counter, descriptor table, payload bytes; a backing file | attach, claim, fill, commit, report a loss, seal, iterate | no access without its record unless the loss is known; no torn or overwritten frame; the receiver waits for nobody | ShmChannel, TraceLog |
| Collecting accesses (`fspy`, `fspy_client_unix`, `fspy_preload_*`) | a receiver; a background task per spawned command | spawn, wait or kill, close the channel | closes after the root process has gone; a call leaves its record; whatever a task runs is tracked as well | SpawnPipeline, Supervisor, Fingerprint, ExecTracking, WindowsTracking |
| seccomp supervisor (`fspy_seccomp_unotify`) | one handler task per notification descriptor | accept, answer, stop | records before it answers; answers every notification; stop collects every handler | Supervisor |
| Chunk pool (`fspy_nostd_alloc`) | a few slots for cached chunks, no lock | allocate, deallocate | a chunk has one owner, of the length it is thought to have | ChunkPool |
| Scheduler (`vt/src/session/execute/scheduler.rs`) | dependency counts, a future per ready node, a semaphore per graph, two cancellation tokens | spawn a node, run its items, reap, drain | order, limit, completeness, nothing new after a cancellation, the run returns | Scheduler |
| Task pipeline (`execute/mod.rs`, `pipe.rs`, `spawn.rs`) | the child, its pipes, captured output, the IPC driver | look up, replay, spawn, drain pipes, wait, join, record | what is cached is a whole run; nothing is orphaned; cancellation ends it; a process gets the handles and the environment its mode asks for | SpawnPipeline, ChildTree |
| Runner IPC (`vt_server`, `vt_client`, `vt_socket_ipc`, `vt_ipc_shared`) | connections, the Recorder, a shutdown token | connect, report, ask, accept, serve, drain | no flushed report is lost; nobody hangs; what is kept is what the tool meant | IpcServer, ToolReports, EnvNames |
| Local cache (`session/cache`, `execute/fingerprint.rs`, `rebuildable.rs`, `cache_update.rs`) | two SQLite tables, archive files | hash inputs, look up, validate, restore, fingerprint, archive, record | a hit restores what a run would make, nothing the task saw has changed, and what it can rebuild may be missing; rows and archives agree; a folder in use is not half removed | TaskCache, Fingerprint, CacheFolder |
| Remote cache (`session/cache/remote.rs`, `vt_remote_cache`) | a download with its file; background uploads, a shared token behind a lock | fetch, choose, download, check, rename; store, ask for a token, wait, interrupt | only whole archives appear; an upload is never silently lost; silence of the server holds nothing up | RemoteLookup, RemoteUploads |
| Workspace (`vt_workspace`) | the package graph | find the workspace, load, filter packages | a filter selects what it says; the current package is loaded | Workspace, PackageFilter |
| Task graph (`vt_graph`) | lazily loaded partitions | load, resolve edges, query | a partition loads once; the query keeps the packages' order | TaskGraph, LazyGraph |
| Planner (`vt_plan`) | the recursion; the execution graph it returns | expand, prune, check for cycles and recursion, resolve settings and environments | planning ends; flags, arguments and environments reach what they are for | Planner |
| Session (`session/mod.rs`) | tokens | dispatch, Ctrl-C handler | — | Planner (dispatch), Scheduler and SpawnPipeline (tokens) |
| Reporters and summary (`session/reporter`) | a result per command, output buffers | start, finish, wait for uploads, sum up; forward and group output | the status of a run says what became of its tasks; output is shown whole and replayed as it was; the saved summary is one run's | Reporter, TaskOutput, Summary |
| Task selector (`vt_select`) | query, page, mark, lines drawn | draw, type, move, choose | what Enter runs is what the mark shows | Selector |
| Embedded files and the channel's backing file (`vt_materialized_artifact`, `fspy_shm`) | files in a temporary folder | write and rename; create, open, remove | nobody loads a part of a library; processes find the file their run made | Artifacts, BackingFile |
| `fspy_nostd`, `vt_tui`, `vt_path`, `vt_str`, `vt_shell`, `vt_powershell` | UI state; none | — | — | not modelled |

How they meet: the session finds the workspace, the planner turns the command line into a graph of
graphs, and the scheduler calls `execute_spawn` for each command in it. That looks the command up
in the local cache and then in the remote one; on a miss it binds an IPC server, spawns the process
(through fspy when inputs or outputs are to be inferred), drains its pipes, waits for it, signals
the server to stop accepting, joins the server's driver, and asks `update_cache` whether and what
to record, which may leave an upload running behind the tasks. All futures of a run are polled by
one thread; Ctrl-C is handled by another, and downloads are checked on a third. Traced processes
write to the channel from any number of threads of any number of processes, several `vp`
processes may share a cache, and all of these may die at any point.

What is hard here: claims racing with the seal; senders that die holding a claim; nested runs
that need permits while their parent holds one; cancellation between two checks of a token; a
child that waits for a server that is polled beside it; connections at the door when the server
stops; edits between reading, hashing and comparing an input; records of calls that failed; crashes
between deleting an archive and writing a row; pipes that outlive the process; a download that fails on one thread and is
cancelled on the other; a lock held by a request that is cancelled; system calls that are
interrupted and made again while the first is handled; scripts that run each other. `PROJECT.json`
lists these under `hazards`, each with its line and the properties that would catch it going
wrong.

## 2. The modules

A module has the state of one component as variables, one action per handler or step, and ends
with its properties. Definitions marked *Mutant* are changed forms of the action or operator that
follows them; no specification uses one.

### TraceLog, ShmChannel

`ShmChannel` has one process per sender (a thread of a traced process) and one for the receiver.
Each atomic instruction on the region is an action: `Reserve` and `TakeSlot` are the two
`fetch_add`s of `claim_frame`, `Fill` writes one payload byte, `Finish` is the Release store of
the descriptor, `ReportLoss` the store of CLOSED, `Seal` the swap, `ReadSlot` the Acquire load and
the read of the bytes. `Open` and `CheckGate` are the two halves of attaching, since the receiver
may close in between; `RemoveBacking` follows the seal. `Die` is enabled everywhere. The
intercepted operation is the action `Perform`, after `send` has returned, and `performed` and
`owed` are history variables that say which operations have happened, and which happened before
the boundary.

Memory ordering. The Release/Acquire pair is modelled by its effect: `Finish` waits until every
byte of the frame is in memory, which is what the store-load pair guarantees to whoever sees the
descriptor, while bytes themselves are written in any order. The mutant `FinishRelaxed` is a
relaxed store and breaks `FramesWhole`. That an operation performed before the seal is visible to
it is the total order of read-modify-writes on one counter.

`TraceLog` says what the channel promises: a record is published before its operation; an
unrecorded operation happens before the boundary only once a loss is reported; a receiver that is
not told of a loss reads everything that is owed. `RefinesTraceLog` instantiates it with the
committed records as the trace and the gate as the report.

### Scheduler

State: `depCount`, one `future` per node (none, queued for a permit, running, ready, reaped),
`next` item, `permits` per graph, `leaf` outcomes, the tokens `fastFail` and `ctrlC`
(`Cancelled` is either: the cancel token is a child of the other). `Enter` is
`execute_expanded_graph` up to its loop, `Reap`, `Drain` and `Return` are the loop, `Acquire` and
`AcquireFails` are `spawn_node`, `BeginLeaf`, `BeginGraph`, `GraphDone` and `LeaveNode` are
`execute_node`. A leaf goes from its `lookup` through `PassLookup`, where `run` looks at the token
for the last time (execute/mod.rs:410), to a `hit`, which `RestoreHit` restores, or a `miss`, for
which `SpawnLeaf` starts a process or `SpawnLeafFails` does not; `LookupEnds` and `Exit` are its other
ends. The look and the process are apart because `start()`, the IPC server and the awaited `spawn`
lie between them: a sibling may fail or Ctrl-C come in meanwhile, and the process is started all
the same. Every action ends at an await, or at a look at the token at the latest, and Ctrl-C, on a
thread of its own, may come between any two. An action that looks at the token stands at the moment
of the look. Graphs, items, edges (parallel ones too) and limits are
constants, so any shape the planner produces can be put in. The assumptions say what the planner
guarantees: the edges have no cycle (`AcyclicGraph::try_from_graph` refuses one), a nested graph is
built before the item that holds it, and graphs are finite.

### Reporter

What a run returns. It extends `Scheduler`: each step of a leaf is a step of Scheduler conjoined
with what the leaf's reporter is told, so the orders of starts, failures, kills and cancellations
are Scheduler's. `cacheStatus` is what `start()` was called with, `tasks` holds the result
`finish()` recorded. `StartLeaf` is `PassLookup` with the call of `start()`; a lookup that ends
otherwise (`LookupError`, `LookupCancelled`) never calls it. `Exit` is told apart into
`ProcessSucceeds`, `ProcessFails` and `ProcessLost`. `FinishRun` waits for the uploads, adds their
errors and computes `Status`.

### SpawnPipeline

One command through `execute_spawn` and `run_child`. `stage` is where the pipeline is;
`process` and `writers` are the child and whatever holds the write ends of its pipes, an orphan
it leaves behind included; `guests` are the connections of its tools; `tracking` says whether
fspy is attached and how its channel closed. The environment is modelled with it: output, forks,
exits, tools, a sibling's failure, Ctrl-C as a signal to the whole group (`PressCtrlC`) and the
handler's thread that cancels the token later (`Handler`). It models the cached mode on Unix.

### IpcServer

The server of one command and its tools. `conn[c]` is the `handle_client` future of a
connection, `queue` the tools at the door, `pipe` the frames in the kernel's buffer. `transport`
is the one it is bound to, `Handshake` that it is a FIFO: a Unix client announces itself over the rendezvous FIFO and returns from
`connect` only once the server has sent the ready byte; a Windows client is connected to the pending
pipe instance before the server accepts. Reports are fire-and-forget, questions wait. A tool
that dies may leave the first part of a frame behind (`Torn`). `Polled` says when the driver can
run at all: `tokio::join!` polls it beside the child and after it. What the Recorder does with
a report is abstracted to its being recorded.

### TaskCache

The cache entries of one task under a few keys as several `vp` processes use them. A runner's
`pc` walks through `compute_globbed_inputs`, the two selects of the lookup, validation, the
association, the restore; or the run itself, the fingerprint, the archive and the four steps of
`record`. A content hash stands for the content. An output is known by the contents its run had
read, so that "restores the right output" can be said. `disturbed`, `quiet`, `after` and `cut`
are history variables: who changed the tree during whose run, how a run left the tree, and which
entry's replacement was cut short by a crash. Hashing and validating look at the tree in one
step; the edits that fall in between two files of one hashing pass are like edits before or
after it except for entries `FreshHits` does not speak of.

### Fingerprint

What a run leaves for the next lookup. A task makes calls on a tree of files, folders and links:
it reads, lists, writes, links, makes, removes and renames, and each call but a removal is recorded
before it is made, whether or not it succeeds (`fspy_preload_unix`, `fspy/.../syscall_handler`).
`RecordRun` is `update_cache` on those records and the tree the run left: `FilesWritten` and
`FindFolders` are what the task can rebuild (`rebuildable.rs`), `InferredInputs` the fingerprints
with listings, exclusions and what may be missing (`fingerprint.rs`), `OutputArchive` what the
archive takes, and `TrackedEnvs` and `Matching` what tools asked of the environment. `IsHit` is
`validate` on any tree and environment, `ChangesOf` what a miss says, `Restored` the unpacking.
A path is the sequence of its names, a content stands for its hash, a glob for the paths it
matches; a link leads to an empty folder outside the workspace. `before`, `touched` and `refused`
are history: the tree the run began with, the paths a call changed, and whether a call failed to
put something where there was a file.

The properties say what the rebuildable paths are from what the task did, not from the records:
`CleanCheckouts` are the trees that lack any part of it, `TreesThatShowTheSame` those in which the
task would see what it saw. A folder or file that the task changed is not held against a hit: the
code fingerprints it as the task left it, or leaves it out. A `mkdir` of a folder that exists makes
it rebuildable once it is empty, which the code intends ("whether or not the call made it").
`RENAME_EXCHANGE` and Windows junctions are left out. Inputs are hashed in the step that records the
run; what an edit in between does is TaskCache's.

### RemoteLookup

What follows a local miss. `Responses` are the entries a fetch may bring, newest first, and
`FetchedExact` takes the first that passes. A download has two halves with a bounded channel
between them: `TakeChunk`, `PutChunk`, `LastChunk`, `NetworkFails`, `FeedRefused` and `FeedHalted`
are the runner's, `CheckChunk` and `CheckEnd` the blocking thread's, which writes a chunk before
it decodes it. `Join` is `download_checked` once both are over: it renames the file or
removes it. `LookedUp`, `Restored` and `RestoreFails` are what the pipeline does with the hit,
`Halt` is a cancellation at any moment.

### RemoteUploads

The uploads of one session. `EntryRecorded` is the end of `ExecutionCache::update`; `AskForToken`,
`ReuseToken`, `NoToken`, `TokenGranted` and `TokenRefused` are `GithubOidc::authorization`, with
`holder` as whoever has its lock over the request; `ServerStores`, `StoreAnswered` and `StoreFails`
are one store, whose answer may be lost; `WaitEnds`, `InterruptWait` and `StopUpload` are
`RemoteUploads::wait` and the cancellation it sets off.

### Supervisor

The accepting loop, a handler task per target, and the targets. A target is a program that has
installed the filter together with all it starts. `Trap` and `Interrupt` are a system call that
the kernel holds and gives up; the call is made again under a new id, which is what the id in
`SendContinue` is for. `ReceiveFails` is the `?` that ends the loop with every task in its JoinSet.
A handler that ignores a call (its error is dropped, a path is too long) answers it without a record;
the kernel refuses such a call, so it counts as not performed.

### ChunkPool

Every load, swap and compare-exchange of `allocate` and `deallocate` is an action of a thread that
may vanish (`Vanish`) between any two: a thread is killed, or a signal handler never returns.
`hand` is the block a thread holds inside an operation, `arenas` what it has been given. What the
size of a request decides (pool or kernel, the length granted) is modelled with `RoundUp`.

### LazyGraph

The `OnceCell`s of partitions and of nodes' edges, with the semaphore of each cell: `permit` says
who initialises it, `line` in which order the others wait. A reader may be dropped at any await
(`DropReader`), which gives its permits back, and a load may fail.

### Workspace, PackageFilter, TaskGraph, Planner

`Workspace` finds the workspace of a directory and loads its packages from a `disk` (what each
directory holds); `PackageFilter` turns a command line's selectors into a package graph;
`TaskGraph` loads the tasks of a package, resolves their caches and dependencies and refuses what
the loader refuses. These are operators. `Planner` is the recursion that uses them: `frames` is its
stack of calls, alternately a query (`vp run` at some level) and a task in expansion.
`FindWorkspace`, `LoadGraph`, `Begin` and `Select` are the session up to the plan. `OpenQuery`,
`SelectPackages`, `BridgePackage` (one package without the task leaves the graph, in any order),
`MapToTasks`, `AddDependencies` (one round of the fixed point), `StartPlanning`,
`PlanNextTask`, `WireTasks` and `FinishQuery` are `plan_query_request` and `query_tasks`.
`PreHook`, `ChangeDirectory`, `Echo`, `NestedRun`, `OwnCommand`, `SyntheticStep`, `ToolStep`,
`ShellCommand`, `CommandsDone`, `PostHook` and `ReturnTask` are the expansion of a task. A script is
given in its parsed form.

### ExecTracking, WindowsTracking

`ExecTracking` follows one line of processes, from the task to a program of a program of it:
`Launch` is `fspy::Command`, the other actions are the interposed `exec` and `posix_spawn`
functions, and the resolution through `PATH`, `#!` lines and the program's headers decides
whether the preload library, the seccomp filter or nothing goes with the next program. What it
found out: an interpreter that is itself a script fails with ENOEXEC once tracked; `execvp`'s
fallback to `/bin/sh` for a file without a `#!` line is lost; a folder with the program's name
earlier on `PATH` gives EISDIR; a program without read permission fails with EACCES; a tracked
runner inside another gets EINVAL from `ensure_env`; a static program loses the user's own
`LD_PRELOAD`. These are differences a program can see, not lost records. A relative program is made
absolute before macOS looks whether it is one of the system's (`OfSystem`), and such a program is
rid of the loader's variables when it begins (`Begin`).

`WindowsTracking` is the same on Windows: a process is created suspended, gets the library and
its payload, and runs (`SpawnRoot` to `ResumeRoot`, and the detours of `CreateProcess` for each
child); the detours of the NT functions record before they forward. Opens with `GENERIC_ALL` or
`MAXIMUM_ALLOWED` are recorded as reads and are left out of the calls. `ck_long` reports no
Detours error, on detaching `ck` takes success for failure so nothing is detached, and a failed
copy of the payload leaves a suspended child behind.

### ChildTree

The process of one leaf in every execution mode: the environment it is given (`Put`,
`InjectedEnvs`), its handles (`Stdio`), the steps before it may run (`Prepare`, `AssignJob`), the
drain of its pipes, the kill (`KillTree`), and on Windows the job that holds what it starts. One leaf, one
descendant inside the job and one outside. A failed assignment to the job leaves the process
running (`spawn.rs`); where fspy tracks it, the background task still kills it on the token. A
descendant that was started before the assignment stays outside the job.

### ToolReports, EnvNames

What a tool says and what the runner makes of it: `Resolve` makes a path absolute in the folder the
tool is in at that moment, `TrackedBy` and `Ask` are the options of `getEnv` and `getEnvs`,
`ServeReport`, `ServeGet` and `ServeGets` are the Recorder, with its question-and-answer tables, and
`ServeTorn` is a frame cut by its tool's death. `EnvNames` compares the names of variables as the
platform does. Two tools make two calls in all. `disableCache` does nothing in the client today.

### TaskOutput

What tasks print, through `pipe_stdio`, the three reporters and their writers to one terminal,
and what is captured for a replay. The terminal may be non-blocking, break, or the run be
cancelled, at most one of these in a behaviour. Two remarks: reporters' own lines and a grouped block
are written without `RetryingWriter`, so a full non-blocking terminal loses them; a line without
its newline is printed after the separating one, with none behind it.

### Summary

The statistics, both forms of the summary, and `last-summary.json`, which several runs replace
(`OpenTmp`, `WriteTmp`, `RenameTmp`). The full form shows a tick for a success whose cache update
failed while counting it as failed. `summary.rs` calls the replacement atomic, yet two runs share
`last-summary.json.tmp`, so the file may be empty or mixed; `LastIsWhole` therefore speaks of runs
that do not overlap in it.

### Selector

The list of tasks as a frame of lines, counted apart from what it shows: query, page, mark and the
lines to erase. A line wider than the terminal, a resize or a terminal with fewer rows than a
frame leave stale lines and are left out; after a terminal error the cursor stays hidden.

### Artifacts, BackingFile, CacheFolder

`Artifacts`: runs of two builds write the libraries that are embedded in them to a shared folder, each
through a temporary file that is renamed without replacing. `BackingFile`: the channel's file,
from `SetEndOfFile` to its removal, opened by path from other folders, on Unix and on Windows.
`CacheFolder`: runs, synthetic commands, `cache clean` and `--last-details` of two schema versions
make, lock, use and clean a workspace's cache folder. A run that keeps a database open while a
clean removes it writes rows nobody finds, and its next archive to a folder of that name. Any of
these processes may die at any step.

### MC modules

`MCScheduler` is a small workspace for the scheduler. `MCSession`, `MCRunner` and `MCTaskCache`
bring components that share no variable into one run: the initial states choose one (`part`,
`scenario`), the others stand still, and the fairness is the one each module states, restricted
to its part. The properties named there are those of the modules, restricted or conjoined.
`MCPlanner` holds the families of workspaces and command lines the planner is checked in.

## 3. The runs

Times are for two workers.

| Run | Module, cfg | Shows |
|---|---|---|
| `shm_channel` | ShmChannel, `ShmChannel.cfg` (644,472 states, 1 min) | completeness, disjointness, whole and frozen frames, refinement of TraceLog, and that the receiver waits for nobody |
| `session` | MCSession, `Session.cfg` (399,382 states, 60 s) | scheduler: dependencies first, items in order, the limit of each graph, nothing skipped, nothing new after a cancellation, the run returns; IPC server over both transports: no report lost (FIFOs), the driver returns, no tool hangs; tools: what is kept and answered is what was meant |
| `cache` | MCTaskCache, `TaskCache.cfg` (2.4 M states up to symmetry, under 4 min) | ten scenarios: hits are fresh, an undisturbed repeat hits, rows have archives except where the code lets them dangle; files, programs, output, summaries, Windows, embedded files, the backing file and the cache folder: see below |
| `runner` | MCRunner, `Runner.cfg` (169,284 states, 60 s) | pipeline, pool, lazy graph, supervisor, lookup, uploads, reporter and a leaf's process; see the properties below |
| `planning` | MCPlanner, `Planner.cfg` (57,905 states, 30 s) | planning ends, recursion is found, order, flags, arguments and environments reach what they are for, and the selector runs what it shows |
| `ipc_windows` | IpcServer, `IpcServerWindows.cfg` | violation: see below |
| `ipc_blocked` | IpcServer, `IpcServerBlocked.cfg` | violation |
| `put_refused` | MCTaskCache, `TaskCachePut.cfg` | violation |
| `spawn_ctrlc` | SpawnPipeline, `SpawnPipelineCtrlC.cfg` | violation |
| `planning_cd` | MCPlanner, `PlannerCd.cfg` | violation |
| `supervisor_loop` | Supervisor, `SupervisorLoop.cfg` | violation |
| `lookup_exit` | MCRunner, `RunnerExit.cfg` | violation |

Of `session`: `DependenciesFirst`, `ItemsInOrder`, `ConcurrencyLimit`, `NothingSkipped` and
`NothingNewAfterCancel` (a leaf past its last look may still start its process, which the pipeline
then kills) are the scheduler's, `ReportsComplete` is the IPC server's over FIFOs,
`ReportsFaithful` the tools', and `NobodyHangs` says that a run and a server come back, and that no tool waits for good
(over named pipes not even one that writes to a dead server).

Of `cache`: `FreshHits`, `RepeatedHits` and `RowsBacked` are TaskCache's: a hit restores what a run
would make; the run after an undisturbed one hits, also without what the task writes; rows and
archives agree, and the mapped key has an entry. They are checked in two scenarios. In one, two runners
share two keys, with four events (`Events`: runs, edits and crashes), of which one edit or crash where
others are at work (`FewEdits`, `ReadInOrder`); in the other, one runner has one key and five events of any kind
(`OneTask`). The theorems of `TaskCacheProofs` have no such bounds. `StaysTracked` (`FileProofs` and `WindowsProofs` prove each of its four parts): whatever a task runs is tracked, on Unix and on Windows, from a
library that is whole and with the channel its run made. `CallsSeen`: a program runs as it would
untracked, and its calls are recorded as what they are; and, unless a call failed to put something where
there was a file, no edit, addition or removal is missed of anything the task read, listed or asked
for, a miss names a change that is there, a checkout that lacks any part of what the task can rebuild hits as
well, that part is put back exactly, and the folders the code finds rebuildable are those that
hold only what the task put there. `ResultsWhole`: each line reaches the terminal once and
unmixed, a replay shows what was shown, both summaries and the saved one agree with the results,
and no process uses what a clean of the cache folder is taking apart.

Of `runner`: `CachedRunIsWhole`, `NotOrphaned` are the pipeline's (what is recorded
is the whole of a run that ended by itself; no path leaves the process running), `CancelledRunsEnd` is
the pipeline's and the leaf's process's: a cancelled or broken run ends. `PoolSound` is the pool's,
`LoadedAndHandedOut` the lazy graph's, and `CallsReturn` says of both that an operation or a reader comes back also
when every other one stops in the middle, and of the remote cache that a cancelled lookup, and
an interrupted wait for uploads, end though the network is silent. `RecordsComplete` and
`SupervisorResponds` are the supervisor's, `DownloadChecked` and `UploadsSound` the remote cache's.
`TreeSound` is the leaf's process's: it has the handles and variables its mode asks for, and leaves
nothing behind that a job would take. `OutcomeReported` is the reporter's: the summary has a result for each command that was started;
zero means that all of them ran and succeeded; an upload that failed does not fail the run; and a
code other than one is that of the only command that failed, never of one killed for it. It speaks
of runs none of whose lookups failed, for the reason `lookup_exit` shows.

Of `planning`: `NoSelfNesting` (a task is never inside itself, and never refused for a
repetition that ends), `OrderKept` (the tasks of a query are in the order their packages had before
the ones without the task were taken out), `CacheFollowsFlags` (the nearest flag decides, relative
to the workspace's settings), `ExtraArgsReach` (arguments are for the last command of a task
asked for), `EnvCovered` (a cached command sees nothing its fingerprint does not cover, except
what is declared untracked), `CwdPackageLoaded` (discovery and loading agree on the current
package), `ChoiceShown` (what Enter runs is the task under the mark) and `PlansEnd`.

### Bounds

- *Channel.* Two senders with two operations each, two slots, three bytes, frames of one and two
  bytes and one that is too long. The table can overflow (three claims), the payload area can
  (two plus two bytes), a frame can be refused for its length, a claim can be refused by the gate,
  and the count can exceed the table at the seal. Two senders suffice for every pair of claims
  the invariants compare, and the proofs remove the bound.
- *Scheduler.* Two permits per graph, four nodes in the root of which three are ready at once,
  two of them with nested graphs, so that every permit can be held by a parent whose nested run
  waits; one node with three incoming edges, two of them parallel.
- *IPC.* Two tools (one is the child) with two frames each and buffers of one frame, so that a
  tool may be blocked, waiting, at the door or gone while the other is served.
- *Cache.* Three runs. That is one to fill the cache, one to replace or disturb it and one to
  meet the result; two edits in the one-runner scenario, one edit and one crash in the shared one.
- *Files.* Three calls over six paths: two folders, a file in each, a folder in one of them and a
  `.DS_Store`; eight trees to begin with, 36 that a lookup may find, and five configurations: plain,
  with exclusions and asked variables, with paths and queries that tools report, with explicit inputs
  and outputs, and with outputs inferred only. Three calls are enough for a folder renamed over another, a
  file written, moved and looked for, and a link tried where a file is; a random search of
  longer runs (five calls, 22 million states) found nothing more.
- *Programs.* A task, a program of it and a program of that; every kind of file and `PATH` once.
- *Windows.* Three processes of two threads each, or fewer and one NT call; three events.
- *Prints.* Two leaves and at most one of a non-blocking terminal, a broken one and a cancellation.
- *Summaries.* One run of at most two tasks of any ending, beside two other runs when it has one.
- *Embedded files.* Two runs, two builds, two artifacts of two pieces. *Backing file.* One channel,
  two processes, two folders. *Cache folder.* Two processes: each pair of run, clean, details and
  synthetic command that can meet, and two schema versions. That a clean takes the lock from under
  two others needs a third process and is not reached.
- *Leaf's process.* One leaf, one descendant in the job and one outside. *Tools.* Two tools, two calls.
- *Selector.* Widths 14, 18 and 40, pages of three, a query of up to three characters, one stale
  frame.
- *Pipeline.* Two chunks of output, one orphan, one tool at a time.
- *Pool.* Two threads, three addresses, two slots, chunks of two bytes that are one page, requests
  of nothing, less than and more than a chunk: a full pool, a block past the pool and two
  operations on one slot all occur.
- *Lazy graph.* Two readers, three nodes and a key without one in two partitions, with edges in a
  cycle across them.
- *Supervisor.* Two targets that trap twice: the second id is what an answer to the first must
  not let through.
- *Lookup.* A blob of three chunks over a channel of one, so that the network waits for the
  check and the check for the network; one or two entries of every kind.
- *Uploads.* Three tasks: one holds the lock, one waits for it, one is past it.
- *Reporter.* Four commands: one cached, one that depends on it, one built in before a nested run
  of the fourth. Two of them run at once, so that one may be killed for the other; codes below
  one and above 255.
- *Planner.* Families of scenarios, each over one root and at most three packages. `Orders`
  and `Selections`: four shapes of dependencies (a cycle and the root among them), packages with
  and without the task, 19 command lines; `Levels`: three levels of nested runs with flags of
  their own; `Scripted`: scripts that run themselves, each other, from hooks and after `cd`;
  `Explicit`, `Cached`, `Refused`: configured tasks, caches and files that are refused; `Abroad`:
  commands after a `cd` out of the workspace, which are refused where they are cached; `Controlled`:
  the environment's own variables; `Discovered`: member globs and directories to start from.

`CHECK_DEADLOCK FALSE` stands where a behaviour really ends: a closed channel, a finished
task, bounds that are used up. The scheduler, the IPC server, the planner and the lazy graph are
checked for deadlock, the first three with an explicit final step, and so is the reporter, which
rests only once the run has returned; the other parts of `runner` may end, and `Rest` lets them.

### Fairness

- `ShmChannel`: only the receiver's own steps after the seal. Senders may stop anywhere.
- `Scheduler`: the executor polls whatever can make progress, and processes exit. Weak fairness
  on the executor as a whole is enough, for every step of it makes progress.
- `SpawnPipeline`: the pipeline, the kill and the end of tracking, plus tools that leave. Neither
  the child nor the orphan is assumed to exit. A tool that keeps its connection open for ever
  does hold the drain up, which is how the code is written, so nothing is claimed of that case.
- `IpcServer`: the driver, the child's exit when it waits for nothing, and for each tool that it
  notices a failed wait and leaves when it is through. Killing the child is not fair: nothing may
  rely on it.
- `ChunkPool`: each thread's own steps, and no other's.
- `LazyGraph`: each reader's, the loader's answer among them; nobody has to be dropped.
- `Supervisor`: the loop and each handler task, a target's way from connecting to sending, the
  failure of a call without a supervisor, and, once stopping, that targets end: `stop` waits for
  them (see the remarks). Interruptions are not fair.
- `RemoteLookup`: the runner's and the thread's own steps once cancelled. The network is never
  fair: the read timeout bounds one read, not a download.
- `RemoteUploads`: the wait and the cancelled uploads. Neither the network nor the server is fair.
- `Planner`: its steps.

### What the violations show

- `ipc_windows`. `vt_ipc_shared` calls fire-and-forget reports safe since the drain consumes
  every buffered frame. On Windows a client can be connected to the pending pipe instance when the
  server stops accepting; dropping the listener drops that instance, and the reports in it.
- `ipc_blocked`. `unix.rs` promises an error, never a hang, when the server is dead. A client
  that is blocked writing into a full FIFO holds the read end open itself and never sees it.
- `put_refused`. `docs/inputs.md` says that a changed input invalidates the cache. A symlink, link or
  rename is recorded before it is made, and `rebuildable.rs` takes each record for a file the task
  wrote. After an `ln -s` that failed since a source file was there, that file may be missing, and
  so may a folder that holds nothing else: the next run without them hits, and restores the file
  from the archive, in which it is an output.
- `spawn_ctrlc`. `docs/cancellation.md` says that a task interrupted by Ctrl-C is not cached even
  if it exits with 0. The token is cancelled by another thread than the one that observes the exit.
- `planning_cd`. `plan.rs` says that `cd packages/a && vp run build` runs in the package it
  changed to. The directory is joined without being normalised, so after `cd ../b` in `a` the
  nearest package around `a/../b`, found by its textual parents, is `a`.
- `supervisor_loop`. A comment in the supervisor says that a target that aborts should not break
  the handling loop. A target killed between its connect and its `send_fd` ends it.
- `lookup_exit`. `reporter/mod.rs` and `execute_graph` say that a run returns `Ok(())` if, or when,
  all tasks succeeded. A lookup that fails (hashing the inputs, or a database error) is reported
  before `start()`, and the summary keeps nothing of a command that was not started. Yet the
  failure cancels the other tasks: the run prints an error, skips what is left and returns zero.

Remarks without a run of their own:

- `fspy/src/unix/mod.rs` wants the supervisor stopped and the channel closed as soon as the child
  exits, since accesses of descendants do not count after it. `stop` waits for every process
  under the filter (`StoppedAfterTargets`), so a descendant that stays holds the task up.
- Inferred inputs are hashed after the task has ended, so an edit after the task's read and before the
  hashing is taken for what the output was made from, and the next run hits with the old output:
  `FreshHits` does not speak of runs in whose time somebody edited the tree.
- `archive.rs` skips outputs that are gone, but to look below a folder that has become a file is an
  error of another kind, and the run is not cached (`Archivable`).
- `find_folders` follows a link where a folder it climbs through was: a folder the task replaced by
  a link to an empty one then counts as one it did not make, and the folder around it as not
  rebuildable.
- With a failed lookup, a command killed for it may be the only failure the summary has: the run
  then returns 137, the code of the kill.
- After Ctrl-C a run may return zero although it skipped tasks, if those at work exit with zero.
- `LastRunSummary::write_atomic` uses one fixed temporary name: two runs that end at the same time
  may write into the same file before either renames it.
- `cache/mod.rs` argues that the mapped key must differ from the current one after a miss; another
  `vp` may record between the two selects.
- The shared-memory `README.md` says of both counters that they only climb, while storing CLOSED
  resets the count; nothing uses the count afterwards.
- `docs/concurrency.md` speaks of the limit as a bound on the tasks of a run, while each nested
  graph has a semaphore of its own (`scheduler.rs` says so): `ConcurrencyLimit` is per graph.
- `package_filter.rs` describes a directory selector as "at or under" where a plain one matches
  exactly.
- Packages in a cycle none of which but one has the task leave that one with an edge to itself,
  and the plan is refused as a cycle.
- A bare `vp run` is to open the selector "ignoring cache flags", and `vp run --no-cache` reports a
  missing task instead.
- A target that connects after the supervisor's loop has stopped accepting stays in its first
  trapped call until the other handlers are done.
- A downloaded archive whose hit is dropped by a cancellation, or whose local row cannot be
  written, stays in the cache folder with no row.
- `exec_synthetic` waits for uploads with a token that nobody cancels.
- A server that cannot open the FIFOs of a client that lives skips it as dead, and that client,
  with the runner behind it, waits for good.

## 4. The proofs

Each proof module extends the module it is about and proves its theorems for all values of the
constants, from the assumptions that module names: any number of senders, threads, targets,
readers, tasks, chunks, slots and bytes. A proof has the same shape throughout: a strengthening
that is inductive, lemmas that group the actions by what they can disturb, and theorems
that take the property from it. TLC has checked each strengthening on the bounds above.

**ChannelProofs** has the two channels by which a task's processes reach the runner, and what is said over
the second. Of `ShmChannel`:
`InductiveInvariant`, `TypeCorrect`, `Completeness` (`SealComplete`),
`Disjointness` (`SpansDisjoint`), `WholeFrames` (`FramesWhole`), `FrozenFrames` (the action property
`CommittedFrozen`), `Refinement` (`Spec => RefinesTraceLog`). `SealComplete` says nothing before
the seal, and the record of an operation could be overwritten, or its slot lost, if spans or slots
were shared. `IInv` adds `OpsInv` (a sender inside an operation has one left), `SpanInv` (spans
held and committed are inside the area, below the payload counter and pairwise apart), `SlotInv`
(a slot in use is below the count, after the seal below what was admitted, and belongs to one
sender), `GateInv` (nobody is turned away with the gate open), `ByteInv` (where the bytes of a
record can be, and that every committed slot holds one whole record) and `CompleteInv` (before the
boundary, with the gate open, every operation performed, and every one about to be, has its
record). The refinement maps every step to a step of `TraceLog` or a stutter: `Finish` to
`Publish`, `ReportLoss` to its namesake, `Seal` to `Close`, `ReadSlot` to `Deliver`, `ReadEnd` to
`EndOfTrace`; `FinishTrace` and `FillTrace` say how the trace changes.

Of `IpcServer`, in the same module: `IpcInvariant`, `NoReportLost` (`ReportsComplete`), which speaks of the
transport whose connect waits for the server (`Handshake`; of the other one it would be false, as
`ipc_windows` shows). `ConnInv` follows a tool from the door to the end of its connection: outside
it has sent nothing (`DoorInv`, where the handshake is needed), inside it has a connection unless an
error was kept (`InsideInv`), what it sent is recorded or still in the pipe, with nothing behind a
question (`OpenInv`), and a connection that ended well has left nothing (`EndedInv`). It is kept only
while the driver lives.
Of `ToolReports`: `ReportsAreFaithful` (`ReportsFaithful`). A frame says what its call meant (`CallOK`);
while the driver has no error each call's frame is in a buffer or the record has what it says (`NoneLost`),
since a torn frame only ever ends a buffer (`TornAt`), so what is thrown away with it is no call's. What is kept
of a question is what the environment says of it (`RecordOK`), and so is what was answered
(`ToldOK`): names that are the same are looked up alike (`SameLookup`), so an answer kept under another spelling is the
one given.

**LeafProofs** has what a leaf does with its output, its entry and the remote cache, and what surrounds
its process.
`PipelineInvariant`, `PipelineTypes`, `CachedWhole`, `NeverOrphaned`: the strengthening says at each
stage what the pipeline knows of the process, the pipes and the tracking: a process is spawned
before it is drained, gone when it was waited for, and its output read to the end before the run is
judged. `LookupInvariant`, `CheckedArchives` (`DownloadChecked`): the lookup's stage is tied to the
two halves of the download and its file. `UploadsInvariant`, `SoundUploads` (`UploadsSound`): the
holder of the lock is the one store that requests, uploads end with an error or with their entry
stored, and the cancellation comes only from an interrupted wait.

Of the process: `SupervisorInvariant`, `AccessesRecorded`
(`RecordsComplete`): a handler about to answer id `n` of a target that still waits under id `n` has
recorded it. `TreeInvariant`, `TreeIsSound` (`TreeSound`), for every mode and platform: `EnvInv` says
that what a program finds under the server's name is the leaf's own server or the one around it,
which needs `FoundPut` and `FoundOther` about names that differ in their case; `PreparedInv` that no
process runs before what tracks it is in place; `JobInv` and `OverInv` that what is in a job goes
with it, and that a leaf that is over has waited for its process, or lost it to a job that would not
take it. `PoolInvariant`, `PoolTypes`, `SoundPool` (`PoolSound`): `ThreadOK` ties a thread's place in
an operation to the block in its hand; `RoundUpBounds`, `SamePages` and `LengthBounds` are the
arithmetic that lets the size given back stand for the size asked for. It assumes that the chunk
size is a multiple of the page, which the code asserts at compile time.

**PlannerProofs** has planning, and the task graph in its lazy form. `PlanStack`, `NeverNested`
(`NoSelfNesting`), `NothingUnseen` (`EnvCovered`), `FlagsFollowed` (`CacheFollowsFlags`), for every
workspace, command line and environment. The actions of the planner are sorted by what they do to
the stack of calls (`Step`, lemma `Steps`): a planning starts or ends, the call on top goes on, makes
a call or returns. `StackShape` says which call may stand on which. A task that is called is not among
the calls around it, and only its own step adds it to them (`Nesting`). Of what a command is given,
the filter lets through what `env` or `untracked` match, and the fingerprint keeps what `env` matches
and the assignments in front (`PassedIsCovered`); items are kept as they were made (`Covering`). And
the settings in a call's context are those that the nearest override makes of the workspace's
(`CacheSet`, one level later for a query that has not begun), which needs that a call without a flag has
the override around it and that a step leaves the flags below it alone (`NoOwnOverride`,
`NearestKept`); every item of a task follows those settings (`Follows`), the items of its hooks
too, since a hook is planned under the settings of its task. `FlagsFollowed` assumes that `None` is no
cache entry.
`ExtrasReach` (`ExtraArgsReach`): what a task has been given is what its caller has for it, a hook
has nothing (`Given`), and no hook runs a hook, so what a hook adds to its task is never at the
place of the task's own last step. It assumes that a hook has another name than its task
(`HooksApart`; the code puts `pre` or `post` in front).
`CwdIsLoaded` (`CwdPackageLoaded`): what the session has found and loaded is a function of the world
(`Loading`), and the package the walk up asks the member globs about is the longest of the prefixes
of the current directory that has a `package.json` (`NearestIsLongest`); a glob that includes it is
one that the walk down follows (`MatchWalked`).
`OrderIsKept` (`OrderKept`) goes through the stages of a query (`Ordered`). While packages are taken
out, the arrows of what is left are the ways through what is gone (`Bridged`, `BridgeStep`: taking
out one more adds just the ways through it, `PassingOne`). Mapped to tasks, and after each round of
`dependsOn`, the tasks are some of those asked for or reached, and the dependencies of each that has been
followed are its own (`TasksFound`); when nothing is left to follow they are all (`FoundAll`). The wired edges are
then those of the order (`WiredInOrder`). That a search reaches the least set closed under the edges
(`ReachedLeast`, `ReachedClosed`) is proved of the recursive function by its layers, of which there are as many as
edges: a smallest layer outside a closed set would have one before it, and layers that kept growing
would have more ends than there are edges. `WorldAssumption` says what this needs of a world: its
directories and each package's tasks are finite in number, `None` is none of them, the current directory and its
ancestors are among them, and a list of globs is a list. `LazyInvariant`, `LoadsOnceAndFirst` (`LoadedAndHandedOut`): who loads holds the
cell's permit and the cell is empty, so a load that ends is the first; who resolves edges has found
every target it has passed.

**TaskCacheProofs**: `CacheInvariant`, `HitsAreFresh` (`FreshHits`), `RunsRepeat` (`RepeatedHits`),
`RowsAreBacked` (`RowsBacked`), for any number of runners, keys, files, edits and crashes. Two ideas
carry it. An archive's name is *public* once its run has written the entry or never will (`Public`):
entries, rows in hand and names to delete are public (`NamesPublic`), public names stay public
(`PublicGrows`) and belong to one key (`OneKey`), so nobody removes or replaces an archive in the
making, and a removed one is that of the entry being replaced (`RowsInv`). And a runner that nobody has
disturbed knows the tree (`CalmInv`): it is as it was hashed, as far as it has been read, and as the
entry in hand says once that has been validated; so an entry of an undisturbed run says of its archive what
the archive was made of (`EntriesTrue`), and keeps saying it. The assumption `Setting` says that the
globbed and the written files are among the files, that the bounds are numbers, and that `None` is
not an entry, an archive, a tree or a name.
`FolderInvariant` and `FolderStaysSound` (`FolderSound`, the part of `ResultsWhole` about the cache's
folder) are about the commands that meet in that folder, for any number of processes and schema versions, on
Unix and on Windows, whoever fails or is killed. The property is about files that have names, and
a process that a clean has met goes on with files that have none, so the invariant is about the
files: a database, with a name or only open, has users of one schema (`OneSchema`), because a file
is opened by the name of its schema's folder or is new. An archive has the name of the process that wrote
it, stays out of every row until that process puts it there, and then is in one row (`ArchivesNamed`); so
a process that replaces an entry deletes no other entry's archive (`ArchivesThere`). A clean succeeds when
no database has a name any more, and whatever archive it met as it began was written by somebody who
is past writing and can put its name only into such a database (`GoneIsGone`). While nobody cleans, a
lock that is held is the one in the folder, and two that have one database open have one lock
(`LocksHold`); a clean can put a second lock beside the first.
`FolderConstants` says that earlier archives have names other than new ones, that no archive is called
as the lock, the database or the summary is, and that the value for nothing is none of the others.
`EntryInvariant`, `MissesExplained` (`MissExplained`) and `EnvironmentsSeen` (`EnvSeen`, half of `HitSeesSame`) are
about what a run leaves for the next lookup, for any tree, calls and configuration. The invariant is that an
entry says what was there when it was made, of each input up to what it leaves out, and of each
variable and pattern (`Fingerprinted`, `Recorded`), and that nothing changes afterwards. A fingerprint tells
a missing path from one that is there (`FingerprintTells`), and both sides of a comparison leave out
the same entries, so an entry on one side only is one that came or went (`ListingsDiffer`,
`MissTells`). `FilesConstants` says that the root is no path below it and that what a lookup finds is a
tree, in which nothing is below what is no folder.

**ReporterProofs**: `ReportRefines` (each step of a leaf with its report is a step of the scheduler, so
all of the scheduler's theorems hold of a reported run), `ReportInvariant`, `OutcomesReported`
(`OutcomeReported`). `LeafReport` ties what the reporter was told of a leaf to where the scheduler has it;
that no leaf is at work when the root returns, and that all have succeeded without a cancellation,
is the scheduler's invariant (`RootOver`). The hypothesis `Plan` says that the plan is finite, that
its leaves are under its root, and that a failing process has a code other than zero.

`SummaryInvariant` and `SummariesSound` (`SummarySound`, the part of `ResultsWhole` about the summaries) are
about any number of runs and tasks, whoever fails or is killed. What a result says of each of the
eight ways in which a task ends is `ResultSays`; counting it gives the exit code, the compact line and
the details (`SummaryAgrees`): the tasks that hit and those that cannot are disjoint, so the rate is at most a hundred
percent and is that only if they are all. Of the file, the invariant says that two runs that write at once
both know it as history (`OverlapKnown`), that a run which is alone since its open has what it wrote under the
temporary name (`InPlace`), and that the file with the last summary is open to no writer (`LastKept`).
`SummaryConstants` says that the bound on tasks is a number, and that the value for nothing is no number, run,
reason, mark or record.

**SchedulerProofs**: `SchedulerInvariant`, `SchedulerTypes`, `DependenciesComeFirst`
(`DependenciesFirst`), `ItemsComeInOrder` (`ItemsInOrder`), `LimitKept` (`ConcurrencyLimit`),
`NothingLeftOut` (`NothingSkipped`), `WhatIsUnderWayDrains` (the action property
`NothingNewAfterCancel`: of each step, lemma `NothingScheduled` for the nodes and `NothingBegun` for
the leaves), for any graph of graphs. The properties speak of leaves at any depth, while
a step knows one graph, one node or one item. `IInv` is therefore local: what a node, its items and
the graphs in them agree on (`Local`: `ProgressInv`, `PlacedInv`, `FailureInv`, `ReturnInv`), that a
node's count is the number of its edges to nodes not yet reaped (`CountInv`, which also keeps it
from wrapping), that the dependencies of whatever was spawned have
succeeded (`DepsInv`), that the items before one that was begun have (`OrderInv`), and that permits and running nodes add up to the limit
(`PermitInv`). The facts about any depth, that nothing under a node has begun, or is at work, or
that all of it has succeeded, follow from it in each state by the assumption that nesting is well
founded (lemmas `UntouchedDeep`, `LiveDeep`, `OverDeep`, `PassedDeep`, `NodeDone`). That edges have no
cycle is needed for `ReturnInv`, a graph that returns has reaped each of its nodes (lemma
`NoneLeft`): of the nodes that were never spawned, if there were any, one would have no dependency
among them, so its count would have reached zero.

**FileProofs**: `BackingInvariant`, `BackingFound` (`FoundByAll`), `ArtifactInvariant`, `ArtifactsWhole`
(`MaterializedWhole`), for any number of channels, processes, directories, runs and artifacts, whoever fails or
is killed. These are the parts of `StaysTracked` about the file behind a channel and about the
library. Of the channel, `BackingIInv` says
that a name leads to the file of the run that chose it, at one place, from the file's making to its
removal (`Placed`), that the file has its size before anybody is given the name and a closed gate
before the name is taken away (`Filled`), and that what a process has opened is the file of the channel
it was given (`Reached`). Of the library, `ArtifactIInv` says that a run past the check works in a
folder that is its user's alone (`Housed`), that a draft grows at its temporary name and is whole
before it is renamed (`Drafted`, `Temporary`), and that what has its name is whole, is being written by
nobody, and stays (`Shelved`, `Given`). `BackingConstants` says that a channel has room for something,
`ArtifactConstants` that an artifact has at least one piece, that something is wanted, and that one name is
not wanted both executable and not; both, that the value for nothing is none of the others.

`ExecInvariant` and `ExecStaysTracked` (the part of `StaysTracked` that is `ExecTracking`'s) are about the
programs a task's processes run on Unix, for any disk, `PATH`, programs and environments. A call that
is tracked gives the program the library, named last and with its payload, or takes the library away and
installs the filter (`Tracks`, lemma `HandledTracks`); a library that is given is one the program
will load, because the kernel comes to the very program that was looked at when that is a dynamic one
(`ExecveDynamic`) and stays with the programs of the system when it was one of them (`ExecveSystem`), through any
interpreters. What a process that is not tracked passes on is not tracked either, so the
proof needs that such a process never names the library: `TakenUp`, which ties the library in a
program's environment to the library in the program, from the call to the program's start. A program of macOS that
takes no library drops the variable when it starts, as `Begin` says. `ExecConstants` says that the current
folder has a name, and that a script of the system is for a program of the system (on macOS a few are
for one under `/System`, which is outside the model).

**WindowsProofs**: `WindowsInvariant`, `WindowsTreeTracked` (`TreeTracked`, the part of `StaysTracked` about
Windows), for any number of processes, threads and calls. The property is about a process and its
parent; the proof follows what the creator is told. A child of a detoured call is suspended until
its creator is told of it (`Unborn`), so it has called and made nothing, and by then it has the payload and the
library (`Creating`, which ties each call under way to the one child it has made, and `Raised`). A
call that goes past the detour is the one by which Detours starts its helper, or is made by a
process without detours; and such a process will never have any, since whoever calls has been
through its library's attach (`Begun`). That the detour is reached through either library and either
function is `Reached`, which needs that kernelbase has both symbols (`WindowsConstants`). `ShiftsKeep`
says once what a step keeps that changes a few processes and the calls of one thread; each
action is then a matter of what it changes.
`WindowsCallsRecorded` is `CallsRecorded`, the part of `CallsSeen` about Windows, for any paths of any
length and any symbols (`CallsConstants`: a path has a name in it, none of them is a wildcard, and NT's
symbols are ntdll's alone). `DetourSays` is about the detours as functions: what each sends of a call
covers what the call does, under the path that the kernel takes it to, whether that is given whole, by the
folder's handle, by the object's own, or by a sibling's name (`NamedLeads`, `Destination`), and with a
wildcard the folder alone (`Wildcard`). The invariant (`CallsIInv`) carries that to the forwarded call:
a call under way is recorded while the channel is open, since whoever has detours then has a client that
sends (`Tracks`); records stay; and a process that has begun keeps its detours and its client
(`KeptAs`), so that the record is still what the property asks for when the process has ended.

Out of the prover's reach, and only model-checked: liveness under fairness (`ReceiverNeverWaits`,
`NobodyHangs`, `CancelledRunsEnd`, `CallsReturn`, `SupervisorResponds`, `PlansEnd`), statements with ENABLED, and what a recursive definition computes for
every input, unless a smallest counterexample can be excluded as above. Only model-checked: that a hit finds
what a task read and can rebuild as it was (`InputsSeen`, `CleanCheckoutHits` and the others of `Fingerprint`, which rest on a fold over folders),
that a tracked program runs as it would untracked (`ExecsAlike`, the part of `CallsSeen` about Unix), output
(`OutputWhole` of `ResultsWhole`), and the selector (`ChoiceShown`).
RECURSIVE operators are kept out of all modules.

## 5. What could come next

- Proofs: `InputsSeen` of the fingerprints.
- `RemoteLookup` composed with `TaskCache`'s record, since a remote hit is recorded locally.

## 6. Not modelled

- Clean-up whose result the code drops is taken to succeed: `let _ = child.start_kill()` of a
  process that could not be prepared (`ChildTree.PrepareFails`, `WindowsTracking.PreparationFails`),
  and the removal of a partial download (`RemoteLookup.Join`).
- On Windows, a call whose handle or root directory has no path that can be found: `convert.rs`
  forwards it and records nothing, so `CallsRecorded` is about the other calls. `TreeTracked` is about
  children started through `CreateProcessA` and `CreateProcessW`, the two functions that are detoured,
  by processes whose Detours transaction succeeded.
- A notification whose target's memory the supervisor may not read, although the call itself would
  succeed: the handler's error is ignored and the call goes on unrecorded.
- Path errors of the planner other than a cached command outside the workspace: names that are not
  UTF-8 or not portable.
- I/O failures of `accept` itself (a failed one is retried); junctions on Windows.
- What the remote cache's messages look like and how keys, values and blobs are encoded.
- That a mapped region outlives the name of its file, which ShmChannel assumes as the docs of
  `fspy_shm` do; `fspy_nostd` (system-call wrappers without state).
- Parsing of shell text, configuration files and globs, path handling, and the standalone terminal UI: no state that
  outlives a call, or no order in which anything can go wrong.
