------------------------------ MODULE ChildTree ------------------------------
(***************************************************************************)
(* The process of one leaf in every execution mode and on every platform:  *)
(* ExecutionMode and run_child in crates/vt/src/session/execute/mod.rs,    *)
(* spawn.rs and win_job.rs beside it, and where the leaf is tracked        *)
(* Command and SpyImpl of crates/fspy.                                     *)
(*                                                                         *)
(* SpawnPipeline follows a cached leaf through its draining and its cache  *)
(* update; here are the leaves that are not cached, the environment and    *)
(* the handles a process is given, the steps before it may run, and on     *)
(* Windows the job that holds what it starts.                              *)
(***************************************************************************)
EXTENDS EnvNames

VARIABLES
  platform,     \* "unix" or "windows"
  mode,         \* ExecutionMode: "auto" and "cached", "piped" and "inherited"
  given,        \* spawn_envs, as the plan has them
  marked,       \* the runner's own standard handles are close-on-exec
  leg,          \* where the leaf is
  envs,         \* the environment of the process, by name
  handles,      \* its standard handles: "none", "terminal", "pipes", "null"
  child,        \* the process
  kin,          \* what it started: "inside" its job, "outside" of any
  job,          \* the job object: "none", "held", "closed"
  ready,        \* what tracking needs inside the process
  fired,        \* the fast-fail token
  said          \* the outcome execute_spawn returns

plan  == <<platform, mode, given, marked>>
world == <<kin, fired>>
treeVars == <<plan, leg, envs, handles, child, job, ready, world, said>>

Windows == platform = "windows"
Gone == {"none", "exited", "killed"}

(* Mutant: a name that is spelled otherwise is another name.               *)
InsertSpelled(env, name, value) == Insert(FALSE, env, name, value)

(* Command::env.                                                           *)
Put(env, name, value) == Insert(Windows, env, name, value)

(* What a program may find that asks the system for a variable.            *)
Found(env, name) ==
  {env[k] : k \in {d \in DOMAIN env : d = name \/ (Windows /\ Upper(d) = name)}}

-----------------------------------------------------------------------------
(* ExecutionMode, for a leaf that missed the cache or has none.            *)

IsCached == mode \in {"auto", "cached"}
Tracked == mode = "auto"
Piped == mode # "inherited"

(* Mutant: the plan's environment has the last word.                       *)
PlanLast ==
  IF IsCached /\ Found(given, "IPC") = {} THEN Put(given, "IPC", "own") ELSE given

(* A cached leaf is given the name of its own IPC server, whatever server  *)
(* the environment names already; a leaf without a cache speaks to that.   *)
InjectedEnvs == IF IsCached THEN Put(given, "IPC", "own") ELSE given

(* Another `vt run` around this one may have left its server's name, in a  *)
(* case of the user's; and Node.js marks its standard handles.             *)
TreeInit ==
  /\ platform \in {"unix", "windows"}
  /\ mode \in {"auto", "cached", "piped", "inherited"}
  /\ given \in {<<>>, [n \in {"IPC"} |-> "outer"], [n \in {"ipc"} |-> "outer"]}
  /\ marked \in BOOLEAN
  /\ leg = "build"
  /\ envs = <<>>
  /\ handles = "none"
  /\ child = "none"
  /\ kin = {}
  /\ job = "none"
  /\ ready = {}
  /\ fired = FALSE
  /\ said = "none"

SayOutcome(outcome) == leg' = "done" /\ said' = outcome

(* A negative glob that is none, or serve() cannot bind; the search for    *)
(* the program, the channel, the supervisor, handle_exec or the system's   *)
(* spawn fails.  The process never was, and what was opened is dropped.    *)
StartFails ==
  /\ leg = "spawn" \/ (leg = "build" /\ IsCached)
  /\ SayOutcome("failed")
  /\ UNCHANGED <<plan, envs, handles, child, job, ready, world>>

Build ==
  /\ leg = "build"
  /\ leg' = "spawn"
  /\ envs' = InjectedEnvs
  /\ UNCHANGED <<plan, handles, child, job, ready, world, said>>

(* Mutant: the handles are inherited as the runner holds them.             *)
StdioAsMarked ==
  IF Piped THEN "pipes" ELSE IF ~Windows /\ marked THEN "null" ELSE "terminal"

(* apply_stdio: before exec on Unix, clear_stdio_cloexec clears the marks  *)
(* that would leave the process without its terminal.                      *)
Stdio == IF Piped THEN "pipes" ELSE "terminal"

(* What is inside the process when it runs its first instruction.  On Unix *)
(* the environment carries it through handle_exec and set_exec.            *)
TrackingNeeds == IF Windows THEN {"dll", "payload"} ELSE {"PRELOAD"}

(* Mutant: the process runs while it is being prepared.                    *)
StartRunning ==
  /\ leg = "spawn"
  /\ envs' = IF Tracked /\ ~Windows THEN Put(envs, "PRELOAD", "own") ELSE envs
  /\ handles' = Stdio
  /\ ready' = {"PRELOAD"} \cap DOMAIN envs'
  /\ child' = "running"
  /\ leg' = CASE ~Windows -> "run" [] Windows /\ Tracked -> "prepare" [] OTHER -> "assign"
  /\ UNCHANGED <<plan, job, world, said>>

(* spawn(): a tracked process starts suspended on Windows.                 *)
StartChild ==
  /\ leg = "spawn"
  /\ envs' = IF Tracked /\ ~Windows THEN Put(envs, "PRELOAD", "own") ELSE envs
  /\ handles' = Stdio
  /\ ready' = {"PRELOAD"} \cap DOMAIN envs'
  /\ child' = IF Windows /\ Tracked THEN "suspended" ELSE "running"
  /\ leg' = CASE ~Windows -> "run" [] Windows /\ Tracked -> "prepare" [] OTHER -> "assign"
  /\ UNCHANGED <<plan, job, world, said>>

-----------------------------------------------------------------------------
(* On Windows: what spawn_inner does to the suspended process, and the     *)
(* job.                                                                    *)

Prepare ==
  /\ leg = "prepare"
  /\ \/ /\ "dll" \notin ready
        /\ ready' = ready \cup {"dll"}
        /\ UNCHANGED <<leg, child>>
     \/ /\ "dll" \in ready /\ "payload" \notin ready
        /\ ready' = ready \cup {"payload"}
        /\ UNCHANGED <<leg, child>>
     \/ /\ {"dll", "payload"} \subseteq ready
        /\ child' = "running"
        /\ leg' = "assign"
        /\ UNCHANGED ready
  /\ UNCHANGED <<plan, envs, handles, job, world, said>>

(* Mutant: the error is returned, and the process stays as it is.          *)
PrepareBreaks ==
  /\ leg = "prepare"
  /\ SayOutcome("failed")
  /\ UNCHANGED <<plan, envs, handles, child, job, ready, world>>

(* inspect_err: no suspended process is left behind, if its best-effort    *)
(* kill succeeds, as it does here.                                         *)
PrepareFails ==
  /\ leg = "prepare"
  /\ child' = "killed"
  /\ SayOutcome("failed")
  /\ UNCHANGED <<plan, envs, handles, job, ready, world>>

(* assign_to_kill_on_close_job: what the process starts from now on is in  *)
(* its job.                                                                *)
AssignJob ==
  /\ leg = "assign"
  /\ job' = "held"
  /\ leg' = "run"
  /\ UNCHANGED <<plan, envs, handles, child, ready, world, said>>

(* The job cannot be created, set up or given the process, which has       *)
(* exited perhaps.  A running process stays; where it is tracked, fspy's   *)
(* background task goes on watching the token.                             *)
AssignFails ==
  /\ leg = "assign"
  /\ SayOutcome("failed")
  /\ UNCHANGED <<plan, envs, handles, child, job, ready, world>>

-----------------------------------------------------------------------------
(* run_child: the pipes, then the wait.                                    *)

HoldsPipe == child \in {"suspended", "running"} \/ kin # {}

(* Mutant: the draining goes on to the end of the streams.                 *)
DrainToEnd ==
  /\ leg = "run"
  /\ handles = "pipes" => ~HoldsPipe
  /\ leg' = "wait"
  /\ UNCHANGED <<plan, envs, handles, child, job, ready, world, said>>

(* Without pipes there is nothing to drain; otherwise the draining ends    *)
(* with the streams or with the token.                                     *)
DrainPipes ==
  /\ leg = "run"
  /\ handles = "pipes" => (~HoldsPipe \/ fired)
  /\ leg' = "wait"
  /\ UNCHANGED <<plan, envs, handles, child, job, ready, world, said>>

(* A read or a write downstream fails: the token is cancelled before the   *)
(* wait, so that it kills the process.                                     *)
DrainBreaks ==
  /\ leg = "run" /\ handles = "pipes"
  /\ leg' = "broken"
  /\ fired' = TRUE
  /\ UNCHANGED <<plan, envs, handles, child, job, ready, kin, said>>

(* Mutant: the token is seen in the wait alone.                            *)
WatchedInWait == leg \in {"wait", "broken"}

(* The wait of a process that is not tracked is polled in its turn; fspy   *)
(* waits in a task of its own from the moment it has returned the process. *)
Watched == leg \in {"wait", "broken"} \/ (Tracked /\ leg \in {"run", "assign", "done"})

(* start_kill, and without fspy job.terminate().                           *)
KillTree ==
  /\ fired
  /\ child = "running"
  /\ Watched
  /\ child' = "killed"
  /\ kin' = IF Tracked \/ job # "held" THEN kin ELSE kin \ {"inside"}
  /\ UNCHANGED <<plan, leg, envs, handles, job, ready, fired, said>>

(* Mutant: the job outlives the wait.                                      *)
WaitedHeld ==
  /\ leg \in {"wait", "broken"}
  /\ child \in Gone
  /\ SayOutcome(IF leg = "wait" THEN "spawned" ELSE "failed")
  /\ UNCHANGED <<plan, envs, handles, child, job, ready, world>>

(* The wait is over: KILL_ON_JOB_CLOSE ends what is still in the job.      *)
ChildWaited ==
  /\ leg \in {"wait", "broken"}
  /\ child \in Gone
  /\ job' = IF job = "held" THEN "closed" ELSE job
  /\ kin' = IF job = "held" THEN kin \ {"inside"} ELSE kin
  /\ SayOutcome(IF leg = "wait" THEN "spawned" ELSE "failed")
  /\ UNCHANGED <<plan, envs, handles, child, ready, fired>>

-----------------------------------------------------------------------------
(* The process, what it starts, and the other leaves.                      *)

ForkChild ==
  /\ child = "running"
  /\ kin' = kin \cup {IF job = "held" THEN "inside" ELSE "outside"}
  /\ UNCHANGED <<plan, leg, envs, handles, child, job, ready, fired, said>>

LeafExits ==
  /\ child = "running"
  /\ child' = "exited"
  /\ UNCHANGED <<plan, leg, envs, handles, job, ready, world, said>>

KinExits ==
  /\ \E k \in kin : kin' = kin \ {k}
  /\ UNCHANGED <<plan, leg, envs, handles, child, job, ready, fired, said>>

TokenFires ==
  /\ ~fired
  /\ fired' = TRUE
  /\ UNCHANGED <<plan, leg, envs, handles, child, job, ready, kin, said>>

Steps == Build \/ StartChild \/ Prepare \/ AssignJob \/ DrainPipes \/ ChildWaited

Faults == StartFails \/ PrepareFails \/ AssignFails \/ DrainBreaks

TreeNext == Steps \/ Faults \/ KillTree \/ ForkChild \/ LeafExits \/ KinExits \/ TokenFires

TreeSpec == TreeInit /\ [][TreeNext]_treeVars

TreeFairSpec == TreeSpec /\ WF_treeVars(Steps) /\ WF_treeVars(KillTree)

-----------------------------------------------------------------------------
(* Properties.                                                             *)

HasRun == child \in {"running", "exited"}

(* A leaf that is over leaves nothing in the job, and no process but one   *)
(* that no job would take (spawn.rs: "the child (and on Windows its        *)
(* descendants via the Job Object) is killed before the future resolves"). *)
NothingLeft ==
  /\ said # "none" => "inside" \notin kin
  /\ said = "spawned" => child \in {"exited", "killed"}
  /\ said = "failed" => \/ child \in Gone
                        \/ /\ Windows /\ child = "running" /\ job = "none"
                           /\ Tracked => ready = TrackingNeeds

(* The tools of a cached leaf find its own server and no other; those of   *)
(* another leaf find the server of the cached leaf around it, if any       *)
(* (spawn.rs: injected entries "override any same-named key").             *)
ReachesServer ==
  HasRun => Found(envs, "IPC") = IF IsCached THEN {"own"} ELSE Found(given, "IPC")

(* A leaf that inherits its handles has the terminal, though Node.js has   *)
(* marked them, and a tracked process runs no instruction before all that  *)
(* tracks it is in place.                                                  *)
StartsWhole ==
  HasRun => /\ mode = "inherited" => handles = "terminal"
            /\ Tracked => TrackingNeeds \subseteq ready

TreeSound == NothingLeft /\ ReachesServer /\ StartsWhole

(* Once the token is cancelled the leaf is over and its process is gone,   *)
(* though neither it nor what it started would end; a process that no job  *)
(* would take is gone only where fspy watches it.                          *)
CancelledEnds ==
  fired ~> said # "none" /\ (child \in Gone \/ (said = "failed" /\ ~Tracked))
=============================================================================
