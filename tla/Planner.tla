------------------------------ MODULE Planner ------------------------------
(* Planning a `vp run`: from the command line to the graph of commands the
   scheduler executes (vt_plan, and the part of vt's Session that drives it).

   The planner recurses: a query plans tasks, a task plans its hooks and its
   commands, and a command that is itself a `vp run` plans a query.  frames is
   that recursion, the innermost call last; the other variables are what it
   reads.  A command is a list of steps joined by `&&`, or a text only a shell
   can read.  A step is a `cd`, an `echo`, a nested run, another command of the
   program itself (kind "own"), one that the program's handler turns into a tool
   (kind "synthetic") or a tool; envs are the assignments in front of it. *)
EXTENDS TaskGraph, Integers

CONSTANTS
  Scenarios,       \* the worlds to plan in: [disk, cwd, args, envs, interactive]
  HookName(_, _),  \* for "pre" and "post", the name of the hook of a task name
  Home             \* the home directory

(* What a world holds around its current directory, and that it is finite. *)
PlacesKnown(w) ==
  /\ IsFiniteSet(DOMAIN w.disk)
  /\ \A d \in DOMAIN w.disk :
       LET names == DOMAIN ConfigOf(w.disk, d).tasks \cup DOMAIN PackageAt(w.disk, d).scripts
       IN IsFiniteSet(names) /\ None \notin {d} \X names
  /\ w.cwd \in Seq(STRING)
  /\ Prefixes(w.cwd) \subseteq DOMAIN w.disk /\ None \notin Prefixes(w.cwd)
  /\ \A d \in Prefixes(w.cwd) :
       MemberGlobs(w.disk[d]) # None => MemberGlobs(w.disk[d]) \in Seq(ToSet(MemberGlobs(w.disk[d])))

ASSUME WorldAssumption == None # "DuplicatedPackageName" /\ \A w \in Scenarios : PlacesKnown(w)

VARIABLES
  world,       \* the files, the current directory, the command line, the environment
  workspace,   \* where the workspace is, None until the session has found it
  graph,       \* the package graph, None until the session has loaded it
  frames,      \* the calls of the recursion, the innermost last
  outcome      \* Running, then what the planning came to

session == <<world, workspace, graph>>
vars == <<session, frames, outcome>>

DefaultLimit == 4
Running == [kind |-> "running"]

ModeEnv == "VP_REMOTE_CACHE"
UrlEnv == "VP_REMOTE_CACHE_URL"
LimitEnv == "VP_RUN_CONCURRENCY_LIMIT"
Marker == "VP_RUN"
ForceColor == "FORCE_COLOR"

Keep(envs, names) == [n \in DOMAIN envs \cap names |-> envs[n]]

Only(name, value) == [n \in {name} |-> value]

Over(first, rest) == [n \in DOMAIN first \cup DOMAIN rest |-> IF n \in DOMAIN first THEN first[n] ELSE rest[n]]

-----------------------------------------------------------------------------
(* The settings one level of `vp run` plans with. *)

WithOverride(cache, override) ==
  IF override = "none" THEN cache ELSE [cache EXCEPT !.scripts = override = "on", !.tasks = override = "on"]

(* An empty value counts as unset. *)
EnvValue(envs, name) == IF name \in DOMAIN envs /\ envs[name] # "" THEN envs[name] ELSE None

ResolveRemote(configured, envs) ==
  LET mode == EnvValue(envs, ModeEnv)
      url == UnwrapOr(EnvValue(envs, UrlEnv), configured)
  IN CASE mode \notin {None, "off", "read", "read-write"} -> [error |-> "InvalidRemoteCacheModeEnv"]
       [] mode = "off" \/ (mode = None /\ url = None) -> [error |-> None, access |-> None]
       [] mode \in {"read", "read-write"} /\ url = None -> [error |-> "MissingRemoteCacheEndpoint"]
       [] OTHER -> [error |-> None, access |-> [mode |-> UnwrapOr(mode, "read"), url |-> url]]

(* A limit in the environment that is no number is -1. *)
Concurrency(args, envs) ==
  CASE args.limit # None -> IF args.limit = 0 THEN 1 ELSE args.limit
    [] args.limit = None /\ args.parallel -> None
    [] OTHER -> IF LimitEnv \notin DOMAIN envs THEN DefaultLimit
                ELSE IF envs[LimitEnv] = 0 THEN 1 ELSE envs[LimitEnv]

(* Mutant: a level without a flag starts from the workspace again. *)
LevelContextAfresh(ctx, args, query) ==
  LET cache == WithOverride(RootSettings(graph, world.disk).cache, args.override)
      envs == IF args.remote = None THEN ctx.envs ELSE Over(Only(ModeEnv, args.remote), ctx.envs)
  IN [ctx EXCEPT !.cache = cache, !.envs = envs, !.parent = query,
                 !.remote = ResolveRemote(cache.url, envs)]

(* The override is relative to the workspace, not to the level around it; a mode
   given on the command line reaches the levels below through the environment. *)
LevelContext(ctx, args, query) ==
  LET settings == RootSettings(graph, world.disk).cache
      cache == IF args.override = "none" THEN ctx.cache ELSE WithOverride(settings, args.override)
      envs == IF args.remote = None THEN ctx.envs ELSE Over(Only(ModeEnv, args.remote), ctx.envs)
  IN [ctx EXCEPT !.cache = cache, !.envs = envs, !.parent = query,
                 !.remote = ResolveRemote(cache.url, envs)]

-----------------------------------------------------------------------------
(* What a spawned command gets, and what of it the cache sees. *)

GlobMatches(patterns, name) ==
  /\ \E p \in patterns : ~p.negated /\ name \in p.names
  /\ ~\E p \in patterns : p.negated /\ name \in p.names

Filtered(envs, cache) ==
  Over(Keep(envs, {n \in DOMAIN envs : GlobMatches(cache.untracked \cup cache.env, n)}), Only(ForceColor, "1"))

(* Mutant: assignments in front of the command are passed and not hashed. *)
FingerprintedNoPrefix(envs, cache, prefix) ==
  LET passed == Filtered(envs, cache) IN Keep(passed, {n \in DOMAIN passed : GlobMatches(cache.env, n)})

Fingerprinted(envs, cache, prefix) ==
  LET passed == Filtered(envs, cache)
  IN Over(prefix, Keep(passed, {n \in DOMAIN passed : GlobMatches(cache.env, n)}))

(* The marker replaces an inherited one, and a prefix assignment replaces both. *)
SpawnEnvs(envs, cache, prefix) ==
  Over(Over(prefix, Only(Marker, "1")), IF cache = None THEN envs ELSE Filtered(envs, cache))

EffectiveCache(task, cache) ==
  IF (IF task.source = "script" THEN cache.scripts ELSE cache.tasks) THEN task.cache ELSE None

(* A command of the program's handler runs under the settings of the task around
   it: its own names and globs are added, its own choice of inference is not. *)
MergeGlobs(own, added) == [own EXCEPT !.positive = @ \cup added.positive, !.negative = @ \cup added.negative]

SyntheticCache(inherited, own, d) ==
  LET added == IntoEnabled(own)
      Merged(config, entries) ==
        IF entries = None THEN config ELSE MergeGlobs(config, ResolvedGlobs(entries, d, graph.root))
  IN IF inherited = None \/ added = None THEN None
     ELSE [remote |-> inherited.remote /\ UnwrapOr(added.remote, TRUE),
           env |-> inherited.env \cup UnwrapOr(added.env, {}),
           untracked |-> inherited.untracked \cup UnwrapOr(added.untracked, {}),
           input |-> Merged(inherited.input, added.input),
           output |-> Merged(inherited.output, added.output)]

(* The first node_modules/.bin of PATH that has the program, or the system. *)
Which(program, path) ==
  LET at == {i \in DOMAIN path : path[i] \in DOMAIN world.disk /\ program \in world.disk[path[i]].bin}
  IN IF at # {} THEN path[CHOOSE i \in at : \A j \in at : i <= j]
     ELSE IF program \in world.system THEN <<>> ELSE None

PrependPath(d, path) == <<d>> \o SelectSeq(path, LAMBDA e : e # d)

Spawn(frame, ctx, cache, prefix, program, position, extra) ==
  [kind |-> "spawn", task |-> frame.id, position |-> position, extra |-> extra,
   cwd |-> frame.cwd, program |-> program, envs |-> SpawnEnvs(ctx.envs, cache, prefix),
   cache |-> IF cache = None THEN None
             ELSE [config |-> cache, fingerprint |-> Fingerprinted(ctx.envs, cache, prefix),
                   remote |-> IF cache.remote THEN ctx.remote.access ELSE None]]

-----------------------------------------------------------------------------
(* The calls.  A result goes to the call below; an error ends the planning. *)

Top == frames[Len(frames)]
Callers == Front(frames)
Become(frame) == frames' = Append(Callers, frame) /\ UNCHANGED <<session, outcome>>
Call(caller, callee) == frames' = Callers \o <<caller, callee>> /\ UNCHANGED <<session, outcome>>
End(result) == outcome' = result /\ frames' = <<>> /\ UNCHANGED session
Fail(error) == End([kind |-> "error", error |-> error])

Querying(stage) == outcome = Running /\ frames # <<>> /\ Top.kind = "query" /\ Top.stage = stage
Expanding(stage) == outcome = Running /\ frames # <<>> /\ Top.kind = "task" /\ Top.stage = stage

QueryCall(ctx, args, cwd) ==
  [kind |-> "query", stage |-> "open", ctx |-> ctx, args |-> args,
   query |-> [packages |-> IntoPackageQuery(args, cwd), task |-> args.task,
              explicit |-> ~args.ignoreDependsOn],
   live |-> None, tasks |-> <<>>, frontier |-> {}, pruned |-> None, planned |-> <<>>,
   edges |-> {}]

TaskCall(id, ctx, hooks) ==
  [kind |-> "task", stage |-> "pre", id |-> id, ctx |-> [ctx EXCEPT !.path = PrependPath(id[1], @)], hooks |-> hooks,
   cwd |-> Task(graph, world.disk, id).cwd, command |-> 1, step |-> 1, items |-> <<>>]

(* Mutant: only the innermost call is looked at. *)
CheckRecursionOfLast(id, ctx) == ctx.calls # <<>> /\ Last(ctx.calls) = id

CheckRecursion(id, ctx) == id \in ToSet(ctx.calls)

PlanTask(caller, id, ctx, hooks) ==
  IF CheckRecursion(id, ctx) THEN Fail("Recursion") ELSE Call(caller, TaskCall(id, ctx, hooks))

(* The same packages, the same task and the same use of `dependsOn`. *)
SameQuery(query, ctx) == query = ctx.parent

-----------------------------------------------------------------------------
(* The session: the workspace around the current directory, then the command
   line, then the packages and the settings of the root. *)

SessionContext ==
  [calls |-> <<>>, parent |-> None, cache |-> RootSettings(graph, world.disk).cache,
   remote |-> None, envs |-> world.envs, path |-> <<graph.root>>, extra |-> <<>>]

(* The command line names a task, or is a bare `vp run`. *)
Bare(args) ==
  /\ args.task = None /\ IsCwdOnly(args) /\ args.limit = None /\ ~args.parallel
  /\ args.override # "off" /\ args.remote = None /\ ~args.strict /\ ~args.ignoreDependsOn

LineError(args) == IF args.task # None THEN Conflict(args)
                   ELSE IF Bare(args) THEN None ELSE "MissingTaskSpecifier"

FindWorkspace ==
  LET found == FindWorkspaceRoot(world.disk, world.cwd)
  IN /\ outcome = Running /\ workspace = None
     /\ CASE found = None -> Fail("PackageRootNotFound")
          [] found # None /\ LineError(world.args) # None -> Fail(LineError(world.args))
          [] OTHER -> workspace' = found /\ UNCHANGED <<world, graph, frames, outcome>>

LoadGraph ==
  /\ outcome = Running /\ workspace # None /\ graph = None
  /\ \E loaded \in {LoadPackageGraph(world.disk, workspace)} :
       IF loaded.error # None THEN Fail(loaded.error)
       ELSE IF LoadErrors(loaded, world.disk, loaded.root) # {}
            THEN \E error \in LoadErrors(loaded, world.disk, loaded.root) : Fail(error)
            ELSE graph' = loaded /\ UNCHANGED <<world, workspace, frames, outcome>>

ShowSelector == End([kind |-> "select"])

Begin ==
  /\ outcome = Running /\ graph # None /\ frames = <<>>
  /\ IF world.args.task # None
     THEN frames' = <<QueryCall(SessionContext, world.args, world.cwd)>> /\ UNCHANGED <<session, outcome>>
     ELSE ShowSelector

(* The selector lists the tasks of every package; the one picked is planned in
   its own package, with the extra arguments and the cache flags of the line. *)
Select ==
  LET refused == UNION {LoadErrors(graph, world.disk, d) : d \in graph.nodes}
      names == UNION {DOMAIN TasksOf(graph, world.disk, d) : d \in graph.nodes}
      chosen == {id \in graph.nodes \X names : HasTask(graph, world.disk, id)}
      Picked(id) == [world.args EXCEPT !.task = id[2], !.limit = None, !.parallel = FALSE, !.strict = FALSE]
  IN /\ outcome.kind = "select" /\ graph # None
     /\ IF refused # {} THEN \E error \in refused : Fail(error)
        ELSE \/ End([kind |-> "exit", tasks |-> chosen])
             \/ /\ world.interactive
                /\ \E id \in chosen :
                     frames' = <<QueryCall(SessionContext, Picked(id), id[1])>>
                /\ outcome' = Running /\ UNCHANGED session

-----------------------------------------------------------------------------
(* A query. *)

OpenQuery ==
  LET ctx == LevelContext(Top.ctx, Top.args, Top.query)
  IN /\ Querying("open")
     /\ CASE ctx.remote.error # None -> Fail(ctx.remote.error)
          [] ctx.remote.error = None /\ Concurrency(Top.args, ctx.envs) = -1 -> Fail("InvalidConcurrencyLimitEnv")
          [] OTHER -> Become([Top EXCEPT !.ctx = ctx, !.stage = "select"])

SelectPackages ==
  /\ Querying("select")
  /\ IF AmbiguousQuery(graph, Top.query.packages) THEN Fail("AmbiguousPackageName")
     ELSE \E chosen \in {ResolveQuery(graph, Top.query.packages)} :
            LET refused == UNION {LoadErrors(graph, world.disk, d) : d \in chosen}
            IN IF refused # {} THEN \E error \in refused : Fail(error)
               ELSE Become([Top EXCEPT !.live = Induced(graph, chosen), !.stage = "map"])

Lacking == {d \in Top.live.nodes : ~HasTask(graph, world.disk, <<d, Top.query.task>>)}

(* Mutant: the neighbours are read from the subgraph as it was resolved. *)
WithoutStale(live, d) ==
  LET preds == {a[1] : a \in {b \in Arrows(graph) : b[2] = d}} \cap live.nodes
      succs == {a[2] : a \in {b \in Arrows(graph) : b[1] = d}} \cap live.nodes
  IN [nodes |-> live.nodes \ {d},
      arrows |-> {a \in live.arrows \cup (preds \X succs) : d \notin {a[1], a[2]}}]

(* The packages without the task are taken out one at a time, in an order the
   map of packages decides. *)
Without(live, d) ==
  LET preds == {a[1] : a \in {b \in live.arrows : b[2] = d}}
      succs == {a[2] : a \in {b \in live.arrows : b[1] = d}}
  IN [nodes |-> live.nodes \ {d},
      arrows |-> {a \in live.arrows \cup (preds \X succs) : d \notin {a[1], a[2]}}]

BridgePackage ==
  /\ Querying("map")
  /\ \E d \in Lacking : Become([Top EXCEPT !.live = Without(@, d)])

MapToTasks ==
  LET task == Top.query.task
      tasks == [id \in Top.live.nodes \X {task} |->
                  [deps |-> {<<a[2], task>> : a \in {b \in Top.live.arrows : b[1] = id[1]}},
                   requested |-> TRUE]]
  IN /\ Querying("map") /\ Lacking = {}
     /\ Become([Top EXCEPT !.tasks = tasks, !.stage = "expand",
                           !.frontier = IF Top.query.explicit THEN DOMAIN tasks ELSE {}])

DependsOnOf(id) == Dependencies(graph, world.disk, id)

(* Mutant: tasks found before are followed again. *)
FollowAll(ids) == ids

NotYetQueried(ids) == ids \ DOMAIN Top.tasks

AddDependencies ==
  LET refused == UNION {DependencyErrors(graph, world.disk, id) : id \in Top.frontier}
      reached == NotYetQueried(UNION {DependsOnOf(id) : id \in Top.frontier})
      Added(id) == IF id \in Top.frontier THEN DependsOnOf(id) ELSE {}
      tasks == [id \in DOMAIN Top.tasks \cup reached |->
                  IF id \in reached THEN [deps |-> {}, requested |-> FALSE]
                  ELSE [Top.tasks[id] EXCEPT !.deps = @ \cup Added(id)]]
  IN /\ Querying("expand") /\ Top.frontier # {}
     /\ IF refused # {} THEN \E error \in refused : Fail(error)
        ELSE Become([Top EXCEPT !.tasks = tasks, !.frontier = reached])

(* The task whose command this query is, the prune rule takes out. *)
Pruned(frame) ==
  IF frame.ctx.calls # <<>> /\ Last(frame.ctx.calls) \in DOMAIN frame.tasks
  THEN Last(frame.ctx.calls) ELSE None

StartPlanning ==
  /\ Querying("expand") /\ Top.frontier = {}
  /\ IF Top.args.strict /\ Unmatched(graph, Top.query.packages.filters) # {} THEN Fail("NoPackagesMatched")
     ELSE Become([Top EXCEPT !.pruned = Pruned(Top), !.stage = "plan"])

(* In one fixed order; only the tasks asked for get the extra arguments. *)
PlanNextTask ==
  LET left == DOMAIN Top.tasks \ ({Top.pruned} \cup DOMAIN Top.planned)
      id == CHOOSE t \in left : TRUE
  IN /\ Querying("plan") /\ left # {}
     /\ PlanTask(Top, id, [Top.ctx EXCEPT !.extra = IF Top.tasks[id].requested THEN Top.args.extra ELSE <<>>], TRUE)

WireTasks ==
  LET kept == DOMAIN Top.planned
      direct == UNION {{<<id, e>> : e \in Top.tasks[id].deps \cap kept} : id \in kept}
      through == IF Top.pruned = None THEN {}
                 ELSE {id \in kept : Top.pruned \in Top.tasks[id].deps}
                        \X (Top.tasks[Top.pruned].deps \cap kept)
  IN /\ Querying("plan") /\ kept = DOMAIN Top.tasks \ {Top.pruned}
     /\ Become([Top EXCEPT !.stage = "wired", !.edges = IF Top.args.parallel THEN {} ELSE direct \cup through])

Cyclic(edges) == \E e \in edges : e[1] \in Reached(edges, {e[2]}) \cup {e[2]}

(* Selecting no package is fine, selecting packages that lack the task is not. *)
FinishQuery ==
  LET result == [nodes |-> Top.planned, edges |-> Top.edges, limit |-> Concurrency(Top.args, Top.ctx.envs)]
      empty == DOMAIN Top.planned = {}
      noPackages == ResolveQuery(graph, Top.query.packages) = {}
      caller == frames[Len(frames) - 1]
  IN /\ Querying("wired")
     /\ CASE Cyclic(Top.edges) -> Fail("CycleDependencyDetected")
          [] ~Cyclic(Top.edges) /\ Len(frames) = 1 ->
               IF ~empty THEN End([kind |-> "plan", graph |-> result])
               ELSE IF noPackages THEN End([kind |-> "nothing"])
               ELSE IF IsCwdOnly(Top.args) /\ Top.args.limit = None /\ ~Top.args.parallel THEN ShowSelector
               ELSE Fail("NoTasksMatched")
          [] OTHER ->
               IF empty /\ ~noPackages THEN Fail("NoTasksMatched")
               ELSE /\ frames' = Append(Front(Callers),
                                       [caller EXCEPT !.items = Append(@, [kind |-> "expanded", graph |-> result])])
                    /\ UNCHANGED <<session, outcome>>

-----------------------------------------------------------------------------
(* A task: its pre hook, its commands step by step, its post hook. *)

Hook(when) == IF Top.hooks /\ RootSettings(graph, world.disk).prePost
              THEN ScriptHook(graph, world.disk, Top.id, HookName(when, Top.id[2])) ELSE None

(* Mutant: the hook runs in the task's own context. *)
RunHookWithArgs(when, next) ==
  /\ Expanding(when)
  /\ IF Hook(when) = None THEN Become([Top EXCEPT !.stage = next])
     ELSE PlanTask([Top EXCEPT !.stage = next], Hook(when), Top.ctx, FALSE)

RunHook(when, next) ==
  /\ Expanding(when)
  /\ IF Hook(when) = None THEN Become([Top EXCEPT !.stage = next])
     ELSE PlanTask([Top EXCEPT !.stage = next], Hook(when), [Top.ctx EXCEPT !.extra = <<>>], FALSE)

PreHook == RunHook("pre", "commands")
PostHook == RunHook("post", "return")

Commands == Task(graph, world.disk, Top.id).commands
Command == Commands[Top.command]
OwnCache(ctx) == EffectiveCache(Task(graph, world.disk, Top.id), ctx.cache)

LastCommand == Top.command = Len(Commands)
LastStep == LastCommand /\ Top.step = Len(Command.steps)
Extra(last) == IF last THEN Top.ctx.extra ELSE <<>>

Advance(frame) ==
  IF Command.kind = "shell" \/ frame.step = Len(Command.steps)
  THEN [frame EXCEPT !.command = @ + 1, !.step = 1] ELSE [frame EXCEPT !.step = @ + 1]

Emit(item) == Become(Advance([Top EXCEPT !.items = Append(@, item)]))

(* The context of a step: the call is on the stack, the assignments are made. *)
StepContext ==
  [Top.ctx EXCEPT !.calls = Append(@, Top.id), !.envs = Over(Command.steps[Top.step].envs, @)]

AtStep(kind) ==
  /\ Expanding("commands") /\ Top.command <= Len(Commands) /\ Command.kind = "steps"
  /\ Command.steps[Top.step].kind = kind

Here == Command.steps[Top.step]

(* The target is appended as it is written; an absolute one replaces. *)
Join(dir, target) == IF target.absolute THEN target.parts ELSE dir \o target.parts

ChangeDirectory ==
  LET targets == Here.targets \o Extra(LastStep)
  IN /\ AtStep("cd")
     /\ IF Len(targets) > 1 THEN Fail("TooManyArgs")
        ELSE Become(Advance([Top EXCEPT !.cwd = IF targets = <<>> THEN Home ELSE Join(@, targets[1])]))

Echo == AtStep("echo") /\ Emit([kind |-> "inProcess", task |-> Top.id, extra |-> Extra(LastStep)])

NestedArgs == [Here.args EXCEPT !.extra = @ \o Extra(LastStep)]

(* A nested run of the query being planned adds nothing and is skipped. *)
NestedRun ==
  LET call == QueryCall(StepContext, NestedArgs, Top.cwd)
  IN /\ AtStep("run")
     /\ IF Conflict(NestedArgs) # None THEN Fail(Conflict(NestedArgs))
        ELSE IF SameQuery(call.query, StepContext) THEN Become(Advance(Top))
        ELSE Call(Advance(Top), call)

Position(step) == <<Top.command, step>>

(* What a cached command records of its directory is relative to the workspace. *)
Outside(cache) == cache # None /\ ~IsPrefix(graph.root, Top.cwd)

SpawnStep(cache) ==
  \E ctx \in {StepContext}, own \in {cache} :
    LET program == Which(Here.program, ctx.path)
    IN CASE program = None -> Fail("WhichError")
         [] program # None /\ Outside(own) -> Fail("PathFingerprint")
         [] OTHER -> Emit(Spawn(Top, ctx, own, Here.envs, program, Position(Top.step), Extra(LastStep)))

(* A command of the program itself that is no run is a process without a cache. *)
OwnCommand == AtStep("own") /\ SpawnStep(None)

SyntheticStep ==
  AtStep("synthetic") /\ SpawnStep(SyntheticCache(OwnCache(StepContext), Here.cache, Top.id[1]))

ToolStep == AtStep("tool") /\ SpawnStep(OwnCache(StepContext))

ShellCommand ==
  /\ Expanding("commands") /\ Top.command <= Len(Commands) /\ Command.kind = "shell"
  /\ IF Outside(OwnCache(Top.ctx)) THEN Fail("PathFingerprint")
     ELSE Emit(Spawn(Top, Top.ctx, OwnCache(Top.ctx), <<>>, <<>>, Position(1), Extra(LastCommand)))

CommandsDone ==
  /\ Expanding("commands") /\ Top.command > Len(Commands)
  /\ Become([Top EXCEPT !.stage = "post"])

(* The items of a hook are the task's own. *)
ReturnTask ==
  LET caller == frames[Len(frames) - 1]
  IN /\ Expanding("return")
     /\ frames' = Append(Front(Callers),
                         IF caller.kind = "query"
                         THEN [caller EXCEPT !.planned = Over(Only(Top.id, Top.items), @)]
                         ELSE [caller EXCEPT !.items = @ \o Top.items])
     /\ UNCHANGED <<session, outcome>>

-----------------------------------------------------------------------------
Init == world \in Scenarios /\ workspace = None /\ graph = None /\ frames = <<>> /\ outcome = Running

Done == outcome # Running /\ outcome.kind # "select" /\ UNCHANGED vars

Next ==
  \/ FindWorkspace \/ LoadGraph \/ Begin \/ Select
  \/ OpenQuery \/ SelectPackages \/ BridgePackage \/ MapToTasks \/ AddDependencies
  \/ StartPlanning \/ PlanNextTask \/ WireTasks \/ FinishQuery
  \/ PreHook \/ PostHook \/ ChangeDirectory \/ Echo \/ NestedRun \/ OwnCommand
  \/ SyntheticStep \/ ToolStep \/ ShellCommand \/ CommandsDone \/ ReturnTask
  \/ Done

Spec == Init /\ [][Next]_vars /\ WF_vars(Next)

-----------------------------------------------------------------------------
(* Properties. *)

(* Expanding nested runs never enters a task that is being expanded, through
   whatever queries, prefixes and hooks the scripts go; check_recursion, the skip
   rule and the prune rule are what stands between a script and itself. *)
NoSelfNesting == \A i \in DOMAIN frames : IsInjective(frames[i].ctx.calls)

(* Planning comes to an end, with cycles among packages, dependsOn and scripts. *)
PlanEnds == <>(outcome.kind \notin {"running", "select"})

(* The tasks a query plans, and the order it gives them, are the ones its
   packages and `dependsOn` ask for, whichever way the packages without the task
   were taken out: a chain of dependencies through them, or through the pruned
   task, still orders the tasks at its ends. *)
Passing(arrows, from, via) ==
  LET first == Next1(arrows, {from}) IN first \cup Reached({a \in arrows : a[1] \in via}, first)

Wanted(frame) ==
  LET chosen == Induced(graph, ResolveQuery(graph, frame.query.packages))
      with == {d \in chosen.nodes : HasTask(graph, world.disk, <<d, frame.query.task>>)}
      asked == with \X {frame.query.task}
      names == UNION {DOMAIN TasksOf(graph, world.disk, d) : d \in graph.nodes}
      ids == {id \in graph.nodes \X names : HasTask(graph, world.disk, id)}
      explicit == IF frame.query.explicit THEN UNION {{<<i, e>> : e \in DependsOnOf(i)} : i \in ids} ELSE {}
      nodes == asked \cup Reached(explicit, asked)
      order == {p \in asked \X asked : p[2][1] \in Passing(chosen.arrows, p[1][1], chosen.nodes \ with)}
                 \cup {e \in explicit : e[1] \in nodes}
  IN [nodes |-> nodes, order |-> order]

OrderKept ==
  \A i \in DOMAIN frames :
    LET frame == frames[i]
        wanted == Wanted(frame)
        kept == wanted.nodes \ {frame.pruned}
    IN frame.kind = "query" /\ frame.stage = "wired" =>
         /\ DOMAIN frame.planned = kept
         /\ frame.edges = IF frame.args.parallel THEN {}
                          ELSE {e \in kept \X kept : e[2] \in Passing(wanted.order, e[1], {frame.pruned})}

(* A task is cached as the nearest enclosing `--cache` or `--no-cache` says, and
   as the workspace says where there is none, however many levels of nested runs
   and hooks lie in between; a task that turned its cache off stays uncached. *)
NearestOverride(i) ==
  LET flagged == {j \in 1..i : frames[j].kind = "query" /\ frames[j].args.override # "none"}
  IN IF flagged = {} THEN "none" ELSE frames[CHOOSE j \in flagged : \A k \in flagged : k <= j].args.override

CacheFollowsFlags ==
  \A i \in DOMAIN frames : frames[i].kind = "task" =>
    LET frame == frames[i]
        task == Task(graph, world.disk, frame.id)
        settings == RootSettings(graph, world.disk).cache
        kinds == CASE NearestOverride(i) = "on" -> {"script", "config"}
                   [] NearestOverride(i) = "none" -> (IF settings.scripts THEN {"script"} ELSE {})
                                                       \cup (IF settings.tasks THEN {"config"} ELSE {})
                   [] OTHER -> {}
        allowed == task.cache # None /\ task.source \in kinds
        OfTool(position) == LET command == task.commands[position[1]]
                            IN command.kind = "shell" \/ command.steps[position[2]].kind = "tool"
    IN \A item \in ToSet(frame.items) : item.kind = "spawn" /\ item.task = frame.id =>
         /\ item.cache # None => allowed
         /\ OfTool(item.position) /\ allowed => item.cache # None

(* The extra arguments of a command line reach the last command of the tasks it
   asks for; no hook and no task that only `dependsOn` brought in sees them. *)
ExtraArgsReach ==
  \A i \in DOMAIN frames : frames[i].kind = "query" =>
    LET frame == frames[i]
    IN \A id \in DOMAIN frame.planned : \A item \in ToSet(frame.planned[id]) :
         LET commands == Task(graph, world.disk, id).commands
             last == Len(commands)
         IN item.kind = "spawn" =>
              item.extra = IF /\ item.task = id /\ frame.tasks[id].requested
                              /\ item.position \in
                                   {<<last, IF commands[last].kind = "shell" THEN 1 ELSE Len(commands[last].steps)>>}
                           THEN frame.args.extra ELSE <<>>

(* A cached command sees no variable that is neither in its fingerprint nor
   declared untracked, the planner's own two excepted. *)
EnvCovered ==
  \A i \in DOMAIN frames : frames[i].kind = "task" =>
    \A item \in ToSet(frames[i].items) : item.kind = "spawn" /\ item.cache # None =>
      \A n \in DOMAIN item.envs :
        \/ n \in DOMAIN item.cache.fingerprint /\ item.cache.fingerprint[n] = item.envs[n]
        \/ GlobMatches(item.cache.config.untracked, n)
        \/ n \in {Marker, ForceColor} /\ item.envs[n] = "1"

(* The package around the current directory is one of the workspace's: finding
   the workspace and loading it read the member globs alike. *)
CwdPackageLoaded ==
  graph # None =>
    LET up == PackagesUp(world.disk, world.cwd)
    IN up # {} /\ IsPrefix(graph.root, Longest(up)) => Longest(up) \in graph.nodes

(* A `cd` in front of a nested run changes the package it runs in: "walks up the
   directory tree" from the directory the command would be in. *)
Clean[dir \in Seq(STRING)] ==
  IF dir = <<>> THEN <<>>
  ELSE IF Last(dir) = ".." THEN LET c == Clean[Front(dir)] IN SubSeq(c, 1, Len(c) - 1)
  ELSE Append(Clean[Front(dir)], Last(dir))

NestedRunsHere ==
  \A i \in DOMAIN frames : frames[i].kind = "query" /\ IsCwdOnly(frames[i].args) =>
    LET path == frames[i].query.packages.filters[1].selector.path
    IN PackageFromCwd(graph, path) = PackageFromCwd(graph, Clean[path])
=============================================================================
