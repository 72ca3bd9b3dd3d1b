----------------------------- MODULE MCPlanner -----------------------------
(* Small workspaces for the planner: a root and three packages, a -> b -> c in
   the plainest of them.  Every family of scenarios varies what one part of the
   planner tells apart.  Other behaviours show the list of tasks (Selector). *)
EXTENDS Planner

VARIABLES
  part,     \* "plan" or "list"
  entries, interactive, notFound, width, query, rows, itemCount, selected, scroll,
  frame, screen, raw, hidden, overlong, choice

R == <<"w">>
A == <<"w", "a">>
B == <<"w", "b">>
C == <<"w", "c">>
Module == <<"w", "a", "node_modules", "x">>
Users == <<"home">>

Empty == [n \in {} |-> None]
One(name, value) == [n \in {name} |-> value]

(* Command lines. *)
Line == [name |-> None, filters |-> <<>>, recursive |-> FALSE, transitive |-> FALSE,
         workspaceRoot |-> FALSE, task |-> "build", override |-> "none", remote |-> None,
         parallel |-> FALSE, limit |-> None, strict |-> FALSE, ignoreDependsOn |-> FALSE,
         extra |-> <<>>]
All == [Line EXCEPT !.recursive = TRUE]

Token == [bang |-> FALSE, leading |-> "none", trailing |-> "none", braced |-> FALSE,
          name |-> None, dir |-> None]
NameToken(name) == [Token EXCEPT !.name = Exactly(name, FALSE)]
DirToken(up, down, glob) == [Token EXCEPT !.dir = [up |-> up, down |-> down, glob |-> glob]]
Filter(tokens) == [Line EXCEPT !.filters = [i \in DOMAIN tokens |-> <<tokens[i]>>]]

(* Steps and commands. *)
Step(kind) == [kind |-> kind, envs |-> Empty]
Tool == [kind |-> "tool", envs |-> Empty, program |-> "tsc"]
Run(line) == [kind |-> "run", envs |-> Empty, args |-> line]
Cd(targets) == [kind |-> "cd", envs |-> Empty, targets |-> targets]
To(parts) == [absolute |-> FALSE, parts |-> parts]
Lint(cache) == [kind |-> "synthetic", envs |-> Empty, program |-> "tsc", cache |-> cache]
Steps(steps) == [kind |-> "steps", steps |-> steps]
Shell == [kind |-> "shell"]

Build(command) == One("build", command)
Tsc == Build(Steps(<<Tool>>))

(* Packages. *)
Dep(name, type) == [key |-> name, alias |-> None, type |-> type, workspace |-> TRUE]
Json(name, deps, scripts) == [name |-> name, workspaces |-> None, deps |-> deps, scripts |-> scripts]
Place(json) == [pnpm |-> None, json |-> json, config |-> None, bin |-> {}]
Nothing == Place(None)

Globs == <<[bangs |-> 0, dirs |-> {<<"a">>, <<"b">>, <<"c">>}]>>

Names == [d \in {R, A, B, C} |->
            CASE d = R -> <<"root">> [] d = A -> <<"a">> [] d = B -> <<"@x", "b">> [] d = C -> <<"c">>]

(* deps are pairs of packages; scripts, for each package, a function. *)
DiskOf(deps, scripts) ==
  [d \in Prefixes(Module) \cup Prefixes(Users) \cup {B, C} |->
     IF d \in {R, A, B, C}
     THEN [Place(Json(Names[d], {Dep(Names[e[2]], "dependencies") : e \in {x \in deps : x[1] = d}}, scripts[d]))
             EXCEPT !.json.workspaces = IF d = R THEN <<>> ELSE None,
                    !.pnpm = IF d = R THEN Globs ELSE None,
                    !.bin = IF d = R THEN {"tsc"} ELSE {}]
     ELSE Nothing]

World(disk, cwd, args) ==
  [disk |-> disk, cwd |-> cwd, args |-> args, envs |-> Empty, system |-> {}, interactive |-> TRUE]

Scripts(root, a, b, c) == [d \in {R, A, B, C} |-> CASE d = R -> root [] d = A -> a [] d = B -> b [] d = C -> c]

-----------------------------------------------------------------------------
(* Which packages, in which order: shapes of the dependencies, packages with
   and without the task, ways to select, and roots that run it again. *)
Shapes == {{<<A, B>>, <<B, C>>}, {<<A, B>>, <<B, C>>, <<C, A>>}, {<<R, A>>, <<A, B>>, <<A, C>>},
           {<<A, R>>, <<R, B>>, <<B, C>>}}

Orders ==
  {World(DiskOf(shape, [d \in {R, A, B, C} |->
                          IF d \in have THEN (IF d = R THEN root ELSE Tsc) ELSE Empty]), cwd, line) :
     shape \in Shapes,
     have \in {{R, A, B, C}, {R, A, C}, {A, C}, {A, B}, {R, C}, {R}},
     root \in {Tsc, Build(Steps(<<Run(All)>>)), Build(Steps(<<Run(Line), Tool>>)),
               Build(Steps(<<Run([All EXCEPT !.parallel = TRUE])>>))},
     cwd \in {R, A},
     line \in {Line, All, [Line EXCEPT !.transitive = TRUE], [Line EXCEPT !.workspaceRoot = TRUE]}}

NamedB == NameToken(<<"b">>)
Lines ==
  {Filter(<<[NamedB EXCEPT !.leading = "dots"]>>),
   Filter(<<[NamedB EXCEPT !.trailing = "caret"]>>),
   Filter(<<[NamedB EXCEPT !.leading = "dots", !.trailing = "dots"]>>),
   Filter(<<[NamedB EXCEPT !.bang = TRUE]>>),
   [Filter(<<DirToken(0, <<>>, {<<"a">>, <<"c">>}), [NamedB EXCEPT !.bang = TRUE]>>) EXCEPT !.workspaceRoot = TRUE],
   Filter(<<[DirToken(0, <<"a">>, None) EXCEPT !.braced = TRUE, !.trailing = "dots"]>>),
   [Filter(<<NameToken(<<"none">>)>>) EXCEPT !.strict = TRUE],
   Filter(<<NameToken(<<"none">>)>>),
   Filter(<<Token>>), [Line EXCEPT !.filters = <<<<>>>>],
   [All EXCEPT !.transitive = TRUE], [All EXCEPT !.name = <<"a">>],
   [Line EXCEPT !.name = <<"b">>], [Line EXCEPT !.name = <<"b">>, !.transitive = TRUE],
   [Line EXCEPT !.task = "test"], [All EXCEPT !.task = "test"],
   [Line EXCEPT !.task = None], [All EXCEPT !.task = None],
   [Line EXCEPT !.task = None, !.override = "off"]}

Selections ==
  {World(DiskOf(shape, Scripts(Empty, Tsc, b, Tsc)), R, line) :
     shape \in Shapes, b \in {Tsc, Empty}, line \in Lines}

-----------------------------------------------------------------------------
(* Levels of nested runs: a's script runs b's and b's runs c's, each level with
   flags of its own and c with each kind of command. *)
In(name, line) == [line EXCEPT !.name = name]
Flags == {Line, [Line EXCEPT !.override = "on"], [Line EXCEPT !.override = "off"],
          [Line EXCEPT !.remote = "read-write", !.extra = <<"-x">>]}

CacheScripts(on) == [flag |-> on, scripts |-> None, tasks |-> None, url |-> None]
CacheUrl == [flag |-> None, scripts |-> TRUE, tasks |-> None, url |-> "https"]
RootConfig(cache, prePost) == [cache |-> cache, prePost |-> prePost, tasks |-> Empty]
WithRoot(disk, config) == [disk EXCEPT ![R].config = config]

Levels ==
  {World(WithRoot(DiskOf({}, Scripts(Empty, Build(Steps(<<Run(In(<<"b">>, first)), Tool>>)),
                                     Build(Steps(<<Run(In(<<"c">>, second))>>)), Build(last))),
                  RootConfig(cache, None)), A, line) :
     first \in Flags, second \in Flags, line \in Flags,
     last \in {Steps(<<Lint(None), Tool>>), Shell},
     cache \in {None, CacheScripts(TRUE), CacheUrl}}

(* Scripts that run themselves: directly, through each other, from a hook, after
   a `cd`; and the hooks around a script that is given arguments. *)
TestOf(package) == [Line EXCEPT !.name = package, !.task = "test"]
Hooks(pre, main, post) == [n \in {"prebuild", "build", "postbuild"} |->
                             CASE n = "prebuild" -> pre [] n = "build" -> main [] n = "postbuild" -> post]
Loops ==
  {Build(Steps(<<Run(In(<<"a">>, Line))>>)),
   Build(Steps(<<Run(In(<<"b">>, Line)), Run(Line)>>)),
   [n \in {"build", "test"} |-> IF n = "build" THEN Steps(<<Run(TestOf(None)), Tool>>)
                                ELSE Steps(<<Tool, Run(All)>>)],
   Hooks(Steps(<<Run(Line)>>), Steps(<<Tool>>), Shell),
   Hooks(Steps(<<Run(All)>>), Shell, Steps(<<Tool>>)),
   Hooks(Steps(<<Tool>>), Steps(<<Tool, Tool>>), Steps(<<[kind |-> "own", envs |-> Empty, program |-> "tsc"]>>)),
   Build(Steps(<<Cd(<<To(<<"..", "b">>)>>), Run(Line)>>)),
   Build(Steps(<<Cd(<<To(<<"..">>)>>), Run(Line)>>)),
   Build(Steps(<<Cd(<<>>), Run(Line)>>)),
   Build(Steps(<<Cd(<<[absolute |-> TRUE, parts |-> B]>>), [kind |-> "echo", envs |-> Empty], Run(Line)>>)),
   Build(Steps(<<Tool, Cd(<<To(<<"x">>)>>)>>)),
   Build(Steps(<<Tool, [Tool EXCEPT !.program = "none"]>>)),
   Build(Steps(<<[Lint(None) EXCEPT !.program = "none"]>>)),
   Build(Steps(<<Cd(<<>>), [kind |-> "own", envs |-> Empty, program |-> "none"]>>))}

Scripted ==
  {World(WithRoot(DiskOf({<<A, B>>}, Scripts(root, a, Build(b), Tsc)), RootConfig(None, hooks)), A, line) :
     root \in {Empty, Build(Steps(<<Run(All)>>))}, a \in Loops,
     b \in {Steps(<<Tool>>), Steps(<<Run(In(<<"a">>, Line))>>), Steps(<<Run([Filter(<<Token>>) EXCEPT !.extra = <<>>])>>)},
     hooks \in {None, FALSE},
     line \in {Line, [Line EXCEPT !.extra = <<"-x">>], [All EXCEPT !.limit = 0]}}

(* Configured tasks: what they depend on, their caches, and files that are
   refused. *)
Definition(commands) == [commands |-> commands, dependsOn |-> None, cwd |-> <<>>, cache |-> None, stale |-> FALSE]
OnTask(package, task) == [kind |-> "task", package |-> package, task |-> task]
OnPackages(types, task) == [kind |-> "packages", types |-> types, task |-> task]
Cache(on) == [NoCacheSettings EXCEPT !.on = on]
Entry(negated, base, up, tail) == [kind |-> "glob", negated |-> negated, base |-> base, up |-> up, tail |-> tail]
Auto(on) == [kind |-> "auto", on |-> on]

Depending == {<<OnTask(None, "gen")>>, <<OnTask(None, "build")>>, <<OnTask(<<"c">>, "gen")>>,
              <<OnTask(<<"none">>, "build")>>, <<OnTask(None, "none")>>,
              <<OnPackages({"dependencies"}, "gen"), OnTask(<<"@x", "b">>, "gen")>>,
              <<OnPackages({"devDependencies"}, "gen")>>}

Configured(tasks) == [cache |-> None, prePost |-> None, tasks |-> tasks]
Tasks(build, gen) == Configured([n \in {"build", "gen"} |-> IF n = "build" THEN build ELSE gen])
Gen == Definition(<<Steps(<<Tool>>)>>)

Explicit ==
  {World([DiskOf({<<A, B>>, <<A, C>>}, Scripts(Empty, Empty, [n \in {"gen"} |-> Steps(<<Tool>>)], Empty)) EXCEPT
            ![A].config = Tasks([Definition(<<Shell, Steps(<<Tool>>)>>) EXCEPT !.dependsOn = depends],
                                [Gen EXCEPT !.dependsOn = back]),
            ![C].config = c],
         A, line) :
     depends \in Depending, back \in {None, <<OnTask(None, "build")>>},
     c \in {None, Tasks(Gen, [Gen EXCEPT !.dependsOn = <<OnTask(<<"a">>, "gen")>>]),
            Configured([n \in {"gen"} |-> [Gen EXCEPT !.stale = TRUE]]),
            [Configured(Empty) EXCEPT !.prePost = TRUE]},
     line \in {[Line EXCEPT !.extra = <<"-x">>], [Line EXCEPT !.ignoreDependsOn = TRUE]}}

Caches == {None, Cache(FALSE), [Cache(TRUE) EXCEPT !.remote = FALSE, !.input = <<Auto(FALSE), Entry(FALSE, "package", 0, "src")>>],
           [Cache(TRUE) EXCEPT !.output = <<Entry(TRUE, "workspace", 0, "dist"), Auto(TRUE)>>],
           [Cache(TRUE) EXCEPT !.input = <<Entry(FALSE, "package", 2, "out")>>]}
Patterns == {{}, {[negated |-> FALSE, names |-> {"MODE", ForceColor, Marker}]},
             {[negated |-> FALSE, names |-> {"MODE", "KEY"}], [negated |-> TRUE, names |-> {"MODE"}]}}
Environments == {Empty, [n \in {"MODE", "KEY", Marker} |-> "v"]}

Cached ==
  {[World([DiskOf({}, Scripts(Empty, Empty, Empty, Empty)) EXCEPT
             ![A].config = Configured(Build([Definition(<<Steps(<<
                 [Tool EXCEPT !.envs = prefix], Lint(lint)>>)>>) EXCEPT
                   !.cache = IF cache = None \/ ~cache.on THEN cache
                             ELSE [cache EXCEPT !.env = env, !.untracked = untracked]]))], A, Line)
      EXCEPT !.envs = envs, !.system = {"tsc"}] :
     cache \in Caches, lint \in {None, Cache(FALSE), [Cache(TRUE) EXCEPT !.env = {[negated |-> FALSE, names |-> {"KEY"}]},
                                                          !.input = <<Entry(FALSE, "package", 0, "lint")>>]},
     env \in Patterns, untracked \in Patterns, envs \in Environments,
     prefix \in {Empty, [n \in {"KEY", Marker} |-> "p"]}}

(* Commands after a `cd` out of the workspace, with and without a cache. *)
Abroad ==
  {World([DiskOf({}, Scripts(Empty, Empty, Empty, Empty)) EXCEPT
            ![A].config = Configured(Build(Definition(commands)))], A, line) :
     commands \in {<<Steps(<<Cd(<<>>), Tool>>)>>, <<Steps(<<Tool, Cd(<<>>)>>), Shell>>,
                   <<Steps(<<Cd(<<>>), Lint(None), Cd(<<[absolute |-> TRUE, parts |-> B]>>), Tool>>)>>},
     line \in {Line, [Line EXCEPT !.override = "off"]}}

Refused ==
  {World([DiskOf({<<A, C>>}, Scripts(Tsc, Tsc, Tsc, Tsc)) EXCEPT ![d].config = config], A, line) :
     d \in {R, A, B},
     config \in {RootConfig(CacheScripts(FALSE), None), RootConfig(None, TRUE), Configured(Build(Gen)),
                 Configured([n \in {"gen"} |-> [Gen EXCEPT !.stale = TRUE]])},
     line \in {Line, All, [Line EXCEPT !.task = None], [Line EXCEPT !.parallel = TRUE]}}

(* Environment of the remote cache and of the limit. *)
Controlled ==
  {[World(WithRoot(DiskOf({}, Scripts(Empty, Tsc, Empty, Empty)), RootConfig(cache, None)), A, line) EXCEPT !.envs = envs] :
     cache \in {None, CacheUrl}, line \in {Line, [Line EXCEPT !.remote = "off"], [Line EXCEPT !.remote = "read"]},
     envs \in {One(ModeEnv, "read-write"), One(ModeEnv, "none"), One(UrlEnv, "https"), One(UrlEnv, ""),
               One(LimitEnv, 0), One(LimitEnv, -1)}}

-----------------------------------------------------------------------------
(* Where the workspace is: member globs and directories to start from. *)
Glob(bangs, dirs) == [bangs |-> bangs, dirs |-> dirs]
MemberLists == {<<>>, Globs, <<Glob(0, {<<"a">>, <<"b">>}), Glob(1, {<<"a">>})>>,
                <<Glob(1, {<<"a">>}), Glob(2, {<<"a">>})>>,
                <<Glob(0, {<<"a">>, <<"a", "node_modules", "x">>})>>}

Discovered ==
  {World([DiskOf({<<A, B>>}, Scripts(Tsc, Tsc, Tsc, Tsc)) EXCEPT
            ![R].pnpm = pnpm,
            ![R].json.workspaces = members,
            ![Module].json = Json(<<"x">>, {Dep(<<"a">>, "dependencies")}, Tsc),
            ![<<>>].json = outer, ![C].json.name = name],
         cwd, Line) :
     pnpm \in MemberLists \cup {None}, members \in {None, Globs, <<Glob(1, {<<"b">>})>>},
     outer \in {None, [Json(<<"top">>, {}, Tsc) EXCEPT !.workspaces = <<Glob(0, {<<"w">>, <<"w", "a">>})>>]},
     name \in {<<"c">>, <<"a">>}, cwd \in {R, A, Module, Users}}

AllScenarios ==
  Orders \cup Selections \cup Levels \cup Scripted \cup Explicit \cup Cached \cup Abroad \cup Refused
    \cup Controlled \cup Discovered

Hooked(when, name) ==
  CASE when = "pre" /\ name = "build" -> "prebuild" [] when = "post" /\ name = "build" -> "postbuild"
    [] OTHER -> "none"

-----------------------------------------------------------------------------
(* Lists of tasks: none, and two of the current package and of others, whose
   names are narrow and wide.  Task 3 matches every query, as `build` does `b`,
   `l` and `bl`. *)
TaskEntry(package, task, name, command, current) ==
  [package |-> package, path |-> <<package>>, task |-> task, width |-> name,
   command |-> command, current |-> current]

Lists ==
  {<<>>,
   <<TaskEntry(2, 1, 5, 9, FALSE), TaskEntry(1, 1, 5, 3, TRUE), TaskEntry(3, 2, 4, 0, FALSE),
     TaskEntry(1, 2, 4, 20, TRUE), TaskEntry(3, 3, 5, 2, FALSE)>>,
   <<TaskEntry(2, 1, 5, 9, FALSE), TaskEntry(2, 2, 12, 30, FALSE), TaskEntry(3, 2, 4, 0, FALSE),
     TaskEntry(3, 1, 4, 3, FALSE), TaskEntry(0, 3, 4, 20, FALSE), TaskEntry(1, 3, 5, 1, TRUE)>>}

Rank(text, label) ==
  LET task == Last(label) IN
  IF \A i \in DOMAIN text : task \in {3, text[i]}
    THEN 10 * Len(text) - 3 * Len(label) - (IF task = 3 THEN 4 ELSE 0) ELSE None

List == INSTANCE Selector WITH
  outcome <- choice, EntryLists <- Lists, Score <- Rank, Letters <- {1, 2, 3},
  Widths <- {14, 18, 40}, PageSize <- 3, MaxQuery <- 3, MaxStale <- 1,
  Texts <- [package |-> 3, group |-> 8, header |-> 10, prompt |-> 13, more |-> 8, nothing |-> 14]

listVars == <<entries, interactive, notFound, width, query, rows, itemCount, selected, scroll,
              frame, screen, raw, hidden, overlong, choice>>

NoList ==
  /\ entries = None /\ interactive = None /\ notFound = None /\ width = None /\ query = None
  /\ rows = None /\ itemCount = None /\ selected = None /\ scroll = None /\ frame = None
  /\ screen = None /\ raw = None /\ hidden = None /\ overlong = None /\ choice = None

PlanningInit ==
  \/ part = "plan" /\ Init /\ NoList
  \/ /\ part = "list" /\ List!SelectInit
     /\ world = None /\ workspace = None /\ graph = None /\ frames = <<>> /\ outcome = Running

Chosen == choice.kind \notin {"none", "choosing"} /\ UNCHANGED listVars

PlanningNext ==
  /\ \/ part = "plan" /\ Next /\ UNCHANGED listVars
     \/ part = "list" /\ (List!SelectNext \/ Chosen) /\ UNCHANGED vars
  /\ UNCHANGED part

PlanningSpec ==
  PlanningInit /\ [][PlanningNext]_<<part, vars, listVars>> /\ WF_vars(part = "plan" /\ Next)

(* Planning comes to an end, with cycles among packages, dependsOn and
   scripts (Planner). *)
PlansEnd == part = "plan" => PlanEnds

(* What Enter runs is what is marked, the list is whole, and the terminal shows
   one frame and is given back (Selector). *)
ChoiceShown == part = "list" => List!ChoiceShown
=============================================================================
