----------------------------- MODULE TaskGraph -----------------------------
(* The tasks of a package and the tasks they depend on (vt_graph): what loading
   one package's configuration yields or refuses, and what resolving the
   `dependsOn` of one task yields or refuses.

   disk[d].config is the user's configuration of package d: cache (workspace
   wide settings), prePost (enablePrePostScripts) and tasks, a function from
   names to definitions; None stands for a field, or a file, that is missing.
   `cache: true` and `cache: false` are the flag of the workspace's record and the
   `on` of a task's.  A definition has commands, dependsOn, cwd (components below
   the package), cache and stale (cache settings left at the top level of the
   task).  A task is identified by <<package, name>>. *)
EXTENDS PackageFilter

NoConfig == [cache |-> None, prePost |-> None, tasks |-> <<>>]

ConfigOf(disk, d) == IF disk[d].config = None THEN NoConfig ELSE disk[d].config

UnwrapOr(value, default) == IF value = None THEN default ELSE value

-----------------------------------------------------------------------------
(* Settings of the workspace. *)

ResolvedGlobalCache(cache) ==
  CASE cache = None -> [scripts |-> FALSE, tasks |-> TRUE, url |-> None]
    [] cache # None /\ cache.flag # None -> [scripts |-> cache.flag, tasks |-> cache.flag, url |-> None]
    [] OTHER -> [scripts |-> UnwrapOr(cache.scripts, FALSE), tasks |-> UnwrapOr(cache.tasks, TRUE),
                 url |-> cache.url]

RootSettings(graph, disk) ==
  LET config == ConfigOf(disk, graph.root)
  IN [cache |-> ResolvedGlobalCache(config.cache), prePost |-> UnwrapOr(config.prePost, TRUE)]

-----------------------------------------------------------------------------
(* The inputs and outputs of a task.  An entry is `auto`, or a glob with the
   directory it starts from, the steps it climbs and what it selects there. *)

DefaultAuto == [auto |-> TRUE, positive |-> {}, negative |-> {}]

BaseOf(entry, d, root) == IF entry.base = "workspace" THEN root ELSE d

GlobDirectory(entry, d, root) ==
  LET base == BaseOf(entry, d, root) IN SubSeq(base, 1, Len(base) - entry.up)

GlobOutside(entry, d, root) ==
  entry.kind = "glob" /\ ~IsPrefix(root, GlobDirectory(entry, d, root))

(* Globs are kept relative to the workspace. *)
ResolvedGlobs(entries, d, root) ==
  LET Globs(negated) == {<<Below(GlobDirectory(e, d, root), root), e.tail>> :
                           e \in {x \in ToSet(entries) : x.kind = "glob" /\ x.negated = negated}}
  IN IF entries = None THEN DefaultAuto
     ELSE [auto |-> \E e \in ToSet(entries) : e.kind = "auto" /\ e.on,
           positive |-> Globs(FALSE), negative |-> Globs(TRUE)]

NoCacheSettings == [on |-> TRUE, env |-> None, untracked |-> None, input |-> None,
                    output |-> None, remote |-> None]

IntoEnabled(cache) ==
  IF cache = None THEN NoCacheSettings ELSE IF cache.on THEN cache ELSE None

(* `untracked` always has the built-in names, which the instance leaves out. *)
ResolvedCache(cache, d, root) ==
  LET enabled == IntoEnabled(cache)
  IN IF enabled = None THEN None
     ELSE [remote |-> UnwrapOr(enabled.remote, TRUE),
           env |-> UnwrapOr(enabled.env, {}), untracked |-> UnwrapOr(enabled.untracked, {}),
           input |-> ResolvedGlobs(enabled.input, d, root),
           output |-> ResolvedGlobs(enabled.output, d, root)]

RefusedGlobs(cache, d, root) ==
  LET enabled == IntoEnabled(cache)
  IN enabled # None /\ \E entries \in {enabled.input, enabled.output} :
                         entries # None /\ \E e \in ToSet(entries) : GlobOutside(e, d, root)

-----------------------------------------------------------------------------
(* Loading a package.  The tasks come from a map, so that of two refusals either
   may be the one reported; cache settings at the top level of a task are
   reported when nothing else is wrong. *)

ScriptsOf(graph, d) == graph.package[d].scripts

LoadErrors(graph, disk, d) ==
  LET config == ConfigOf(disk, d)
      names == DOMAIN config.tasks
      early == (IF names \cap DOMAIN ScriptsOf(graph, d) # {} THEN {"ScriptConflict"} ELSE {}) \cup
               (IF \E n \in names : RefusedGlobs(config.tasks[n].cache, d, graph.root)
                THEN {"ResolveConfigError"} ELSE {})
  IN CASE d # graph.root /\ config.cache # None -> {"CacheInNonRootPackage"}
       [] d # graph.root /\ config.cache = None /\ config.prePost # None
            -> {"PrePostScriptsInNonRootPackage"}
       [] OTHER -> IF early = {} /\ \E n \in names : config.tasks[n].stale
                   THEN {"TopLevelCacheFields"} ELSE early

TaskConfigNode(definition, d, root) ==
  [commands |-> definition.commands, cwd |-> d \o definition.cwd, source |-> "config",
   cache |-> ResolvedCache(definition.cache, d, root), dependsOn |-> definition.dependsOn]

ScriptNode(script, d, root) ==
  [commands |-> <<script>>, cwd |-> d, source |-> "script",
   cache |-> ResolvedCache(None, d, root), dependsOn |-> None]

TasksOf(graph, disk, d) ==
  LET tasks == ConfigOf(disk, d).tasks
      scripts == ScriptsOf(graph, d)
  IN [n \in DOMAIN tasks \cup DOMAIN scripts |->
        IF n \in DOMAIN tasks THEN TaskConfigNode(tasks[n], d, graph.root)
        ELSE ScriptNode(scripts[n], d, graph.root)]

HasTask(graph, disk, id) == id[2] \in DOMAIN TasksOf(graph, disk, id[1])

Task(graph, disk, id) == TasksOf(graph, disk, id[1])[id[2]]

-----------------------------------------------------------------------------
(* The dependencies of a task.  An entry names a task, of the package itself
   when it names no package, or a task of the packages that the package depends
   on through the given kinds of dependency, wherever they define it. *)

SpecifierPackages(graph, entry, origin) ==
  IF entry.package = None THEN {origin} ELSE IndicesByName(graph, entry.package)

DependencyPackages(graph, entry, origin) ==
  {e[2] : e \in {x \in graph.edges : x[1] = origin /\ x[3] \in entry.types}}

EntryPackages(graph, entry, origin) ==
  IF entry.kind = "task" THEN SpecifierPackages(graph, entry, origin)
  ELSE DependencyPackages(graph, entry, origin)

EntryErrors(graph, disk, entry, origin) ==
  LET packages == EntryPackages(graph, entry, origin)
      refused == UNION {LoadErrors(graph, disk, d) : d \in packages}
  IN CASE entry.kind = "task" /\ packages = {} -> {"PackageNameNotFound"}
       [] entry.kind = "task" /\ Cardinality(packages) > 1 -> {"AmbiguousPackageName"}
       [] entry.kind = "task" /\ Cardinality(packages) = 1 ->
            IF refused # {} THEN refused
            ELSE {"TaskNameNotFound" : d \in {p \in packages : ~HasTask(graph, disk, <<p, entry.task>>)}}
       [] entry.kind = "packages" -> refused

DependsOn(graph, disk, id) == UnwrapOr(Task(graph, disk, id).dependsOn, <<>>)

(* The entries are resolved in order: the first that fails is reported. *)
DependencyErrors(graph, disk, id) ==
  LET entries == DependsOn(graph, disk, id)
      Errors(i) == EntryErrors(graph, disk, entries[i], id[1])
      failing == {i \in DOMAIN entries : Errors(i) # {}}
  IN IF failing = {} THEN {} ELSE Errors(CHOOSE i \in failing : \A j \in failing : i <= j)

Dependencies(graph, disk, id) ==
  UNION {{<<d, entry.task>> : d \in {p \in EntryPackages(graph, entry, id[1]) :
                                       HasTask(graph, disk, <<p, entry.task>>)}} :
           entry \in ToSet(DependsOn(graph, disk, id))}

(* The pre or post script of a script; only scripts hook scripts. *)
ScriptHook(graph, disk, id, hookName) ==
  LET hook == <<id[1], hookName>>
  IN IF /\ Task(graph, disk, id).source = "script"
        /\ HasTask(graph, disk, hook)
        /\ Task(graph, disk, hook).source = "script"
     THEN hook ELSE None
=============================================================================
