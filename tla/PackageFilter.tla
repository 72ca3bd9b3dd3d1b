--------------------------- MODULE PackageFilter ---------------------------
(* Which packages a command line selects: the flags and `--filter` tokens as a
   query (package_filter.rs), the query as packages and the edges among them
   (package_graph.rs).

   A token is what stands before and after its core -- bang, leading and
   trailing, each "none", "dots" (`...`) or "caret" (`...^`, `^...`) -- and the
   core's name and directory, None where it has none; braced says the directory
   is in braces.  A name pattern is an exact name or the set of names a glob
   matches; a directory is the steps up from the current one, the components
   down, and None or the remainders the glob part matches. *)
EXTENDS Workspace

ByName(name) == [name |-> name, dir |-> None]

Exactly(name, unique) == [exact |-> name, unique |-> unique, names |-> {}]

-----------------------------------------------------------------------------
(* Parsing. *)

(* `exclude_self` is set by a caret on either side. *)
Traversal(token) ==
  LET down == token.trailing # "none"
      up == token.leading # "none"
  IN IF ~down /\ ~up THEN None
     ELSE [direction |-> IF down /\ up THEN "both" ELSE IF down THEN "dependencies" ELSE "dependents",
           excludeSelf |-> "caret" \in {token.leading, token.trailing}]

ResolveDirectory(dir, cwd) ==
  [base |-> SubSeq(cwd, 1, Len(cwd) - dir.up) \o dir.down, glob |-> dir.glob]

(* A path outside braces takes no traversal, as `..` and `...` are ambiguous. *)
ParseFilter(token, cwd) ==
  [exclude |-> token.bang,
   selector |-> [kind |-> "match", name |-> token.name,
                 dir |-> IF token.dir = None THEN None ELSE ResolveDirectory(token.dir, cwd)],
   traversal |-> IF token.dir # None /\ ~token.braced THEN None ELSE Traversal(token),
   source |-> token]

EmptySelector(token) == token.name = None /\ token.dir = None

-----------------------------------------------------------------------------
(* The query of a command line.  args.filters holds the tokens of each
   `--filter`, args.name the package of `<package>#<task>`. *)

Synthetic(selector, transitive) ==
  [exclude |-> FALSE, selector |-> selector, source |-> None,
   traversal |-> IF transitive THEN [direction |-> "dependencies", excludeSelf |-> FALSE]
                 ELSE None]

RootSelector == [kind |-> "root"]
Containing(cwd) == [kind |-> "containing", path |-> cwd]

(* The conflicts, in the order the match names them. *)
Conflicts(args) ==
  LET filtered == args.filters # <<>>
      named == args.name # None
  IN <<<<\E i \in DOMAIN args.filters : args.filters[i] = <<>>, "EmptyFilter">>,
       <<args.recursive /\ args.transitive, "RecursiveTransitiveConflict">>,
       <<args.recursive /\ filtered, "FilterWithRecursive">>,
       <<args.recursive /\ named, "PackageNameWithRecursive">>,
       <<args.transitive /\ filtered, "FilterWithTransitive">>,
       <<filtered /\ named, "PackageNameWithFilter">>,
       <<args.workspaceRoot /\ named, "PackageNameWithWorkspaceRoot">>,
       <<\E i \in DOMAIN args.filters : \E token \in ToSet(args.filters[i]) : EmptySelector(token),
         "EmptySelector">>>>

Conflict(args) ==
  LET hit == {i \in DOMAIN Conflicts(args) : Conflicts(args)[i][1]}
  IN IF hit = {} THEN None ELSE Conflicts(args)[CHOOSE i \in hit : \A j \in hit : i <= j][2]

IntoPackageQuery(args, cwd) ==
  LET tokens == FlattenSeq(args.filters)
      parsed == [i \in DOMAIN tokens |-> ParseFilter(tokens[i], cwd)]
      selector == IF args.workspaceRoot THEN RootSelector
                  ELSE IF args.name # None
                       THEN [kind |-> "match", name |-> Exactly(args.name, TRUE), dir |-> None]
                       ELSE Containing(cwd)
  IN IF args.recursive THEN [all |-> TRUE, filters |-> <<>>]
     ELSE [all |-> FALSE,
           filters |-> IF tokens = <<>> THEN <<Synthetic(selector, args.transitive)>>
                       ELSE parsed \o (IF args.workspaceRoot THEN <<Synthetic(RootSelector, FALSE)>>
                                       ELSE <<>>)]

(* No flag, no filter and no package: the run may ask for a task instead. *)
IsCwdOnly(args) ==
  args.filters = <<>> /\ args.name = None
    /\ ~args.recursive /\ ~args.transitive /\ ~args.workspaceRoot

-----------------------------------------------------------------------------
(* Selectors. *)

IndicesByName(graph, name) == {d \in graph.nodes : graph.package[d].name = name}

Scoped(graph, name) ==
  {d \in graph.nodes : LET full == graph.package[d].name
                       IN name # <<>> /\ Len(full) = Len(name) + 1 /\ IsSuffix(name, full)}

Ambiguous(graph, pattern) ==
  pattern.exact # None /\ pattern.unique
    /\ Cardinality(IndicesByName(graph, pattern.exact)) > 1

(* A bare name no package has stands for the one scoped name that ends in it. *)
MatchByName(graph, pattern) ==
  IF pattern.exact = None THEN {d \in graph.nodes : graph.package[d].name \in pattern.names}
  ELSE IF IndicesByName(graph, pattern.exact) # {} THEN IndicesByName(graph, pattern.exact)
  ELSE IF Cardinality(Scoped(graph, pattern.exact)) = 1 THEN Scoped(graph, pattern.exact)
  ELSE {}

MatchByDirectory(graph, dir) ==
  {d \in graph.nodes : IF dir.glob = None THEN d = dir.base
                       ELSE IsPrefix(dir.base, d) /\ Below(d, dir.base) \in dir.glob}

PackageFromCwd(graph, cwd) == LET up == Prefixes(cwd) \cap graph.nodes
                              IN {d \in up : \A e \in up : Len(e) <= Len(d)}

Selected(graph, selector) ==
  CASE selector.kind = "root" -> {graph.root}
    [] selector.kind = "containing" -> PackageFromCwd(graph, selector.path)
    [] OTHER ->
         {d \in graph.nodes :
            /\ selector.name # None => d \in MatchByName(graph, selector.name)
            /\ selector.dir # None => d \in MatchByDirectory(graph, selector.dir)}

-----------------------------------------------------------------------------
(* Traversal.  What a breadth-first search inserts: a seed only when an edge
   leads back to it. *)

Next1(arrows, from) == {a[2] : a \in {b \in arrows : b[1] \in from}}

Reached(arrows, seeds) ==
  LET layer[n \in 0..Cardinality(arrows)] ==
        IF n = 0 THEN Next1(arrows, seeds)
        ELSE UNION {found \cup Next1(arrows, found) : found \in {layer[n - 1]}}
  IN layer[Cardinality(arrows)]

Arrows(graph) == {<<e[1], e[2]>> : e \in graph.edges}
Reversed(arrows) == {<<a[2], a[1]>> : a \in arrows}

(* Both directions: the dependencies of every dependent too. *)
ExpandTraversal(graph, seeds, traversal) ==
  LET arrows == Arrows(graph)
      dependents == Reached(Reversed(arrows), seeds)
      reachable == CASE traversal.direction = "dependencies" -> Reached(arrows, seeds)
                     [] traversal.direction = "dependents" -> dependents
                     [] OTHER ->
                          Reached(arrows, seeds \cup dependents) \cup dependents
  IN IF traversal.excludeSelf THEN reachable \ seeds ELSE reachable \cup seeds

Expanded(graph, filter) ==
  LET seeds == Selected(graph, filter.selector)
  IN IF filter.traversal = None THEN seeds ELSE ExpandTraversal(graph, seeds, filter.traversal)

-----------------------------------------------------------------------------
(* Resolution: inclusions are united, then exclusions taken away, whatever the
   order of the filters; with no inclusion every package is a candidate. *)

Inclusions(filters) == {f \in ToSet(filters) : ~f.exclude}
Exclusions(filters) == {f \in ToSet(filters) : f.exclude}

Induced(graph, nodes) ==
  [nodes |-> nodes, arrows |-> {a \in Arrows(graph) : a[1] \in nodes /\ a[2] \in nodes}]

ResolveFilters(graph, filters) ==
  LET candidates == IF Inclusions(filters) = {} THEN graph.nodes
                    ELSE UNION {Expanded(graph, f) : f \in Inclusions(filters)}
  IN candidates \ UNION {Expanded(graph, f) : f \in Exclusions(filters)}

(* Filters the user typed that selected nothing. *)
Unmatched(graph, filters) ==
  {f.source : f \in {g \in Inclusions(filters) : g.source # None /\ Expanded(graph, g) = {}}}

AmbiguousQuery(graph, query) ==
  \E f \in ToSet(query.filters) : /\ f.selector.kind = "match"
                                  /\ f.selector.name # None
                                  /\ Ambiguous(graph, f.selector.name)

ResolveQuery(graph, query) ==
  IF query.all THEN graph.nodes ELSE ResolveFilters(graph, query.filters)
=============================================================================
