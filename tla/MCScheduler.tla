----------------------------- MODULE MCScheduler -----------------------------
(* A small workspace.  `site` depends on `lib` twice (two parallel edges,  *)
(* as pruning a task from the middle of a chain leaves them) and on `app`; *)
(* `app` runs a nested graph between two commands, the first of them built *)
(* in, and `docs` does nothing but run a nested graph.                     *)
EXTENDS Scheduler, TLC

CONSTANTS
  root, nested, audit,                      \* graphs
  lib, app, site, docs, unit, lint, links,  \* nodes
  l1, a1, a2, s1, s2, d1, u1, t1            \* leaves

MCGraphs == {root, nested, audit}
MCLeaves == {l1, a1, a2, s1, s2, d1, u1, t1}
MCInProcess == {a1}
MCNodesOf ==
  (root :> {lib, app, site, docs}) @@ (nested :> {unit, lint}) @@ (audit :> {links})
MCItems ==
  (lib :> <<l1>>) @@ (app :> <<a1, nested, a2>>) @@ (site :> <<s1, s2>>)
    @@ (docs :> <<audit>>) @@ (unit :> <<u1>>) @@ (lint :> <<t1>>) @@ (links :> <<d1>>)
MCInside ==
  (lib :> {l1}) @@ (app :> {a1, u1, t1, a2}) @@ (site :> {s1, s2})
    @@ (docs :> {d1}) @@ (unit :> {u1}) @@ (lint :> {t1}) @@ (links :> {d1})
MCEdges == {<<site, lib, 1>>, <<site, lib, 2>>, <<site, app, 1>>, <<lint, unit, 1>>}

(* Fewer permits than nodes that are ready, and as many as there are nodes *)
(* that run nested graphs.                                                 *)
MCLimit == [g \in MCGraphs |-> 2]
=============================================================================
