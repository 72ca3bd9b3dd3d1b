------------------------------ MODULE Scheduler ------------------------------
(***************************************************************************)
(* The task scheduler: crates/vt/src/session/execute/scheduler.rs.         *)
(*                                                                         *)
(* An execution graph holds nodes, a node runs its `&&` items in order, an *)
(* item is a leaf (a command) or a nested graph with a semaphore of its    *)
(* own.  One executor thread polls every future; the Ctrl-C handler runs   *)
(* on another thread and may cut in between any two steps.                 *)
(***************************************************************************)
EXTENDS Integers, Sequences, FiniteSets

CONSTANTS
  Graphs,       \* the root execution graph and the nested ones
  Root,
  Leaves,       \* commands
  InProcess,    \* the leaves that are built-in commands
  NodesOf,      \* [Graphs -> SUBSET nodes]
  Items,        \* [nodes -> sequences of leaves and nested graphs]
  Edges,        \* <<a, b, i>>: the i-th edge that says a depends on b
  Limit,        \* [Graphs -> concurrency_limit]
  Inside        \* [nodes -> the leaves a node runs, at any depth]

Nodes == UNION {NodesOf[g] : g \in Graphs}
ItemsOf(n) == {Items[n][i] : i \in DOMAIN Items[n]}

(* The leaves under one item.                                              *)
Under(x) == IF x \in Leaves THEN {x} ELSE UNION {Inside[m] : m \in NodesOf[x]}

ASSUME GraphsAssumption ==
  /\ Root \in Graphs /\ Graphs \cap Leaves = {} /\ InProcess \subseteq Leaves
  /\ \A g, h \in Graphs : g # h => NodesOf[g] \cap NodesOf[h] = {}
ASSUME ItemsAssumption ==
  /\ \A n \in Nodes : Items[n] \in Seq(Leaves \cup (Graphs \ {Root}))
  /\ \A n, m \in Nodes : \A i \in DOMAIN Items[n], j \in DOMAIN Items[m] :
       Items[n][i] = Items[m][j] => n = m /\ i = j
ASSUME EdgesAssumption ==
  /\ IsFiniteSet(Edges)
  /\ \A e \in Edges : \E g \in Graphs : e[1] \in NodesOf[g] /\ e[2] \in NodesOf[g]
(* AcyclicGraph::try_from_graph refused every cycle, and a nested graph is *)
(* built before the item that holds it.                                    *)
ASSUME AcyclicAssumption ==
  \A S \in SUBSET Nodes : S # {} => \E n \in S : \A e \in Edges : e[1] = n => e[2] \notin S
ASSUME NestingAssumption ==
  \A S \in SUBSET Graphs : S # {} => \E g \in S : \A n \in NodesOf[g] : ItemsOf(n) \cap S = {}
ASSUME FiniteAssumption == \A g \in Graphs : IsFiniteSet(NodesOf[g])
ASSUME LimitAssumption == Limit \in [Graphs -> Nat \ {0}]
ASSUME InsideAssumption ==
  /\ Inside \in [Nodes -> SUBSET Leaves]
  /\ \A n \in Nodes : Inside[n] = UNION {Under(x) : x \in ItemsOf(n)}

VARIABLES
  phase,        \* where the execute_expanded_graph call of each graph is
  depCount,     \* dependencies of each node that have not completed
  future,       \* where the future of each node is
  next,         \* the item each node is at
  permits,      \* free permits of each graph's semaphore
  leaf,         \* what became of each leaf
  fastFail,     \* fast_fail_token
  ctrlC         \* cancel_token, as Ctrl-C cancels it

vars == <<phase, depCount, future, next, permits, leaf, fastFail, ctrlC>>

(* cancel_token is a child of fast_fail_token.                             *)
Cancelled == fastFail \/ ctrlC

GraphOf(n) == CHOOSE g \in Graphs : n \in NodesOf[g]

(* Mutant: a nested graph takes its permits from the root's semaphore.     *)
SharedSemaphore(g) == Root

(* Each graph creates a semaphore.                                         *)
Semaphore(g) == g

(* Mutant: parallel edges are counted once.                                *)
DistinctDependencies(n) == Cardinality({e[2] : e \in {d \in Edges : d[1] = n}})

(* dep_count: one per outgoing edge.                                       *)
Dependencies(n) == Cardinality({e \in Edges : e[1] = n})

(* Mutant: the direction of the edges is confused.                         *)
ForwardEdges(n, m) == Cardinality({e \in Edges : e[1] = m /\ e[2] = n})

(* How many times n is met among the incoming neighbours of m.             *)
EdgesInto(n, m) == Cardinality({e \in Edges : e[1] = n /\ e[2] = m})

(* Mutant: off by one.                                                     *)
OneMissing(count) == count <= 1

IsReady(count) == count = 0

Init ==
  /\ phase = [g \in Graphs |-> "waiting"]
  /\ depCount = [n \in Nodes |-> 0]
  /\ future = [n \in Nodes |-> "none"]
  /\ next = [n \in Nodes |-> 1]
  /\ permits = Limit
  /\ leaf = [l \in Leaves |-> "idle"]
  /\ fastFail = FALSE
  /\ ctrlC = FALSE

-----------------------------------------------------------------------------
(* execute_expanded_graph up to its loop: count the dependencies, spawn    *)
(* the nodes that have none.                                               *)
Enter(g) ==
  /\ phase[g] = "waiting"
  /\ phase' = [phase EXCEPT ![g] = "running"]
  /\ depCount' = [n \in Nodes |-> IF n \in NodesOf[g] THEN Dependencies(n) ELSE depCount[n]]
  /\ future' = [n \in Nodes |-> IF n \in NodesOf[g] /\ IsReady(Dependencies(n))
                                  THEN "queued" ELSE future[n]]
  /\ UNCHANGED <<next, permits, leaf, fastFail, ctrlC>>

EnterRoot == Enter(Root)

(* Mutant: `let _ =` instead of `let Ok(_permit) =` drops the permit.      *)
AcquirePermitDropped(n) ==
  /\ future[n] = "queued"
  /\ phase[GraphOf(n)] # "draining"
  /\ permits[Semaphore(GraphOf(n))] > 0
  /\ future' = [future EXCEPT ![n] = IF Cancelled THEN "ready" ELSE "running"]
  /\ UNCHANGED <<phase, depCount, next, permits, leaf, fastFail, ctrlC>>

(* spawn_node: a permit was free.  A cancelled run gives it straight back. *)
Acquire(n) ==
  /\ future[n] = "queued"
  /\ phase[GraphOf(n)] # "draining"
  /\ permits[Semaphore(GraphOf(n))] > 0
  /\ IF Cancelled
       THEN /\ future' = [future EXCEPT ![n] = "ready"]
            /\ UNCHANGED permits
       ELSE /\ future' = [future EXCEPT ![n] = "running"]
            /\ permits' = [permits EXCEPT ![Semaphore(GraphOf(n))] = @ - 1]
  /\ UNCHANGED <<phase, depCount, next, leaf, fastFail, ctrlC>>

(* spawn_node: the semaphore was closed while the node waited.             *)
AcquireFails(n) ==
  /\ future[n] = "queued"
  /\ phase[GraphOf(n)] = "draining"
  /\ future' = [future EXCEPT ![n] = "ready"]
  /\ UNCHANGED <<phase, depCount, next, permits, leaf, fastFail, ctrlC>>

-----------------------------------------------------------------------------
(* execute_node and execute_leaf.                                          *)

Item(n) == Items[n][next[n]]
HasItem(n) == future[n] = "running" /\ next[n] <= Len(Items[n])
AtLeaf(n)  == HasItem(n) /\ Item(n) \in Leaves
AtGraph(n) == HasItem(n) /\ Item(n) \in Graphs

(* Mutant: the items of a node are run without looking at the token.       *)
BeginLeafUnchecked(n) ==
  /\ AtLeaf(n)
  /\ leaf[Item(n)] = "idle"
  /\ leaf' = [leaf EXCEPT ![Item(n)] = IF Item(n) \in InProcess THEN "ok" ELSE "lookup"]
  /\ next' = IF Item(n) \in InProcess THEN [next EXCEPT ![n] = @ + 1] ELSE next
  /\ UNCHANGED <<phase, depCount, future, permits, fastFail, ctrlC>>

(* A built-in command is over at once and never fails.                     *)
BeginLeaf(n) ==
  /\ AtLeaf(n)
  /\ leaf[Item(n)] = "idle"
  /\ ~Cancelled
  /\ leaf' = [leaf EXCEPT ![Item(n)] = IF Item(n) \in InProcess THEN "ok" ELSE "lookup"]
  /\ next' = IF Item(n) \in InProcess THEN [next EXCEPT ![n] = @ + 1] ELSE next
  /\ UNCHANGED <<phase, depCount, future, permits, fastFail, ctrlC>>

BeginGraph(n) ==
  /\ AtGraph(n)
  /\ ~Cancelled
  /\ Enter(Item(n))

(* The leaf is over: its outcome, the token a failure cancels, and the     *)
(* item after it.                                                          *)
LeafDone(n, outcome) ==
  /\ leaf' = [leaf EXCEPT ![Item(n)] = outcome]
  /\ fastFail' = (fastFail \/ outcome = "failed")
  /\ next' = [next EXCEPT ![n] = @ + 1]
  /\ UNCHANGED <<phase, depCount, future, permits, ctrlC>>

(* The cache lookup of execute_spawn failed, or the run was cancelled by   *)
(* the time it came back.                                                  *)
LookupEnds(n) ==
  /\ AtLeaf(n)
  /\ leaf[Item(n)] = "lookup"
  /\ \/ LeafDone(n, "failed")
     \/ Cancelled /\ LeafDone(n, "cancelled")

(* What start() is told of the lookup.                                     *)
StartWith(n, found) ==
  /\ leaf' = [leaf EXCEPT ![Item(n)] = found]
  /\ UNCHANGED <<phase, depCount, future, next, permits, fastFail, ctrlC>>

(* Mutant: the token is not looked at again after the lookup.              *)
PassLookupUnchecked(n) ==
  /\ AtLeaf(n)
  /\ leaf[Item(n)] = "lookup"
  /\ StartWith(n, "hit") \/ StartWith(n, "miss")

(* The lookup found an entry or none, and the token was not cancelled: the *)
(* last time a leaf looks at it.                                           *)
PassLookup(n) ==
  /\ AtLeaf(n)
  /\ leaf[Item(n)] = "lookup"
  /\ ~Cancelled
  /\ StartWith(n, "hit") \/ StartWith(n, "miss")

(* replay_cache_hit awaits the restoring of the outputs.                   *)
RestoreHit(n) ==
  /\ AtLeaf(n)
  /\ leaf[Item(n)] = "hit"
  /\ LeafDone(n, "ok") \/ LeafDone(n, "failed")

(* spawn() is awaited, and starts the process though a sibling has failed  *)
(* or Ctrl-C has come in between.                                          *)
SpawnLeaf(n) ==
  /\ AtLeaf(n)
  /\ leaf[Item(n)] = "miss"
  /\ leaf' = [leaf EXCEPT ![Item(n)] = "process"]
  /\ UNCHANGED <<phase, depCount, future, next, permits, fastFail, ctrlC>>

(* The IPC server could not be bound, or the process not be spawned.       *)
SpawnLeafFails(n) ==
  /\ AtLeaf(n)
  /\ leaf[Item(n)] = "miss"
  /\ LeafDone(n, "failed")

(* The process exits, by itself or killed.                                 *)
Exit(n) ==
  /\ AtLeaf(n)
  /\ leaf[Item(n)] = "process"
  /\ LeafDone(n, "ok") \/ LeafDone(n, "failed")

(* The nested call came back.                                              *)
GraphDone(n) ==
  /\ AtGraph(n)
  /\ phase[Item(n)] = "returned"
  /\ next' = [next EXCEPT ![n] = @ + 1]
  /\ UNCHANGED <<phase, depCount, future, permits, leaf, fastFail, ctrlC>>

(* The item at hand has been begun and is not over.                        *)
InItem(n) ==
  \/ AtLeaf(n) /\ leaf[Item(n)] # "idle"
  \/ AtGraph(n) /\ phase[Item(n)] # "waiting"

(* No item is left, or the run was cancelled: the permit is released.      *)
LeaveNode(n) ==
  /\ future[n] = "running"
  /\ ~InItem(n)
  /\ ~HasItem(n) \/ Cancelled
  /\ future' = [future EXCEPT ![n] = "ready"]
  /\ permits' = [permits EXCEPT ![Semaphore(GraphOf(n))] = @ + 1]
  /\ UNCHANGED <<phase, depCount, next, leaf, fastFail, ctrlC>>

-----------------------------------------------------------------------------
(* The loop of execute_expanded_graph.                                     *)

Count(n, completed) == depCount[n] - EdgesInto(n, completed)

(* futures.next() yields a node: on cancellation close the semaphore and   *)
(* drain, else spawn the dependents that became ready.                     *)
Reap(n) ==
  /\ phase[GraphOf(n)] = "running"
  /\ future[n] = "ready"
  /\ IF Cancelled
       THEN /\ phase' = [phase EXCEPT ![GraphOf(n)] = "draining"]
            /\ future' = [future EXCEPT ![n] = "reaped"]
            /\ UNCHANGED depCount
       ELSE /\ depCount' = [m \in Nodes |-> Count(m, n)]
            /\ future' = [m \in Nodes |->
                 IF m = n THEN "reaped"
                 ELSE IF EdgesInto(m, n) > 0 /\ IsReady(Count(m, n)) THEN "queued"
                 ELSE future[m]]
            /\ UNCHANGED phase
  /\ UNCHANGED <<next, permits, leaf, fastFail, ctrlC>>

Drain(n) ==
  /\ phase[GraphOf(n)] = "draining"
  /\ future[n] = "ready"
  /\ future' = [future EXCEPT ![n] = "reaped"]
  /\ UNCHANGED <<phase, depCount, next, permits, leaf, fastFail, ctrlC>>

(* FuturesUnordered is empty.                                              *)
Return(g) ==
  /\ phase[g] \in {"running", "draining"}
  /\ \A n \in NodesOf[g] : future[n] \in {"none", "reaped"}
  /\ phase' = [phase EXCEPT ![g] = "returned"]
  /\ UNCHANGED <<depCount, future, next, permits, leaf, fastFail, ctrlC>>

-----------------------------------------------------------------------------
CtrlC ==
  /\ ~ctrlC
  /\ phase[Root] # "returned"
  /\ ctrlC' = TRUE
  /\ UNCHANGED <<phase, depCount, future, next, permits, leaf, fastFail>>

Executor ==
  \/ EnterRoot
  \/ \E n \in Nodes :
       \/ Acquire(n) \/ AcquireFails(n)
       \/ BeginLeaf(n) \/ BeginGraph(n) \/ LookupEnds(n) \/ PassLookup(n)
       \/ RestoreHit(n) \/ SpawnLeaf(n) \/ SpawnLeafFails(n) \/ Exit(n)
       \/ GraphDone(n) \/ LeaveNode(n)
       \/ Reap(n) \/ Drain(n)
  \/ \E g \in Graphs : Return(g)

(* The run is over.                                                        *)
Terminated == phase[Root] = "returned" /\ UNCHANGED vars

Next == Executor \/ CtrlC \/ Terminated

Spec == Init /\ [][Next]_vars

(* The executor polls whatever can make progress, and every process exits. *)
FairSpec == Spec /\ WF_vars(Executor)

-----------------------------------------------------------------------------
(* Properties.                                                             *)

(* Every variable has its type.  In particular a dependency count never    *)
(* goes below zero, where the code's usize would wrap.                     *)
TypeOK ==
  /\ phase \in [Graphs -> {"waiting", "running", "draining", "returned"}]
  /\ depCount \in [Nodes -> Nat]
  /\ future \in [Nodes -> {"none", "queued", "running", "ready", "reaped"}]
  /\ next \in [Nodes -> Nat \ {0}]
  /\ permits \in [Graphs -> Nat]
  /\ leaf \in [Leaves -> {"idle", "lookup", "hit", "miss", "process", "ok", "failed", "cancelled"}]
  /\ fastFail \in BOOLEAN
  /\ ctrlC \in BOOLEAN

(* From the lookup to the end of what it led to.                           *)
AtWork == {"lookup", "hit", "miss", "process"}

Begun(l) == leaf[l] # "idle"
Succeeded(S) == \A l \in S : leaf[l] = "ok"

(* A leaf, at any depth under a node, begins only after every leaf, at any *)
(* depth, under every dependency of that node has succeeded.               *)
DependenciesFirst ==
  \A e \in Edges :
    (\E l \in Inside[e[1]] : Begun(l)) => Succeeded(Inside[e[2]])

(* `a && b`: nothing of b begins before all of a has succeeded, also when  *)
(* a or b is a whole nested run.                                           *)
ItemsInOrder ==
  \A n \in Nodes : \A j \in DOMAIN Items[n] :
    (\E l \in Under(Items[n][j]) : Begun(l))
      => \A i \in 1 .. j - 1 : Succeeded(Under(Items[n][i]))

Live(n) == \E l \in Inside[n] : leaf[l] \in AtWork

(* No graph ever has more nodes at work, at any depth, than its limit.     *)
ConcurrencyLimit ==
  \A g \in Graphs : Cardinality({n \in NodesOf[g] : Live(n)}) <= Limit[g]

(* A run that ends without failure or interruption has run every leaf:     *)
(* no task is silently left out.                                           *)
NothingSkipped ==
  phase[Root] = "returned" /\ ~Cancelled
    => \A n \in NodesOf[Root] : Succeeded(Inside[n])

(* What is under way: nodes that wait for a permit or have one, leaves at  *)
(* or past their lookup, and those that have passed it.                    *)
Scheduled == {n \in Nodes : future[n] \in {"queued", "running"}}
Working   == {n \in Nodes : future[n] = "running"}
LookingUp == {l \in Leaves : leaf[l] \in AtWork}
Committed == {l \in Leaves : leaf[l] \in {"hit", "miss", "process"}}

(* docs/cancellation.md: no new tasks are scheduled, and "a task whose     *)
(* cache lookup was still in progress doesn't start and doesn't restore    *)
(* cached outputs".  Once the run is cancelled, all that is under way      *)
(* drains, in every nested run: no dependent is scheduled, no node takes   *)
(* up its items, no leaf begins, and a process is started, or a hit        *)
(* restored, only by a leaf that had passed its last check before.  Such a *)
(* process does start late; its pipeline, which the fast-fail token kills, *)
(* is SpawnPipeline's.                                                     *)
NothingNewAfterCancel ==
  [][Cancelled /\ phase[Root] # "waiting" =>
       /\ Scheduled' \subseteq Scheduled
       /\ Working' \subseteq Working
       /\ LookingUp' \subseteq LookingUp
       /\ Committed' \subseteq Committed]_vars

(* However the tasks end and whenever Ctrl-C comes, the run returns: a     *)
(* parent that holds its permit while its nested run waits for permits     *)
(* cannot starve it.                                                       *)
RunReturns == <>(phase[Root] = "returned")
=============================================================================
