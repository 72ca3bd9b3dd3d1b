------------------------------ MODULE LazyGraph ------------------------------
(***************************************************************************)
(* The task graph whose partitions load, and whose edges resolve, on first *)
(* access: crates/vt_graph/src/lazy_graph.rs.                              *)
(*                                                                         *)
(* The readers are tasks of one thread: between two awaits a reader is not *)
(* interrupted, at an await its future may be dropped.                     *)
(***************************************************************************)
EXTENDS Sequences, Integers

CONSTANTS
  Readers,
  Keys,
  Known,        \* the keys the loader has a node for
  PartitionOf,
  Targets,      \* what the loader resolves each node's edges to
  Nobody

Partitions == {PartitionOf[k] : k \in Keys}

(* Every OnceCell: one per partition, one per node.                        *)
Cells == [partition : Partitions] \cup [node : Known]

ASSUME LazyAssumption ==
  /\ Keys # {}
  /\ Known \subseteq Keys
  /\ Nobody \notin Readers
  /\ Targets \in [Known -> Seq(Known)]

VARIABLES
  present,      \* the keys in the FrozenMap
  filled,       \* the cells that are set
  permit,       \* who initialises a cell
  loads,        \* history: how often the loader has loaded a partition
  reading,      \* what a reader awaits: a "partition", its "edges", a "load"
  wanted,       \* the key whose neighbors it reads
  resolved,     \* the edges it has found while it resolves them
  line          \* the readers, in the order of their last arrival at a cell

lazyVars == <<present, filled, permit, loads, reading, wanted, resolved, line>>

LazyInit ==
  /\ present = {}
  /\ filled = {}
  /\ permit = [c \in Cells |-> Nobody]
  /\ loads = [p \in Partitions |-> 0]
  /\ reading = [r \in Readers |-> "idle"]
  /\ wanted = [r \in Readers |-> CHOOSE k \in Keys : TRUE]
  /\ resolved = [r \in Readers |-> 0]
  /\ line = <<>>

EdgesCell(r) == [node |-> wanted[r]]

Resolving(r) == wanted[r] \in Known /\ permit[EdgesCell(r)] = r

(* The node whose partition the reader needs: the one it asked for, or the *)
(* next target of the edges it resolves.                                   *)
Needed(r) == IF Resolving(r) THEN Targets[wanted[r]][resolved[r] + 1] ELSE wanted[r]

PartitionCell(r) == [partition |-> PartitionOf[Needed(r)]]

(* The cell it waits at.                                                   *)
Awaited(r) == IF reading[r] = "edges" THEN EdgesCell(r) ELSE PartitionCell(r)

Others(r) == SelectSeq(line, LAMBDA s : s # r)

(* A cell's semaphore serves the readers that wait at it in their order.   *)
MayInitialise(r) ==
  /\ Awaited(r) \notin filled
  /\ permit[Awaited(r)] = Nobody
  /\ \A i, j \in DOMAIN line :
       line[i] = r /\ reading[line[j]] = reading[r] /\ Awaited(line[j]) = Awaited(r)
         => i <= j

Arrives(r, where) ==
  /\ reading' = [reading EXCEPT ![r] = where]
  /\ line' = Append(Others(r), r)

Departs(r, where) ==
  /\ reading' = [reading EXCEPT ![r] = where]
  /\ line' = Others(r)

(* What is dropped with the reader's future: every permit it holds.        *)
ReleaseAll(r) ==
  permit' = [c \in Cells |-> IF permit[c] = r THEN Nobody ELSE permit[c]]

GiveUp(r) ==
  /\ ReleaseAll(r)
  /\ Departs(r, "idle")
  /\ resolved' = [resolved EXCEPT ![r] = 0]
  /\ UNCHANGED <<present, filled, loads, wanted>>

(* neighbors()                                                             *)
Neighbors(r, k) ==
  /\ reading[r] = "idle"
  /\ wanted' = [wanted EXCEPT ![r] = k]
  /\ Arrives(r, "partition")
  /\ UNCHANGED <<present, filled, permit, loads, resolved>>

-----------------------------------------------------------------------------
(* load(): get_or_try_init on the partition's cell.                        *)

(* Mutant: whoever finds the cell unset loads the partition.               *)
BeginLoadUnasked(r) ==
  /\ reading[r] = "partition"
  /\ PartitionCell(r) \notin filled
  /\ Departs(r, "load")
  /\ UNCHANGED <<present, filled, permit, loads, wanted, resolved>>

BeginLoad(r) ==
  /\ reading[r] = "partition"
  /\ MayInitialise(r)
  /\ permit' = [permit EXCEPT ![PartitionCell(r)] = r]
  /\ Departs(r, "load")
  /\ UNCHANGED <<present, filled, loads, wanted, resolved>>

(* The loader returns: the nodes are inserted and the cell set without an  *)
(* await in between.                                                       *)
Loaded(r) ==
  LET p == PartitionOf[Needed(r)] IN
  /\ reading[r] = "load"
  /\ present' = present \cup {n \in Known : PartitionOf[n] = p}
  /\ filled' = filled \cup {PartitionCell(r)}
  /\ permit' = [permit EXCEPT ![PartitionCell(r)] = Nobody]
  /\ loads' = [loads EXCEPT ![p] = @ + 1]
  /\ Arrives(r, "partition")
  /\ UNCHANGED <<wanted, resolved>>

(* The loader's error goes up through every get_or_try_init on its way.    *)
LoadFails(r) ==
  /\ reading[r] = "load"
  /\ GiveUp(r)

-----------------------------------------------------------------------------
(* neighbors(), once its partition is there.                               *)

PartitionReady(r) == reading[r] = "partition" /\ PartitionCell(r) \in filled

(* A key without a node has no edges.                                      *)
NoSuchNode(r) ==
  /\ PartitionReady(r) /\ ~Resolving(r)
  /\ wanted[r] \notin present
  /\ Departs(r, "idle")
  /\ UNCHANGED <<present, filled, permit, loads, wanted, resolved>>

GoToEdges(r) ==
  /\ PartitionReady(r) /\ ~Resolving(r)
  /\ wanted[r] \in present
  /\ Arrives(r, "edges")
  /\ UNCHANGED <<present, filled, permit, loads, wanted, resolved>>

(* The edges are there: every key becomes the node it belongs to.          *)
HandOut(r) ==
  /\ reading[r] = "edges"
  /\ EdgesCell(r) \in filled
  /\ Departs(r, "idle")
  /\ UNCHANGED <<present, filled, permit, loads, wanted, resolved>>

FillEdges(r) ==
  /\ filled' = filled \cup {EdgesCell(r)}
  /\ permit' = [permit EXCEPT ![EdgesCell(r)] = Nobody]
  /\ resolved' = [resolved EXCEPT ![r] = 0]
  /\ Arrives(r, "edges")

(* resolve_edges(): the first target's partition is next, if there is one. *)
BeginResolve(r) ==
  /\ reading[r] = "edges"
  /\ MayInitialise(r)
  /\ IF Targets[wanted[r]] = <<>>
       THEN FillEdges(r)
       ELSE /\ permit' = [permit EXCEPT ![EdgesCell(r)] = r]
            /\ Arrives(r, "partition")
            /\ UNCHANGED <<filled, resolved>>
  /\ UNCHANGED <<present, loads, wanted>>

(* Mutant: a target is not looked up; its partition loads when it is read. *)
EveryTargetFound(r) ==
  /\ reading[r] = "partition" /\ Resolving(r)
  /\ FillEdges(r)
  /\ UNCHANGED <<present, loads, wanted>>

(* Mutant: a target's edges are resolved too, and waited for.              *)
TargetResolved(r) ==
  /\ PartitionReady(r) /\ Resolving(r)
  /\ permit[[node |-> Needed(r)]] \in {Nobody, r}
  /\ IF resolved[r] + 1 = Len(Targets[wanted[r]])
       THEN FillEdges(r)
       ELSE /\ resolved' = [resolved EXCEPT ![r] = @ + 1]
            /\ Arrives(r, "partition")
            /\ UNCHANGED <<filled, permit>>
  /\ UNCHANGED <<present, loads, wanted>>

(* get() finds the target: the next one, or all of them are there.         *)
TargetFound(r) ==
  /\ PartitionReady(r) /\ Resolving(r)
  /\ Needed(r) \in present
  /\ IF resolved[r] + 1 = Len(Targets[wanted[r]])
       THEN FillEdges(r)
       ELSE /\ resolved' = [resolved EXCEPT ![r] = @ + 1]
            /\ Arrives(r, "partition")
            /\ UNCHANGED <<filled, permit>>
  /\ UNCHANGED <<present, loads, wanted>>

(* The reader's future is dropped at an await.                             *)
DropReader(r) ==
  /\ reading[r] # "idle"
  /\ GiveUp(r)

-----------------------------------------------------------------------------
Proceed(r) ==
  \/ BeginLoad(r) \/ Loaded(r) \/ LoadFails(r)
  \/ NoSuchNode(r) \/ GoToEdges(r)
  \/ HandOut(r) \/ BeginResolve(r) \/ TargetFound(r)

LazyNext ==
  \E r \in Readers :
    \/ \E k \in Keys : Neighbors(r, k)
    \/ Proceed(r)
    \/ DropReader(r)

LazySpec == LazyInit /\ [][LazyNext]_lazyVars

(* The executor polls what is ready.                                       *)
FairLazySpec ==
  /\ LazySpec
  /\ \A r \in Readers : WF_lazyVars(Proceed(r))

-----------------------------------------------------------------------------
(* A partition is loaded once, and again only when the load before failed  *)
(* or was dropped: its nodes are never replaced under a reader.            *)
LoadedOnce == \A p \in Partitions : loads[p] <= 1

(* Every key the graph can hand out belongs to a node that is there, which *)
(* LazyGraph::loaded expects, and a filled partition has all its nodes.    *)
HandedOutLoaded ==
  /\ \A n \in Known : [node |-> n] \in filled =>
       \A i \in DOMAIN Targets[n] : Targets[n][i] \in present
  /\ \A n \in Known : [partition |-> PartitionOf[n]] \in filled => n \in present

(* Each load is the only one of its partition, and what is handed out has  *)
(* been loaded: a reader that waited for another's load, failed or not,    *)
(* neither repeats it nor goes on without it.                              *)
LoadedAndHandedOut == LoadedOnce /\ HandedOutLoaded

(* Edges in a cycle across partitions never make two readers wait on each  *)
(* other, and a load that fails or is dropped leaves no reader behind.     *)
ReadersReturn == \A r \in Readers : reading[r] # "idle" ~> reading[r] = "idle"
=============================================================================
