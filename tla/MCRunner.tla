------------------------------ MODULE MCRunner ------------------------------
(***************************************************************************)
(* TLC instance of the parts one task's run is made of.  They share no     *)
(* variable, and what one guarantees to another is an action of the other: *)
(* the initial states choose a part, and the other ones stand still.       *)
(***************************************************************************)
EXTENDS Reporter, SpawnPipeline, ChildTree, ChunkPool, LazyGraph, Supervisor, RemoteLookup,
        RemoteUploads

VARIABLE part    \* the part this behaviour is about

(* Edges in a cycle across two partitions, and a key without a node.       *)
CyclePartitionOf ==
  [k \in {"app", "lib", "util", "gone"} |-> IF k \in {"app", "gone"} THEN 1 ELSE 2]
CycleTargets ==
  [k \in {"app", "lib", "util"} |->
     CASE k = "app" -> <<"lib", "util">> [] k = "lib" -> <<"app">> [] k = "util" -> <<>>]

(* A run of four commands: `greet` is built in, `lint` is in a nested run  *)
(* after it, and `deploy` needs what `compile` makes, which is cached.     *)
RunNodes == [g \in Graphs |-> IF g = "run" THEN {"build", "test", "site"} ELSE {"check"}]

RunItems ==
  [n \in Nodes |-> CASE n = "build" -> <<"compile">> [] n = "test" -> <<"greet", "nested">>
                     [] n = "site" -> <<"deploy">>   [] n = "check" -> <<"lint">>]
RunInside ==
  [n \in Nodes |-> CASE n = "build" -> {"compile"} [] n = "test" -> {"greet", "lint"}
                     [] n = "site" -> {"deploy"}   [] n = "check" -> {"lint"}]
RunEdges == {<<"site", "build", 1>>}
RunLimit == [g \in Graphs |-> 2]
RunCodes == {-5, 256}

remote == <<lookupVars, uploadVars>>
reporting == <<vars, reportVars>>
local == <<spawnVars, poolVars, lazyVars, supVars>>
all == <<part, local, remote, reporting, treeVars>>

RunnerInit ==
  /\ part \in {"spawn", "pool", "graph", "supervisor", "lookup", "uploads", "report",
              "tree"}
  /\ SpawnInit /\ PoolInit /\ LazyInit /\ SupInit /\ LookupInit /\ UploadsInit
  /\ ReportInit /\ TreeInit
  /\ part # "spawn" => tracking = "none"
  /\ part # "uploads" => auth = "ready"
  /\ part # "tree" => platform = "unix" /\ mode = "auto" /\ given = <<>> /\ ~marked

(* A pipeline that is done, threads that are gone, targets that are gone,  *)
(* a lookup that is over, a session at its summary, a run that has         *)
(* returned and a leaf that is over do nothing more.                       *)
Rest ==
  /\ part # "graph" /\ (part = "report" => exit # None) /\ (part = "tree" => leg = "done")
  /\ UNCHANGED all

SpawnPart ==
  SpawnNext /\ UNCHANGED <<poolVars, lazyVars, supVars, remote, reporting, treeVars>>
PoolPart ==
  PoolNext /\ UNCHANGED <<spawnVars, lazyVars, supVars, remote, reporting, treeVars>>
GraphPart ==
  LazyNext /\ UNCHANGED <<spawnVars, poolVars, supVars, remote, reporting, treeVars>>
SupPart ==
  SupNext /\ UNCHANGED <<spawnVars, poolVars, lazyVars, remote, reporting, treeVars>>
LookupPart == LookupNext /\ UNCHANGED <<local, uploadVars, reporting, treeVars>>
UploadPart == UploadsNext /\ UNCHANGED <<local, lookupVars, reporting, treeVars>>
ReportPart == ReportNext /\ UNCHANGED <<local, remote, treeVars>>
TreePart == TreeNext /\ UNCHANGED <<local, remote, reporting>>
RunnerNext ==
  \/ /\ \/ part = "spawn" /\ SpawnPart
        \/ part = "pool" /\ PoolPart
        \/ part = "graph" /\ GraphPart
        \/ part = "supervisor" /\ SupPart
        \/ part = "lookup" /\ LookupPart
        \/ part = "uploads" /\ UploadPart
        \/ part = "report" /\ ReportPart
        \/ part = "tree" /\ TreePart
     /\ UNCHANGED part
  \/ Rest

(* The fairness each module states.                                        *)
RunnerSpec ==
  /\ RunnerInit /\ [][RunnerNext]_all
  /\ WF_spawnVars(part = "spawn" /\ Pipeline) /\ WF_spawnVars(part = "spawn" /\ Kill)
  /\ WF_spawnVars(part = "spawn" /\ PipeCancelled)
  /\ WF_spawnVars(part = "spawn" /\ CloseTracking) /\ WF_spawnVars(part = "spawn" /\ ToolLeaves)
  /\ \A t \in Threads : WF_poolVars(part = "pool" /\ Operation(t))
  /\ \A r \in Readers : WF_lazyVars(part = "graph" /\ Proceed(r))
  /\ WF_supVars(part = "supervisor" /\ Loop)
  /\ \A t \in Traced :
       /\ WF_supVars(part = "supervisor" /\ Handling(t))
       /\ WF_supVars(part = "supervisor" /\ SendFd(t))
       /\ WF_supVars(part = "supervisor" /\ NoSupervisor(t))
       /\ WF_supVars(part = "supervisor" /\ stopping /\ TargetDies(t))
  /\ WF_lookupVars(part = "lookup" /\ Unwinding)
  /\ WF_uploadVars(part = "uploads" /\ (WaitEnds \/ InterruptWait))
  /\ \A j \in Jobs : WF_uploadVars(part = "uploads" /\ StopUpload(j))
  /\ WF_treeVars(part = "tree" /\ Steps) /\ WF_treeVars(part = "tree" /\ KillTree)

-----------------------------------------------------------------------------
(* A thread that allocates or frees, and a reader of the graph, come back, *)
(* whatever the others do, and though they fail or vanish (ChunkPool,      *)
(* LazyGraph).  docs/cancellation.md: a cancelled run waits for neither a  *)
(* lookup nor a download, and after Ctrl-C not for uploads, though the     *)
(* network stays silent (RemoteLookup, RemoteUploads).                     *)
CallsReturn ==
  OperationEnds /\ ReadersReturn /\ CancelledLookupEnds /\ InterruptedWaitEnds

(* Once the fast-fail token is cancelled, a task's pipeline ends, and so   *)
(* does a leaf in any other mode together with its process (SpawnPipeline, *)
(* ChildTree).                                                             *)
CancelledRunsEnd == FastFailEnds /\ CancelledEnds
=============================================================================
