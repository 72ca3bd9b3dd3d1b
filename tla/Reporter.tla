------------------------------ MODULE Reporter ------------------------------
(***************************************************************************)
(* What a run tells its caller: Session::execute_graph in                  *)
(* crates/vt/src/session/execute/scheduler.rs, the reports of              *)
(* execute_spawn in execute/mod.rs, and the summary reporter with its      *)
(* results in reporter/summary_reporter.rs and reporter/summary.rs.        *)
(*                                                                         *)
(* The tasks are Scheduler's: each step of a leaf is a step of Scheduler   *)
(* together with what its reporter is told of it.                          *)
(***************************************************************************)
EXTENDS Scheduler

CONSTANTS
  Cached,       \* the commands with cache metadata
  Codes,        \* the codes a failing process may exit with
  None

Killed == 137   \* 128 and the signal that ends a process

VARIABLES
  cacheStatus,  \* what start() told the reporter of each leaf
  tasks,        \* the result recorded for each leaf
  uploads,      \* the upload each leaf left behind
  exit          \* the status execute_graph returned

reportVars == <<cacheStatus, tasks, uploads, exit>>

ReportInit ==
  /\ Init
  /\ cacheStatus = [l \in Leaves |-> None]
  /\ tasks = [l \in Leaves |-> None]
  /\ uploads = [l \in Leaves |-> "none"]
  /\ exit = None

-----------------------------------------------------------------------------
(* SummaryLeafReporter and the results.                                    *)

Start(l, status) == cacheStatus' = [cacheStatus EXCEPT ![l] = status]

(* A process that was waited for has an exit status, and only a successful *)
(* one an error besides it: that of recording its entry.                   *)
SpawnOutcome(status, error) ==
  CASE status = None /\ error     -> "SpawnError"
    [] status = 0 /\ error        -> "InfraError"
    [] status \notin {None, 0}    -> "Failed"
    [] OTHER                      -> "Success"

TaskResult(started, status, error) ==
  CASE started = "Hit"       -> IF error THEN "RestoreFailed" ELSE "CacheHit"
    [] started = "InProcess" -> "InProcess"
    [] OTHER                 -> SpawnOutcome(status, error)

(* finish() records nothing of a leaf whose start() was not called.        *)
FinishLeaf(l, status, error) ==
  tasks' = IF cacheStatus'[l] = None THEN tasks
           ELSE [tasks EXCEPT ![l] =
                  [result |-> TaskResult(cacheStatus'[l], status, error), code |-> status]]

Recorded(l) == tasks[l] # None

(* The results that TaskResult::error has an error for.                    *)
Errors == {"RestoreFailed", "InfraError", "SpawnError"}

-----------------------------------------------------------------------------
(* execute_leaf and execute_spawn, as the reporter sees them.              *)

InProcessLeaf(n) ==
  /\ BeginLeaf(n)
  /\ Item(n) \in InProcess
  /\ Start(Item(n), "InProcess")
  /\ FinishLeaf(Item(n), None, FALSE)
  /\ UNCHANGED <<uploads, exit>>

BeginLookup(n) ==
  /\ BeginLeaf(n)
  /\ Item(n) \notin InProcess
  /\ UNCHANGED reportVars

(* Hashing the inputs failed, or reading the cache: there is no status to  *)
(* start with.                                                             *)
LookupError(n) ==
  /\ LookupEnds(n)
  /\ Item(n) \in Cached
  /\ leaf'[Item(n)] = "failed"
  /\ UNCHANGED <<cacheStatus, uploads, exit>>
  /\ FinishLeaf(Item(n), None, TRUE)

LookupCancelled(n) ==
  /\ LookupEnds(n)
  /\ leaf'[Item(n)] = "cancelled"
  /\ UNCHANGED <<cacheStatus, uploads, exit>>
  /\ FinishLeaf(Item(n), None, FALSE)

(* start(), once the lookup is over and the run goes on.                   *)
StartLeaf(n) ==
  /\ PassLookup(n)
  /\ IF leaf'[Item(n)] = "hit"
       THEN Item(n) \in Cached /\ Start(Item(n), "Hit")
       ELSE Start(Item(n), IF Item(n) \in Cached THEN "Miss" ELSE "Disabled")
  /\ UNCHANGED <<tasks, uploads, exit>>

ReplayHit(n) ==
  /\ RestoreHit(n)
  /\ UNCHANGED <<cacheStatus, uploads, exit>>
  /\ FinishLeaf(Item(n), None, leaf'[Item(n)] = "failed")

SpawnFails(n) ==
  /\ SpawnLeafFails(n)
  /\ UNCHANGED <<cacheStatus, uploads, exit>>
  /\ FinishLeaf(Item(n), None, TRUE)

StartProcess(n) == SpawnLeaf(n) /\ UNCHANGED reportVars

(* Forwarding its output or waiting for it failed.                         *)
ProcessLost(n) ==
  /\ Exit(n)
  /\ leaf'[Item(n)] = "failed"
  /\ UNCHANGED <<cacheStatus, uploads, exit>>
  /\ FinishLeaf(Item(n), None, TRUE)

(* By itself, or killed once another leaf has failed.                      *)
ProcessFails(n) ==
  /\ Exit(n)
  /\ leaf'[Item(n)] = "failed"
  /\ UNCHANGED <<cacheStatus, uploads, exit>>
  /\ \E code \in Codes \cup {Killed} :
       (code = Killed => fastFail) /\ FinishLeaf(Item(n), code, FALSE)

(* update_cache: an entry is recorded, and uploaded perhaps, or could not  *)
(* be, unless there is a reason not to.                                    *)
ProcessSucceeds(n) ==
  /\ Exit(n)
  /\ leaf'[Item(n)] = "ok"
  /\ UNCHANGED <<cacheStatus, exit>>
  /\ \/ FinishLeaf(Item(n), 0, FALSE) /\ UNCHANGED uploads
     \/ /\ Item(n) \in Cached /\ ~Cancelled
        /\ \/ FinishLeaf(Item(n), 0, TRUE) /\ UNCHANGED uploads
           \/ /\ FinishLeaf(Item(n), 0, FALSE)
              /\ uploads' = [uploads EXCEPT ![Item(n)] = "running"]

(* An upload ends behind the tasks; one that Ctrl-C cancels has failed.    *)
UploadEnds(l) ==
  /\ uploads[l] = "running"
  /\ uploads' \in {[uploads EXCEPT ![l] = e] : e \in {"stored", "failed"}}
  /\ UNCHANGED <<vars, cacheStatus, tasks, exit>>

-----------------------------------------------------------------------------
(* execute_graph.                                                          *)

(* The cache could not be opened: nothing is run or reported.              *)
CacheFails ==
  /\ phase[Root] = "waiting" /\ exit = None
  /\ exit' = 1
  /\ UNCHANGED <<vars, cacheStatus, tasks, uploads>>

(* Mutant: `as u8` without the clamp.                                      *)
Truncated(code) == code % 256

Clamp(code) == IF code < 1 THEN 1 ELSE IF code > 255 THEN 255 ELSE code

(* What the results of all tasks come to: one failed process passes its    *)
(* own code on.                                                            *)
Status ==
  LET failed == {l \in Leaves : Recorded(l) /\ tasks[l].result = "Failed"}
  IN  IF \/ \E l \in Leaves : Recorded(l) /\ tasks[l].result \in Errors
         \/ Cardinality(failed) > 1 THEN 1
      ELSE IF failed = {} THEN 0
      ELSE Clamp(tasks[CHOOSE l \in failed : TRUE].code)

(* Once the uploads have ended, SummaryGraphReporter::finish adds their    *)
(* errors to the results, and these say what is returned.                  *)
FinishRun ==
  /\ phase[Root] = "returned" /\ exit = None
  /\ \A l \in Leaves : uploads[l] # "running"
  /\ tasks' = [l \in Leaves |->
       IF uploads[l] = "failed" /\ tasks[l].result = "Success"
         THEN [tasks[l] EXCEPT !.result = "UploadError"] ELSE tasks[l]]
  /\ exit' = Status
  /\ UNCHANGED <<vars, cacheStatus, uploads>>

ReportedLeaf(n) ==
  \/ InProcessLeaf(n) \/ BeginLookup(n)
  \/ LookupError(n) \/ LookupCancelled(n) \/ StartLeaf(n) \/ ReplayHit(n) \/ SpawnFails(n)
  \/ StartProcess(n) \/ ProcessLost(n) \/ ProcessFails(n) \/ ProcessSucceeds(n)

(* What the reporter does not hear of.                                     *)
Unreported ==
  /\ exit = None
  /\ \/ EnterRoot \/ CtrlC
     \/ \E n \in Nodes :
          \/ Acquire(n) \/ AcquireFails(n) \/ BeginGraph(n) \/ GraphDone(n)
          \/ LeaveNode(n) \/ Reap(n) \/ Drain(n)
     \/ \E g \in Graphs : Return(g)
  /\ UNCHANGED reportVars

ReportNext ==
  \/ CacheFails \/ Unreported \/ FinishRun
  \/ \E n \in Nodes : ReportedLeaf(n)
  \/ \E l \in Leaves : UploadEnds(l)

ReportSpec == ReportInit /\ [][ReportNext]_<<vars, reportVars>>

-----------------------------------------------------------------------------
(* Properties.                                                             *)

Reported == phase[Root] = "returned" /\ exit # None

(* A failure the summary knows nothing of: the lookup's.                   *)
Unseen(l) == leaf[l] = "failed" /\ cacheStatus[l] = None

(* The status a run returns says what became of its tasks.  The summary    *)
(* has a result for each leaf that was started, zero means that each leaf  *)
(* has run and succeeded, no failure comes from an upload alone, and a     *)
(* code other than one is that of the only leaf that failed, never that of *)
(* a process killed because another one did.                               *)
OutcomeReported ==
  Reported =>
    /\ \A l \in Leaves : Recorded(l) <=> leaf[l] \in {"ok", "failed"} /\ ~Unseen(l)
    /\ exit # 0 => \E l \in Leaves :
         leaf[l] = "failed" \/ (Recorded(l) /\ tasks[l].result = "InfraError")
    /\ (\A l \in Leaves : ~Unseen(l)) =>
         /\ exit = 0 /\ ~ctrlC => Succeeded(Leaves)
         /\ exit \notin {0, 1} => \E l \in Leaves :
              /\ \A m \in Leaves : leaf[m] = "failed" <=> m = l
              /\ exit = Clamp(tasks[l].code) /\ tasks[l].code \in Codes

(* reporter/mod.rs: finish "Returns `Ok(())` if all tasks succeeded", and  *)
(* execute_graph says the same: a run that returns zero had no failure.    *)
FailureReported == Reported /\ exit = 0 => \A l \in Leaves : leaf[l] # "failed"
=============================================================================
