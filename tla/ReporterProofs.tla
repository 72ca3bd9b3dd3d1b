---------------------------- MODULE ReporterProofs ----------------------------
(***************************************************************************)
(* Proofs about Reporter, for every execution graph and every code a       *)
(* process may exit with: a reported run is a run of the scheduler, and    *)
(* the status it returns says what became of its tasks.  And proofs about  *)
(* Summary, for any number of runs and tasks.                              *)
(***************************************************************************)
EXTENDS Reporter, SchedulerProofs, Summary

USE GraphsAssumption

Results == {"CacheHit", "RestoreFailed", "InProcess", "Success", "Failed", "SpawnError",
            "InfraError", "UploadError"}
Result == [result : Results, code : Int \cup {None}]
Statuses == {"Hit", "InProcess", "Miss", "Disabled"}

(* The plan of a run is finite and its commands are all in it, a failing   *)
(* process has a code other than zero, and None is neither a code nor      *)
(* anything a leaf is reported with.                                       *)
Plan ==
  /\ IsFiniteSet(Leaves) /\ Leaves \subseteq Under(Root)
  /\ Codes \subseteq Int \ {0}
  /\ None \notin Int \cup Result \cup Statuses

(* No code is mistaken for another kind of status.                        *)
LEMMA CodeFacts ==
  ASSUME Plan
  PROVE  /\ None # 0 /\ None \in Int \cup {None} /\ 0 \in Int \cup {None}
         /\ \A code \in Codes \cup {Killed} : code \in Int \cup {None} /\ code # None /\ code # 0
<1>1. None \notin Int /\ Codes \subseteq Int \ {0}
  BY DEF Plan
<1> QED
  BY <1>1 DEF Killed

ReportTypeOK ==
  /\ cacheStatus \in [Leaves -> Statuses \cup {None}]
  /\ tasks \in [Leaves -> Result \cup {None}]
  /\ uploads \in [Leaves -> {"none", "running", "stored", "failed"}]
  /\ exit \in Int \cup {None}

(* What a failed leaf can have been reported with: nothing if its lookup   *)
(* failed.  A killed process came after the failure that killed it.        *)
FailedReport(l) ==
  \/ cacheStatus[l] = None /\ tasks[l] = None
  \/ /\ cacheStatus[l] # None /\ tasks[l] # None
     /\ \/ tasks[l].result \in {"RestoreFailed", "SpawnError"}
        \/ /\ tasks[l].result = "Failed" /\ tasks[l].code \in Codes \cup {Killed}
           /\ tasks[l].code \in Codes \/ \E m \in Leaves : m # l /\ leaf[m] = "failed"

(* What the reporter knows of a leaf follows from where the leaf is.       *)
LeafReport(l) ==
  /\ leaf[l] \in {"idle", "lookup", "cancelled"} => cacheStatus[l] = None
  /\ leaf[l] = "hit" => cacheStatus[l] = "Hit"
  /\ leaf[l] \in {"miss", "process"} => cacheStatus[l] \in {"Miss", "Disabled"}
  /\ leaf[l] \in {"idle", "cancelled"} \cup AtWork => tasks[l] = None
  /\ leaf[l] = "failed" => FailedReport(l)
  /\ leaf[l] = "ok" => /\ cacheStatus[l] # None /\ tasks[l] # None
                       /\ tasks[l].result \in {"CacheHit", "InProcess", "Success", "InfraError",
                                               "UploadError"}
  /\ uploads[l] # "none" => leaf[l] = "ok"

(* The token is cancelled for a leaf that has failed.                      *)
FailureKnown == fastFail => \E l \in Leaves : leaf[l] = "failed"

ExitInv == exit # None /\ phase[Root] = "returned" => exit = Status

ReportInv ==
  /\ ReportTypeOK
  /\ \A l \in Leaves : LeafReport(l)
  /\ FailureKnown
  /\ ExitInv

-----------------------------------------------------------------------------
(* A reported run is a run of the scheduler.                               *)
LEMMA ReportedStep ==
  ASSUME [ReportNext]_<<vars, reportVars>>
  PROVE  [Next]_vars
<1>1. ASSUME NEW n \in Nodes, ReportedLeaf(n)
      PROVE  \/ BeginLeaf(n) \/ LookupEnds(n) \/ PassLookup(n) \/ RestoreHit(n)
             \/ SpawnLeaf(n) \/ SpawnLeafFails(n) \/ Exit(n)
  BY <1>1 DEF ReportedLeaf, InProcessLeaf, BeginLookup, LookupError, LookupCancelled, StartLeaf,
              ReplayHit, SpawnFails, StartProcess, ProcessLost, ProcessFails, ProcessSucceeds
<1>2. CASE Unreported
  BY <1>2 DEF Unreported, Next, Executor
<1>3. CASE CacheFails \/ FinishRun \/ \E l \in Leaves : UploadEnds(l)
  BY <1>3 DEF CacheFails, FinishRun, UploadEnds
<1>4. CASE UNCHANGED <<vars, reportVars>>
  BY <1>4
<1> QED
  BY <1>1, <1>2, <1>3, <1>4 DEF ReportNext, Next, Executor

(* The scheduler's theorems hold of a reported run: each step of a leaf    *)
(* and its report is a step of the scheduler.                              *)
THEOREM ReportRefines == ReportSpec => Spec
<1>1. ReportInit => Init
  BY DEF ReportInit
<1> QED
  BY <1>1, ReportedStep, PTL DEF ReportSpec, Spec

-----------------------------------------------------------------------------
(* When the root's call has come back, no node is at work and no leaf is.  *)
LEMMA RootOver ==
  ASSUME Plan, IInv, phase[Root] = "returned"
  PROVE  /\ \A l \in Leaves : leaf[l] \notin AtWork
         /\ ~Cancelled => Succeeded(Leaves)
<1>1. ASSUME NEW l \in Leaves
      PROVE  \E n \in NodesOf[Root] : n \in Nodes /\ GraphOf(n) = Root /\ l \in Inside[n]
  BY UnderGraph, NodeFacts DEF Plan
<1>2. ASSUME NEW n \in Nodes, GraphOf(n) = Root
      PROVE  ~Live(n)
  <2>1. future[n] \in {"none", "reaped"}
    BY <1>2 DEF IInv, Local, PlacedInv, Placed
  <2> QED
    BY <2>1, LiveDeep DEF IInv
<1>3. ASSUME ~Cancelled, NEW n \in NodesOf[Root]
      PROVE  Succeeded(Inside[n])
  <2>1. n \in Nodes /\ future[n] = "reaped"
    BY <1>3, NodeFacts DEF IInv, Local, ReturnInv
  <2> QED
    BY <1>3, <2>1, NodeDone DEF IInv
<1> QED
  BY <1>1, <1>2, <1>3 DEF Live, Succeeded

(* So no leaf is reported any more.                                        *)
LEMMA NoneReported ==
  ASSUME Plan, IInv, phase[Root] = "returned", NEW n \in Nodes
  PROVE  ~ReportedLeaf(n)
<1>1. ASSUME AtLeaf(n) PROVE Item(n) \in Leaves
  BY <1>1 DEF AtLeaf
<1>2. ~BeginLeaf(n)
  BY <1>1, RootOver DEF BeginLeaf, Succeeded
<1>3. /\ ~LookupEnds(n) /\ ~PassLookup(n) /\ ~RestoreHit(n)
      /\ ~SpawnLeaf(n) /\ ~SpawnLeafFails(n) /\ ~Exit(n)
  BY <1>1, RootOver DEF LookupEnds, PassLookup, RestoreHit, SpawnLeaf, SpawnLeafFails, Exit, AtWork
<1> QED
  BY <1>2, <1>3 DEF ReportedLeaf, InProcessLeaf, BeginLookup, LookupError, LookupCancelled, StartLeaf, ReplayHit,
              SpawnFails, StartProcess, ProcessLost, ProcessFails, ProcessSucceeds

-----------------------------------------------------------------------------
(* One leaf's step leaves what is known of the others.                     *)
LEMMA OneLeaf ==
  ASSUME ReportInv, NEW l \in Leaves, leaf[l] # "failed",
         exit = None \/ phase[Root] # "returned", UNCHANGED <<exit, phase>>,
         \A m \in Leaves : m # l =>
           /\ leaf'[m] = leaf[m] /\ cacheStatus'[m] = cacheStatus[m]
           /\ tasks'[m] = tasks[m] /\ uploads'[m] = uploads[m],
         ReportTypeOK', LeafReport(l)',
         fastFail' => fastFail \/ leaf'[l] = "failed"
  PROVE  ReportInv'
<1>1. \A m \in Leaves : leaf[m] = "failed" => leaf'[m] = "failed"
  OBVIOUS
<1>2. ASSUME NEW m \in Leaves, m # l PROVE LeafReport(m)'
  <2>1. LeafReport(m)
    BY DEF ReportInv
  <2>2. FailedReport(m) => FailedReport(m)'
    BY <1>1, <1>2 DEF FailedReport
  <2> QED
    BY <1>2, <2>1, <2>2 DEF LeafReport
<1>3. FailureKnown'
  BY <1>1 DEF ReportInv, FailureKnown
<1>4. ExitInv'
  BY DEF ExitInv
<1> QED
  BY <1>2, <1>3, <1>4 DEF ReportInv

(* finish() records the result of the leaf and no other's.                 *)
LEMMA Finished ==
  ASSUME Plan, ReportTypeOK, NEW l \in Leaves, NEW result \in Results, NEW code \in Int \cup {None},
         tasks' = [tasks EXCEPT ![l] = [result |-> result, code |-> code]]
  PROVE  /\ tasks' \in [Leaves -> Result \cup {None}]
         /\ \A m \in Leaves : m # l => tasks'[m] = tasks[m]
         /\ tasks'[l] # None /\ tasks'[l].code = code /\ tasks'[l].result = result
<1> DEFINE r == [result |-> result, code |-> code]
<1>1. r \in Result /\ r # None
  BY DEF Result, Plan
<1>2. r.code = code /\ r.result = result
  OBVIOUS
<1> HIDE DEF r
<1>3. tasks' = [tasks EXCEPT ![l] = r]
  BY DEF r
<1>4. tasks'[l] = r
  BY <1>3 DEF ReportTypeOK
<1> QED
  BY <1>1, <1>2, <1>3, <1>4 DEF ReportTypeOK

-----------------------------------------------------------------------------
Ends(l, outcome) ==
  /\ leaf' = [leaf EXCEPT ![l] = outcome]
  /\ fastFail' = (fastFail \/ outcome = "failed")
  /\ phase' = phase

(* Where a leaf's step leaves it.                                          *)
LEMMA LeafMoves ==
  ASSUME TypeOK, NEW n \in Nodes, NEW l, l = Item(n)
  PROVE  /\ BeginLeaf(n) => /\ leaf[l] = "idle"
                            /\ leaf' = [leaf EXCEPT ![l] = IF l \in InProcess THEN "ok" ELSE "lookup"]
                            /\ UNCHANGED <<phase, fastFail>>
         /\ PassLookup(n) => \E found \in {"hit", "miss"} :
              /\ leaf[l] = "lookup" /\ leaf' = [leaf EXCEPT ![l] = found]
              /\ UNCHANGED <<phase, fastFail>>
         /\ SpawnLeaf(n) => /\ leaf[l] = "miss" /\ leaf' = [leaf EXCEPT ![l] = "process"]
                            /\ UNCHANGED <<phase, fastFail>>
         /\ LookupEnds(n) => leaf[l] = "lookup" /\ \E outcome \in {"failed", "cancelled"} : Ends(l, outcome)
         /\ RestoreHit(n) => leaf[l] = "hit" /\ \E outcome \in {"ok", "failed"} : Ends(l, outcome)
         /\ SpawnLeafFails(n) => leaf[l] = "miss" /\ Ends(l, "failed")
         /\ Exit(n) => leaf[l] = "process" /\ \E outcome \in {"ok", "failed"} : Ends(l, outcome)
         /\ \/ BeginLeaf(n) \/ LookupEnds(n) \/ PassLookup(n) \/ RestoreHit(n)
            \/ SpawnLeaf(n) \/ SpawnLeafFails(n) \/ Exit(n)
            => l \in Leaves
<1>1. \/ BeginLeaf(n) \/ LookupEnds(n) \/ PassLookup(n) \/ RestoreHit(n)
      \/ SpawnLeaf(n) \/ SpawnLeafFails(n) \/ Exit(n)
      => l \in Leaves
  BY DEF BeginLeaf, LookupEnds, PassLookup, RestoreHit, SpawnLeaf, SpawnLeafFails, Exit, AtLeaf
<1>2. BeginLeaf(n) => /\ leaf[l] = "idle"
                      /\ leaf' = [leaf EXCEPT ![l] = IF l \in InProcess THEN "ok" ELSE "lookup"]
                      /\ UNCHANGED <<phase, fastFail>>
  BY DEF BeginLeaf
<1>3. SpawnLeaf(n) => /\ leaf[l] = "miss" /\ leaf' = [leaf EXCEPT ![l] = "process"]
                      /\ UNCHANGED <<phase, fastFail>>
  BY DEF SpawnLeaf
<1>4. PassLookup(n) => \E found \in {"hit", "miss"} :
        /\ leaf[l] = "lookup" /\ leaf' = [leaf EXCEPT ![l] = found]
        /\ UNCHANGED <<phase, fastFail>>
  BY DEF PassLookup, StartWith
<1>5. LookupEnds(n) => leaf[l] = "lookup" /\ \E outcome \in {"failed", "cancelled"} : Ends(l, outcome)
  BY DEF LookupEnds, LeafDone, Ends
<1>6. RestoreHit(n) => leaf[l] = "hit" /\ \E outcome \in {"ok", "failed"} : Ends(l, outcome)
  BY DEF RestoreHit, LeafDone, Ends
<1>7. SpawnLeafFails(n) => leaf[l] = "miss" /\ Ends(l, "failed")
  BY DEF SpawnLeafFails, LeafDone, Ends
<1>8. Exit(n) => leaf[l] = "process" /\ \E outcome \in {"ok", "failed"} : Ends(l, outcome)
  BY DEF Exit, LeafDone, Ends
<1> QED
  BY <1>1, <1>2, <1>3, <1>4, <1>5, <1>6, <1>7, <1>8

(* A leaf's step and what the reporter is told of it go together.          *)
LEMMA LeafSteps ==
  ASSUME Plan, TypeOK, ReportInv, NEW n \in Nodes, NEW l, l = Item(n), ReportedLeaf(n),
         exit = None \/ phase[Root] # "returned"
  PROVE  ReportInv'
<1>0. /\ l \in Leaves /\ LeafReport(l) /\ ReportTypeOK
      /\ leaf \in [Leaves -> {"idle", "ok", "failed", "cancelled"} \cup AtWork]
  <2>1. \/ BeginLeaf(n) \/ LookupEnds(n) \/ PassLookup(n) \/ RestoreHit(n)
        \/ SpawnLeaf(n) \/ SpawnLeafFails(n) \/ Exit(n)
    BY DEF ReportedLeaf, InProcessLeaf, BeginLookup, LookupError, LookupCancelled, StartLeaf, ReplayHit,
              SpawnFails, StartProcess, ProcessLost, ProcessFails, ProcessSucceeds
  <2> QED
    BY <2>1, LeafMoves DEF ReportInv, TypeOK, AtWork
<1>1. exit' = exit /\ None \notin Statuses
  BY DEF ReportedLeaf, InProcessLeaf, BeginLookup, LookupError, LookupCancelled, StartLeaf, ReplayHit,
         SpawnFails, StartProcess, ProcessLost, ProcessFails, ProcessSucceeds, reportVars, Plan
<1>2. None \in Int \cup {None} /\ 0 \in Int \cup {None} /\ None # 0
  BY CodeFacts
(* A status that start() reported.                                         *)
<1>3. ASSUME NEW status \in Statuses, Start(l, status)
      PROVE  /\ cacheStatus' \in [Leaves -> Statuses \cup {None}] /\ cacheStatus'[l] = status
             /\ \A m \in Leaves : m # l => cacheStatus'[m] = cacheStatus[m]
  BY <1>0, <1>3 DEF Start, ReportTypeOK
<1>4. ASSUME UNCHANGED cacheStatus
      PROVE  cacheStatus' \in [Leaves -> Statuses \cup {None}]
  BY <1>0, <1>4 DEF ReportTypeOK
<1>5. CASE InProcessLeaf(n)
  <2>1. /\ leaf[l] = "idle" /\ leaf' = [leaf EXCEPT ![l] = "ok"]
        /\ UNCHANGED <<phase, fastFail, uploads>> /\ Start(l, "InProcess")
        /\ FinishLeaf(l, None, FALSE)
    BY <1>5, LeafMoves DEF InProcessLeaf
  <2>2. /\ cacheStatus' \in [Leaves -> Statuses \cup {None}] /\ cacheStatus'[l] = "InProcess"
        /\ \A m \in Leaves : m # l => cacheStatus'[m] = cacheStatus[m]
    BY <1>3, <2>1 DEF Statuses
  <2>3. /\ tasks' \in [Leaves -> Result \cup {None}]
        /\ \A m \in Leaves : m # l => tasks'[m] = tasks[m]
        /\ tasks'[l] # None /\ tasks'[l].result = "InProcess"
    <3>1. tasks' = [tasks EXCEPT ![l] = [result |-> "InProcess", code |-> None]]
      BY <1>1, <2>1, <2>2 DEF FinishLeaf, TaskResult, Statuses
    <3> QED
      BY <1>0, <1>2, <3>1, Finished DEF Results
  <2>4. LeafReport(l)' /\ leaf[l] # "failed"
    BY <1>0, <1>1, <2>1, <2>2, <2>3 DEF LeafReport, Statuses, AtWork
  <2>5. ReportTypeOK'
    BY <1>0, <1>1, <2>1, <2>2, <2>3 DEF ReportTypeOK
  <2> QED
    BY <1>0, <1>1, <2>1, <2>2, <2>3, <2>4, <2>5, OneLeaf
<1>6. CASE BeginLookup(n) \/ StartProcess(n)
  <2>1. /\ \/ leaf[l] = "idle" /\ leaf'[l] = "lookup"
           \/ leaf[l] = "miss" /\ leaf'[l] = "process"
        /\ \A m \in Leaves : m # l => leaf'[m] = leaf[m]
        /\ UNCHANGED <<phase, fastFail, uploads, tasks, cacheStatus>>
    BY <1>0, <1>6, LeafMoves DEF BeginLookup, StartProcess, reportVars
  <2>2. LeafReport(l)' /\ leaf[l] # "failed"
    BY <1>0, <2>1 DEF LeafReport, AtWork
  <2>3. ReportTypeOK'
    BY <1>0, <1>1, <2>1 DEF ReportTypeOK
  <2> QED
    BY <1>0, <1>1, <2>1, <2>2, <2>3, OneLeaf
<1>7. CASE LookupError(n) \/ LookupCancelled(n)
  <2>1. PICK error \in BOOLEAN :
        /\ leaf[l] = "lookup" /\ leaf'[l] \in {"failed", "cancelled"}
        /\ \A m \in Leaves : m # l => leaf'[m] = leaf[m]
        /\ UNCHANGED <<phase, uploads, cacheStatus>> /\ (fastFail' => fastFail \/ leaf'[l] = "failed")
        /\ FinishLeaf(l, None, error)
    BY <1>0, <1>7, LeafMoves DEF LookupError, LookupCancelled, Ends
  <2>2. cacheStatus[l] = None /\ tasks[l] = None
    BY <1>0, <2>1 DEF LeafReport, AtWork
  <2>3. /\ tasks' \in [Leaves -> Result \cup {None}]
        /\ \A m \in Leaves : m # l => tasks'[m] = tasks[m]
        /\ tasks'[l] = None
    BY <1>0, <2>1, <2>2 DEF FinishLeaf, ReportTypeOK
  <2>4. LeafReport(l)' /\ leaf[l] # "failed"
    BY <1>0, <2>1, <2>2, <2>3 DEF LeafReport, FailedReport, AtWork
  <2>5. ReportTypeOK'
    BY <1>0, <1>1, <1>4, <2>1, <2>3 DEF ReportTypeOK
  <2> QED
    BY <1>0, <1>1, <2>1, <2>3, <2>4, <2>5, OneLeaf
<1>8. CASE ReplayHit(n)
  <2>1. /\ leaf[l] = "hit" /\ leaf'[l] \in {"ok", "failed"}
        /\ \A m \in Leaves : m # l => leaf'[m] = leaf[m]
        /\ UNCHANGED <<phase, uploads, cacheStatus>> /\ (fastFail' => fastFail \/ leaf'[l] = "failed")
        /\ FinishLeaf(l, None, leaf'[l] = "failed")
    <3>1. RestoreHit(n) /\ UNCHANGED <<cacheStatus, uploads>>
          /\ FinishLeaf(l, None, leaf'[l] = "failed")
      BY <1>8 DEF ReplayHit
    <3>2. PICK outcome \in {"ok", "failed"} : leaf[l] = "hit" /\ Ends(l, outcome)
      BY <3>1, LeafMoves
    <3> QED
      BY <1>0, <3>1, <3>2 DEF Ends
  <2>2. cacheStatus'[l] = "Hit" /\ UNCHANGED cacheStatus
    BY <1>0, <2>1 DEF LeafReport
  <2>3. /\ tasks' \in [Leaves -> Result \cup {None}]
        /\ \A m \in Leaves : m # l => tasks'[m] = tasks[m]
        /\ tasks'[l] # None
        /\ tasks'[l].result = IF leaf'[l] = "failed" THEN "RestoreFailed" ELSE "CacheHit"
    <3> DEFINE result == IF leaf'[l] = "failed" THEN "RestoreFailed" ELSE "CacheHit"
    <3>1. tasks' = [tasks EXCEPT ![l] = [result |-> result, code |-> None]]
      BY <1>1, <2>1, <2>2 DEF FinishLeaf, TaskResult, Statuses
    <3>2. result \in Results
      BY DEF Results
    <3> HIDE DEF result
    <3>3. tasks'[l].result = result
      BY <1>0, <1>2, <3>1, <3>2, Finished
    <3> QED
      BY <1>0, <1>2, <3>1, <3>2, <3>3, Finished DEF result
  <2>4. LeafReport(l)' /\ leaf[l] # "failed"
    BY <1>0, <1>1, <2>1, <2>2, <2>3 DEF LeafReport, FailedReport, Statuses, AtWork
  <2>5. ReportTypeOK'
    BY <1>0, <1>1, <2>1, <2>2, <2>3 DEF ReportTypeOK
  <2> QED
    BY <1>0, <1>1, <2>1, <2>2, <2>3, <2>4, <2>5, OneLeaf
<1>9. CASE SpawnFails(n)
  <2>1. /\ leaf[l] = "miss" /\ leaf'[l] = "failed"
        /\ \A m \in Leaves : m # l => leaf'[m] = leaf[m]
        /\ UNCHANGED <<phase, uploads, cacheStatus>> /\ FinishLeaf(l, None, TRUE)
    BY <1>0, <1>9, LeafMoves DEF SpawnFails, Ends
  <2>3. cacheStatus'[l] \in {"Miss", "Disabled"} /\ UNCHANGED cacheStatus
    BY <1>0, <2>1 DEF LeafReport
  <2>4. /\ tasks' \in [Leaves -> Result \cup {None}]
        /\ \A m \in Leaves : m # l => tasks'[m] = tasks[m]
        /\ tasks'[l] # None /\ tasks'[l].result = "SpawnError"
    <3>1. tasks' = [tasks EXCEPT ![l] = [result |-> "SpawnError", code |-> None]]
      BY <1>1, <1>2, <2>1, <2>3 DEF FinishLeaf, TaskResult, SpawnOutcome, Statuses
    <3> QED
      BY <1>0, <1>2, <3>1, Finished DEF Results
  <2>5. LeafReport(l)' /\ leaf[l] # "failed"
    BY <1>0, <1>1, <2>1, <2>3, <2>4 DEF LeafReport, FailedReport, Statuses, AtWork
  <2>6. ReportTypeOK'
    BY <1>0, <1>1, <2>1, <2>3, <2>4 DEF ReportTypeOK
  <2> QED
    BY <1>0, <1>1, <2>1, <2>3, <2>4, <2>5, <2>6, OneLeaf
<1>10. CASE ProcessLost(n) \/ ProcessFails(n) \/ ProcessSucceeds(n)
  <2>1. /\ leaf[l] = "process" /\ leaf'[l] \in {"ok", "failed"}
        /\ \A m \in Leaves : m # l => leaf'[m] = leaf[m]
        /\ UNCHANGED <<phase, cacheStatus>> /\ (fastFail' => fastFail \/ leaf'[l] = "failed")
    BY <1>0, <1>10, LeafMoves DEF ProcessLost, ProcessFails, ProcessSucceeds, Ends
  <2>2. cacheStatus[l] \in {"Miss", "Disabled"} /\ cacheStatus'[l] = cacheStatus[l] /\ cacheStatus[l] # None
    BY <1>0, <1>1, <2>1 DEF LeafReport, Statuses, AtWork
  <2>3. PICK result \in Results, code \in Int \cup {None} :
        /\ tasks' = [tasks EXCEPT ![l] = [result |-> result, code |-> code]]
        /\ \/ leaf'[l] = "failed" /\ result = "SpawnError"
           \/ /\ leaf'[l] = "failed" /\ result = "Failed" /\ code \in Codes \cup {Killed}
              /\ code \in Codes \/ fastFail
           \/ leaf'[l] = "ok" /\ result \in {"Success", "InfraError"}
    <3>1. CASE ProcessLost(n)
      <4>1. tasks' = [tasks EXCEPT ![l] = [result |-> "SpawnError", code |-> None]] /\ leaf'[l] = "failed"
        BY <1>2, <2>2, <3>1 DEF ProcessLost, FinishLeaf, TaskResult, SpawnOutcome
      <4> QED
        BY <1>2, <4>1 DEF Results
    <3>2. CASE ProcessFails(n)
      <4>1. PICK code \in Codes \cup {Killed} :
              (code = Killed => fastFail) /\ FinishLeaf(l, code, FALSE) /\ leaf'[l] = "failed"
        BY <3>2 DEF ProcessFails
      <4>2. code \in Int \cup {None} /\ (code \in Codes \/ fastFail) /\ code \notin {None, 0}
        BY <4>1, CodeFacts
      <4>3. tasks' = [tasks EXCEPT ![l] = [result |-> "Failed", code |-> code]]
        BY <2>2, <4>1, <4>2 DEF FinishLeaf, TaskResult, SpawnOutcome
      <4> QED
        BY <4>1, <4>2, <4>3 DEF Results
    <3>3. CASE ProcessSucceeds(n)
      <4>1. leaf'[l] = "ok" /\ (FinishLeaf(l, 0, FALSE) \/ FinishLeaf(l, 0, TRUE))
        BY <3>3 DEF ProcessSucceeds
      <4>2. PICK result \in {"Success", "InfraError"} :
              tasks' = [tasks EXCEPT ![l] = [result |-> result, code |-> 0]]
        BY <1>2, <2>2, <4>1 DEF FinishLeaf, TaskResult, SpawnOutcome
      <4> QED
        BY <1>2, <4>1, <4>2 DEF Results
    <3> QED
      BY <1>10, <3>1, <3>2, <3>3
  <2>4. /\ tasks' \in [Leaves -> Result \cup {None}]
        /\ \A m \in Leaves : m # l => tasks'[m] = tasks[m]
        /\ tasks'[l] # None /\ tasks'[l].code = code /\ tasks'[l].result = result
    BY <1>0, <2>3, Finished
  <2>5. \/ UNCHANGED uploads
        \/ leaf'[l] = "ok" /\ uploads' = [uploads EXCEPT ![l] = "running"]
    BY <1>10 DEF ProcessLost, ProcessFails, ProcessSucceeds
  <2>6. fastFail => \E m \in Leaves : m # l /\ leaf'[m] = "failed"
    BY <2>1 DEF ReportInv, FailureKnown
  <2>7. uploads' \in [Leaves -> {"none", "running", "stored", "failed"}]
        /\ (\A m \in Leaves : m # l => uploads'[m] = uploads[m])
        /\ (uploads'[l] # "none" => leaf'[l] = "ok")
    BY <1>0, <2>1, <2>5 DEF ReportTypeOK, LeafReport
  <2>8. LeafReport(l)' /\ leaf[l] # "failed"
    <3>1. leaf'[l] = "failed" => FailedReport(l)'
      BY <2>2, <2>3, <2>4, <2>6 DEF FailedReport
    <3> QED
      BY <2>1, <2>2, <2>3, <2>4, <2>7, <3>1 DEF LeafReport, AtWork
  <2>9. ReportTypeOK'
    BY <1>0, <1>1, <1>4, <2>1, <2>4, <2>7 DEF ReportTypeOK
  <2> QED
    BY <1>0, <1>1, <2>1, <2>4, <2>7, <2>8, <2>9, OneLeaf
<1>11. CASE StartLeaf(n)
  <2>1. /\ leaf[l] = "lookup" /\ leaf'[l] \in {"hit", "miss"}
        /\ \A m \in Leaves : m # l => leaf'[m] = leaf[m]
        /\ UNCHANGED <<phase, fastFail, uploads, tasks>>
    BY <1>0, <1>11, LeafMoves DEF StartLeaf
  <2>2. PICK status \in {"Hit", "Miss", "Disabled"} :
          Start(l, status) /\ (leaf'[l] = "hit" <=> status = "Hit")
    BY <1>11 DEF StartLeaf
  <2>3. /\ cacheStatus' \in [Leaves -> Statuses \cup {None}] /\ cacheStatus'[l] = status
        /\ \A m \in Leaves : m # l => cacheStatus'[m] = cacheStatus[m]
    BY <1>3, <2>2 DEF Statuses
  <2>4. LeafReport(l)' /\ leaf[l] # "failed"
    BY <1>0, <2>1, <2>2, <2>3 DEF LeafReport, AtWork
  <2>5. ReportTypeOK'
    BY <1>0, <1>1, <2>1, <2>3 DEF ReportTypeOK
  <2> QED
    BY <1>0, <1>1, <2>1, <2>3, <2>4, <2>5, OneLeaf
<1> QED
  BY <1>5, <1>6, <1>7, <1>8, <1>9, <1>10, <1>11 DEF ReportedLeaf

-----------------------------------------------------------------------------
(* The steps that are no leaf's.                                           *)

(* What the reporter does not hear of changes no leaf.                     *)
LEMMA UnreportedLeaves ==
  ASSUME Unreported
  PROVE  UNCHANGED <<leaf, fastFail, reportVars>> /\ exit = None
BY DEF Unreported, EnterRoot, Enter, CtrlC, Acquire, AcquireFails, BeginGraph, GraphDone, LeaveNode,
       Reap, Drain, Return

(* The status is what the results come to, with or without the errors of   *)
(* the uploads.                                                            *)
LEMMA StatusStays ==
  ASSUME UNCHANGED tasks
  PROVE  Status' = Status
BY DEF Status, Recorded

LEMMA FinishStep ==
  ASSUME Plan, TypeOK, ReportInv, FinishRun
  PROVE  ReportInv'
<1>1. /\ UNCHANGED <<leaf, fastFail, cacheStatus, uploads, phase>> /\ exit' = Status
      /\ tasks' = [l \in Leaves |->
           IF uploads[l] = "failed" /\ tasks[l].result = "Success"
             THEN [tasks[l] EXCEPT !.result = "UploadError"] ELSE tasks[l]]
  BY DEF FinishRun, vars
<1>2. ASSUME NEW l \in Leaves
      PROVE  /\ tasks'[l] \in Result \cup {None} /\ LeafReport(l)'
             /\ Recorded(l)' <=> Recorded(l)
             /\ Recorded(l) => /\ tasks'[l].code = tasks[l].code
                               /\ \/ tasks'[l].result = tasks[l].result
                                  \/ tasks'[l].result = "UploadError" /\ tasks[l].result = "Success"
  <2>1. LeafReport(l) /\ tasks[l] \in Result \cup {None} /\ None \notin Result
    BY DEF ReportInv, ReportTypeOK, Plan
  <2>2. CASE uploads[l] = "failed" /\ tasks[l].result = "Success"
    <3>1. leaf[l] = "ok" /\ tasks[l] \in Result
      BY <2>1, <2>2 DEF LeafReport
    <3>2. tasks'[l] = [tasks[l] EXCEPT !.result = "UploadError"]
      BY <1>1, <2>2
    <3>3. tasks'[l] \in Result /\ tasks'[l].code = tasks[l].code /\ tasks'[l].result = "UploadError"
      BY <3>1, <3>2 DEF Result, Results
    <3> QED
      BY <1>1, <2>1, <2>2, <3>1, <3>3 DEF LeafReport, Recorded
  <2>3. CASE ~(uploads[l] = "failed" /\ tasks[l].result = "Success")
    <3>1. tasks'[l] = tasks[l]
      BY <1>1, <2>3
    <3>2. FailedReport(l) => FailedReport(l)'
      BY <1>1, <3>1 DEF FailedReport
    <3>3. UNCHANGED <<leaf, cacheStatus, uploads>>
      BY <1>1
    <3>4. LeafReport(l)'
      BY <2>1, <3>1, <3>2, <3>3 DEF LeafReport
    <3> QED
      BY <2>1, <3>1, <3>4 DEF Recorded
  <2> QED
    BY <2>2, <2>3
<1> DEFINE Failures == {l \in Leaves : Recorded(l) /\ tasks[l].result = "Failed"}
           Broken == \E l \in Leaves : Recorded(l) /\ tasks[l].result \in Errors
<1>3. Failures' = Failures /\ (Broken' <=> Broken)
  BY <1>2 DEF Errors
<1>4. \A l \in Failures : tasks'[l].code = tasks[l].code
  BY <1>2
<1>5. Status' = Status
  <2> DEFINE One == CHOOSE l \in Failures : TRUE
  <2>1. One' = One
    BY <1>3
  <2>2. Failures # {} => tasks'[One].code = tasks[One].code
    BY <1>4
  <2>3. Status = IF Broken \/ Cardinality(Failures) > 1 THEN 1
                 ELSE IF Failures = {} THEN 0 ELSE Clamp(tasks[One].code)
    BY DEF Status
  <2>4. Status' = IF Broken' \/ Cardinality(Failures') > 1 THEN 1
                  ELSE IF Failures' = {} THEN 0 ELSE Clamp(tasks'[One'].code)
    BY DEF Status, Recorded, Clamp
  <2> HIDE DEF Failures, Broken, One
  <2> QED
    BY <1>3, <2>1, <2>2, <2>3, <2>4
<1>6. Status \in Int
  <2> DEFINE One == CHOOSE l \in Failures : TRUE
  <2>1. Failures # {} => tasks[One].code \in Codes \cup {Killed}
    <3>1. ASSUME NEW l \in Failures PROVE tasks[l].code \in Codes \cup {Killed}
      <4>1. LeafReport(l) /\ leaf[l] \in {"idle", "ok", "failed", "cancelled"} \cup AtWork
        BY DEF ReportInv, TypeOK, AtWork
      <4> QED
        BY <4>1 DEF LeafReport, FailedReport, Recorded
    <3> HIDE DEF Failures
    <3> QED
      BY <3>1
  <2> QED
    BY <2>1, CodeFacts DEF Status, Clamp
<1> QED
  BY <1>1, <1>2, <1>5, <1>6 DEF ReportInv, ReportTypeOK, FailureKnown, ExitInv

LEMMA OtherSteps ==
  ASSUME Plan, ReportInv,
         \/ CacheFails \/ Unreported
         \/ \E l \in Leaves : UploadEnds(l)
         \/ UNCHANGED <<vars, reportVars>>
  PROVE  ReportInv'
<1>1. CASE UNCHANGED <<leaf, fastFail, reportVars>> /\ (exit = None \/ phase' = phase)
  <2>1. Status' = Status
    BY <1>1, StatusStays DEF reportVars
  <2> QED
    BY <1>1, <2>1 DEF ReportInv, ReportTypeOK, LeafReport, FailedReport, FailureKnown, ExitInv, reportVars
<1>2. CASE CacheFails
  <2>1. UNCHANGED <<leaf, fastFail, cacheStatus, tasks, uploads, phase>> /\ exit' = 1
        /\ phase[Root] = "waiting"
    BY <1>2 DEF CacheFails, vars
  <2> QED
    BY <2>1 DEF ReportInv, ReportTypeOK, LeafReport, FailedReport, FailureKnown, ExitInv
<1>3. ASSUME NEW l \in Leaves, UploadEnds(l)
      PROVE  ReportInv'
  <2>1. UNCHANGED <<leaf, fastFail, cacheStatus, tasks, exit, phase>> /\ uploads[l] = "running"
        /\ \E e \in {"stored", "failed"} : uploads' = [uploads EXCEPT ![l] = e]
    BY <1>3 DEF UploadEnds, vars
  <2>2. Status' = Status
    BY <2>1, StatusStays
  <2>3. /\ uploads' \in [Leaves -> {"none", "running", "stored", "failed"}]
        /\ \A m \in Leaves : uploads'[m] # "none" => uploads[m] # "none"
    BY <2>1 DEF ReportInv, ReportTypeOK
  <2> QED
    BY <2>1, <2>2, <2>3 DEF ReportInv, ReportTypeOK, LeafReport, FailedReport, FailureKnown, ExitInv
<1> QED
  BY <1>1, <1>2, <1>3, UnreportedLeaves DEF vars

-----------------------------------------------------------------------------
(* What the summary and the status say follows, at every moment, from what *)
(* became of the leaves.                                                   *)
THEOREM ReportInvariant ==
  ASSUME Plan
  PROVE  ReportSpec => []ReportInv
<1>1. ReportInit => ReportInv
  BY CodeFacts DEF ReportInit, Init, ReportInv, ReportTypeOK, LeafReport, FailureKnown, ExitInv, Plan
<1>2. IInv /\ ReportInv /\ [ReportNext]_<<vars, reportVars>> => ReportInv'
  <2> SUFFICES ASSUME IInv, ReportInv, [ReportNext]_<<vars, reportVars>>
               PROVE  ReportInv'
    OBVIOUS
  <2>1. TypeOK
    BY DEF IInv, Local
  <2>2. ASSUME NEW n \in Nodes, ReportedLeaf(n) PROVE ReportInv'
    <3>1. phase[Root] # "returned"
      BY <2>2, NoneReported
    <3> QED
      BY <2>1, <2>2, <3>1, LeafSteps
  <2> QED
    BY <2>1, <2>2, FinishStep, OtherSteps DEF ReportNext
<1> QED
  BY <1>1, <1>2, ReportRefines, SchedulerInvariant, PTL DEF ReportSpec

(* When a run returns, the summary has each leaf that was started, zero    *)
(* means that all have succeeded, and a code other than one is that of the *)
(* only leaf that failed, not of one that was killed.                      *)
THEOREM OutcomesReported ==
  ASSUME Plan
  PROVE  ReportSpec => []OutcomeReported
<1>1. IInv /\ ReportInv => OutcomeReported
  <2> SUFFICES ASSUME IInv, ReportInv, Reported
               PROVE  /\ \A l \in Leaves : Recorded(l) <=> leaf[l] \in {"ok", "failed"} /\ ~Unseen(l)
                      /\ exit # 0 => \E l \in Leaves :
                           leaf[l] = "failed" \/ (Recorded(l) /\ tasks[l].result = "InfraError")
                      /\ (\A l \in Leaves : ~Unseen(l)) =>
                           /\ exit = 0 /\ ~ctrlC => Succeeded(Leaves)
                           /\ exit \notin {0, 1} => \E l \in Leaves :
                                /\ \A m \in Leaves : leaf[m] = "failed" <=> m = l
                                /\ exit = Clamp(tasks[l].code) /\ tasks[l].code \in Codes
    BY DEF OutcomeReported
  <2> DEFINE Failures == {l \in Leaves : Recorded(l) /\ tasks[l].result = "Failed"}
             Broken == \E l \in Leaves : Recorded(l) /\ tasks[l].result \in Errors
             One == CHOOSE l \in Failures : TRUE
  <2>1. exit = IF Broken \/ Cardinality(Failures) > 1 THEN 1
               ELSE IF Failures = {} THEN 0 ELSE Clamp(tasks[One].code)
    BY DEF ReportInv, ExitInv, Reported, Status
  <2>2. /\ \A l \in Leaves : LeafReport(l)
        /\ \A l \in Leaves : leaf[l] \in {"idle", "ok", "failed", "cancelled"} \cup AtWork
    BY DEF ReportInv, IInv, Local, TypeOK, AtWork
  <2>3. \A l \in Leaves : Recorded(l) <=> leaf[l] \in {"ok", "failed"} /\ ~Unseen(l)
    BY <2>2 DEF LeafReport, FailedReport, Recorded, Unseen
  <2>4. \A l \in Leaves : l \in Failures => leaf[l] = "failed" /\ tasks[l].code \in Codes \cup {Killed}
    BY <2>2 DEF LeafReport, FailedReport, Recorded
  <2>5. \A l \in Leaves : Recorded(l) /\ tasks[l].result \in Errors =>
          leaf[l] = "failed" \/ tasks[l].result = "InfraError"
    BY <2>2 DEF LeafReport, FailedReport, Recorded, Errors
  <2>6. Failures # {} => One \in Failures
    <3> HIDE DEF Failures
    <3> QED
      OBVIOUS
  <2>7. ASSUME exit # 0
        PROVE  \E l \in Leaves : leaf[l] = "failed" \/ (Recorded(l) /\ tasks[l].result = "InfraError")
    <3>1. CASE Broken
      BY <2>5, <3>1
    <3>2. CASE Failures # {}
      BY <2>4, <3>2
    <3>3. CASE ~Broken /\ Failures = {}
      <4>1. Cardinality(Failures) = 0
        BY <3>3, FS_EmptySet
      <4> QED
        BY <2>1, <2>7, <3>3, <4>1
    <3> QED
      BY <3>1, <3>2, <3>3
  <2>8. ASSUME \A l \in Leaves : ~Unseen(l)
        PROVE  \A l \in Leaves : leaf[l] = "failed" => l \in Failures \/ Broken
    BY <2>2, <2>8 DEF LeafReport, FailedReport, Recorded, Unseen, Errors
  <2>9. ASSUME \A l \in Leaves : ~Unseen(l), exit = 0, ~ctrlC
        PROVE  Succeeded(Leaves)
    <3>1. ~Broken /\ Failures = {}
      <4>1. ASSUME Failures # {} PROVE Clamp(tasks[One].code) # 0
        BY <2>4, <2>6, <4>1, CodeFacts DEF Clamp
      <4> HIDE DEF Failures, Broken, One
      <4> QED
        BY <2>1, <2>9, <4>1
    <3>2. ~Cancelled
      BY <2>8, <2>9, <3>1 DEF Cancelled, ReportInv, FailureKnown
    <3> QED
      BY <3>2, RootOver DEF Reported
  <2>10. ASSUME \A l \in Leaves : ~Unseen(l), exit \notin {0, 1}
         PROVE  \E l \in Leaves :
                  /\ \A m \in Leaves : leaf[m] = "failed" <=> m = l
                  /\ exit = Clamp(tasks[l].code) /\ tasks[l].code \in Codes
    <3>1. ~Broken /\ ~(Cardinality(Failures) > 1) /\ Failures # {} /\ exit = Clamp(tasks[One].code)
      <4> HIDE DEF Failures, Broken, One
      <4> QED
        BY <2>1, <2>10
    <3>2. One \in Failures /\ One \in Leaves
      BY <2>6, <3>1
    <3>3. \A m \in Failures : m = One
      <4>1. IsFiniteSet(Failures) /\ Failures \in SUBSET Leaves
        BY FS_Subset DEF Plan
      <4> HIDE DEF Failures, One
      <4>2. Cardinality(Failures) \in Nat /\ Cardinality(Failures) # 0
        BY <3>1, <4>1, FS_CardinalityType, FS_EmptySet
      <4>3. Cardinality(Failures) = 1
        BY <3>1, <4>2
      <4> QED
        BY <3>2, <4>1, <4>3, FS_Singleton
    <3>4. \A m \in Leaves : leaf[m] = "failed" <=> m = One
      BY <2>4, <2>8, <2>10, <3>1, <3>2, <3>3
    <3>5. tasks[One].code \in Codes
      <4>1. LeafReport(One) /\ leaf[One] = "failed" /\ Recorded(One) /\ tasks[One].result = "Failed"
        BY <2>2, <2>4, <3>2
      <4> HIDE DEF One
      <4> QED
        BY <3>4, <4>1 DEF LeafReport, FailedReport, Recorded
    <3> HIDE DEF One
    <3> QED
      BY <3>1, <3>2, <3>4, <3>5
  <2> QED
    BY <2>3, <2>7, <2>9, <2>10
<1> QED
  BY <1>1, ReportInvariant, ReportRefines, SchedulerInvariant, PTL

-----------------------------------------------------------------------------
(* Summary.                                                                *)

(* What the proofs need of the constants: the bounds are numbers, and the  *)
(* value for nothing is no run, number, reason or line.                    *)
SummaryConstants ==
  /\ MaxTasks \in Nat
  /\ "shared" \notin Workers /\ "torn" \notin Workers
  /\ Nil \notin Int \cup Workers \cup Reasons \cup NotCached
                \cup {"miss", "off", "cross", "torn", "shared"}
  /\ \A many, rate, successful, hint, notice :
       Nil # [many |-> many, rate |-> rate, successful |-> successful, hint |-> hint,
              notice |-> notice]
  /\ \A hits, of, remote, percent :
       Nil # [hits |-> hits, of |-> of, remote |-> remote, percent |-> percent]
  /\ \A task, more, reason : Nil # [task |-> task, more |-> more, reason |-> reason]
  /\ \A results, code : Nil # [tasks |-> results, exit |-> code]

(* A result says how its task ended.                                       *)
Says(t, e) ==
  /\ IsFailed(t) <=> WentWrong(e)
  /\ IsHit(t) <=> WasHit(e)
  /\ IsDisabled(t) <=> e.status \in {"inProcess", "off"}
  /\ t.upload # Nil <=> Unsent(e)
  /\ Unsent(e) => t.upload = e.upload
  /\ t.kind = "Failed" => t.code \in Int \ {0}
  /\ WentWrong(e) <=> Icon(t) = "cross" \/ HasError(t)
  /\ e.status = "miss" /\ e.code = 0 /\ e.update # "cancelled" =>
       (e.update # "updated" <=> Detail(t) \in NotCached \/ HasError(t))

LEMMA ResultSays ==
  ASSUME SummaryConstants, NEW d \in Endings, NEW t, t = FromExecution(d)
  PROVE  Says(t, d)
<1>0. Nil \notin {0, 3, "miss", "off", "cross"} \cup NotCached
      BY DEF SummaryConstants
<1>1. CASE d \in HitEndings
  <2>1. d.status \in {"hit", "remoteHit"} /\ d.code = Nil /\ d.update = "hit" /\ d.error \in BOOLEAN
        BY <1>1 DEF Ending, HitEndings
  <2>2. /\ t.kind = IF d.error THEN "RestoreFailed" ELSE "CacheHit"
        /\ t.cache = Nil
        /\ t.infra = FALSE
        /\ t.reason = Nil
        /\ t.upload = Nil
        BY <1>0, <2>1 DEF FromExecution, Spawned, Outcome, NotCached
  <2>. QED BY <1>0, <2>1, <2>2 DEF Says, IsFailed, HasError, WentWrong, IsHit, WasHit,
                                  IsDisabled, Unsent, Icon, IsSuccess, Detail, NotCached
<1>2. CASE d \in BuiltInEndings
  <2>1. d.status = "inProcess" /\ d.code = Nil /\ d.update = "off" /\ d.error = FALSE
        BY <1>2 DEF Ending, BuiltInEndings
  <2>2. /\ t.kind = "InProcess"
        /\ t.cache = Nil
        /\ t.infra = FALSE
        /\ t.reason = Nil
        /\ t.upload = Nil
        BY <1>0, <2>1 DEF FromExecution, Spawned, Outcome, NotCached
  <2>. QED BY <1>0, <2>1, <2>2 DEF Says, IsFailed, HasError, WentWrong, IsHit, WasHit,
                                  IsDisabled, Unsent, Icon, IsSuccess, Detail, NotCached
<1>3. CASE d \in UnspawnedEndings
  <2>1. d.status \in {"miss", "off"} /\ d.code = Nil /\ d.update = "off" /\ d.error = TRUE
        BY <1>3 DEF Ending, UnspawnedEndings
  <2>2. /\ t.kind = "SpawnError"
        /\ t.cache = d.status
        /\ t.infra = FALSE
        /\ t.reason = Nil
        /\ t.upload = Nil
        BY <1>0, <2>1 DEF FromExecution, Spawned, Outcome, NotCached
  <2>. QED BY <1>0, <2>1, <2>2 DEF Says, IsFailed, HasError, WentWrong, IsHit, WasHit,
                                  IsDisabled, Unsent, Icon, IsSuccess, Detail, NotCached
<1>4. CASE d \in UncachedEndings
  <2>1. d.status = "off" /\ d.code \in {0, 3} /\ d.update = "off" /\ d.error = FALSE
        BY <1>4 DEF Ending, UncachedEndings
  <2>3. Spawned(d) /\ Outcome(d) = IF d.code = 3 THEN "Failed" ELSE "Success"
        BY <1>0, <2>1 DEF Spawned, Outcome
  <2>2. /\ t.kind = IF d.code = 3 THEN "Failed" ELSE "Success"
        /\ t.kind = "Failed" => t.code = 3
        /\ t.cache = "off"
        /\ t.infra = FALSE
        /\ t.reason = Nil
        /\ t.upload = Nil
        BY <1>0, <2>1, <2>3 DEF FromExecution, NotCached
  <2>. QED BY <1>0, <2>1, <2>2 DEF Says, IsFailed, HasError, WentWrong, IsHit, WasHit,
                                  IsDisabled, Unsent, Icon, IsSuccess, Detail, NotCached
<1>5. CASE d \in FailedEndings
  <2>1. /\ d.status = "miss" /\ d.code = 3 /\ d.error = FALSE
        /\ d.update \in {"nonzero", "cancelled", "ipc", "tool"}
        BY <1>5 DEF Ending, FailedEndings
  <2>3. Spawned(d) /\ Outcome(d) = "Failed"
        BY <1>0, <2>1 DEF Spawned, Outcome
  <2>2. /\ t.kind = "Failed"
        /\ t.code = 3
        /\ t.cache = "miss"
        /\ t.infra = FALSE
        /\ t.reason = Nil
        /\ t.upload = Nil
        BY <1>0, <2>1, <2>3 DEF FromExecution, NotCached
  <2>. QED BY <1>0, <2>1, <2>2 DEF Says, IsFailed, HasError, WentWrong, IsHit, WasHit,
                                  IsDisabled, Unsent, Icon, IsSuccess, Detail, NotCached
<1>6. CASE d \in UnrecordedEndings
  <2>1. /\ d.status = "miss" /\ d.code = 0 /\ d.error = FALSE
        /\ d.update \in NotCached \cup {"cancelled"}
        BY <1>6 DEF Ending, UnrecordedEndings
  <2>2. /\ t.kind = "Success"
        /\ t.cache = "miss"
        /\ t.infra = FALSE
        /\ d.update \in NotCached => t.reason = d.update
        /\ t.upload = Nil
        BY <1>0, <2>1 DEF FromExecution, Spawned, Outcome, NotCached
  <2>. QED BY <1>0, <2>1, <2>2 DEF Says, IsFailed, HasError, WentWrong, IsHit, WasHit,
                                  IsDisabled, Unsent, Icon, IsSuccess, Detail, NotCached
<1>7. CASE d \in RecordErrors
  <2>1. d.status = "miss" /\ d.code = 0 /\ d.update = "off" /\ d.error = TRUE
        BY <1>7 DEF Ending, RecordErrors
  <2>2. /\ t.kind = "Success"
        /\ t.cache = "miss"
        /\ t.infra = TRUE
        /\ t.reason = Nil
        /\ t.upload = Nil
        BY <1>0, <2>1 DEF FromExecution, Spawned, Outcome, NotCached
  <2>. QED BY <1>0, <2>1, <2>2 DEF Says, IsFailed, HasError, WentWrong, IsHit, WasHit,
                                  IsDisabled, Unsent, Icon, IsSuccess, Detail, NotCached
<1>8. CASE d \in RecordedEndings
  <2>1. d.status = "miss" /\ d.code = 0 /\ d.update = "updated" /\ d.error = FALSE
        BY <1>8 DEF Ending, RecordedEndings
  <2>2. /\ t.kind = "Success"
        /\ t.cache = "miss"
        /\ t.infra = FALSE
        /\ t.reason = Nil
        /\ t.upload = d.upload
        BY <1>0, <2>1 DEF FromExecution, Spawned, Outcome, NotCached
  <2>. QED BY <1>0, <2>1, <2>2 DEF Says, IsFailed, HasError, WentWrong, IsHit, WasHit,
                                  IsDisabled, Unsent, Icon, IsSuccess, Detail, NotCached
<1>. QED BY <1>1, <1>2, <1>3, <1>4, <1>5, <1>6, <1>7, <1>8 DEF Endings

(* A share of a positive number is at most a hundred percent of it, and    *)
(* all of it only if it is.                                                *)
LEMMA Percent ==
  ASSUME NEW c \in Nat \ {0}, NEW h \in 0 .. c
  PROVE  /\ (h * 100) \div c <= 100
         /\ (h * 100) \div c = 100 <=> h = c
<1>1. PICK q : q = (h * 100) \div c
      OBVIOUS
<1>2. q \in Int /\ c * q <= h * 100 /\ h * 100 < c * (q + 1)
      BY <1>1
<1>3. q <= 100
      BY <1>2
<1>4. CASE h = c
      BY <1>2, <1>3, <1>4
<1>5. CASE h # c
      BY <1>2, <1>5
<1>. QED BY <1>1, <1>3, <1>4, <1>5

(* The tasks of which something holds are counted.                         *)
LEMMA CountedTasks ==
  ASSUME NEW D, IsFiniteSet(D), NEW S \in SUBSET D
  PROVE  /\ IsFiniteSet(S) /\ Cardinality(S) \in Nat
         /\ Cardinality(S) <= Cardinality(D)
         /\ Cardinality(S) = 0 <=> S = {}
         /\ Cardinality(S) = Cardinality(D) => S = D
<1>1. IsFiniteSet(S) /\ Cardinality(S) <= Cardinality(D)
      /\ (Cardinality(S) = Cardinality(D) => S = D)
      BY FS_Subset
<1>. QED BY <1>1, FS_EmptySet, FS_CardinalityType

(* The exit code is zero if and only if nothing failed.                    *)
LEMMA ExitCodeSays ==
  ASSUME NEW D, IsFiniteSet(D), NEW R, DOMAIN R = D,
         \A i \in D : R[i].kind = "Failed" => R[i].code \in Int \ {0}
  PROVE  ExitCode(R) = 0 <=> \A i \in D : ~IsFailed(R[i])
<1> DEFINE failed == {i \in DOMAIN R : R[i].kind = "Failed"}
<1>1. CASE \E i \in D : HasError(R[i])
      BY <1>1 DEF ExitCode, IsFailed
<1>2. CASE ~(\E i \in D : HasError(R[i])) /\ failed = {}
  <2>1. Cardinality(failed) = 0
        BY <1>2, FS_EmptySet
  <2>2. ExitCode(R) = 0
        BY <1>2, <2>1 DEF ExitCode
  <2>. QED BY <1>2, <2>2 DEF IsFailed
<1>3. CASE ~(\E i \in D : HasError(R[i])) /\ failed # {}
  <2>1. (CHOOSE i \in failed : TRUE) \in failed
        BY <1>3
  <2>2. R[CHOOSE i \in failed : TRUE].code # 0
        BY <2>1
  <2>3. ExitCode(R) # 0
        BY <1>3, <2>2 DEF ExitCode
  <2>. QED BY <1>3, <2>3 DEF IsFailed
<1>. QED BY <1>1, <1>2, <1>3

(* How a run sums up its tasks, E, by their results, R.                    *)
LEMMA SummaryAgrees ==
  ASSUME SummaryConstants, NEW w \in Workers, ended[w] \in Seq(Endings),
         saved[w] = [tasks |-> ResultsOf(w), exit |-> ExitCode(ResultsOf(w))]
  PROVE  Agree(w)
<1>1. PICK E, R, D : E = ended[w] /\ R = ResultsOf(w) /\ D = DOMAIN E
      OBVIOUS
<1>2. /\ E \in Seq(Endings) /\ D = 1 .. Len(E) /\ Len(E) \in Nat
      /\ DOMAIN R = D /\ \A i \in D : R[i] = FromExecution(E[i]) /\ E[i] \in Endings
      BY <1>1 DEF ResultsOf
<1>3. Len(R) = Len(E)
      BY <1>1, <1>2 DEF ResultsOf
<1>4. IsFiniteSet(D) /\ Cardinality(D) = Len(E)
  <2>1. PICK n \in Nat : n = Len(E)
        BY <1>2
  <2>2. IsFiniteSet(1 .. n) /\ Cardinality(1 .. n) = IF 1 > n THEN 0 ELSE n - 1 + 1
    <3>1. 1 \in Int /\ n \in Int
          OBVIOUS
    <3>. QED BY <3>1, FS_Interval, Zenon
  <2>3. Cardinality(1 .. n) = n
        BY <2>2
  <2>. QED BY <1>2, <2>1, <2>2, <2>3
<1>5. \A i \in D : Says(R[i], E[i])
      BY <1>2, ResultSays
<1>6. /\ Number(w, WentWrong) = Counted(R, IsFailed)
      /\ Number(w, WasHit) = Counted(R, IsHit)
      /\ Number(w, Unsent) = Cardinality({i \in D : R[i].upload # Nil})
  <2>1. {i \in D : WentWrong(E[i])} = {i \in D : IsFailed(R[i])}
        BY <1>5 DEF Says
  <2>2. {i \in D : WasHit(E[i])} = {i \in D : IsHit(R[i])}
        BY <1>5 DEF Says
  <2>3. {i \in D : Unsent(E[i])} = {i \in D : R[i].upload # Nil}
        BY <1>5 DEF Says
  <2>. QED BY <1>1, <1>2, <2>1, <2>2, <2>3 DEF Number, Counted
<1>7. PICK U, H, F, O : /\ U = {i \in D : R[i].upload # Nil} /\ H = {i \in D : IsHit(R[i])}
                        /\ F = {i \in D : IsFailed(R[i])} /\ O = {i \in D : IsDisabled(R[i])}
      OBVIOUS
<1>8. /\ Counted(R, IsHit) = Cardinality(H) /\ Counted(R, IsFailed) = Cardinality(F)
      /\ Counted(R, IsDisabled) = Cardinality(O)
      BY <1>2, <1>7 DEF Counted
<1>9. \A S \in {U, H, F, O} : /\ Cardinality(S) \in Nat /\ Cardinality(S) <= Len(E)
                              /\ Cardinality(S) = 0 <=> S = {}
  <2> SUFFICES ASSUME NEW S \in SUBSET D
               PROVE  /\ Cardinality(S) \in Nat /\ Cardinality(S) <= Len(E)
                      /\ Cardinality(S) = 0 <=> S = {}
      BY <1>7
  <2>. QED BY <1>4, CountedTasks
<1>10. saved[w].exit = 0 <=> Number(w, WentWrong) = 0
  <2>1. \A i \in D : R[i].kind = "Failed" => R[i].code \in Int \ {0}
        BY <1>5 DEF Says
  <2>2. ExitCode(R) = 0 <=> \A i \in D : ~IsFailed(R[i])
        BY <1>2, <1>4, <2>1, ExitCodeSays
  <2>3. F = {} <=> \A i \in D : ~IsFailed(R[i])
        BY <1>7
  <2>. QED BY <1>1, <1>6, <1>8, <1>9, <2>2, <2>3
<1>11. PICK s : s = Stats(R)
       OBVIOUS
<1>12. /\ s.total = Len(E) /\ s.hits = Cardinality(H) /\ s.failed = Cardinality(F)
       /\ s.disabled = Cardinality(O) /\ s.unsent = U
       BY <1>2, <1>3, <1>7, <1>8, <1>11 DEF Stats
<1>13. PICK line : line = Compact(R)
       OBVIOUS
<1>14. line = Nil => Len(E) < 2 /\ Number(w, WasHit) = 0 /\ Number(w, Unsent) = 0
  <2> SUFFICES ASSUME line = Nil PROVE Len(E) < 2 /\ H = {} /\ U = {}
      BY <1>6, <1>7, <1>8, <1>9
  <2>1. ~Compacted(R, s)
        BY <1>11, <1>13 DEF Compact, SummaryConstants
  <2>2. Len(E) < 2 /\ ~(Cardinality(H) > 0) /\ (R = <<>> \/ U = {})
        BY <1>2, <1>3, <1>12, <2>1 DEF Compacted
  <2>3. R = <<>> => D = {}
        BY <1>2
  <2>. QED BY <1>7, <1>9, <2>2, <2>3
<1>15. line # Nil =>
         /\ line.successful = Len(E) - Cardinality(F)
         /\ line.rate = IF Len(E) = 1 \/ Cacheable(s) = 0 THEN Nil
                        ELSE [hits |-> s.hits, of |-> Cacheable(s), remote |-> s.remote,
                              percent |-> (s.hits * 100) \div Cacheable(s)]
         /\ line.notice = Notice(R, U)
       BY <1>3, <1>11, <1>12, <1>13 DEF Compact
<1>16. H \cap O = {} /\ H \cup O \in SUBSET D /\ IsFiniteSet(H) /\ IsFiniteSet(O)
  <2>1. H \cap O = {}
        BY <1>5, <1>7 DEF Says, WasHit
  <2>. QED BY <1>4, <1>7, <2>1, CountedTasks
<1>17. Cardinality(H \cup O) = Cardinality(H) + Cardinality(O) /\ Cardinality(H \cup O) <= Len(E)
       /\ (Cardinality(H \cup O) = Len(E) => H \cup O = D)
  <2>1. Cardinality(H \cup O) = Cardinality(H) + Cardinality(O) - Cardinality(H \cap O)
        BY <1>16, FS_Union
  <2>2. Cardinality(H \cap O) = 0
        BY <1>16, FS_EmptySet
  <2>3. Cardinality(H \cup O) <= Cardinality(D)
        /\ (Cardinality(H \cup O) = Cardinality(D) => H \cup O = D)
        BY <1>4, <1>16, CountedTasks
  <2>. QED BY <1>4, <1>9, <2>1, <2>2, <2>3
<1>18. ASSUME line # Nil, line.rate # Nil
       PROVE  /\ line.rate.hits = Number(w, WasHit) /\ line.rate.percent <= 100
              /\ line.rate.percent = 100
                   <=> \A i \in D : E[i].status \in {"inProcess", "off"} \/ WasHit(E[i])
  <2>1. PICK c, h : c = Cacheable(s) /\ h = Cardinality(H)
        OBVIOUS
  <2>2. /\ line.rate.hits = h /\ line.rate.percent = (h * 100) \div c /\ c # 0
        BY <1>12, <1>15, <1>18, <2>1
  <2>3. c = Len(E) - Cardinality(O) /\ c \in Nat \ {0} /\ h \in 0 .. c
        BY <1>2, <1>9, <1>12, <1>17, <2>1, <2>2 DEF Cacheable
  <2>4. (h * 100) \div c <= 100 /\ ((h * 100) \div c = 100 <=> h = c)
        BY <2>3, Percent
  <2>5. h = c <=> H \cup O = D
    <3>1. h = c => H \cup O = D
          BY <1>2, <1>9, <1>17, <2>1, <2>3
    <3>2. H \cup O = D => h = c
      <4>1. H \cup O = D => Cardinality(H \cup O) = Cardinality(D)
            OBVIOUS
      <4>. QED BY <1>2, <1>4, <1>9, <1>17, <2>1, <2>3, <4>1
    <3>. QED BY <3>1, <3>2
  <2>6. H \cup O = D <=> \A i \in D : E[i].status \in {"inProcess", "off"} \/ WasHit(E[i])
        BY <1>5, <1>7 DEF Says
  <2>. QED BY <1>6, <1>8, <2>1, <2>2, <2>4, <2>5, <2>6
<1>19. ASSUME line # Nil
       PROVE  /\ line.notice = Nil <=> U = {}
              /\ line.notice # Nil =>
                   /\ line.notice.more + 1 = Cardinality(U)
                   /\ line.notice.reason # Nil =>
                        \A i \in U : R[i].upload = line.notice.reason
  <2>1. line.notice = Notice(R, U)
        BY <1>15, <1>19
  <2>2. U = {} => line.notice = Nil
        BY <2>1 DEF Notice
  <2>3. ASSUME U # {}
        PROVE  /\ line.notice # Nil /\ line.notice.more = Cardinality(U) - 1
               /\ line.notice.reason # Nil => \A i \in U : R[i].upload = line.notice.reason
    <3>1. PICK first : first = CHOOSE i \in U : \A j \in U : i <= j
          OBVIOUS
    <3>2. line.notice = [task |-> first, more |-> Cardinality(U) - 1,
                         reason |-> IF \A i \in U : R[i].upload = R[first].upload
                                      THEN R[first].upload ELSE Nil]
          BY <2>1, <2>3, <3>1 DEF Notice
    <3>. QED BY <3>2 DEF SummaryConstants
  <2>4. Cardinality(U) \in Nat
        BY <1>9
  <2>. QED BY <2>2, <2>3, <2>4
<1>20. \A i \in D : Unsent(E[i]) <=> i \in U
       BY <1>5, <1>7 DEF Says
<1>21. ASSUME NEW i \in D
       PROVE  LET e == E[i]  l == Full(R)[i]
              IN  /\ WentWrong(e) <=> l.icon = "cross" \/ l.error
                  /\ Unsent(e) <=> l.unsent # Nil
                  /\ e.status = "miss" /\ e.code = 0 /\ e.update # "cancelled" =>
                       (e.update # "updated" <=> l.detail \in NotCached \/ l.error)
  <2>1. Says(R[i], E[i])
        BY <1>5
  <2>2. PICK l : l = Full(R)[i]
        OBVIOUS
  <2>3. /\ l.icon = Icon(R[i]) /\ l.error = HasError(R[i]) /\ l.unsent = R[i].upload
        /\ l.detail = Detail(R[i])
        BY <1>2, <2>2 DEF Full
  <2>. QED BY <2>1, <2>2, <2>3 DEF Says
<1>22. \A i \in D : Unsent(E[i]) => R[i].upload = E[i].upload
       BY <1>5 DEF Says
<1>23. saved[w].tasks = R
       BY <1>1
<1>24. ExitAgrees(w)
       BY <1>10 DEF ExitAgrees
<1>25. LineAgrees(w)
  <2>1. PICK u : u = Number(w, Unsent)
        OBVIOUS
  <2>2. u = Cardinality(U) /\ (u = 0 <=> U = {}) /\ u \in Nat
        BY <1>6, <1>7, <1>9, <2>1
  <2>3. Compact(saved[w].tasks) = line
        BY <1>13, <1>23
  <2>4. line = Nil => Len(ended[w]) < 2 /\ Number(w, WasHit) = 0 /\ Number(w, Unsent) = 0
        BY <1>1, <1>14
  <2>5. line # Nil => line.successful = Len(ended[w]) - Number(w, WentWrong)
        BY <1>1, <1>6, <1>8, <1>15
  <2>6. line # Nil /\ line.rate # Nil =>
          /\ line.rate.hits = Number(w, WasHit) /\ line.rate.percent <= 100
          /\ line.rate.percent = 100
               <=> \A i \in DOMAIN ended[w] :
                     \/ ended[w][i].status \in {"inProcess", "off"}
                     \/ WasHit(ended[w][i])
        BY <1>1, <1>18
  <2>7. line # Nil =>
          /\ line.notice = Nil <=> u = 0
          /\ line.notice # Nil => line.notice.more + 1 = u
        BY <1>19, <2>2
  <2>8. ASSUME line # Nil, line.notice # Nil, line.notice.reason # Nil, NEW i \in DOMAIN ended[w],
               Unsent(ended[w][i])
        PROVE  ended[w][i].upload = line.notice.reason
        BY <1>1, <1>19, <1>20, <1>22, <2>8
  <2>. QED BY <2>1, <2>3, <2>4, <2>5, <2>6, <2>7, <2>8 DEF LineAgrees
<1>26. DetailsAgree(w)
       BY <1>1, <1>21, <1>23 DEF DetailsAgree
<1>. QED BY <1>24, <1>25, <1>26 DEF Agree

-----------------------------------------------------------------------------
(* The file: a run that has been alone since it opened the file to be      *)
(* renamed has it under that name, empty or with all it wrote; and the     *)
(* file with the last summary is nobody's who still writes.                *)
Files == 1 .. Len(inode)

SummaryTypes ==
  /\ ended \in [Workers -> Seq(Endings)]
  /\ writer \in [Workers -> {"running", "done", "opened", "written", "over"}]
  /\ DOMAIN saved = Workers
  /\ inode \in Seq(Workers \cup {Nil, "torn"})
  /\ folder \in [last : Files \cup {Nil}, tmp : Files \cup {Nil}]
  /\ DOMAIN opened = Workers /\ \A w \in Writing : opened[w] \in Files
  /\ latest \in Workers \cup {Nil, "shared"} /\ overlap \subseteq Workers

AsSaved ==
  \A w \in Workers : saved[w] # Nil =>
    saved[w] = [tasks |-> ResultsOf(w), exit |-> ExitCode(ResultsOf(w))]

OverlapKnown == \A v, w \in Writing : v # w => v \in overlap /\ w \in overlap

InPlace(w) ==
  /\ folder.tmp = opened[w]
  /\ inode[opened[w]] = IF writer[w] = "opened" THEN Nil ELSE w

LastKept ==
  /\ folder.last # Nil => folder.tmp # folder.last
  /\ latest = Nil => folder.last = Nil
  /\ latest \in Workers => /\ folder.last # Nil /\ inode[folder.last] = latest
                           /\ \A w \in Writing : opened[w] # folder.last

SummaryIInv ==
  /\ SummaryTypes /\ AsSaved /\ OverlapKnown /\ LastKept
  /\ \A w \in Writing \ overlap : InPlace(w)

LEMMA SummaryStarts ==
  ASSUME SummaryConstants, SummaryInit
  PROVE  SummaryIInv
<1>0. PICK n \in 0 .. MaxTasks : \E results \in [1 .. n -> Endings] :
        /\ ended = [w \in Workers |-> IF w = First THEN results ELSE <<>>]
        /\ writer = [w \in Workers |-> IF w = First \/ n <= MaxShared THEN "running" ELSE "over"]
      BY DEF SummaryInit
<1>1. PICK results \in [1 .. n -> Endings] :
        /\ ended = [w \in Workers |-> IF w = First THEN results ELSE <<>>]
        /\ writer = [w \in Workers |-> IF w = First \/ n <= MaxShared THEN "running" ELSE "over"]
      BY <1>0
<1>2. n \in Nat /\ results \in Seq(Endings) /\ <<>> \in Seq(Endings)
      BY DEF SummaryConstants
<1>3. ended \in [Workers -> Seq(Endings)]
      BY <1>1, <1>2
<1>4. Writing = {}
      BY <1>1 DEF Writing
<1>5. SummaryTypes
      BY <1>1, <1>3, <1>4 DEF SummaryInit, SummaryTypes, Files
<1>6. AsSaved /\ OverlapKnown /\ LastKept
      BY <1>4 DEF SummaryInit, AsSaved, OverlapKnown, LastKept, SummaryConstants
<1>. QED BY <1>4, <1>5, <1>6 DEF SummaryIInv

LEMMA SavedKept ==
  ASSUME AsSaved, UNCHANGED <<ended, saved>>
  PROVE  AsSaved'
BY DEF AsSaved, ResultsOf

LEMMA FinishKeeps ==
  ASSUME SummaryConstants, SummaryIInv, NEW w \in Workers, Finish(w)
  PROVE  SummaryIInv'
<1>1. Writing' = Writing
      BY DEF Writing, Finish, SummaryIInv, SummaryTypes
<1>2. AsSaved'
      BY DEF AsSaved, ResultsOf, Finish, SummaryIInv, SummaryTypes
<1>3. SummaryTypes'
      BY <1>1 DEF Finish, SummaryIInv, SummaryTypes, Files
<1>4. OverlapKnown' /\ LastKept'
      BY <1>1 DEF Finish, SummaryIInv, OverlapKnown, LastKept
<1>5. \A v \in Writing' \ overlap' : InPlace(v)'
      BY <1>1 DEF Finish, SummaryIInv, SummaryTypes, InPlace, Writing
<1>. QED BY <1>2, <1>3, <1>4, <1>5 DEF SummaryIInv

LEMMA DieKeeps ==
  ASSUME SummaryConstants, SummaryIInv, NEW w \in Workers, Die(w)
  PROVE  SummaryIInv'
<1>1. Writing' = Writing \ {w}
      BY DEF Writing, Die, SummaryIInv, SummaryTypes
<1>2. AsSaved'
      BY SavedKept DEF Die, SummaryIInv
<1>3. SummaryTypes'
      BY <1>1 DEF Die, SummaryIInv, SummaryTypes, Files
<1>4. OverlapKnown' /\ LastKept'
      BY <1>1 DEF Die, SummaryIInv, OverlapKnown, LastKept
<1>5. \A v \in Writing' \ overlap' : InPlace(v)'
      BY <1>1 DEF Die, SummaryIInv, SummaryTypes, InPlace, Writing
<1>. QED BY <1>2, <1>3, <1>4, <1>5 DEF SummaryIInv

LEMMA OpenTmpKeeps ==
  ASSUME SummaryConstants, SummaryIInv, NEW w \in Workers, OpenTmp(w)
  PROVE  SummaryIInv'
<1>1. Writing' = Writing \cup {w} /\ w \notin Writing
      BY DEF Writing, OpenTmp, Opened, SummaryIInv, SummaryTypes
<1>2. PICK f : f = folder'.tmp
      OBVIOUS
<1>3. /\ Files \subseteq Files' /\ f \in Files' /\ inode'[f] = Nil
      /\ inode' \in Seq(Workers \cup {Nil, "torn"})
      /\ \A g \in Files : g # f => inode'[g] = inode[g]
      /\ folder'.last = folder.last /\ f # folder.last
      /\ \A g \in Files : f = g => folder.tmp = f
      /\ folder' \in [last : Files' \cup {Nil}, tmp : Files' \cup {Nil}]
  <2>0. /\ inode \in Seq(Workers \cup {Nil, "torn"}) /\ Len(inode) \in Nat
        /\ folder \in [last : Files \cup {Nil}, tmp : Files \cup {Nil}]
        /\ Nil \notin Int
        /\ folder.last # Nil => folder.tmp # folder.last
        BY DEF SummaryIInv, SummaryTypes, LastKept, SummaryConstants
  <2>1. CASE folder.tmp = Nil
    <3>1. inode' = Append(inode, Nil) /\ folder' = [folder EXCEPT !.tmp = Len(inode) + 1]
          BY <2>1 DEF OpenTmp
    <3>2. f = Len(inode) + 1 /\ folder'.last = folder.last
          BY <1>2, <2>0, <3>1
    <3>3. Len(inode') = Len(inode) + 1 /\ inode' \in Seq(Workers \cup {Nil, "torn"})
          /\ inode'[f] = Nil /\ \A g \in Files : inode'[g] = inode[g]
          BY <2>0, <3>1, <3>2 DEF Files
    <3>4. Files' = 1 .. Len(inode') /\ f \notin Files /\ f # Nil
          BY <2>0, <3>2 DEF Files
    <3>. QED BY <2>0, <3>1, <3>2, <3>3, <3>4 DEF Files
  <2>2. CASE folder.tmp # Nil
    <3>1. inode' = [inode EXCEPT ![folder.tmp] = Nil] /\ folder' = folder
          BY <2>2 DEF OpenTmp
    <3>2. f = folder.tmp /\ f \in Files
          BY <1>2, <2>0, <2>2, <3>1
    <3>3. Len(inode') = Len(inode) /\ inode' \in Seq(Workers \cup {Nil, "torn"})
          /\ inode'[f] = Nil /\ \A g \in Files : g # f => inode'[g] = inode[g]
          BY <2>0, <3>1, <3>2 DEF Files
    <3>4. Files' = Files
          BY <3>3 DEF Files
    <3>5. f # folder.last
          BY <2>0, <2>2, <3>2
    <3>. QED BY <2>0, <3>1, <3>2, <3>3, <3>4, <3>5
  <2>. QED BY <2>1, <2>2
<1>4. /\ opened' = [opened EXCEPT ![w] = f] /\ writer' = [writer EXCEPT ![w] = "opened"]
      /\ overlap' = IF Writing = {} THEN overlap ELSE overlap \cup Writing \cup {w}
      /\ UNCHANGED <<ended, saved, latest>>
      BY <1>2 DEF OpenTmp, Opened
<1>5. AsSaved'
      BY <1>4, SavedKept DEF SummaryIInv
<1>6. SummaryTypes'
      BY <1>1, <1>3, <1>4 DEF SummaryIInv, SummaryTypes, Writing
<1>7. OverlapKnown'
      BY <1>1, <1>4 DEF SummaryIInv, OverlapKnown
<1>8. LastKept'
      BY <1>1, <1>2, <1>3, <1>4 DEF SummaryIInv, SummaryTypes, LastKept
<1>9. \A v \in Writing' \ overlap' : InPlace(v)'
  <2> SUFFICES ASSUME NEW v \in Writing' \ overlap' PROVE InPlace(v)'
      OBVIOUS
  <2>1. v = w
        BY <1>1, <1>4
  <2>. QED BY <1>2, <1>3, <1>4, <2>1 DEF SummaryIInv, SummaryTypes, InPlace
<1>. QED BY <1>5, <1>6, <1>7, <1>8, <1>9 DEF SummaryIInv

(* What one run writes, or fails to write, is in a file that is not the    *)
(* last summary's, if it was alone when it was renamed, nor another's who  *)
(* is alone.                                                               *)
LEMMA WriteKeeps ==
  ASSUME SummaryConstants, SummaryIInv, NEW w \in Writing,
         NEW c \in Workers \cup {"torn"}, inode' = [inode EXCEPT ![opened[w]] = c],
         \/ writer' = [writer EXCEPT ![w] = "written"] /\ (w \notin overlap => c = w)
         \/ writer' = [writer EXCEPT ![w] = "over"],
         UNCHANGED <<ended, saved, folder, opened, latest, overlap>>
  PROVE  SummaryIInv'
<1>1. w \in Workers /\ writer'[w] \in {"written", "over"}
      /\ \A v \in Workers : v # w => writer'[v] = writer[v]
      /\ writer' \in [Workers -> {"running", "done", "opened", "written", "over"}]
      BY DEF Writing, SummaryIInv, SummaryTypes
<1>2. Writing' \subseteq Writing
      BY <1>1 DEF Writing
<1>3. opened[w] \in Files /\ Len(inode') = Len(inode) /\ Files' = Files
      /\ inode' \in Seq(Workers \cup {Nil, "torn"})
      /\ inode'[opened[w]] = c /\ \A g \in Files : g # opened[w] => inode'[g] = inode[g]
      BY DEF SummaryIInv, SummaryTypes, Files
<1>4. AsSaved'
      BY SavedKept DEF SummaryIInv
<1>5. SummaryTypes'
      BY <1>1, <1>2, <1>3 DEF SummaryIInv, SummaryTypes
<1>6. OverlapKnown'
      BY <1>2 DEF SummaryIInv, OverlapKnown
<1>7. LastKept'
      BY <1>2, <1>3 DEF SummaryIInv, SummaryTypes, LastKept
<1>8. \A v \in Writing' \ overlap' : InPlace(v)'
  <2> SUFFICES ASSUME NEW v \in Writing' \ overlap' PROVE InPlace(v)'
      OBVIOUS
  <2>1. v = w
        BY <1>2 DEF SummaryIInv, OverlapKnown
  <2>2. writer'[w] = "written" /\ c = w
        BY <1>1, <2>1 DEF Writing, SummaryIInv, SummaryTypes
  <2>. QED BY <1>3, <2>1, <2>2 DEF SummaryIInv, InPlace
<1>. QED BY <1>4, <1>5, <1>6, <1>7, <1>8 DEF SummaryIInv

LEMMA WriteTmpKeeps ==
  ASSUME SummaryConstants, SummaryIInv, NEW w \in Workers, WriteTmp(w)
  PROVE  SummaryIInv'
<1>1. w \in Writing
      BY DEF WriteTmp, Writing
<1>2. PICK torn \in BOOLEAN : /\ torn => inode[opened[w]] # Nil
                              /\ inode' = [inode EXCEPT ![opened[w]] = IF torn THEN "torn" ELSE w]
      BY DEF WriteTmp
<1>3. PICK c : c = IF torn THEN "torn" ELSE w
      OBVIOUS
<1>4. w \notin overlap => c = w
      BY <1>1, <1>2, <1>3 DEF SummaryIInv, InPlace, WriteTmp
<1>. QED BY <1>1, <1>2, <1>3, <1>4, WriteKeeps DEF WriteTmp

LEMMA WriteFailsKeeps ==
  ASSUME SummaryConstants, SummaryIInv, NEW w \in Workers, WriteFails(w)
  PROVE  SummaryIInv'
<1>1. CASE writer[w] = "done"
  <2>1. Writing' = Writing \ {w}
        BY <1>1 DEF Writing, WriteFails, SummaryIInv, SummaryTypes
  <2>2. AsSaved'
        BY SavedKept DEF WriteFails, SummaryIInv
  <2>3. SummaryTypes'
        BY <1>1, <2>1 DEF WriteFails, SummaryIInv, SummaryTypes, Files
  <2>4. OverlapKnown' /\ LastKept'
        BY <1>1, <2>1 DEF WriteFails, SummaryIInv, OverlapKnown, LastKept
  <2>5. \A v \in Writing' \ overlap' : InPlace(v)'
        BY <1>1, <2>1 DEF WriteFails, SummaryIInv, SummaryTypes, InPlace, Writing
  <2>. QED BY <2>2, <2>3, <2>4, <2>5 DEF SummaryIInv
<1>2. CASE writer[w] = "opened"
  <2>1. w \in Writing /\ inode' = [inode EXCEPT ![opened[w]] = "torn"]
        /\ writer' = [writer EXCEPT ![w] = "over"]
        /\ UNCHANGED <<ended, saved, folder, opened, latest, overlap>>
        BY <1>2 DEF WriteFails, Writing
  <2>. QED BY <2>1, WriteKeeps
<1>. QED BY <1>1, <1>2 DEF WriteFails

LEMMA RenameTmpKeeps ==
  ASSUME SummaryConstants, SummaryIInv, NEW w \in Workers, RenameTmp(w)
  PROVE  SummaryIInv'
<1>1. w \in Writing /\ Writing' = Writing \ {w}
      BY DEF Writing, RenameTmp, SummaryIInv, SummaryTypes
<1>2. AsSaved'
      BY SavedKept DEF RenameTmp, SummaryIInv
<1>3. folder' \in [last : Files \cup {Nil}, tmp : Files \cup {Nil}] /\ Files' = Files
      BY DEF RenameTmp, SummaryIInv, SummaryTypes, Files
<1>4. SummaryTypes'
      BY <1>1, <1>3 DEF RenameTmp, SummaryIInv, SummaryTypes
<1>5. OverlapKnown'
      BY <1>1 DEF RenameTmp, SummaryIInv, OverlapKnown
<1>6. Nil \notin Workers /\ Nil # "shared" /\ "shared" \notin Workers
      BY DEF SummaryConstants
<1>7. folder'.last # Nil => folder'.tmp # folder'.last
      BY DEF RenameTmp, SummaryIInv, LastKept
<1>8. LastKept'
  <2>1. CASE w \in overlap
    <3>1. latest' = "shared"
          BY <2>1 DEF RenameTmp
    <3>. QED BY <1>6, <1>7, <3>1 DEF LastKept
  <2>2. CASE w \notin overlap
    <3>1. folder.tmp = opened[w] /\ inode[opened[w]] = w /\ opened[w] \in Files
          BY <1>1, <2>2 DEF SummaryIInv, SummaryTypes, InPlace, RenameTmp
    <3>2. folder.tmp # Nil
          BY <3>1 DEF Files, SummaryIInv, SummaryTypes, SummaryConstants
    <3>3. folder'.last = opened[w] /\ latest' = w /\ inode' = inode
          BY <2>2, <3>1, <3>2 DEF RenameTmp
    <3>4. Writing' = {}
          BY <1>1, <2>2 DEF SummaryIInv, OverlapKnown
    <3>. QED BY <1>6, <1>7, <3>1, <3>2, <3>3, <3>4 DEF LastKept
  <2>. QED BY <2>1, <2>2
<1>10. \A v \in Writing' \ overlap' : InPlace(v)'
       BY <1>1 DEF RenameTmp, SummaryIInv, OverlapKnown
<1>. QED BY <1>2, <1>4, <1>5, <1>8, <1>10 DEF SummaryIInv

(* The results of the runs and the files in the folder agree with what the *)
(* runs did, for any number of runs and tasks, whoever fails or is killed. *)
THEOREM SummaryInvariant == ASSUME SummaryConstants PROVE SummarySpec => []SummaryIInv
<1>1. SummaryInit => SummaryIInv
      BY SummaryStarts
<1>2. SummaryIInv /\ [SummaryNext]_summaryVars => SummaryIInv'
  <2> SUFFICES ASSUME SummaryIInv, [SummaryNext]_summaryVars PROVE SummaryIInv'
      OBVIOUS
  <2>1. CASE UNCHANGED summaryVars
    <3>1. AsSaved' /\ Writing' = Writing /\ Files' = Files
          BY <2>1, SavedKept DEF SummaryIInv, summaryVars, Writing, Files
    <3>. QED BY <2>1, <3>1 DEF SummaryIInv, summaryVars, SummaryTypes, OverlapKnown, LastKept,
                                    InPlace
  <2>2. CASE SummaryNext
        BY <2>2, FinishKeeps, OpenTmpKeeps, WriteTmpKeeps, WriteFailsKeeps, RenameTmpKeeps, DieKeeps
        DEF SummaryNext
  <2>. QED BY <2>1, <2>2
<1>. QED BY <1>1, <1>2, PTL DEF SummarySpec

(* SummarySound: the exit code, the compact line and the details of a run  *)
(* agree with how its tasks ended, and what --last-details shows is whole. *)
THEOREM SummariesSound == ASSUME SummaryConstants PROVE SummarySpec => []SummarySound
<1>1. SummaryIInv => SummarySound
  <2> SUFFICES ASSUME SummaryIInv PROVE SummarySound
      OBVIOUS
  <2>1. ASSUME NEW w \in Workers, saved[w] # Nil PROVE Agree(w)
    <3>1. ended[w] \in Seq(Endings)
          BY DEF SummaryIInv, SummaryTypes
    <3>2. saved[w] = [tasks |-> ResultsOf(w), exit |-> ExitCode(ResultsOf(w))]
          BY <2>1 DEF SummaryIInv, AsSaved
    <3>. QED BY <3>1, <3>2, SummaryAgrees
  <2>2. LastIsWhole
        BY DEF SummaryIInv, LastKept, LastIsWhole, Shown
  <2>. QED BY <2>1, <2>2 DEF SummarySound
<1>. QED BY <1>1, SummaryInvariant, PTL
=============================================================================
