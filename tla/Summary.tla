------------------------------- MODULE Summary -------------------------------
(***************************************************************************)
(* What a run says of its tasks when all have ended, and keeps for         *)
(* `vp run --last-details`: the results, the statistics and both summaries *)
(* of crates/vt/src/session/reporter/summary.rs, the end of                *)
(* summary_reporter.rs, and last-summary.json, which the runs of a         *)
(* workspace replace (summary_file_path and below in session/mod.rs).      *)
(*                                                                         *)
(* A task is known by how it ended; texts and colours are left out, and    *)
(* the steps of a file are those another process or a crash may divide.    *)
(***************************************************************************)
EXTENDS Integers, Sequences, FiniteSets

CONSTANTS
  Workers,    \* the runs, each a process of its own
  First,      \* bound: the run that has tasks
  MaxTasks,   \* bound: the tasks it has
  MaxShared,  \* bound: its tasks if there are other runs
  Reasons,    \* why uploads fail
  Nil

VARIABLES
  ended,      \* for each run, how its tasks ended, in that order
  writer,     \* how far each run is: "running", "done", "opened", "written", "over"
  saved,      \* the LastRunSummary of each run
  inode,      \* contents of files: Nil is empty, a run all of its summary, "torn"
  folder,     \* the files of the cache folder: last-summary.json and its .tmp
  opened,     \* the file each run has open
  latest,     \* history: whose summary was renamed last, "shared" if not alone
  overlap     \* history: runs that were not alone between their open and rename

summaryVars == <<ended, writer, saved, inode, folder, opened, latest, overlap>>

-----------------------------------------------------------------------------
(* How tasks may end: execute_spawn's Report with the status start() was   *)
(* given, and what update_cache said (event.rs).                           *)
Ending(status, code, update, error, upload) ==
  [status |-> status, code |-> code, update |-> update, error |-> error, upload |-> upload]

NotCached == {"ipc", "tool", "incomplete", "fspy"}
HitEndings == {Ending(s, Nil, "hit", e, Nil) : s \in {"hit", "remoteHit"}, e \in BOOLEAN}
BuiltInEndings == {Ending("inProcess", Nil, "off", FALSE, Nil)}
UnspawnedEndings == {Ending(s, Nil, "off", TRUE, Nil) : s \in {"miss", "off"}}
UncachedEndings == {Ending("off", c, "off", FALSE, Nil) : c \in {0, 3}}
FailedEndings ==
  {Ending("miss", 3, u, FALSE, Nil) : u \in {"nonzero", "cancelled", "ipc", "tool"}}
UnrecordedEndings == {Ending("miss", 0, u, FALSE, Nil) : u \in NotCached \cup {"cancelled"}}
RecordErrors == {Ending("miss", 0, "off", TRUE, Nil)}
RecordedEndings == {Ending("miss", 0, "updated", FALSE, x) : x \in Reasons \cup {Nil}}

Endings ==
  HitEndings \cup BuiltInEndings \cup UnspawnedEndings \cup UncachedEndings
  \cup FailedEndings \cup UnrecordedEndings \cup RecordErrors \cup RecordedEndings

(* TaskResult::from_execution and spawn_outcome_from_execution, with what  *)
(* set_upload_error adds once the uploads have ended.                      *)
Spawned(e) == e.status \in {"miss", "off"}
Outcome(e) ==
  CASE e.code = Nil /\ e.error  -> "SpawnError"
    [] e.code \notin {Nil, 0}   -> "Failed"
    [] OTHER                     -> "Success"

FromExecution(e) ==
  LET won == Spawned(e) /\ Outcome(e) = "Success"
  IN  [kind   |-> CASE e.status = "inProcess" -> "InProcess"
                    [] Spawned(e)             -> Outcome(e)
                    [] OTHER -> IF e.error THEN "RestoreFailed" ELSE "CacheHit",
       remote |-> e.status = "remoteHit",
       cache  |-> IF Spawned(e) THEN e.status ELSE Nil,
       code   |-> IF Spawned(e) /\ Outcome(e) = "Failed" THEN e.code ELSE Nil,
       infra  |-> won /\ e.error,
       reason |-> IF won /\ e.update \in NotCached THEN e.update ELSE Nil,
       upload |-> IF won /\ e.update = "updated" THEN e.upload ELSE Nil]

(* TaskResult::error and is_success. *)
HasError(t) == t.kind \in {"RestoreFailed", "SpawnError"} \/ t.infra
IsSuccess(t) == t.kind \in {"CacheHit", "InProcess", "Success"}

ResultsOf(run) == [i \in DOMAIN ended[run] |-> FromExecution(ended[run][i])]

(* SummaryGraphReporter::finish: the exit code.                            *)
ExitCode(results) ==
  LET failed == {i \in DOMAIN results : results[i].kind = "Failed"}
  IN  IF \E i \in DOMAIN results : HasError(results[i]) THEN 1
      ELSE IF Cardinality(failed) = 1 THEN results[CHOOSE i \in failed : TRUE].code
      ELSE IF failed = {} THEN 0 ELSE 1

-----------------------------------------------------------------------------
(* SummaryStats::compute.                                                  *)
Counted(results, Test(_)) == Cardinality({i \in DOMAIN results : Test(results[i])})

IsHit(t) == t.kind = "CacheHit"
IsRemoteHit(t) == IsHit(t) /\ t.remote
IsMiss(t) == t.cache = "miss"

(* Mutant: only what TaskResult::is_success denies.                        *)
IconFailed(t) == ~IsSuccess(t)

(* Mutant: built-ins count as cacheable.                                   *)
SpawnedDisabled(t) == t.cache = "off"

IsDisabled(t) == t.kind = "InProcess" \/ t.cache = "off"
IsFailed(t) == HasError(t) \/ t.kind = "Failed"

Stats(results) ==
  [total |-> Len(results), hits |-> Counted(results, IsHit),
   remote |-> Counted(results, IsRemoteHit), misses |-> Counted(results, IsMiss),
   disabled |-> Counted(results, IsDisabled), failed |-> Counted(results, IsFailed),
   unsent |-> {i \in DOMAIN results : results[i].upload # Nil}]
Cacheable(s) == s.total - s.disabled

(* format_compact_summary with format_upload_failed_notice: a single task  *)
(* that is no hit has nothing to be said of, unless its upload failed.     *)
Notice(results, unsent) ==
  IF unsent = {} THEN Nil
  ELSE LET first == CHOOSE i \in unsent : \A j \in unsent : i <= j
       IN  [task |-> first, more |-> Cardinality(unsent) - 1,
            reason |-> IF \A i \in unsent : results[i].upload = results[first].upload
                         THEN results[first].upload ELSE Nil]

(* Mutant: a single task is never worth a line.                            *)
CompactOfMany(results, s) == Len(results) > 1 \/ s.hits > 0
Compacted(results, s) == Len(results) > 1 \/ s.hits > 0 \/ (results # <<>> /\ s.unsent # {})

Compact(results) ==
  LET s == Stats(results)
  IN  IF ~Compacted(results, s) THEN Nil
      ELSE [many       |-> Len(results) > 1,
            rate       |-> IF Len(results) = 1 \/ Cacheable(s) = 0 THEN Nil
                           ELSE [hits |-> s.hits, of |-> Cacheable(s), remote |-> s.remote,
                                 percent |-> (s.hits * 100) \div Cacheable(s)],
            successful |-> s.total - s.failed,
            hint       |-> Len(results) > 1 \/ s.hits = 0,
            notice     |-> Notice(results, s.unsent)]

(* Mutant: the line of a miss stands before the reasons.                   *)
DetailOfMiss(t) ==
  CASE t.cache = "miss"         -> "miss"
    [] t.kind = "CacheHit"      -> "hit"
    [] t.kind = "RestoreFailed" -> "unrestored"
    [] t.kind = "InProcess"     -> "inProcess"
    [] OTHER                    -> t.cache

(* format_full_summary: of each task the icon, the line of the cache with  *)
(* its precedence (ipc_server_error, then format_cache_detail), the failed *)
(* upload and the error.                                                   *)
Detail(t) ==
  CASE t.reason # Nil          -> t.reason
    [] t.kind = "CacheHit"      -> "hit"
    [] t.kind = "RestoreFailed" -> "unrestored"
    [] t.kind = "InProcess"     -> "inProcess"
    [] OTHER                    -> t.cache

Icon(t) == IF IsSuccess(t) THEN "check" ELSE IF t.kind = "Failed" THEN "cross" ELSE Nil

Full(results) ==
  [i \in DOMAIN results |->
     [icon |-> Icon(results[i]), code |-> results[i].code, detail |-> Detail(results[i]),
      unsent |-> results[i].upload, error |-> HasError(results[i])]]

-----------------------------------------------------------------------------
(* A run: its tasks end, it sums them up and writes that to a file beside  *)
(* the one it replaces (write_atomic).  The name of that file is the same  *)
(* for all runs.                                                           *)
SummaryInit ==
  /\ \E n \in 0 .. MaxTasks : \E results \in [1 .. n -> Endings] :
       /\ ended = [w \in Workers |-> IF w = First THEN results ELSE <<>>]
       /\ writer = [w \in Workers |-> IF w = First \/ n <= MaxShared THEN "running" ELSE "over"]
  /\ saved = [w \in Workers |-> Nil]
  /\ inode = <<>>
  /\ folder = [last |-> Nil, tmp |-> Nil]
  /\ opened = [w \in Workers |-> Nil]
  /\ latest = Nil /\ overlap = {}

Finish(w) ==
  /\ writer[w] = "running"
  /\ saved' = [saved EXCEPT ![w] = [tasks |-> ResultsOf(w), exit |-> ExitCode(ResultsOf(w))]]
  /\ writer' = [writer EXCEPT ![w] = "done"]
  /\ UNCHANGED <<ended, inode, folder, opened, latest, overlap>>

Writing == {w \in Workers : writer[w] \in {"opened", "written"}}

Opened(w) ==
  /\ opened' = [opened EXCEPT ![w] = folder'.tmp]
  /\ writer' = [writer EXCEPT ![w] = "opened"]
  /\ overlap' = IF Writing = {} THEN overlap ELSE overlap \cup Writing \cup {w}
  /\ UNCHANGED <<ended, saved, latest>>

(* Mutant: opened without emptying it, or made.                            *)
OpenKept(w) ==
  /\ writer[w] = "done"
  /\ IF folder.tmp = Nil
       THEN /\ inode' = Append(inode, Nil)
            /\ folder' = [folder EXCEPT !.tmp = Len(inode) + 1]
       ELSE UNCHANGED <<inode, folder>>
  /\ Opened(w)

(* Mutant: the file itself is written.                                     *)
OpenLast(w) ==
  /\ writer[w] = "done"
  /\ IF folder.last = Nil
       THEN /\ inode' = Append(inode, Nil)
            /\ folder' = [last |-> Len(inode) + 1, tmp |-> Len(inode) + 1]
       ELSE /\ inode' = [inode EXCEPT ![folder.last] = Nil]
            /\ folder' = [folder EXCEPT !.tmp = folder.last]
  /\ Opened(w)

(* fs::write opens the file, emptied or new...                             *)
OpenTmp(w) ==
  /\ writer[w] = "done"
  /\ IF folder.tmp = Nil
       THEN /\ inode' = Append(inode, Nil)
            /\ folder' = [folder EXCEPT !.tmp = Len(inode) + 1]
       ELSE /\ inode' = [inode EXCEPT ![folder.tmp] = Nil]
            /\ UNCHANGED folder
  /\ Opened(w)

(* ...and writes from its start: over what another run has written since,  *)
(* the end of which stays behind the shorter text.                         *)
WriteTmp(w) ==
  /\ writer[w] = "opened"
  /\ \E torn \in BOOLEAN :
       /\ torn => inode[opened[w]] # Nil
       /\ inode' = [inode EXCEPT ![opened[w]] = IF torn THEN "torn" ELSE w]
  /\ writer' = [writer EXCEPT ![w] = "written"]
  /\ UNCHANGED <<ended, saved, folder, opened, latest, overlap>>

(* The file cannot be opened, or not all of it written: logged only.       *)
WriteFails(w) ==
  /\ writer[w] \in {"done", "opened"}
  /\ inode' = IF writer[w] = "done" THEN inode ELSE [inode EXCEPT ![opened[w]] = "torn"]
  /\ writer' = [writer EXCEPT ![w] = "over"]
  /\ UNCHANGED <<ended, saved, folder, opened, latest, overlap>>

(* The rename finds no file if another run has renamed it.                 *)
RenameTmp(w) ==
  /\ writer[w] = "written"
  /\ writer' = [writer EXCEPT ![w] = "over"]
  /\ folder' = IF folder.tmp = Nil THEN folder ELSE [last |-> folder.tmp, tmp |-> Nil]
  /\ latest' = IF w \in overlap THEN "shared" ELSE w
  /\ UNCHANGED <<ended, saved, inode, opened, overlap>>

(* A run may be killed at any time.                                        *)
Die(w) ==
  /\ writer[w] # "over"
  /\ writer' = [writer EXCEPT ![w] = "over"]
  /\ UNCHANGED <<ended, saved, inode, folder, opened, latest, overlap>>

SummaryNext ==
  \E w \in Workers :
    Finish(w) \/ OpenTmp(w) \/ WriteTmp(w) \/ WriteFails(w) \/ RenameTmp(w) \/ Die(w)

SummarySpec == SummaryInit /\ [][SummaryNext]_summaryVars

(* show_last_run_details: the run whose details are shown, "none" without  *)
(* a file, "incompatible" if it does not parse.                            *)
Shown ==
  IF folder.last = Nil THEN "none"
  ELSE IF inode[folder.last] \in Workers THEN inode[folder.last] ELSE "incompatible"

-----------------------------------------------------------------------------
(* Properties.                                                             *)

(* How a task ended, said without its result. *)
WentWrong(e) == e.error \/ e.code \notin {Nil, 0}
WasHit(e) == e.status \in {"hit", "remoteHit"} /\ ~e.error
Unsent(e) == e.update = "updated" /\ e.upload # Nil
Number(run, Test(_)) == Cardinality({i \in DOMAIN ended[run] : Test(ended[run][i])})

ExitAgrees(run) == saved[run].exit = 0 <=> Number(run, WentWrong) = 0

LineAgrees(run) ==
  LET line == Compact(saved[run].tasks)
  IN  /\ line = Nil => Len(ended[run]) < 2 /\ Number(run, WasHit) = 0 /\ Number(run, Unsent) = 0
      /\ line # Nil =>
           /\ line.successful = Len(ended[run]) - Number(run, WentWrong)
           /\ line.rate # Nil =>
                /\ line.rate.hits = Number(run, WasHit) /\ line.rate.percent <= 100
                /\ line.rate.percent = 100
                     <=> \A i \in DOMAIN ended[run] :
                           \/ ended[run][i].status \in {"inProcess", "off"}
                           \/ WasHit(ended[run][i])
           /\ line.notice = Nil <=> Number(run, Unsent) = 0
           /\ line.notice # Nil =>
                /\ line.notice.more + 1 = Number(run, Unsent)
                /\ line.notice.reason # Nil =>
                     \A i \in DOMAIN ended[run] :
                       Unsent(ended[run][i]) => ended[run][i].upload = line.notice.reason

DetailsAgree(run) ==
  \A i \in DOMAIN ended[run] :
    LET e == ended[run][i]  l == Full(saved[run].tasks)[i]
    IN  /\ WentWrong(e) <=> l.icon = "cross" \/ l.error
        /\ Unsent(e) <=> l.unsent # Nil
        /\ e.status = "miss" /\ e.code = 0 /\ e.update # "cancelled" =>
             (e.update # "updated" <=> l.detail \in NotCached \/ l.error)

(* The three ways in which a run says how it went agree with how its tasks *)
(* ended, and so with each other: the exit code is zero, the compact line  *)
(* has no fewer successes than tasks, and the details no ✗ exactly if no   *)
(* task went wrong; a task that ran well and left no entry says why,       *)
(* unless it was cancelled; a failed upload is never passed over, and its  *)
(* reason is the one given.                                                *)
Agree(run) == ExitAgrees(run) /\ LineAgrees(run) /\ DetailsAgree(run)

(* What `--last-details` shows is all that the last run to rename its file *)
(* has saved, and nothing before there was one, unless another run was     *)
(* writing at the same time; a run that is killed or fails while it writes *)
(* leaves what was there.                                                  *)
LastIsWhole ==
  /\ latest \in Workers => Shown = latest
  /\ latest = Nil => Shown = "none"

SummarySound ==
  /\ \A w \in Workers : saved[w] # Nil => Agree(w)
  /\ LastIsWhole
=============================================================================
