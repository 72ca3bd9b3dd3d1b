------------------------------ MODULE TaskCache ------------------------------
(***************************************************************************)
(* The task cache of one task as several runs of `vp` meet in it:          *)
(* crates/vt/src/session/cache/mod.rs, execute/cache_update.rs,            *)
(* execute/fingerprint.rs and execute/rebuildable.rs.                      *)
(*                                                                         *)
(* A runner hashes the explicit inputs, looks its key up and either        *)
(* restores the outputs or runs the task and records an entry.  Runners    *)
(* are processes that share one database and one working tree; somebody    *)
(* edits the tree meanwhile, and a runner may be killed anywhere.  A hash  *)
(* stands for the content it is of; hashing and validating look at the     *)
(* whole tree in one step.                                                 *)
(***************************************************************************)
EXTENDS Integers, FiniteSets

CONSTANTS
  Runners,      \* vp processes that run the task
  Keys,         \* cache keys the task has had: command, envs, configuration
  Files,        \* files the task reads
  Globbed,      \* those the positive input globs match
  Written,      \* those it writes again, like a tool's own cache file
  Versions,     \* contents an edit may give a file
  MaxRuns,      \* bound: runs started, by anybody
  MaxEdits,     \* bound: edits of the tree
  MaxCrashes,   \* bound: runners killed
  None          \* no row, no archive, nothing in hand

Missing  == 0
Own      == Versions + 1            \* what the task itself writes
Ids      == 1 .. MaxRuns            \* archive names: a fresh UUID per run
Contents == 0 .. Own

Tree   == [Files -> Contents]
Entry  == [hashed : [Globbed -> Contents], inferred : Tree, archive : Ids,
           quiet : BOOLEAN, after : Tree]
Stored == [out : Tree \cup {None}, files : [Written -> Contents]]

(* What the instances choose, and that None is nothing else.               *)
Setting ==
  /\ Globbed \subseteq Files /\ Written \subseteq Files
  /\ Versions \in Nat /\ MaxRuns \in Nat /\ MaxEdits \in Nat /\ MaxCrashes \in Nat
  /\ None \notin Ids \cup Keys \cup Entry \cup Stored \cup Tree

ASSUME CacheAssumption == Setting

VARIABLES
  disk,         \* the inputs in the working tree
  out,          \* the task's output in the working tree
  entries,      \* table cache_entries: per key what was hashed, what was inferred, the
                \* archive, and the history `quiet` and `after`: nobody else changed
                \* the tree during the run, and how it left the tree
  mapped,       \* table task_fingerprints, the row of this task
  archives,     \* archive files in the cache folder: the output, known by what the
                \* run that made it had read, and the files the task wrote
  pc,           \* where each runner is
  run,          \* what each runner has in hand
  disturbed,    \* history: runners in whose time somebody else changed the tree
  cut,          \* history: keys whose replacement was cut short by a crash
  runs, edits, crashes

tree    == <<disk, out, disturbed>>
db      == <<entries, mapped, archives, cut>>
bounds  == <<runs, edits, crashes>>
vars    == <<tree, db, pc, run, bounds>>

Idle == [id |-> None, key |-> None, hashed |-> None, got |-> None, read |-> None,
         entry |-> None, old |-> None]

Init ==
  /\ disk = [f \in Files |-> 1]
  /\ out = None
  /\ entries = [k \in Keys |-> None]
  /\ mapped = None
  /\ archives = [i \in Ids |-> None]
  /\ pc = [r \in Runners |-> "off"]
  /\ run = [r \in Runners |-> Idle]
  /\ disturbed = {}
  /\ cut = {}
  /\ runs = 0 /\ edits = 0 /\ crashes = 0

(* The tree changes under every runner but r.                              *)
Disturb(r) ==
  disturbed' = IF disk' = disk /\ out' = out THEN disturbed
               ELSE disturbed \cup {q \in Runners \ {r} : pc[q] # "off"}

Goto(r, label) == pc' = [pc EXCEPT ![r] = label]
Set(r, field, value) == run' = [run EXCEPT ![r][field] = value]
Finish(r) == Goto(r, "off") /\ run' = [run EXCEPT ![r] = Idle]

-----------------------------------------------------------------------------
(* The lookup.                                                             *)

(* compute_globbed_inputs, before anything else.                           *)
Start(r, k) ==
  /\ pc[r] = "off"
  /\ runs < MaxRuns
  /\ runs' = runs + 1
  /\ run' = [run EXCEPT ![r] = [Idle EXCEPT !.id = runs + 1, !.key = k,
                                            !.hashed = [f \in Globbed |-> disk[f]]]]
  /\ Goto(r, "get")
  /\ disturbed' = disturbed \ {r}
  /\ UNCHANGED <<disk, out, db, edits, crashes>>

(* get_by_cache_key.                                                       *)
Get(r) ==
  /\ pc[r] = "get"
  /\ Set(r, "got", entries[run[r].key])
  /\ Goto(r, IF entries[run[r].key] = None THEN "explain" ELSE "validate")
  /\ UNCHANGED <<tree, db, bounds>>

(* get_cache_key_by_execution_key, to say what changed.                    *)
Explain(r) ==
  /\ pc[r] = "explain"
  /\ Set(r, "old", mapped)
  /\ Goto(r, "missed")
  /\ UNCHANGED <<tree, db, bounds>>

(* The miss is reported and the task starts.                               *)
Spawn(r) ==
  /\ pc[r] = "missed"
  /\ run' = [run EXCEPT ![r].old = None, ![r].read = [f \in {} |-> 0]]
  /\ Goto(r, "reading")
  /\ UNCHANGED <<tree, db, bounds>>

(* The post-run fingerprint leaves out what the globs had hashed.          *)
InferredBy(e) == {f \in Files : f \notin Globbed \/ e.hashed[f] = Missing}

(* Mutant: an entry with inferred inputs is not compared with the globs.   *)
ValidInferredOnly(e, hashed) ==
  \A f \in InferredBy(e) : \/ disk[f] = e.inferred[f]
                           \/ f \in Written /\ disk[f] = Missing

(* CacheEntryValue::validate: the globbed inputs as hashed at the start,   *)
(* then the inferred ones as they are now.  A file the task writes may be  *)
(* missing.                                                                *)
Valid(e, hashed) ==
  /\ hashed = e.hashed
  /\ \A f \in InferredBy(e) : \/ disk[f] = e.inferred[f]
                              \/ f \in Written /\ disk[f] = Missing

Validate(r) ==
  /\ pc[r] = "validate"
  /\ Goto(r, IF Valid(run[r].got, run[r].hashed) THEN "associate" ELSE "missed")
  /\ UNCHANGED <<tree, db, run, bounds>>

(* upsert_task_fingerprint on a hit.                                       *)
Associate(r) ==
  /\ pc[r] = "associate"
  /\ mapped' = run[r].key
  /\ Goto(r, "restore")
  /\ UNCHANGED <<tree, entries, archives, cut, run, bounds>>

(* ExecutionCache::restore of a local hit.  A missing archive fails the    *)
(* task and leaves the entry.                                              *)
Restore(r) ==
  /\ pc[r] = "restore"
  /\ LET a == archives[run[r].got.archive] IN
       IF a = None THEN UNCHANGED <<disk, out>>
       ELSE /\ out' = a.out
            /\ disk' = [f \in Files |-> IF f \in Written /\ a.files[f] # Missing
                                          THEN a.files[f] ELSE disk[f]]
  /\ Disturb(r)
  /\ Finish(r)
  /\ UNCHANGED <<db, bounds>>

-----------------------------------------------------------------------------
(* The task.                                                               *)

Read(r, f) ==
  /\ pc[r] = "reading"
  /\ f \in Files \ DOMAIN run[r].read
  /\ Set(r, "read", [g \in DOMAIN run[r].read \cup {f} |->
                       IF g = f THEN disk[f] ELSE run[r].read[g]])
  /\ UNCHANGED <<tree, db, pc, bounds>>

Write(r) ==
  /\ pc[r] = "reading"
  /\ DOMAIN run[r].read = Files
  /\ out' = run[r].read
  /\ disk' = [f \in Files |-> IF f \in Written THEN Own ELSE disk[f]]
  /\ Disturb(r)
  /\ Goto(r, "exited")
  /\ UNCHANGED <<db, run, bounds>>

(* update_cache refuses: the task failed, was cancelled, or said not to.   *)
Refuse(r) ==
  /\ pc[r] = "exited"
  /\ Finish(r)
  /\ UNCHANGED <<tree, db, bounds>>

-----------------------------------------------------------------------------
(* update_cache, once it has decided to cache, and ExecutionCache::record. *)

(* Mutant: the inputs are fingerprinted as the task found them.            *)
AsFound(r) == run[r].read

(* PostRunFingerprint::create: as the task left them.                      *)
AsLeft(r) == disk

Fingerprint(r) ==
  /\ pc[r] = "exited"
  /\ Set(r, "entry", [hashed |-> run[r].hashed, inferred |-> AsLeft(r),
                      archive |-> run[r].id, quiet |-> FALSE, after |-> disk])
  /\ Goto(r, "archive")
  /\ UNCHANGED <<tree, db, bounds>>

Archive(r) ==
  /\ pc[r] = "archive"
  /\ archives' = [archives EXCEPT ![run[r].id] =
                    [out |-> out, files |-> [f \in Written |-> disk[f]]]]
  /\ run' = [run EXCEPT ![r].entry.quiet = r \notin disturbed]
  /\ Goto(r, "getold")
  /\ UNCHANGED <<tree, entries, mapped, cut, bounds>>

GetOld(r) ==
  /\ pc[r] = "getold"
  /\ LET e == entries[run[r].key] IN
       Set(r, "old", IF e = None THEN None ELSE e.archive)
  /\ Goto(r, "delete")
  /\ UNCHANGED <<tree, db, bounds>>

(* Mutant: every archive but the new one is swept.                         *)
DeleteOthers(r) ==
  /\ pc[r] = "delete"
  /\ archives' = [i \in Ids |-> IF i = run[r].id THEN archives[i] ELSE None]
  /\ Goto(r, "upsert")
  /\ UNCHANGED <<tree, entries, mapped, cut, run, bounds>>

(* The replaced entry's archive goes before the entry does.                *)
DeleteOld(r) ==
  /\ pc[r] = "delete"
  /\ archives' = [i \in Ids |-> IF i = run[r].old /\ i # run[r].id THEN None
                                ELSE archives[i]]
  /\ Goto(r, "upsert")
  /\ UNCHANGED <<tree, entries, mapped, cut, run, bounds>>

(* Mutant: the task's row goes in before the entry's.                      *)
UpsertMappingFirst(r) ==
  /\ pc[r] = "upsert"
  /\ mapped' = run[r].key
  /\ Goto(r, "map")
  /\ UNCHANGED <<tree, entries, archives, cut, run, bounds>>

UpsertEntry(r) ==
  /\ pc[r] = "upsert"
  /\ entries' = [entries EXCEPT ![run[r].key] = run[r].entry]
  /\ cut' = cut \ {run[r].key}
  /\ Goto(r, "map")
  /\ UNCHANGED <<tree, mapped, archives, run, bounds>>

UpsertMapping(r) ==
  /\ pc[r] = "map"
  /\ mapped' = run[r].key
  /\ Finish(r)
  /\ UNCHANGED <<tree, entries, archives, cut, bounds>>

-----------------------------------------------------------------------------
(* Somebody edits, creates or removes a file; a clean checkout removes     *)
(* the output.                                                             *)
Edit ==
  /\ edits < MaxEdits
  /\ \/ \E f \in Files, v \in 0 .. Versions :
          v # disk[f] /\ disk' = [disk EXCEPT ![f] = v] /\ UNCHANGED out
     \/ out # None /\ out' = None /\ UNCHANGED disk
  /\ edits' = edits + 1
  /\ disturbed' = disturbed \cup {q \in Runners : pc[q] # "off"}
  /\ UNCHANGED <<db, pc, run, runs, crashes>>

(* A runner is killed.  What it wrote stays; sqlite keeps rows whole.      *)
Crash(r) ==
  /\ pc[r] # "off"
  /\ crashes < MaxCrashes
  /\ crashes' = crashes + 1
  /\ cut' = IF pc[r] = "upsert" THEN cut \cup {run[r].key} ELSE cut
  /\ Finish(r)
  /\ UNCHANGED <<tree, entries, mapped, archives, runs, edits>>

Runner(r) ==
  \/ \E k \in Keys : Start(r, k)
  \/ Get(r) \/ Explain(r) \/ Spawn(r) \/ Validate(r) \/ Associate(r) \/ Restore(r)
  \/ \E f \in Files : Read(r, f)
  \/ Write(r) \/ Refuse(r)
  \/ Fingerprint(r) \/ Archive(r) \/ GetOld(r) \/ DeleteOld(r)
  \/ UpsertEntry(r) \/ UpsertMapping(r)
  \/ Crash(r)

Next == Edit \/ \E r \in Runners : Runner(r)

Spec == Init /\ [][Next]_vars

-----------------------------------------------------------------------------
(* Properties.                                                             *)

(* What a run reads and does not write over, so what its output is of.     *)
Sources == (Files \ Written) \cup Globbed

(* The hit of runner r restores the output a run would make now.           *)
Fresh(r) ==
  LET a == archives[run[r].got.archive] IN
    a # None => a.out # None /\ \A f \in Sources : a.out[f] = disk[f]

(* A hit on the entry of a run nobody disturbed restores the output of     *)
(* exactly the inputs that are there, whatever other runs, edits, crashes  *)
(* and replaced archives came in between (cache_update.rs: never "hitting  *)
(* a stale entry", also when the task rewrote a globbed input).            *)
FreshHits ==
  \A r \in Runners :
    pc[r] = "restore" /\ r \notin disturbed /\ run[r].got.quiet => Fresh(r)

(* A clean checkout lacks what the task writes; everything else is as the  *)
(* run left it.                                                            *)
AsRunLeftIt(e) ==
  \A f \in Files : \/ disk[f] = e.after[f]
                   \/ f \in Written \ Globbed /\ disk[f] = Missing

(* The run after an undisturbed one hits: a task that writes files it also *)
(* reads does not defeat its own cache (rebuildable.rs), unless a globbed  *)
(* input is among them.                                                    *)
RepeatedHits ==
  \A r \in Runners :
    LET e == run[r].got IN
      pc[r] = "validate" /\ r \notin disturbed /\ e.quiet /\ AsRunLeftIt(e)
        /\ (\A f \in Globbed : e.hashed[f] = e.after[f])
      => Valid(e, run[r].hashed)

(* An entry's archive exists, except while a runner is replacing that very *)
(* entry or after one died doing so: then a hit fails the task.            *)
EntryHasArchive ==
  \A k \in Keys :
    entries[k] # None /\ archives[entries[k].archive] = None
      => \/ k \in cut
         \/ \E r \in Runners : pc[r] = "upsert" /\ run[r].key = k
                               /\ run[r].old = entries[k].archive

(* The key a task is mapped to has an entry, also after a crash between    *)
(* the two upserts, so a reported mismatch is with something real.         *)
MappingBacked == mapped # None => entries[mapped] # None

(* An entry without an archive is being replaced, or its runner died, and  *)
(* the key a task is mapped to has an entry.                               *)
RowsBacked == EntryHasArchive /\ MappingBacked
=============================================================================
