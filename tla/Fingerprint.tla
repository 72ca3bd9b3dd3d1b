----------------------------- MODULE Fingerprint -----------------------------
(***************************************************************************)
(* What a run leaves for the next lookup: execute/tracked_accesses.rs,     *)
(* rebuildable.rs, fingerprint.rs, cache_update.rs and cache/archive.rs,   *)
(* over the records that fspy makes of the task's calls                    *)
(* (fspy_preload_unix/src/interceptions, fspy/src/unix/syscall_handler).   *)
(*                                                                         *)
(* A task makes calls on a tree of files, folders and links; then its run  *)
(* is recorded.  A lookup compares the record with any tree, and a hit     *)
(* unpacks the archive into it.  A path is the sequence of its names, a    *)
(* content stands for its hash, and a glob for the set of paths it         *)
(* matches.  A link leads to an empty folder outside of the workspace.     *)
(***************************************************************************)
EXTENDS Integers, FiniteSets, SequencesExt

CONSTANTS
  Paths,     \* paths below the workspace root, each with the folders above it
  Starts,    \* trees a run may begin with
  Trees,     \* trees a lookup may find
  Configs,   \* configuration of the task, which infers something, and what its
             \* tools report
  Calls,     \* bound: calls a task makes
  Nil, Dir, Link    \* at a path: nothing, a folder, a link; otherwise a content

Root == <<>>

VARIABLES
  worktree,  \* the working tree
  log,       \* the records of the task's calls, by kind
  calls,     \* number of calls made
  entry,     \* the record of the run, Nil before it is made
  before,    \* history: the tree the run began with
  touched,   \* history: paths that a call of the task changed
  refused    \* history: a call failed to put a file, link or folder where one was

fileVars == <<worktree, log, calls, entry, before, touched, refused>>

KindAt(t, p) == IF p = Root THEN Dir ELSE t[p]
Within(d) == {p \in Paths : IsStrictPrefix(d, p)}
Children(d) == {p \in Paths : Front(p) = d}
Counts(p) == Last(p) # ".DS_Store"
EntriesOf(t, d) == {p \in Children(d) : t[p] # Nil /\ Counts(p)}
Above(S) == {d \in Paths : \E p \in S : IsStrictPrefix(d, p)}

FilesInit ==
  /\ before \in Starts
  /\ worktree = before
  /\ log = [reads |-> {}, lists |-> {}, writes |-> {}, renames |-> {}, mkdirs |-> {}]
  /\ calls = 0
  /\ entry = Nil
  /\ touched = {}
  /\ refused = FALSE

-----------------------------------------------------------------------------
(* The task.  A call is recorded before it is made, whatever comes of it.  *)

Called(kind, p) ==
  /\ entry = Nil /\ calls < Calls
  /\ calls' = calls + 1
  /\ log' = [log EXCEPT ![kind] = @ \cup {p}]
  /\ UNCHANGED <<entry, before>>

Unchanged == UNCHANGED <<worktree, touched, refused>>
Becomes(p, what) ==
  worktree' = [worktree EXCEPT ![p] = what] /\ touched' = touched \cup {p} /\ UNCHANGED refused
Fails(there) == refused' = (refused \/ there) /\ UNCHANGED <<worktree, touched>>

(* open for reading, stat, access, an exec.                                *)
ReadPath(p) == Called("reads", p) /\ Unchanged

(* opendir and readdir.  What is behind a link is outside of the workspace.*)
ListFolder(d) == KindAt(worktree, d) = Dir /\ Called("lists", d) /\ Unchanged

WriteFile(p, content) ==
  /\ Called("writes", p)
  /\ IF worktree[p] \notin {Dir, Link} /\ KindAt(worktree, Front(p)) = Dir
       THEN Becomes(p, content) ELSE Fails(worktree[p] = Link)

Symlink(p) ==
  /\ Called("writes", p)
  /\ IF worktree[p] = Nil /\ KindAt(worktree, Front(p)) = Dir
       THEN Becomes(p, Link) ELSE Fails(worktree[p] \notin {Nil, Dir})

Mkdir(p) ==
  /\ Called("mkdirs", p)
  /\ IF worktree[p] = Nil /\ KindAt(worktree, Front(p)) = Dir THEN Becomes(p, Dir) ELSE Unchanged

(* Neither unlink nor rmdir is recorded.                                   *)
Unlink(p) ==
  /\ entry = Nil /\ calls < Calls
  /\ worktree[p] # Nil /\ \A q \in Children(p) : worktree[q] = Nil
  /\ calls' = calls + 1
  /\ Becomes(p, Nil)
  /\ UNCHANGED <<log, entry, before>>

Renamable(p, q) ==
  /\ worktree[p] # Nil /\ ~IsPrefix(p, q) /\ KindAt(worktree, Front(q)) = Dir
  /\ \/ worktree[q] = Nil
     \/ worktree[p] # Dir /\ worktree[q] # Dir
     \/ worktree[p] = Dir /\ worktree[q] = Dir /\ \A r \in Children(q) : worktree[r] = Nil

Target(p, q, r) == q \o SubSeq(r, Len(p) + 1, Len(r))

Rename(p, q) ==
  /\ Called("renames", q)
  /\ IF Renamable(p, q)
       THEN LET moved == {r \in Paths : IsPrefix(p, r) /\ worktree[r] # Nil}
                there == {Target(p, q, r) : r \in moved} IN
            /\ there \subseteq Paths
            /\ worktree' = [r \in Paths |->
                          IF r \in there THEN worktree[Target(q, p, r)]
                          ELSE IF IsPrefix(p, r) \/ IsPrefix(q, r) THEN Nil ELSE worktree[r]]
            /\ touched' = touched \cup moved \cup there
            /\ UNCHANGED refused
       ELSE Fails(worktree[q] # Nil)

-----------------------------------------------------------------------------
(* What the task can rebuild (rebuildable.rs), by the records alone.       *)

(* A path of S, or one below it.                                           *)
Covered(p, S) == \E q \in S : IsPrefix(q, p)

(* from_raw: the task cache, .git and pnpm's own state are not followed.   *)
Tracked(kind, c) == {p \in log[kind] : ~Covered(p, c.skipped)}

(* files_written: a renamed folder stands for the files in it.             *)
FilesWritten(c) ==
  LET targets == Tracked("renames", c)
      folders == {q \in targets : worktree[q] = Dir} IN
    Tracked("writes", c) \cup (targets \ folders)
      \cup {p \in UNION {Within(q) : q \in folders} : worktree[p] \notin {Nil, Dir} /\ Counts(p)}

IsEmptyFolder(d) == worktree[d] = Dir /\ EntriesOf(worktree, d) = {}

IsRebuildable(p, written, folders) ==
  IF worktree[p] = Dir THEN p \in folders ELSE p \in written

(* A link is followed, to the empty folder it leads to.                    *)
Holds(d, written, folders) ==
  CASE worktree[d] \notin {Dir, Link} -> "gone"
    [] EntriesOf(worktree, d) = {} -> "nothing"
    [] EntriesOf(worktree, d) # {}
       /\ \A p \in EntriesOf(worktree, d) : IsRebuildable(p, written, folders) -> "rebuildable"
    [] OTHER -> "other"

DeepestFirst(S) == SetToSortSeq(S, LAMBDA p, q : Len(p) > Len(q))

(* Mutant: an empty folder is rebuildable, whoever made it.                *)
FindFoldersAnyEmpty(written, mkdirs) ==
  LET empties == {d \in mkdirs \ Above(written) : IsEmptyFolder(d)}
      candidates == Above(written) \cup Above(empties)
      Climb(found, d) ==
        LET contents == Holds(d, written, found.folders) IN
          IF d \notin found.spoilt /\ contents \in {"rebuildable", "nothing"}
            THEN [found EXCEPT !.folders = @ \cup {d},
                               !.empties = IF contents = "nothing" THEN @ \cup {d} ELSE @]
          ELSE IF d \in found.spoilt \/ contents # "gone"
            THEN [found EXCEPT !.spoilt = @ \cup {Front(d)}]
          ELSE found IN
    FoldLeft(Climb, [folders |-> empties, empties |-> empties, spoilt |-> {}],
             DeepestFirst(candidates))

(* find_folders: from the written files and the empty folders the task     *)
(* made, up through the folders that hold nothing else.                    *)
FindFolders(written, mkdirs) ==
  LET empties == {d \in mkdirs \ Above(written) : IsEmptyFolder(d)}
      candidates == Above(written) \cup Above(empties)
      Climb(found, d) ==
        LET contents == IF d \in found.spoilt THEN "other"
                        ELSE Holds(d, written, found.folders) IN
          CASE contents = "rebuildable" -> [found EXCEPT !.folders = @ \cup {d}]
            [] contents = "nothing" /\ d \in mkdirs ->
                 [found EXCEPT !.folders = @ \cup {d}, !.empties = @ \cup {d}]
            [] contents = "other" \/ (contents = "nothing" /\ d \notin mkdirs) ->
                 [found EXCEPT !.spoilt = @ \cup {Front(d)}]
            [] OTHER -> found IN
    FoldLeft(Climb, [folders |-> empties, empties |-> empties, spoilt |-> {}],
             DeepestFirst(candidates))

(* observe_fspy: reads count as inputs only if they are inferred, and less *)
(* those that the configuration or the tools exclude.                      *)
Excluded(p, c) == p \in c.notIn \/ Covered(p, c.ignoredIn)
InferredReads(c) ==
  IF c.autoIn THEN {p \in Tracked("reads", c) \cup Tracked("lists", c) : ~Excluded(p, c)}
              ELSE {}

Rebuildable(c) ==
  LET written == FilesWritten(c)
      mkdirs  == Tracked("mkdirs", c)
      found   == IF InferredReads(c) = {}
                   THEN [folders |-> {}, empties |-> {d \in mkdirs : IsEmptyFolder(d)}]
                   ELSE FindFolders(written, mkdirs) IN
    [written |-> written, folders |-> found.folders, empties |-> found.empties]

-----------------------------------------------------------------------------
(* The record of the run.                                                  *)

NotFound == [type |-> "NotFound"]
File(content) == [type |-> "File", content |-> content]
Folder == [type |-> "Folder"]
Listing(entries, ignored) == [type |-> "Listing", entries |-> entries, ignored |-> ignored]

EntryKind(t, p) == IF t[p] \in {Nil, Dir, Link} THEN t[p] ELSE "file"

(* fingerprint_path opens the path, and so follows a link.                 *)
FingerprintPath(t, p, listed) ==
  CASE KindAt(t, p) = Nil -> NotFound
    [] KindAt(t, p) \in {Dir, Link} ->
         IF ~listed THEN Folder
         ELSE LET E == IF KindAt(t, p) = Dir THEN EntriesOf(t, p) ELSE {} IN
                Listing([q \in E |-> EntryKind(t, q)], {})
    [] OTHER -> File(t[p])

(* leave_out_excluded_entries.                                             *)
LeaveOut(listing, ignored, c) ==
  LET kept == {q \in DOMAIN listing.entries : q \notin ignored /\ q \notin c.notIn} IN
    Listing([q \in kept |-> listing.entries[q]], ignored)

(* Mutant: a listing keeps what the task itself put into the folder.       *)
KeepOwnEntries(p, c, rebuildable) ==
  LET fp == FingerprintPath(worktree, p, p \in Tracked("lists", c)) IN
    IF fp.type = "Listing" THEN LeaveOut(fp, Children(p) \cap c.ignoredIn, c) ELSE fp

(* The fingerprint of an inferred input: a listing leaves out what the     *)
(* task can rebuild and what is excluded.                                  *)
InputFingerprint(p, c, rebuildable) ==
  LET fp == FingerprintPath(worktree, p, p \in Tracked("lists", c)) IN
    IF fp.type # "Listing" THEN fp
    ELSE LeaveOut(fp, {q \in DOMAIN fp.entries :
                         IsRebuildable(q, rebuildable.written, rebuildable.folders)}
                      \cup (Children(p) \cap c.ignoredIn), c)

MayBeMissing(p, rebuildable) ==
  CASE KindAt(worktree, p) = Nil -> p \in rebuildable.written \cup Above(rebuildable.written)
    [] KindAt(worktree, p) = Dir -> FALSE
    [] OTHER -> p \in rebuildable.written

(* compute_globbed_inputs, on the tree the run began with.                 *)
GlobbedInputs(t, c) ==
  [p \in {q \in c.globs \ c.notIn : t[q] \notin {Nil, Dir, Link}} |-> t[p]]

InferredInputs(c, rebuildable) ==
  [p \in (InferredReads(c) \ DOMAIN GlobbedInputs(before, c)) \ rebuildable.folders |->
     [fingerprint |-> InputFingerprint(p, c, rebuildable),
      mayBeMissing |-> MayBeMissing(p, rebuildable)]]

(* collect_and_archive_outputs and create_output_archive.                  *)
Kept(S, c) == {p \in S : p \notin c.notOut /\ ~Covered(p, c.ignoredOut)}
OutputFiles(c, rebuildable) ==
  (IF c.autoOut THEN Kept(rebuildable.written, c) ELSE {})
    \cup {p \in c.outGlobs \ c.notOut : worktree[p] \notin {Nil, Dir}}
OutputFolders(c, rebuildable) ==
  {d \in Kept(rebuildable.empties, c) : c.autoOut \/ d \in c.outGlobs}

OutputArchive(c, rebuildable) ==
  [p \in {q \in OutputFiles(c, rebuildable) : worktree[q] \notin {Nil, Dir}}
           \cup {d \in OutputFolders(c, rebuildable) : worktree[d] = Dir} |-> worktree[p]]

(* What is gone is left out, but to look below a file is an error.         *)
Archivable(files) ==
  \A d \in Above(files) : worktree[d] \in {Nil, Dir, Link}

Unset == "unset"
NonUtf8 == "non-UTF-8"
Matching(query, env) == [n \in {m \in query : env[m] # Unset} |-> env[n]]

(* collect_tracked_reports: what is declared is in the cache key.          *)
TrackedEnvs(c) == [n \in c.gets \ c.declared |-> c.env[n]]
UnusableReports(c) ==
  \/ \E n \in DOMAIN TrackedEnvs(c) : c.env[n] = NonUtf8
  \/ \E q \in c.queries : \E n \in q : c.env[n] = NonUtf8

(* update_cache, once it has decided to cache.                             *)
RecordRun(c) ==
  LET rebuildable == Rebuildable(c) IN
    /\ entry = Nil
    /\ ~UnusableReports(c)
    /\ Archivable(OutputFiles(c, rebuildable))
    /\ entry' = [config   |-> c,
                 globbed  |-> GlobbedInputs(before, c),
                 inferred |-> InferredInputs(c, rebuildable),
                 envs     |-> TrackedEnvs(c),
                 matches  |-> [q \in c.queries |-> Matching(q, c.env)],
                 archive  |-> OutputArchive(c, rebuildable)]
    /\ UNCHANGED <<worktree, log, calls, before, touched, refused>>

(* A task leaves the .DS_Store files to the system.                        *)
Used == {p \in Paths : Counts(p)}

FilesNext ==
  \/ \E p \in Used : ReadPath(p) \/ Symlink(p) \/ Mkdir(p) \/ Unlink(p)
  \/ \E d \in Used \cup {Root} : ListFolder(d)
  \/ \E p \in Used : WriteFile(p, "own")
  \/ \E p, q \in Used : Rename(p, q)
  \/ \E c \in Configs : RecordRun(c)

FilesSpec == FilesInit /\ [][FilesNext]_fileVars

-----------------------------------------------------------------------------
(* The lookup, on the tree t and the environment env.                      *)

(* The current fingerprint of an input, less what the stored one ignores.  *)
Current(e, t, p) ==
  LET stored == e.inferred[p].fingerprint
      fp == FingerprintPath(t, p, stored.type = "Listing") IN
    IF stored.type = "Listing" /\ fp.type = "Listing"
      THEN LeaveOut(fp, stored.ignored, e.config) ELSE fp

(* Mutant: a file the task wrote may also have been edited since.          *)
ValidOrWritten(e, t, p) ==
  Current(e, t, p) = e.inferred[p].fingerprint \/ e.inferred[p].mayBeMissing

ValidInput(e, t, p) ==
  \/ Current(e, t, p) = e.inferred[p].fingerprint
  \/ e.inferred[p].mayBeMissing /\ Current(e, t, p) = NotFound

(* Mutant: a value that is not UTF-8 counts as unset.                      *)
ValidEnvsLossy(e, env) ==
  LET lossy == [n \in DOMAIN env |-> IF env[n] = NonUtf8 THEN Unset ELSE env[n]] IN
    /\ \A n \in DOMAIN e.envs : lossy[n] = e.envs[n]
    /\ \A q \in DOMAIN e.matches : Matching(q, lossy) = e.matches[q]

(* A value that is not UTF-8 fails the lookup, or is a mismatch.           *)
ValidEnvs(e, env) ==
  /\ \A n \in DOMAIN e.envs : env[n] # NonUtf8 /\ env[n] = e.envs[n]
  /\ \A q \in DOMAIN e.matches :
       (\A n \in q : env[n] # NonUtf8) /\ Matching(q, env) = e.matches[q]

(* CacheEntryValue::validate and PostRunFingerprint::validate.             *)
IsHit(e, t, env) ==
  /\ GlobbedInputs(t, e.config) = e.globbed
  /\ \A p \in DOMAIN e.inferred : ValidInput(e, t, p)
  /\ ValidEnvs(e, env)

(* Mutant: an entry on one side only is taken for one that was added.      *)
ChangesAdded(stored, current, p) ==
  CASE stored.type = "Listing" /\ current.type = "Listing" ->
         {<<"added", q>> : q \in {r \in DOMAIN stored.entries \cup DOMAIN current.entries :
                                    ~(r \in DOMAIN stored.entries /\ r \in DOMAIN current.entries)}}
    [] current = NotFound -> {<<"removed", p>>}
    [] OTHER -> {<<"added", p>>}

(* determine_change_kind: what a miss says has changed, and where.         *)
ChangesOf(stored, current, p) ==
  CASE stored = NotFound -> {<<"added", p>>}
    [] stored # NotFound /\ current = NotFound -> {<<"removed", p>>}
    [] stored.type = "File" /\ current.type = "File" -> {<<"modified", p>>}
    [] stored.type = "Listing" /\ current.type = "Listing" ->
         {<<IF q \in DOMAIN current.entries THEN "added" ELSE "removed", q>> :
            q \in {r \in DOMAIN stored.entries \cup DOMAIN current.entries :
                     ~(/\ r \in DOMAIN stored.entries /\ r \in DOMAIN current.entries
                       /\ stored.entries[r] = current.entries[r])}}
    [] OTHER -> {<<"added", p>>}

(* extract_output_archive: what is there is overwritten, and the folders   *)
(* above are made.                                                         *)
Restored(e, t) ==
  [p \in Paths |-> IF p \in DOMAIN e.archive THEN e.archive[p]
                   ELSE IF p \in Above(DOMAIN e.archive) THEN Dir
                   ELSE t[p]]

-----------------------------------------------------------------------------
(* Properties.                                                             *)

(* What the task can rebuild, said of what it did and not of what was      *)
(* recorded: the files and links it put there, and the folders that hold,  *)
(* at any depth, nothing but those and empty folders it made.              *)
OwnFiles ==
  {p \in touched : worktree[p] \notin {Nil, Dir} /\ ~Covered(p, entry.config.skipped)}
OwnFoldersOf(files) ==
  {d \in Paths :
     /\ worktree[d] = Dir
     /\ \A p \in {d} \cup Within(d) :
          worktree[p] # Nil /\ Counts(p) =>
            \/ p \in files
            \/ worktree[p] = Dir /\ (EntriesOf(worktree, p) # {} \/ p \in Tracked("mkdirs", entry.config))}
OwnFolders == LET files == OwnFiles IN OwnFoldersOf(files)
OwnPaths == OwnFiles \cup OwnFolders

(* The tree as the run left it, less any part of what the task can rebuild.*)
CleanCheckouts ==
  LET own == OwnPaths IN
    {t \in Trees : \A p \in Paths : t[p] = worktree[p] \/ (t[p] = Nil /\ p \in own) \/ ~Counts(p)}

GlobsAsFound(t) == GlobbedInputs(t, entry.config) = GlobbedInputs(before, entry.config)

(* A lookup on the tree as the run left it, or on a clean checkout of it,  *)
(* hits, whatever the task read, listed, wrote, made, moved and removed:   *)
(* "What a task can rebuild ... may be missing on the next run"            *)
(* (CHANGELOG.md:9), unless it changed a globbed input.                    *)
CleanCheckoutHits ==
  entry # Nil =>
    \A t \in CleanCheckouts : GlobsAsFound(t) => IsHit(entry, t, entry.config.env)

(* A hit on a clean checkout puts back exactly what is missing: "and a     *)
(* cache hit restores it with the task's outputs" (CHANGELOG.md:9).        *)
CleanCheckoutRestored ==
  entry # Nil /\ entry.config.autoOut
    /\ entry.config.notOut = {} /\ entry.config.ignoredOut = {} =>
    \A t \in CleanCheckouts : \A p \in Paths : Counts(p) => Restored(entry, t)[p] = worktree[p]

(* The lookup's tree t shows what the run saw: the same at each path it    *)
(* read, and the same entries in each folder it listed, apart from what    *)
(* the task changed or can rebuild and from what is excluded.              *)
TreesThatShowTheSame ==
  LET c == entry.config
      own == touched \cup OwnPaths
      followed == {p \in Tracked("reads", c) \cup Tracked("lists", c) :
                     p \notin own /\ ~Excluded(p, c)}
      entries == {q \in Paths : /\ Front(q) \in followed \cap log.lists
                                /\ q \notin own /\ Counts(q) /\ ~Excluded(q, c)} IN
    {t \in Trees : /\ \A p \in followed : KindAt(t, p) = KindAt(before, p)
                   /\ \A q \in entries : EntryKind(t, q) = EntryKind(before, q)}

Envs == [DOMAIN entry.config.env -> {Unset, NonUtf8, "1", "2"}]

(* A hit finds the environment that the tools were told of.                *)
SameEnv(env) ==
  LET c == entry.config IN
    /\ \A n \in c.gets \ c.declared : env[n] = c.env[n]
    /\ \A q \in c.queries : \A n \in q : env[n] = c.env[n]

(* No edit, addition or removal is missed of anything the task read or     *)
(* listed.                                                                 *)
InputsSeen ==
  entry # Nil /\ entry.config.autoIn =>
    \A t \in Trees \ TreesThatShowTheSame : ~IsHit(entry, t, entry.config.env)

(* A hit finds the environment that the tools were told of, whatever has   *)
(* become of it: set, unset, another value or one that is not UTF-8.       *)
EnvSeen == entry # Nil => \A env \in Envs : ValidEnvs(entry, env) => SameEnv(env)

(* docs/inputs.md:3: "When any tracked input file changes, the task's      *)
(* cache is invalidated and the task will re-run."  A hit means that the   *)
(* task, run again, would see what it saw.                                 *)
HitSeesSame == InputsSeen /\ EnvSeen

(* The same of a run in which no rename onto a path that was there failed. *)
HitSeesSameUnlessRefused == refused \/ HitSeesSame

(* The folders find_folders finds are those that hold only what the task   *)
(* put there, not what the records of failed calls name.                   *)
FoldersFound ==
  entry # Nil /\ InferredReads(entry.config) # {} /\ ~refused =>
    {d \in Rebuildable(entry.config).folders : worktree[d] = Dir} = OwnFolders

(* A miss names a change that is there.                                    *)
MissExplained ==
  entry # Nil =>
    \A t \in Trees : \A p \in DOMAIN entry.inferred :
      ~ValidInput(entry, t, p) =>
        LET changes == ChangesOf(entry.inferred[p].fingerprint, Current(entry, t, p), p) IN
          /\ changes # {}
          /\ \A c \in changes :
               CASE c[1] = "added"    -> KindAt(t, c[2]) # Nil
                 [] c[1] = "removed"  -> KindAt(t, c[2]) = Nil /\ KindAt(worktree, c[2]) # Nil
                 [] c[1] = "modified" -> t[c[2]] # worktree[c[2]]
=============================================================================
