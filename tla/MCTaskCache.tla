----------------------------- MODULE MCTaskCache -----------------------------
(***************************************************************************)
(* TLC instance of what the cache knows of a task, in ten scenarios, of    *)
(* which a behaviour is one: two runners that are alike share a database   *)
(* under two keys that are alike; or one runner meets edits to an explicit *)
(* input, an inferred one and a file that the task both reads and writes;  *)
(* or a task makes its way through a tree and the run is recorded          *)
(* (Fingerprint); or the programs of a task run each other (ExecTracking); *)
(* or tasks print, what is printed is stored, and it is replayed           *)
(* (TaskOutput); or runs sum up their tasks and save that (Summary); or    *)
(* the processes of a task start each other on Windows (WindowsTracking);  *)
(* or runs put the preload library into its folder (Artifacts); or the     *)
(* file behind a run's channel is made, found and removed (BackingFile);   *)
(* or processes set up, use and clean the cache's folder (CacheFolder).    *)
(***************************************************************************)
EXTENDS TaskCache, Sequences, TLC

CONSTANT MaxCalls   \* bound: calls of the task in Fingerprint

VARIABLES
  scenario,
  work, log, calls, entry, before, touched, refused,
  platform, image, env, preloaded, filtered, last, closed,
  mode, stripped, script, stage, left, inColour, held, block, capture, chunks, todo,
  failed, busy, terminal, nonblocking, broken, cancelled,
  ended, writer, saved, inode, folder, opened, latest, overlap,
  runner, procs, frames, hooking, recorded, forwarded,
  home, build, step, item, shelf, drafts, temps, faulty,
  system, tmpdir, where, channel, names, bytes, attached, stuck,
  os, command, schema, stands, root, versions, rows, has, status, cleans, gone

(* Bounded as well: runs, edits and crashes together.                      *)
Events == runs + edits + crashes

(* Two runners and two keys share the database; a file that globs match    *)
(* and that the task writes is removed once, or a runner killed while it   *)
(* stores its run, and that file is read after the others.                 *)
FewEdits ==
  /\ edits' + crashes' <= 1
  /\ edits' # edits => disk'["conf"] = Missing
  /\ crashes' # crashes =>
       \E r \in Runners : pc[r] \in {"archive", "getold", "delete", "upsert", "map"} /\ pc'[r] = "off"
  /\ Events' <= 4

ReadInOrder ==
  \A r \in Runners : pc'[r] = "reading" =>
    LET read == DOMAIN run'[r].read IN
      /\ "memo" \in read => "src" \in read
      /\ "conf" \in read => {"src", "memo"} \subseteq read

(* One runner at a time, one key, and every edit.                          *)
OneTask ==
  /\ Events' <= 5
  /\ Cardinality({r \in Runners : pc'[r] # "off"}) <= 1
  /\ Cardinality({k \in Keys : entries'[k] # None \/ \E r \in Runners : run'[r].key = k}) <= 1

-----------------------------------------------------------------------------
(* A folder d, often in the sources, with a file and a folder in it, and a *)
(* folder t, often made by the task, with a file.                          *)

D == <<"d">>    DG == <<"d", "g">>   DS == <<"d", "s">>   Store == <<"d", ".DS_Store">>
T == <<"t">>    TG == <<"t", "g">>

WorkPaths == {D, DG, DS, Store, T, TG}

At(d, g, s, store, t, tg) ==
  (D :> d) @@ (DG :> g) @@ (DS :> s) @@ (Store :> store) @@ (T :> t) @@ (TG :> tg)

(* Trees a lookup may find: files as in the sources or as the task writes. *)
WorkTrees ==
  {At(d[1], d[2], d[3], d[4], t[1], t[2]) :
     d \in {<<None, None, None, None>>}
           \cup {<<"dir", g, s, None>> : g \in {None, "own", "src"}, s \in {None, "dir"}}
           \cup {<<"dir", None, s, "src">> : s \in {None, "dir"}},
     t \in {<<None, None>>} \cup {<<"dir", g>> : g \in {None, "own", "src"}}}

WorkStarts ==
  {At(d[1], d[2], d[3], d[4], t, None) :
     d \in {<<None, None, None, None>>, <<"dir", "src", None, None>>,
            <<"dir", "src", "dir", None>>, <<"dir", None, "dir", "src">>},
     t \in {None, "dir"}}

Plain ==
  [autoIn |-> TRUE, autoOut |-> TRUE, globs |-> {}, notIn |-> {}, outGlobs |-> {},
   notOut |-> {}, skipped |-> {}, ignoredIn |-> {}, ignoredOut |-> {},
   env |-> ("A" :> "1") @@ ("B" :> "unset"), gets |-> {}, queries |-> {}, declared |-> {}]

WorkConfigs ==
  {Plain,
   [Plain EXCEPT !.notIn = {DS}, !.notOut = {TG}, !.gets = {"A", "B"}, !.declared = {"B"}],
   [Plain EXCEPT !.ignoredIn = {DG}, !.ignoredOut = {T}, !.queries = {{"A", "B"}}],
   [Plain EXCEPT !.autoOut = FALSE, !.globs = {DG, TG}, !.outGlobs = {DS, TG}, !.gets = {"B"}],
   [Plain EXCEPT !.autoIn = FALSE, !.skipped = {T}]}

Work == INSTANCE Fingerprint WITH
  Paths <- WorkPaths, Starts <- WorkStarts, Trees <- WorkTrees, Configs <- WorkConfigs,
  Calls <- MaxCalls, Nil <- None, Dir <- "dir", Link <- "link", worktree <- work

workVars == <<work, log, calls, entry, before, touched, refused>>

-----------------------------------------------------------------------------
(* The programs of a system and of a package: a tool of JavaScript, which  *)
(* a script of two lines leads to, a static one, and scripts whose lines   *)
(* are cut off, lead nowhere or are no lines.  PATH meets files that may   *)
(* not be executed or read, a folder, and a link to itself.                *)
Elf(kind) == [kind |-> kind]
Script(interp, words, end) ==
  [kind |-> "script", line |-> [interp |-> interp, args |-> words, cut |-> end]]

Package == "/work"
Bin == "/work/bin"
Sh == <<"/bin", "sh">>
Env == <<"/usr/bin", "env">>

ProgramDisk ==
  [p \in {Sh, Env, <<"/usr/bin", "git">>, <<"/fspy", "sh">>, <<"/fspy", "env">>,
          <<Package, "node">>} |-> Elf("dynamic")]
  @@ [p \in {<<Package, "esbuild">>} |-> Elf("static")]
  @@ (<<Bin, "tsc">>      :> Script(<<Package, "node">>, <<"a", "b">>, "no"))
  @@ (<<Package, "run">>  :> Script(<<"", "tsc">>, <<>>, "no"))
  @@ (<<Package, "tsc">>  :> Script(<<"", "node">>, <<"c">>, "unended"))
  @@ (<<Package, "long">> :> Script(<<Package, "node">>, <<"c">>, "args"))
  @@ (<<Package, "cut">>  :> Script(<<Package, "node">>, <<>>, "path"))
  @@ (<<Package, "gone">> :> Script(<<Package, "missing">>, <<>>, "no"))
  @@ (<<Package, "text">> :> Elf("text")) @@ (<<Bin, "node">> :> Elf("folder"))
  @@ (<<Bin, "sh">> :> Elf("plain")) @@ (<<Bin, "gone">> :> Elf("loop"))
  @@ (<<Bin, "esbuild">> :> Elf("unreadable"))

Tracking == INSTANCE ExecTracking WITH
  Disk <- ProgramDisk, Cwd <- Package, Shell <- Sh, MaxLibraries <- 3,
  Programs <- {<<"", n>> : n \in {"node", "tsc", "esbuild", "sh", "env", "text", "gone",
                                  "run", "none", "", "git"}}
              \cup {<<".", n>> : n \in {"long", "cut", "run"}}
              \cup {<<"/proc/self/fd", n>> : n \in {"node", "esbuild"}} \cup {Sh, Env},
  SearchPaths <- {<<Bin, Package, "/bin">>, <<Package, "/usr/bin">>, <<"">>},
  Descriptors <- [cwd |-> <<Package, "">>, bin |-> <<Bin, "">>, file |-> <<Package, "node">>],
  Artifacts <- (Sh :> <<"/fspy", "sh">>) @@ (Env :> <<"/fspy", "env">>)

programVars == <<platform, image, env, preloaded, filtered, last, closed>>

-----------------------------------------------------------------------------
(* A run and its replay, a run beside a process that has the terminal, and *)
(* a built-in.  Chunks are cut anywhere: inside a colour, before a newline.*)
Prints(kind, stdout, stderr) == [kind |-> kind, out |-> stdout, err |-> stderr]
Pair(a, b) == [l \in {"a", "b"} |-> IF l = "a" THEN a ELSE b]
PrintedScripts ==
  {Pair(Prints("cached", <<"start", "end", "newline">>, <<"x">>), Prints("replay", <<>>, <<>>)),
   Pair(Prints("cached", <<"newline", "newline", "x">>, <<>>),
        Prints("uncached", <<"x", "newline">>, <<>>)),
   Pair(Prints("builtin", <<"x">>, <<>>), Prints("uncached", <<"x">>, <<"x">>))}

Output == INSTANCE TaskOutput WITH
  Scripts <- PrintedScripts, stored <- chunks,
  Modes <- {"interleaved", "labeled", "grouped", "plain", "silent"}

outputVars == <<mode, stripped, script, stage, left, inColour, held, block, capture, chunks,
                todo, failed, busy, terminal, nonblocking, broken, cancelled>>

-----------------------------------------------------------------------------
(* A run with any one or two tasks beside two others.                      *)
Summaries == INSTANCE Summary WITH
  Workers <- {"first", "second", "third"}, Reasons <- {"refused", "timeout"},
  First <- "first", MaxTasks <- 2, MaxShared <- 1, Nil <- None

summaryVars == <<ended, writer, saved, inode, folder, opened, latest, overlap>>

-----------------------------------------------------------------------------
(* The first process of a task, a child and a grandchild, a second child   *)
(* or a helper, or fewer of them and a call.                               *)
Windows == INSTANCE WindowsTracking WITH
  Pids <- 1 .. 3, Threads <- {"main", "pool"}, Objects <- {<<"dir", "file">>}, MaxEvents <- 3,
  Exports <-
    [kernelbase |-> {"CreateProcessW", "CreateProcessA"},
     kernel32 |-> {"CreateProcessW", "CreateProcessA"},
     ntdll |-> {"NtCreateUserProcess", "NtCreateFile", "NtOpenFile", "NtOpenSymbolicLinkObject",
                "NtQueryAttributesFile", "NtQueryFullAttributesFile", "NtQueryInformationByName",
                "NtQueryDirectoryFile", "NtQueryDirectoryFileEx", "NtSetInformationFile",
                "NtFsControlFile"}]

windowsVars == <<runner, procs, frames, hooking, recorded, forwarded>>

-----------------------------------------------------------------------------
(* Two runs of one build or of two, with two artifacts; a channel and two  *)
(* processes, in the run's working directory or in another.                *)
Materialize == INSTANCE Artifacts WITH
  Nil <- None, Runs <- {"one", "two"}, Builds <- {"old", "new"}, Pieces <- 2,
  Wanted <- <<[name |-> "fspy_preload", executable |-> FALSE],
              [name |-> "shell", executable |-> TRUE]>>

artifactVars == <<home, build, step, item, shelf, drafts, temps, faulty>>

Backing == INSTANCE BackingFile WITH
  Channels <- {"run"}, Processes <- {"tool", "helper"}, Folders <- {"/work", "/work/pkg"},
  Capacity <- 2

backingVars == <<system, tmpdir, where, channel, names, bytes, attached, stuck>>

-----------------------------------------------------------------------------
(* Two processes of one build, or of two whose schemas differ.             *)
Told(a, b) == [p \in {"one", "two"} |-> IF p = "one" THEN a ELSE b]

Cleaning == INSTANCE CacheFolder WITH
  Absent <- None, Processes <- {"one", "two"}, Schemas <- {-22, -23},
  Earlier <- [s \in {-22, -23} |-> "old"], MaxFiles <- 8, Builds <- {Told(-23, -22), Told(-23, -23)},
  Commands <- {Told("run", "run"), Told("run", "clean"), Told("clean", "clean"),
               Told("run", "details"), Told("synthetic", "details")}

cleaningVars == <<os, command, schema, stands, root, versions, rows, has, status, cleans, gone>>

-----------------------------------------------------------------------------
NoWork ==
  /\ work = None /\ log = None /\ calls = None /\ entry = None
  /\ before = None /\ touched = None /\ refused = None

NoProgram ==
  /\ platform = None /\ image = None /\ env = None /\ preloaded = None
  /\ filtered = None /\ last = None /\ closed = None

NoOutput ==
  /\ mode = None /\ stripped = None /\ script = None /\ stage = None /\ left = None
  /\ inColour = None /\ held = None /\ block = None /\ capture = None /\ chunks = None
  /\ todo = None /\ failed = None /\ busy = None /\ terminal = None
  /\ nonblocking = None /\ broken = None /\ cancelled = None

NoSummary ==
  /\ ended = None /\ writer = None /\ saved = None /\ inode = None
  /\ folder = None /\ opened = None /\ latest = None /\ overlap = None

NoWindows ==
  /\ runner = None /\ procs = None /\ frames = None
  /\ hooking = None /\ recorded = None /\ forwarded = None

NoArtifact ==
  /\ home = None /\ build = None /\ step = None /\ item = None
  /\ shelf = None /\ drafts = None /\ temps = None /\ faulty = None

NoBacking ==
  /\ system = None /\ tmpdir = None /\ where = None /\ channel = None
  /\ names = None /\ bytes = None /\ attached = None /\ stuck = None

NoCleaning ==
  /\ os = None /\ command = None /\ schema = None /\ stands = None /\ root = None
  /\ versions = None /\ rows = None /\ has = None /\ status = None
  /\ cleans = None /\ gone = None

NoProcess == NoWindows /\ NoArtifact /\ NoBacking /\ NoCleaning

NoTask == Init /\ NoWork /\ NoProgram /\ NoOutput /\ NoSummary

Scenarios ==
  \/ /\ NoProcess
     /\ \/ scenario = "shared" /\ NoTask
        \/ scenario = "edits" /\ Init /\ NoWork /\ NoProgram /\ NoOutput /\ NoSummary
        \/ scenario = "files" /\ Init /\ Work!FilesInit /\ NoProgram /\ NoOutput /\ NoSummary
        \/ scenario = "programs" /\ Init /\ NoWork /\ Tracking!ExecInit /\ NoOutput /\ NoSummary
        \/ scenario = "prints" /\ Init /\ NoWork /\ NoProgram /\ Output!OutputInit /\ NoSummary
        \/ scenario = "summaries" /\ Init /\ NoWork /\ NoProgram /\ NoOutput /\ Summaries!SummaryInit
  \/ scenario = "windows" /\ NoTask /\ Windows!WindowsInit /\ NoArtifact /\ NoBacking /\ NoCleaning
  \/ scenario = "artifacts" /\ NoTask /\ NoWindows /\ Materialize!ArtifactInit /\ NoBacking /\ NoCleaning
  \/ scenario = "backing" /\ NoTask /\ NoWindows /\ NoArtifact /\ Backing!BackingInit /\ NoCleaning
  \/ scenario = "folders" /\ NoTask /\ NoWindows /\ NoArtifact /\ NoBacking /\ Cleaning!FolderInit

processVars == <<windowsVars, artifactVars, backingVars, cleaningVars>>
taskVars == <<vars, workVars, programVars, outputVars, summaryVars>>

NextOfScenario ==
  /\ \/ scenario = "shared" /\ Next /\ FewEdits /\ ReadInOrder
        /\ UNCHANGED <<workVars, programVars, outputVars, summaryVars, processVars>>
     \/ scenario = "edits" /\ Next /\ OneTask
        /\ UNCHANGED <<workVars, programVars, outputVars, summaryVars, processVars>>
     \/ scenario = "files" /\ Work!FilesNext
        /\ UNCHANGED <<vars, programVars, outputVars, summaryVars, processVars>>
     \/ scenario = "programs" /\ Tracking!ExecNext
        /\ UNCHANGED <<vars, workVars, outputVars, summaryVars, processVars>>
     \/ scenario = "prints" /\ Output!OutputNext
        /\ UNCHANGED <<vars, workVars, programVars, summaryVars, processVars>>
     \/ scenario = "summaries" /\ Summaries!SummaryNext
        /\ UNCHANGED <<vars, workVars, programVars, outputVars, processVars>>
     \/ scenario = "windows" /\ Windows!WindowsNext
        /\ UNCHANGED <<taskVars, artifactVars, backingVars, cleaningVars>>
     \/ scenario = "artifacts" /\ Materialize!ArtifactNext
        /\ UNCHANGED <<taskVars, windowsVars, backingVars, cleaningVars>>
     \/ scenario = "backing" /\ Backing!BackingNext
        /\ UNCHANGED <<taskVars, windowsVars, artifactVars, cleaningVars>>
     \/ scenario = "folders" /\ Cleaning!FolderNext
        /\ UNCHANGED <<taskVars, windowsVars, artifactVars, backingVars>>
  /\ UNCHANGED scenario

SpecOfScenarios ==
  Scenarios /\ [][NextOfScenario]_<<scenario, taskVars, processVars>>

Alike == Permutations(Runners) \cup Permutations(Keys)

-----------------------------------------------------------------------------
(* The properties of the other parts; those of TaskCache hold throughout.  *)

(* docs/inputs.md:3, of every run: "When any tracked input file changes,   *)
(* the task's cache is invalidated and the task will re-run."              *)
NoChangeMissed == scenario = "files" => Work!HitSeesSame

(* Every program that a task comes to runs with the library or a filter,   *)
(* through scripts, static programs, descriptors and environments of its   *)
(* own making; on Windows, every process of it with the library and its    *)
(* payload, through whichever function and thread it is started.  The      *)
(* library is whole, whichever run put it there, and every process finds   *)
(* the channel that its run reads, and no other.                           *)
StaysTracked ==
  /\ scenario = "programs" => Tracking!StaysTracked
  /\ scenario = "windows" => Windows!TreeTracked
  /\ scenario = "artifacts" => Materialize!MaterializedWhole
  /\ scenario = "backing" => Backing!FoundByAll

(* Tracking does not change which program an exec runs, with which         *)
(* arguments, nor where it fails, and records the program; on Windows it   *)
(* records each call under the path and as what the kernel takes it for.   *)
(* A hit on what was recorded is one where the task, run again, would see  *)
(* what it saw: unless a call failed to put something where there was a    *)
(* file, no change is missed of anything it read, listed or asked for, and *)
(* a miss names a change that is there.  A checkout that lacks what the    *)
(* task can rebuild hits as well, and exactly that is put back.            *)
CallsSeen ==
  /\ scenario = "programs" => Tracking!ExecsAlike
  /\ scenario = "windows" => Windows!CallsRecorded
  /\ scenario = "files" =>
       /\ Work!HitSeesSameUnlessRefused /\ Work!MissExplained
       /\ Work!CleanCheckoutHits /\ Work!CleanCheckoutRestored /\ Work!FoldersFound

(* What tasks print reaches the terminal whole, in order, labelled and     *)
(* grouped as asked, whatever the chunks it is read in; an entry holds all *)
(* of it, and a hit replays it alike.  What a run says of its tasks in the *)
(* end is true in each form it is said in, and `--last-details` has all of *)
(* it, of the last run.  Processes that set up, use and clean the cache's  *)
(* folder at once find tables, never another schema's rows, and nothing    *)
(* again of what a clean that succeeded has met.                           *)
ResultsWhole ==
  /\ scenario = "prints" => Output!OutputWhole
  /\ scenario = "summaries" => Summaries!SummarySound
  /\ scenario = "folders" => Cleaning!FolderSound
=============================================================================
