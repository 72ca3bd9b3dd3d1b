------------------------------ MODULE CacheFolder ------------------------------
(***************************************************************************)
(* The folder of a workspace's cache, as the commands of several processes *)
(* make it, use it and clean it at the same time (session/mod.rs,          *)
(* cli/mod.rs and ExecutionCache::load_from_path): runs and synthetic      *)
(* commands, of one build or of builds whose schema differs, `cache clean` *)
(* and `--last-details`.  Any of them may fail or be killed anywhere.      *)
(*                                                                         *)
(* Files are what has their names: a lock, a database and a summary per    *)
(* version, and archives, named after the process that wrote them.  A      *)
(* process goes on with the files that it has open when their names are    *)
(* gone.  TaskCache says what is in a database of one version; here it has *)
(* one row.                                                                *)
(***************************************************************************)
EXTENDS Integers, FiniteSets

CONSTANTS
  Absent,
  Processes,
  Schemas,     \* what CACHE_SCHEMA_VERSION is in the builds
  Earlier,     \* the archives of an earlier run of each build: [Schemas -> names]
  Commands,    \* bound: what the processes are told to do, a set of [Processes ->
               \* "run", "synthetic", "clean" or "details"]
  Builds,      \* bound: which builds meet, a set of [Processes -> Schemas]
  MaxFiles     \* bound: locks and databases that are made

VARIABLES
  os,          \* "unix" or "windows"
  command,     \* [Processes -> "run", "synthetic", "clean" or "details"]
  schema,      \* [Processes -> Schemas]
  stands,      \* [Processes -> where it is]
  root,        \* the cache's folder is there
  versions,    \* [Schemas -> Absent or the folder of the version]
  rows,        \* [databases that were made -> [tables, row]]
  has,         \* [Processes -> [lock, db, got]]: the files it has open, and its hit
  status,      \* [Processes -> Absent or its exit status]
  cleans,      \* [Processes -> what there was as its clean began, Absent before]
  gone         \* what there was as a clean began that has succeeded

folderVars == <<os, command, schema, stands, root, versions, rows, has, status, cleans, gone>>

Empty == [lock |-> Absent, db |-> Absent, archives |-> {}, summary |-> Absent]
Nothing == [lock |-> Absent, db |-> Absent, got |-> Absent]

(* Mutant: one folder for all builds.                                      *)
CommonPath(p) == CHOOSE s \in Schemas : TRUE

(* cache_schema_dir_name: the version is in the folder's name.             *)
CachePath(p) == schema[p]

Here(p) == versions[CachePath(p)]

(* An earlier run's entry, whole or without its archive.                   *)
FolderInit ==
  /\ os \in {"unix", "windows"}
  /\ command \in Commands
  /\ schema \in Builds
  /\ stands = [p \in Processes |-> command[p]]
  /\ \E whole \in BOOLEAN, there \in SUBSET Schemas :
       /\ root = (there # {})
       /\ versions = [s \in Schemas |->
            IF s \notin there THEN Absent
            ELSE [lock |-> s, db |-> s, archives |-> IF whole THEN {Earlier[s]} ELSE {}, summary |-> 0]]
       /\ rows = [f \in there |-> [tables |-> TRUE, row |-> [archive |-> Earlier[f], of |-> f]]]
  /\ has = [p \in Processes |-> Nothing]
  /\ status = [p \in Processes |-> Absent]
  /\ cleans = [p \in Processes |-> Absent]
  /\ gone = {}

To(p, s) == stands' = [stands EXCEPT ![p] = s]

(* What is open is closed, and with it a lock is let go.                   *)
Ends(p, code) ==
  /\ To(p, "ended")
  /\ status' = [status EXCEPT ![p] = code]
  /\ has' = [has EXCEPT ![p] = Nothing]

chosen == UNCHANGED <<os, command, schema>>
noClean == UNCHANGED <<cleans, gone>>

(* The folder is there and something in it changes.                        *)
InFolder(p, folder) == versions' = [versions EXCEPT ![CachePath(p)] = folder]

Unused == {f \in 1 .. MaxFiles :
  f \notin DOMAIN rows \cup {versions[s].lock : s \in {t \in Schemas : versions[t] # Absent}}
                       \cup {has[p].lock : p \in Processes}}
NewFile == CHOOSE f \in Unused : TRUE

-----------------------------------------------------------------------------
(* A run is planned and a synthetic command is; nothing is made for one    *)
(* that cannot be.                                                         *)

Plan(p) ==
  /\ stands[p] \in {"run", "synthetic"}
  /\ \/ To(p, "create") /\ UNCHANGED <<has, status>>
     \/ Ends(p, 1)
  /\ chosen /\ noClean /\ UNCHANGED <<root, versions, rows>>

-----------------------------------------------------------------------------
(* load_from_path.                                                         *)

CreateFolder(p) ==
  /\ stands[p] = "create"
  /\ root' = TRUE
  /\ IF Here(p) = Absent THEN InFolder(p, Empty) ELSE UNCHANGED versions
  /\ To(p, "lock file")
  /\ chosen /\ noClean /\ UNCHANGED <<rows, has, status>>

CreateLock(p) ==
  /\ stands[p] = "lock file" /\ Here(p) # Absent
  /\ IF Here(p).lock # Absent
       THEN has' = [has EXCEPT ![p].lock = Here(p).lock] /\ UNCHANGED versions
       ELSE /\ Unused # {}
            /\ has' = [has EXCEPT ![p].lock = NewFile]
            /\ InFolder(p, [Here(p) EXCEPT !.lock = NewFile])
  /\ To(p, "lock")
  /\ chosen /\ noClean /\ UNCHANGED <<root, rows, status>>

Locked(file) ==
  \E q \in Processes : has[q].lock = file /\ stands[q] \in {"open", "tables"}

(* Mutant: the file is made but not locked.                                *)
GoOn(p) ==
  /\ stands[p] = "lock"
  /\ To(p, "open")
  /\ chosen /\ noClean /\ UNCHANGED <<root, versions, rows, has, status>>

TakeLock(p) ==
  /\ stands[p] = "lock" /\ ~Locked(has[p].lock)
  /\ To(p, "open")
  /\ chosen /\ noClean /\ UNCHANGED <<root, versions, rows, has, status>>

(* Connection::open and the journal's mode, which lasts.                   *)
OpenDatabase(p) ==
  /\ stands[p] = "open" /\ Here(p) # Absent
  /\ IF Here(p).db # Absent
       THEN has' = [has EXCEPT ![p].db = Here(p).db] /\ UNCHANGED <<versions, rows>>
       ELSE /\ Unused # {}
            /\ has' = [has EXCEPT ![p].db = NewFile]
            /\ InFolder(p, [Here(p) EXCEPT !.db = NewFile])
            /\ rows' = [f \in DOMAIN rows \cup {NewFile} |->
                          IF f = NewFile THEN [tables |-> FALSE, row |-> Absent] ELSE rows[f]]
  /\ To(p, "tables")
  /\ chosen /\ noClean /\ UNCHANGED <<root, status>>

(* Mutant: what is there already has its tables.                           *)
TablesOfNew(p) ==
  /\ stands[p] = "tables"
  /\ \E new \in BOOLEAN : rows' = [rows EXCEPT ![has[p].db].tables = @ \/ new]
  /\ has' = [has EXCEPT ![p].lock = Absent]
  /\ To(p, "lookup")
  /\ chosen /\ noClean /\ UNCHANGED <<root, versions, status>>

(* CREATE TABLE IF NOT EXISTS; then the lock is let go.                    *)
CreateTables(p) ==
  /\ stands[p] = "tables"
  /\ rows' = [rows EXCEPT ![has[p].db].tables = TRUE]
  /\ has' = [has EXCEPT ![p].lock = Absent]
  /\ To(p, "lookup")
  /\ chosen /\ noClean /\ UNCHANGED <<root, versions, status>>

(* A name whose folder is gone, a database that another process is setting *)
(* up, or the system: "Failed to initialize cache".                        *)
LoadFails(p) ==
  /\ stands[p] \in {"create", "lock file", "lock", "open", "tables"}
  /\ Ends(p, 1)
  /\ chosen /\ noClean /\ UNCHANGED <<root, versions, rows>>

-----------------------------------------------------------------------------
(* One task: its lookup, and its restore or its record.                    *)

Lookup(p) ==
  /\ stands[p] = "lookup"
  /\ LET row == rows[has[p].db].row IN
     \/ row # Absent /\ has' = [has EXCEPT ![p].got = row] /\ To(p, "restore")
     \/ UNCHANGED has /\ To(p, "task")
  /\ chosen /\ noClean /\ UNCHANGED <<root, versions, rows, status>>

(* "Run `vp cache clean` to clear the cache."                              *)
RestoreHit(p) ==
  /\ stands[p] = "restore"
  /\ To(p, IF Here(p) # Absent /\ has[p].got.archive \in Here(p).archives
             THEN "succeeded" ELSE "failed")
  /\ chosen /\ noClean /\ UNCHANGED <<root, versions, rows, has, status>>

Task(p) ==
  /\ stands[p] = "task"
  /\ \E s \in {"archive", "succeeded", "failed"} : To(p, s)
  /\ chosen /\ noClean /\ UNCHANGED <<root, versions, rows, has, status>>

(* The archive goes to the folder of that name, whichever database is open.*)
WriteArchive(p) ==
  /\ stands[p] = "archive"
  /\ IF Here(p) = Absent THEN To(p, "failed") /\ UNCHANGED versions
     ELSE /\ InFolder(p, [Here(p) EXCEPT !.archives = @ \cup {p}])
          /\ To(p, "replace")
  /\ chosen /\ noClean /\ UNCHANGED <<root, rows, has, status>>

(* The error of a removal is ignored.                                      *)
Replace(p) ==
  /\ stands[p] = "replace"
  /\ LET row == rows[has[p].db].row IN
     IF Here(p) # Absent /\ row # Absent
       THEN InFolder(p, [Here(p) EXCEPT !.archives = @ \ {row.archive}])
       ELSE UNCHANGED versions
  /\ To(p, "put")
  /\ chosen /\ noClean /\ UNCHANGED <<root, rows, has, status>>

(* The row goes into the database that is open; sqlite may refuse to write *)
(* to one that has lost its name.                                          *)
Put(p) ==
  /\ stands[p] = "put"
  /\ \/ /\ rows' = [rows EXCEPT ![has[p].db].row = [archive |-> p, of |-> schema[p]]]
        /\ To(p, "succeeded")
     \/ /\ Here(p) # Absent => Here(p).db # has[p].db
        /\ UNCHANGED rows /\ To(p, "failed")
  /\ chosen /\ noClean /\ UNCHANGED <<root, versions, has, status>>

(* Only a run keeps its summary; that it cannot is logged.                 *)
FinishCommand(p) ==
  /\ stands[p] \in {"succeeded", "failed"}
  /\ LET code == IF stands[p] = "succeeded" THEN 0 ELSE 1 IN
     /\ Ends(p, code)
     /\ \/ /\ command[p] = "run" /\ Here(p) # Absent
           /\ InFolder(p, [Here(p) EXCEPT !.summary = code])
        \/ UNCHANGED versions
  /\ chosen /\ noClean /\ UNCHANGED <<root, rows>>

(* show_last_run_details.                                                  *)
ShowDetails(p) ==
  /\ stands[p] = "details"
  /\ Ends(p, IF Here(p) = Absent \/ Here(p).summary = Absent THEN 1 ELSE Here(p).summary)
  /\ chosen /\ noClean /\ UNCHANGED <<root, versions, rows>>

-----------------------------------------------------------------------------
(* handle_cache_command: the folder of all versions, if there is one.      *)

Names(s) ==
  IF versions[s] = Absent THEN {}
  ELSE ({"lock", "db", "summary"} \cap {n \in DOMAIN Empty : versions[s][n] # Absent})
       \cup versions[s].archives

(* All that a lookup could come to.                                        *)
Entries ==
  {rows[f].row.archive : f \in {f \in DOMAIN rows :
     rows[f].row # Absent /\ \E s \in Schemas : "db" \in Names(s) /\ versions[s].db = f}}
  \cup UNION {versions[s].archives : s \in {t \in Schemas : versions[t] # Absent}}

(* Mutant: the build's own version.                                        *)
OwnVersion(p) == {schema[p]}

(* Every version, also those that this build would not look at.            *)
AllVersions(p) == Schemas

BeginClean(p) ==
  /\ stands[p] = "clean"
  /\ IF ~root THEN Ends(p, 0) /\ UNCHANGED cleans
     ELSE /\ cleans' = [cleans EXCEPT ![p] = Entries]
          /\ To(p, "cleaning") /\ UNCHANGED <<has, status>>
  /\ chosen /\ UNCHANGED <<root, versions, rows, gone>>

(* Windows does not remove a file that sqlite has open; the lock is shared *)
(* for removal.                                                            *)
InUse(s, n) ==
  /\ os = "windows" /\ n = "db"
  /\ \E q \in Processes : has[q].db = versions[s].db

(* remove_dir_all, in whatever order the folders are listed.               *)
RemoveFile(p, s, n) ==
  /\ stands[p] = "cleaning" /\ s \in AllVersions(p)
  /\ n \in Names(s) /\ ~InUse(s, n)
  /\ versions' = [versions EXCEPT ![s] = IF n \in DOMAIN Empty THEN [@ EXCEPT ![n] = Absent]
                                         ELSE [@ EXCEPT !.archives = versions[s].archives \ {n}]]
  /\ chosen /\ UNCHANGED <<stands, root, rows, has, status, cleans, gone>>

RemoveFolder(p, s) ==
  /\ stands[p] = "cleaning" /\ s \in AllVersions(p)
  /\ versions[s] # Absent /\ Names(s) = {}
  /\ versions' = [versions EXCEPT ![s] = Absent]
  /\ chosen /\ UNCHANGED <<stands, root, rows, has, status, cleans, gone>>

RemoveRoot(p) ==
  /\ stands[p] = "cleaning"
  /\ \A s \in AllVersions(p) : versions[s] = Absent
  /\ root' = (\E s \in Schemas \ AllVersions(p) : versions[s] # Absent)
  /\ Ends(p, 0)
  /\ gone' = gone \cup cleans[p]
  /\ chosen /\ UNCHANGED <<versions, rows, cleans>>

(* A file is in use, a folder is no longer empty, or the system fails.     *)
CleanFails(p) ==
  /\ stands[p] = "cleaning"
  /\ Ends(p, 1)
  /\ chosen /\ UNCHANGED <<root, versions, rows, cleans, gone>>

-----------------------------------------------------------------------------
(* Killed: the system closes what it has open.                             *)
Die(p) ==
  /\ stands[p] \notin {"ended", "dead", "cut", command[p]}
  /\ stands' = [stands EXCEPT ![p] = IF @ \in {"put", "cleaning"} THEN "cut" ELSE "dead"]
  /\ has' = [has EXCEPT ![p] = Nothing]
  /\ chosen /\ noClean /\ UNCHANGED <<root, versions, rows, status>>

FolderNext ==
  \E p \in Processes :
    \/ Plan(p) \/ CreateFolder(p) \/ CreateLock(p) \/ TakeLock(p) \/ OpenDatabase(p)
    \/ CreateTables(p) \/ LoadFails(p)
    \/ Lookup(p) \/ RestoreHit(p) \/ Task(p) \/ WriteArchive(p) \/ Replace(p) \/ Put(p)
    \/ FinishCommand(p) \/ ShowDetails(p)
    \/ BeginClean(p) \/ RemoveRoot(p) \/ CleanFails(p)
    \/ \E s \in Schemas : \/ RemoveFolder(p, s)
                          \/ \E n \in Names(s) : RemoveFile(p, s, n)
    \/ Die(p)

FolderSpec == FolderInit /\ [][FolderNext]_folderVars

-----------------------------------------------------------------------------
(* Cut short, or failed with something left undone.                        *)
CleanCut(p) == cleans[p] # Absent /\ status[p] # 0

(* Whoever looks something up has tables to look in; two processes set up  *)
(* one database at a time only when a clean has taken the lock from under  *)
(* them; builds of different schemas never meet in a database; what there  *)
(* was before a clean that succeeded, of any version, is not found again,  *)
(* so that the advice a failed restore gives is good; and an entry lacks   *)
(* its archive only if it did before, or its replacement or a clean is     *)
(* under way or was cut short.                                             *)
FolderSound ==
  /\ \A p \in Processes :
       stands[p] \in {"lookup", "restore", "task", "archive", "replace", "put"} =>
         rows[has[p].db].tables
  /\ \A p, q \in Processes :
       p # q /\ stands[p] = "tables" /\ stands[q] = "tables" /\ has[p].db = has[q].db =>
         \E c \in Processes : cleans[c] # Absent
  /\ \A s \in Schemas : versions[s] # Absent /\ versions[s].db # Absent =>
       LET row == rows[versions[s].db].row IN
       row # Absent =>
         /\ row.of = s
         /\ row.archive \notin gone
         /\ row.archive \notin versions[s].archives =>
              \/ row.archive = Earlier[s]
              \/ \E p \in Processes : \/ stands[p] \in {"put", "cut"} /\ schema[p] = s
                                      \/ CleanCut(p)
=============================================================================
