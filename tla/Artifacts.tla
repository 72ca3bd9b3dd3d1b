------------------------------- MODULE Artifacts -------------------------------
(***************************************************************************)
(* How runs of one user put the files that are embedded in the runner, as  *)
(* the preload library, into a folder of the temporary directory           *)
(* (vt_materialized_artifact), at the same time, from different builds,    *)
(* while they fail or are killed anywhere.  A file is named after its      *)
(* artifact and a hash of its content, here the build that it is of.       *)
(* Nobody empties the temporary directory meanwhile.                       *)
(***************************************************************************)
EXTENDS Integers, Sequences, FiniteSets

CONSTANTS
  Nil,
  Runs,      \* runs of this user
  Builds,    \* builds of the runner, that embed different contents
  Wanted,    \* sequence of [name, executable]: the artifacts of a run
  Pieces     \* the writes that a content takes

VARIABLES
  home,      \* what is at the folder's path, Nil or [kind, mine, open]
  build,     \* [Runs -> Builds]
  step,      \* [Runs -> where it is]
  item,      \* [Runs -> the artifact it is at]
  shelf,     \* [paths -> Nil or the draft that has got that name]
  drafts,    \* [Runs \X DOMAIN Wanted -> Nil or [build, name, pieces, executable]]
  temps,     \* drafts that still have their temporary name
  faulty     \* runs for which the system has failed

artifactVars == <<home, build, step, item, shelf, drafts, temps, faulty>>

Folder(kind, mine, open) == [kind |-> kind, mine |-> mine, open |-> open]

Mine == Folder("folder", TRUE, FALSE)

(* Mutant: a name for all builds.                                          *)
PathOfName(r, name) == <<name, CHOOSE b \in Builds : TRUE>>

(* The file's name.                                                        *)
Path(r, name) == <<name, build[r]>>

Artifact(r) == Wanted[item[r]]
Target(r) == Path(r, Artifact(r).name)
Draft(r) == <<r, item[r]>>

ArtifactInit ==
  /\ home \in {Nil, Mine, Folder("folder", TRUE, TRUE), Folder("folder", FALSE, FALSE),
               Folder("link", FALSE, FALSE)}
  /\ build \in [Runs -> Builds]
  /\ step = [r \in Runs |-> "folder"]
  /\ item = [r \in Runs |-> 1]
  /\ shelf = [p \in {w.name : w \in {Wanted[i] : i \in DOMAIN Wanted}} \X Builds |-> Nil]
  /\ drafts = [d \in Runs \X DOMAIN Wanted |-> Nil]
  /\ temps = {} /\ faulty = {}

To(r, s) == step' = [step EXCEPT ![r] = s]

Fault(r) == To(r, "failed") /\ faulty' = faulty \cup {r}

-----------------------------------------------------------------------------
(* user_temp_dir.                                                          *)

MakeFolder(r) ==
  /\ step[r] = "folder"
  /\ home' = IF home = Nil THEN Mine ELSE home
  /\ To(r, "folder made")
  /\ UNCHANGED <<build, item, shelf, drafts, temps, faulty>>

(* Mutant: whoever may write to it.                                        *)
CheckOwner(r) ==
  /\ step[r] = "folder made"
  /\ To(r, IF home.kind = "folder" /\ home.mine THEN "exists" ELSE "failed")
  /\ UNCHANGED <<home, build, item, shelf, drafts, temps, faulty>>

(* A directory, not a link, of this user, that nobody else can write to.   *)
CheckFolder(r) ==
  /\ step[r] = "folder made"
  /\ To(r, IF home.kind = "folder" /\ home.mine /\ ~home.open THEN "exists" ELSE "failed")
  /\ UNCHANGED <<home, build, item, shelf, drafts, temps, faulty>>

-----------------------------------------------------------------------------
(* Materialize::at.                                                        *)

Returned(r) ==
  IF item[r] = Len(Wanted) THEN To(r, "done") /\ UNCHANGED item
  ELSE To(r, "exists") /\ item' = [item EXCEPT ![r] = @ + 1]

Exists(r) ==
  /\ step[r] = "exists"
  /\ IF shelf[Target(r)] # Nil THEN Returned(r) ELSE To(r, "temp") /\ UNCHANGED item
  /\ UNCHANGED <<home, build, shelf, drafts, temps, faulty>>

(* Mutant: the file is made under its own name.                            *)
NewInPlace(r) ==
  /\ step[r] = "temp"
  /\ drafts' = [drafts EXCEPT ![Draft(r)] =
                  [build |-> build[r], name |-> Artifact(r).name, pieces |-> 0,
                   executable |-> Artifact(r).executable]]
  /\ shelf' = [shelf EXCEPT ![Target(r)] = Draft(r)]
  /\ To(r, "write")
  /\ UNCHANGED <<home, build, item, temps, faulty>>

(* The mode is set as the file is made.                                    *)
NewTemp(r) ==
  /\ step[r] = "temp"
  /\ drafts' = [drafts EXCEPT ![Draft(r)] =
                  [build |-> build[r], name |-> Artifact(r).name, pieces |-> 0,
                   executable |-> Artifact(r).executable]]
  /\ temps' = temps \cup {Draft(r)}
  /\ To(r, "write")
  /\ UNCHANGED <<home, build, item, shelf, faulty>>

Write(r) ==
  /\ step[r] = "write"
  /\ drafts' = [drafts EXCEPT ![Draft(r)].pieces = @ + 1]
  /\ To(r, IF drafts[Draft(r)].pieces + 1 = Pieces THEN "persist" ELSE "write")
  /\ UNCHANGED <<home, build, item, shelf, temps, faulty>>

(* A rename that does not replace, or where there is none a link, and then *)
(* the temporary name goes.                                                *)
Persist(r) ==
  /\ step[r] = "persist" /\ shelf[Target(r)] = Nil
  /\ shelf' = [shelf EXCEPT ![Target(r)] = Draft(r)]
  /\ \/ temps' = temps \ {Draft(r)} /\ Returned(r)
     \/ UNCHANGED <<temps, item>> /\ To(r, "unlink")
  /\ UNCHANGED <<home, build, drafts, faulty>>

Unlink(r) ==
  /\ step[r] = "unlink"
  /\ temps' = temps \ {Draft(r)}
  /\ Returned(r)
  /\ UNCHANGED <<home, build, shelf, drafts, faulty>>

(* There is a file of that name already, or the system fails.              *)
PersistFails(r) ==
  /\ step[r] = "persist"
  /\ faulty' = IF shelf[Target(r)] = Nil THEN faulty \cup {r} ELSE faulty
  /\ To(r, "lost")
  /\ UNCHANGED <<home, build, item, shelf, drafts, temps>>

(* Mutant: the error is the result.                                        *)
LoseRace(r) ==
  /\ step[r] = "lost"
  /\ To(r, "failed")
  /\ temps' = temps \ {Draft(r)}
  /\ UNCHANGED <<home, build, item, shelf, drafts, faulty>>

(* Another run's file is as good; the temporary one is dropped either way. *)
LookAgain(r) ==
  /\ step[r] = "lost"
  /\ IF shelf[Target(r)] # Nil THEN Returned(r) ELSE To(r, "failed") /\ UNCHANGED item
  /\ temps' = temps \ {Draft(r)}
  /\ UNCHANGED <<home, build, shelf, drafts, faulty>>

SystemFails(r) ==
  /\ step[r] \in {"folder", "folder made", "exists", "temp", "write", "lost"}
  /\ Fault(r)
  /\ temps' = temps \ {Draft(r)}
  /\ UNCHANGED <<home, build, item, shelf, drafts>>

Die(r) ==
  /\ step[r] \notin {"done", "failed", "dead"}
  /\ To(r, "dead")
  /\ UNCHANGED <<home, build, item, shelf, drafts, temps, faulty>>

ArtifactNext ==
  \E r \in Runs :
    \/ MakeFolder(r) \/ CheckFolder(r) \/ Exists(r) \/ NewTemp(r) \/ Write(r)
    \/ Persist(r) \/ Unlink(r) \/ PersistFails(r) \/ LookAgain(r)
    \/ SystemFails(r) \/ Die(r)

ArtifactSpec == ArtifactInit /\ [][ArtifactNext]_artifactVars

-----------------------------------------------------------------------------
Whole(d, name, executable, of) ==
  drafts[d] = [build |-> of, name |-> name, pieces |-> Pieces, executable |-> executable]

(* What a run was given is there, whole, of its own build and in a folder  *)
(* that is this user's alone, whichever run wrote it and however that run  *)
(* ended; no run fails because another was faster; and only a run that was *)
(* killed leaves a temporary file.                                         *)
MaterializedWhole ==
  \A r \in Runs :
    /\ \A i \in 1 .. item[r] - (IF step[r] = "done" THEN 0 ELSE 1) :
         LET d == shelf[Path(r, Wanted[i].name)] IN
         /\ home = Mine
         /\ d # Nil /\ Whole(d, Wanted[i].name, Wanted[i].executable, build[r])
    /\ step[r] = "failed" => r \in faulty \/ home \notin {Nil, Mine}
    /\ \A d \in temps : d[1] = r => step[r] \in {"write", "persist", "unlink", "lost", "dead"}
=============================================================================
