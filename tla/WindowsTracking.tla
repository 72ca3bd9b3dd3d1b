--------------------------- MODULE WindowsTracking ---------------------------
(***************************************************************************)
(* How the processes of a task are tracked on Windows                      *)
(* (fspy/src/windows/mod.rs, fspy_preload_windows): the runner starts the  *)
(* first one suspended, puts the library and its payload into it and lets  *)
(* it run; the library puts its detours into the process that loads it;    *)
(* the detours of CreateProcess do to every child what the runner did to   *)
(* the first; and those of the NT functions record what is touched before  *)
(* they forward the call.                                                  *)
(*                                                                         *)
(* A path is a sequence of names, a handle the path of what it is open     *)
(* on, None where GetFinalPathNameByHandle cannot tell.  Detours, the      *)
(* kernel and the programs are external.  A write is meant by              *)
(* FILE_WRITE_DATA, FILE_APPEND_DATA or GENERIC_WRITE: what is opened with *)
(* GENERIC_ALL or MAXIMUM_ALLOWED counts as a read in the code and is left *)
(* out of the calls.                                                       *)
(***************************************************************************)
EXTENDS Integers, Sequences, FiniteSets, SequencesExt

CONSTANTS
  None,
  Pids,         \* processes, 1 the one that the runner starts
  Threads,      \* of each process
  Objects,      \* paths that calls are about
  Exports,      \* the symbols that kernelbase, kernel32 and ntdll have
  MaxEvents     \* bound: processes and NT calls, of which one, of a behaviour together

VARIABLES
  runner,    \* "idle", "spawned", "injected", "prepared", "waiting", "failed" or "closed"
  procs,     \* [Pids -> None or a process]
  frames,    \* [Pids -> [Threads -> Seq(calls under way)]], the innermost last
  hooking,   \* [Pids -> [Threads -> BOOLEAN]]: IS_HOOKING_CREATE_PROCESS
  recorded,  \* set of [mode, path] in the channel
  forwarded  \* set of [pid, call] that reached the kernel while the channel was open

windowsVars == <<runner, procs, frames, hooking, recorded, forwarded>>

(* A process.  for: the child that a helper of Detours is there for;       *)
(* told: what the creator's call returned.                                 *)
Process(parent, image, state, asked, foreign, for) ==
  [parent |-> parent, image |-> image, state |-> state, asked |-> asked, foreign |-> foreign,
   for |-> for, library |-> FALSE, payload |-> FALSE, client |-> "none", hooked |-> FALSE,
   told |-> "pending"]

Open == runner \notin {"failed", "closed"}

-----------------------------------------------------------------------------
(* What a detour finds out of its arguments.                               *)

(* Mutant: read is asked first.                                            *)
ReadAccessToMode(access) == IF "read" \in access THEN "Read" ELSE "Write"

AccessMaskToMode(access) ==
  IF "write" \in access THEN IF "read" \in access THEN "ReadWrite" ELSE "Write" ELSE "Read"

(* Mutant: the name as it is given.                                        *)
BareDestination(call) == call.at

(* handle_destination: a bare name is a sibling of the source.             *)
Destination(call) ==
  LET at == call.at IN
  IF at.root = None /\ ~at.absolute /\ at.name # <<>>
    THEN IF call.handle = None THEN None
         ELSE [root |-> None, absolute |-> TRUE, name |-> Front(call.handle) \o at.name]
    ELSE at

(* ToAbsolutePath of OBJECT_ATTRIBUTES.                                    *)
AbsolutePath(at) ==
  IF at.absolute THEN at.name
  ELSE IF at.root = None THEN None
  ELSE at.root \o at.name

(* What handle_open sends of a path: a wildcard lists the folder it is in. *)
HandleOpen(m, path) ==
  LET wild == {i \in DOMAIN path : path[i] = "*"} IN
  IF path = None THEN {}
  ELSE IF wild = {} THEN {[mode |-> m, path |-> path]}
  ELSE {[mode |-> "ReadDir", path |-> SubSeq(path, 1, (CHOOSE i \in wild : \A j \in wild : j <= i) - 1)]}

NtCreateUserProcess(image) == {[mode |-> "Read", path |-> image]}

(* Mutant: only CreateDirectoryW makes folders.                            *)
NtCreateOnly(call) ==
  HandleOpen(IF call.folder /\ call.disposition = "create" THEN "Mkdir"
             ELSE AccessMaskToMode(call.access), AbsolutePath(call.at))

NtCreateFile(call) ==
  HandleOpen(IF call.folder /\ call.disposition \in {"create", "open_if"} THEN "Mkdir"
             ELSE AccessMaskToMode(call.access), AbsolutePath(call.at))

NtOpenFile(call) == HandleOpen(AccessMaskToMode(call.access), AbsolutePath(call.at))

NtOpenSymbolicLinkObject(call) == HandleOpen(AccessMaskToMode(call.access), AbsolutePath(call.at))

NtQueryAttributesFile(call) == HandleOpen("Read", AbsolutePath(call.at))

NtQueryFullAttributesFile(call) == HandleOpen(AccessMaskToMode({"read"}), AbsolutePath(call.at))

NtQueryInformationByName(call) == HandleOpen(AccessMaskToMode({"read"}), AbsolutePath(call.at))

NtQueryDirectoryFile(call) == HandleOpen("ReadDir", call.handle)

NtQueryDirectoryFileEx(call) == HandleOpen("ReadDir", call.handle)

NtSetInformationFile(call) ==
  LET at == Destination(call)
      sent(m) == IF at = None THEN {} ELSE HandleOpen(m, AbsolutePath(at))
  IN CASE call.class = "rename" -> sent("RenameTarget")
       [] call.class = "link"   -> sent("Write")
       [] OTHER                 -> {}

NtFsControlFile(call) ==
  IF call.code = "set_reparse_point" THEN HandleOpen("Write", call.handle) ELSE {}

(* The detours that are attached.                                          *)
Sent(call) ==
  CASE call.api = "NtCreateFile"              -> NtCreateFile(call)
    [] call.api = "NtOpenFile"                -> NtOpenFile(call)
    [] call.api = "NtOpenSymbolicLinkObject"  -> NtOpenSymbolicLinkObject(call)
    [] call.api = "NtQueryAttributesFile"     -> NtQueryAttributesFile(call)
    [] call.api = "NtQueryFullAttributesFile" -> NtQueryFullAttributesFile(call)
    [] call.api = "NtQueryInformationByName"  -> NtQueryInformationByName(call)
    [] call.api = "NtQueryDirectoryFile"      -> NtQueryDirectoryFile(call)
    [] call.api = "NtQueryDirectoryFileEx"    -> NtQueryDirectoryFileEx(call)
    [] call.api = "NtSetInformationFile"      -> NtSetInformationFile(call)
    [] call.api = "NtFsControlFile"           -> NtFsControlFile(call)

-----------------------------------------------------------------------------
(* The calls of programs: what one is to do, to which object, and how that *)
(* is given.                                                               *)

At(root, absolute, name) == [root |-> root, absolute |-> absolute, name |-> name]

Named(object) ==
  {At(None, TRUE, object), At(Front(object), FALSE, <<Last(object)>>), At(object, FALSE, <<>>)}

Call(api, does, object) ==
  [api |-> api, does |-> does, object |-> object, at |-> None, handle |-> None, access |-> {},
   folder |-> FALSE, disposition |-> "open", class |-> "other", code |-> "other"]

Accesses(access) == IF "write" \in access THEN access ELSE {"read"}

Opening(api, a, o, n) == [Call(api, Accesses(a), o) EXCEPT !.at = n, !.access = a]

Making(o, n, d) ==
  [Call("NtCreateFile", {"make"}, o) EXCEPT !.at = n, !.access = {"read"}, !.folder = TRUE,
                                            !.disposition = d]

Listing(o) ==
  [Call("NtOpenFile", {"list"}, o) EXCEPT !.at = At(None, TRUE, o \o <<"*">>), !.access = {"read"},
                                          !.folder = TRUE]

Opens(o) ==
  {Opening(api, a, o, n) : api \in {"NtCreateFile", "NtOpenFile", "NtOpenSymbolicLinkObject"},
                           a \in SUBSET {"read", "write"}, n \in Named(o)}
  \cup {Making(o, n, d) : n \in Named(o), d \in {"create", "open_if"}}
  \cup {Listing(o)}

Query(api, o, n) == [Call(api, {"read"}, o) EXCEPT !.at = n]

Enumeration(api, o) == [Call(api, {"list"}, o) EXCEPT !.handle = o]

Queries(o) ==
  {Query(api, o, n) :
     api \in {"NtQueryAttributesFile", "NtQueryFullAttributesFile", "NtQueryInformationByName"},
     n \in Named(o)}
  \cup {Enumeration(api, o) : api \in {"NtQueryDirectoryFile", "NtQueryDirectoryFileEx"}}

Change(class, effect, o, n) ==
  [Call("NtSetInformationFile", {effect}, o) EXCEPT !.at = n, !.handle = Front(o) \o <<"source">>,
                                                    !.class = class]

Reparse(o) ==
  [Call("NtFsControlFile", {"write"}, o) EXCEPT !.handle = o, !.code = "set_reparse_point"]

Destinations(o) == Named(o) \cup {At(None, FALSE, <<Last(o)>>)}

Changes(o) ==
  {Change("rename", "move", o, n) : n \in Destinations(o)}
  \cup {Change("link", "write", o, n) : n \in Destinations(o)}
  \cup {Reparse(o)}

Calls == UNION {Opens(o) \cup Queries(o) \cup Changes(o) : o \in Objects}

-----------------------------------------------------------------------------
(* Mutant: what the library imports.                                       *)
ImportedTarget(symbol) ==
  IF symbol \in Exports.kernel32 THEN "kernel32"
  ELSE IF symbol \in Exports.ntdll THEN "ntdll" ELSE None

(* Which of the exports of a symbol a detour is put into: the shared       *)
(* implementation in kernelbase, to which the stubs forward, or else what  *)
(* the library imports, or is found in kernel32 or ntdll.                  *)
Target(symbol) ==
  IF symbol \in Exports.kernelbase THEN "kernelbase"
  ELSE IF symbol \in Exports.kernel32 THEN "kernel32"
  ELSE IF symbol \in Exports.ntdll THEN "ntdll" ELSE None

Libraries == {"kernelbase", "kernel32"}

(* What runs when a program calls a symbol through a library.              *)
Implementation(symbol, via) ==
  IF via = "kernel32" /\ symbol \in Exports.kernelbase THEN "kernelbase" ELSE via

Intercepted(p, symbol, via) ==
  procs[p].hooked /\ Target(symbol) # None /\ Implementation(symbol, via) = Target(symbol)

Running(p) == procs[p] # None /\ procs[p].state \in {"running", "exiting"}

(* The library is the first that a process loads, so that it is attached   *)
(* before the program runs.                                                *)
Program(p) ==
  Running(p) /\ procs[p].for = None /\ (procs[p].library => procs[p].client # "none")

Sends(p) == procs[p].client = "sends" /\ Open

Record(p, accesses) == recorded' = IF Sends(p) THEN recorded \cup accesses ELSE recorded

-----------------------------------------------------------------------------
(* The runner.                                                             *)

WindowsInit ==
  /\ runner = "idle"
  /\ procs = [p \in Pids |-> None]
  /\ frames = [p \in Pids |-> [t \in Threads |-> <<>>]]
  /\ hooking = [p \in Pids |-> [t \in Threads |-> FALSE]]
  /\ recorded = {} /\ forwarded = {}

unchangedCalls == UNCHANGED <<frames, hooking, recorded, forwarded>>

SpawnRoot ==
  /\ runner = "idle"
  /\ runner' = "spawned"
  /\ procs' = [procs EXCEPT ![1] = Process(None, None, "suspended", FALSE, FALSE, None)]
  /\ unchangedCalls

UpdateRoot ==
  /\ runner = "spawned"
  /\ runner' = "injected"
  /\ procs' = [procs EXCEPT ![1].library = TRUE]
  /\ unchangedCalls

CopyToRoot ==
  /\ runner = "injected"
  /\ runner' = "prepared"
  /\ procs' = [procs EXCEPT ![1].payload = TRUE]
  /\ unchangedCalls

ResumeRoot ==
  /\ runner = "prepared"
  /\ runner' = "waiting"
  /\ procs' = [procs EXCEPT ![1].state = "running", ![1].told = "yes"]
  /\ unchangedCalls

(* Mutant: the error alone is returned.                                    *)
PreparationLeft ==
  /\ runner \in {"spawned", "injected", "prepared"}
  /\ runner' = "failed"
  /\ procs' = [procs EXCEPT ![1].told = "no"]
  /\ unchangedCalls

(* Any of the three can fail; no suspended process is left behind, the kill *)
(* whose result is dropped (`let _ =`) being taken to succeed.             *)
PreparationFails ==
  /\ runner \in {"spawned", "injected", "prepared"}
  /\ runner' = "failed"
  /\ procs' = [procs EXCEPT ![1].state = "dead", ![1].told = "no"]
  /\ unchangedCalls

(* "Close the ipc channel after the child has exited."                     *)
CloseChannel ==
  /\ runner = "waiting" /\ procs[1].state = "dead"
  /\ runner' = "closed"
  /\ UNCHANGED procs /\ unchangedCalls

-----------------------------------------------------------------------------
(* DllMain.                                                                *)

(* ck_long reports no error, so that a process whose transaction fails     *)
(* runs without any detour.                                                *)
Attach(p) ==
  /\ procs[p] # None /\ procs[p].state = "running" /\ procs[p].for = None
  /\ procs[p].library /\ procs[p].client = "none"
  /\ \E committed \in BOOLEAN :
       procs' = [procs EXCEPT ![p].client = IF Open THEN "sends" ELSE "over",
                              ![p].hooked = committed]
  /\ UNCHANGED runner /\ unchangedCalls

(* ck takes the 0 that DetourTransactionBegin returns when it succeeds for *)
(* a failure: nothing is detached.                                         *)
Detach(p) ==
  /\ Program(p) /\ procs[p].state = "running" /\ \A t \in Threads : frames[p][t] = <<>>
  /\ procs' = [procs EXCEPT ![p].state = "exiting"]
  /\ UNCHANGED runner /\ unchangedCalls

(* The end of a process, by itself or by another that kills it.            *)
Die(p) ==
  /\ procs[p] # None /\ procs[p].state # "dead" /\ (p = 1 => runner = "waiting")
  /\ procs' = [procs EXCEPT ![p].state = "dead"]
  /\ frames' = [frames EXCEPT ![p] = [t \in Threads |-> <<>>]]
  /\ hooking' = [hooking EXCEPT ![p] = [t \in Threads |-> FALSE]]
  /\ UNCHANGED <<runner, recorded, forwarded>>

-----------------------------------------------------------------------------
(* NT calls: recorded, then forwarded.                                     *)

UnderWay(p, t) ==
  Cardinality({i \in DOMAIN frames[p][t] : frames[p][t][i].step \in {"nt", "called"}})

Room ==
  Cardinality({p \in Pids : procs[p] # None}) + Cardinality(forwarded)
    + Cardinality({x \in Pids \X Threads : UnderWay(x[1], x[2]) > 0}) < MaxEvents

Stands(p, t, step) == Running(p) /\ frames[p][t] # <<>> /\ Last(frames[p][t]).step = step

Pushed(p, t, frame) == frames' = [frames EXCEPT ![p][t] = Append(@, frame)]

Touch(p, t) ==
  /\ Program(p) /\ frames[p][t] = <<>>
  /\ Room /\ forwarded = {}
  /\ \A q \in Pids, u \in Threads : ~Stands(q, u, "nt")
  /\ \E call \in Calls :
       /\ IF Intercepted(p, call.api, "ntdll") THEN Record(p, Sent(call)) ELSE UNCHANGED recorded
       /\ Pushed(p, t, [step |-> "nt", call |-> call])
  /\ UNCHANGED <<runner, procs, hooking, forwarded>>

Forward(p, t) ==
  /\ Stands(p, t, "nt")
  /\ forwarded' = IF Open THEN forwarded \cup {[pid |-> p, call |-> Last(frames[p][t]).call]}
                  ELSE forwarded
  /\ frames' = [frames EXCEPT ![p][t] = Front(@)]
  /\ UNCHANGED <<runner, procs, hooking, recorded>>

-----------------------------------------------------------------------------
(* Children.  A frame of CreateProcess has the child, None before there is *)
(* one; whether the call is detoured, or goes to the real function; and    *)
(* the arguments.                                                          *)

Free(p, t) ==
  /\ Program(p)
  /\ frames[p][t] # <<>> => Last(frames[p][t]).step = "helping"

HelperFor(p, t) == IF frames[p][t] = <<>> THEN None ELSE Last(frames[p][t]).child

IsHelperFor(h, child) == procs[h] # None /\ procs[h].for = child

(* Mutant: there is no guard.                                              *)
NeverHooking(p, t) == FALSE

(* Mutant: the guard is the process's.                                     *)
ProcessHooking(p, t) == \E u \in Threads : hooking[p][u]

(* HookGuard: a call from inside of Detours goes to the real function.     *)
AlreadyHooking(p, t) == hooking[p][t]

CreateProcess(p, t, symbol, via, asked, foreign) ==
  LET detoured == Intercepted(p, symbol, via) /\ ~AlreadyHooking(p, t) IN
  /\ Free(p, t)
  /\ HelperFor(p, t) # None => foreign /\ ~asked /\ ~\E h \in Pids : IsHelperFor(h, HelperFor(p, t))
  /\ Room
  /\ hooking' = IF Intercepted(p, symbol, via) THEN [hooking EXCEPT ![p][t] = TRUE] ELSE hooking
  /\ Pushed(p, t, [step |-> "called", child |-> None, detoured |-> detoured,
                   asked |-> asked, foreign |-> foreign, for |-> HelperFor(p, t)])
  /\ UNCHANGED <<runner, procs, recorded, forwarded>>

CreateProcessW(p, t, via, asked, foreign) ==
  CreateProcess(p, t, "CreateProcessW", via, asked, foreign)

CreateProcessA(p, t, via, asked, foreign) ==
  CreateProcess(p, t, "CreateProcessA", via, asked, foreign)

Goes(p, t, step) ==
  frames' = [frames EXCEPT ![p][t] = Append(Front(@), [Last(@) EXCEPT !.step = step])]

(* The call returns, and drops the guard if it has one.                    *)
Returns(p, t) ==
  /\ frames' = [frames EXCEPT ![p][t] = Front(@)]
  /\ hooking' = IF Last(frames[p][t]).detoured THEN [hooking EXCEPT ![p][t] = FALSE] ELSE hooking

Image(frame) == <<IF frame.for = None THEN "image" ELSE "rundll32">>

RecordImage(p, frame) ==
  IF Intercepted(p, "NtCreateUserProcess", "ntdll")
    THEN Record(p, NtCreateUserProcess(Image(frame))) ELSE UNCHANGED recorded

(* The kernel makes the process, and reads its image.  Detours asks for a  *)
(* suspended one, and the detour does so in any case.                      *)
RealCreate(p, t) ==
  LET frame == Last(frames[p][t])
      child == CHOOSE c \in Pids : procs[c] = None /\ \A q \in Pids : procs[q] = None => c <= q
      suspended == frame.detoured \/ frame.asked
  IN
  /\ Stands(p, t, "called")
  /\ \E c \in Pids : procs[c] = None
  /\ procs' = [procs EXCEPT ![child] =
                 [Process(p, Image(frame), IF suspended THEN "suspended" ELSE "running", frame.asked,
                          frame.foreign, frame.for)
                    EXCEPT !.told = IF frame.detoured THEN "pending" ELSE "yes"]]
  /\ RecordImage(p, frame)
  /\ IF frame.detoured
       THEN frames' = [frames EXCEPT ![p][t] =
                         Append(Front(@), [frame EXCEPT !.step = "created", !.child = child])]
            /\ UNCHANGED hooking
       ELSE Returns(p, t)
  /\ UNCHANGED <<runner, forwarded>>

(* A missing image counts as read, too.                                    *)
RealCreateFails(p, t) ==
  /\ Stands(p, t, "called")
  /\ RecordImage(p, Last(frames[p][t]))
  /\ IF Len(frames[p][t]) = 1 THEN Returns(p, t)
     ELSE frames' = [frames EXCEPT ![p][t] = <<[@[1] EXCEPT !.step = "unhelped"]>>] /\ UNCHANGED hooking
  /\ UNCHANGED <<runner, procs, forwarded>>

(* Mutant: the detour goes by the caller's flags.                          *)
ResumesUnasked(frame) == ~frame.asked

(* Detours passes CREATE_SUSPENDED on, whatever the caller asked for.      *)
ResumesEarly(frame) == FALSE

(* prepare_child_process: the payload that this process was given.         *)
PrepareChild(p, t) ==
  LET frame == Last(frames[p][t]) IN
  /\ Stands(p, t, "created")
  /\ procs[p].payload
  /\ procs' = [procs EXCEPT ![frame.child].payload = TRUE,
                 ![frame.child].state = IF ResumesEarly(frame) /\ @ = "suspended" THEN "running" ELSE @]
  /\ Goes(p, t, "prepared")
  /\ UNCHANGED <<runner, hooking, recorded, forwarded>>

(* The call fails, and nobody ends the suspended child.                    *)
PrepareFails(p, t) ==
  /\ Stands(p, t, "created")
  /\ procs' = [procs EXCEPT ![Last(frames[p][t]).child].told = "no"]
  /\ Returns(p, t)
  /\ UNCHANGED <<runner, recorded, forwarded>>

(* Detours puts the library in, through a helper process when the child is *)
(* of the other word size, and ends a child that it cannot put it into.    *)
Inject(p, t) ==
  LET child == Last(frames[p][t]).child IN
  /\ Stands(p, t, "prepared")
  /\ IF procs[child].foreign
       THEN Goes(p, t, "helping") /\ UNCHANGED procs
       ELSE Goes(p, t, "loaded") /\ procs' = [procs EXCEPT ![child].library = TRUE]
  /\ UNCHANGED <<runner, hooking, recorded, forwarded>>

Helped(p, t) ==
  LET child == Last(frames[p][t]).child IN
  /\ Stands(p, t, "helping")
  /\ \E h \in Pids :
       /\ IsHelperFor(h, child) /\ procs[h].state = "running"
       /\ procs' = [procs EXCEPT ![child].library = TRUE, ![h].state = "dead"]
  /\ Goes(p, t, "loaded")
  /\ UNCHANGED <<runner, hooking, recorded, forwarded>>

InjectFails(p, t) ==
  LET child == Last(frames[p][t]).child IN
  /\ \/ Stands(p, t, "prepared") \/ Stands(p, t, "unhelped")
     \/ Stands(p, t, "helping") /\ \E h \in Pids : IsHelperFor(h, child) /\ procs[h].state = "dead"
  /\ procs' = [procs EXCEPT ![child].state = "dead", ![child].told = "no"]
  /\ Returns(p, t)
  /\ UNCHANGED <<runner, recorded, forwarded>>

ResumeChild(p, t) ==
  LET frame == Last(frames[p][t]) IN
  /\ Stands(p, t, "loaded")
  /\ procs' = [procs EXCEPT ![frame.child].told = "yes",
                 ![frame.child].state = IF @ = "suspended" /\ ~frame.asked THEN "running" ELSE @]
  /\ Returns(p, t)
  /\ UNCHANGED <<runner, recorded, forwarded>>

(* A program lets a child go on that it asked to be suspended.             *)
ResumeAsked(p, c) ==
  /\ Program(p) /\ procs[c] # None /\ procs[c].parent = p
  /\ procs[c].asked /\ procs[c].told = "yes" /\ procs[c].state = "suspended"
  /\ procs' = [procs EXCEPT ![c].state = "running"]
  /\ UNCHANGED runner /\ unchangedCalls

WindowsNext ==
  \/ SpawnRoot \/ UpdateRoot \/ CopyToRoot \/ ResumeRoot \/ PreparationFails \/ CloseChannel
  \/ \E p \in Pids : Attach(p) \/ Detach(p) \/ Die(p)
  \/ \E p \in Pids, t \in Threads :
       \/ Touch(p, t) \/ Forward(p, t)
       \/ \E via \in Libraries, asked, foreign \in BOOLEAN :
            \/ CreateProcessW(p, t, via, asked, foreign)
            \/ CreateProcessA(p, t, via, asked, foreign)
       \/ RealCreate(p, t) \/ RealCreateFails(p, t)
       \/ PrepareChild(p, t) \/ PrepareFails(p, t)
       \/ Inject(p, t) \/ Helped(p, t) \/ InjectFails(p, t) \/ ResumeChild(p, t)
  \/ \E p, c \in Pids : ResumeAsked(p, c)

-----------------------------------------------------------------------------
Covers ==
  [read |-> {"Read", "ReadWrite", "ReadDir"}, write |-> {"Write", "ReadWrite"},
   list |-> {"ReadDir"}, make |-> {"Mkdir"}, move |-> {"RenameTarget"}]

(* Whatever a detoured process had done before the channel closed is       *)
(* recorded, under the path the kernel took it to, as what it was: also    *)
(* when the process died, was told of a failure or was about to end; and   *)
(* the image of whatever it started.  This is of calls whose handle or     *)
(* root directory has a path that can be found, the only ones there are    *)
(* here: others are forwarded and nothing is recorded.                     *)
CallsRecorded ==
  /\ \A f \in forwarded :
       procs[f.pid].hooked =>
         \A effect \in f.call.does :
           \E r \in recorded : r.path = f.call.object /\ r.mode \in Covers[effect]
  /\ \A c \in Pids :
       (procs[c] # None /\ procs[c].parent # None /\ procs[procs[c].parent].hooked
        /\ procs[procs[c].parent].client = "sends" /\ Open)
         => [mode |-> "Read", path |-> procs[c].image] \in recorded

(* No child of a detoured process, nor the first one, runs without the     *)
(* library and its payload, in whichever thread it was started and through *)
(* whatever ends in CreateProcessA or CreateProcessW, the two functions    *)
(* that are detoured; a process whose Detours transaction failed is not a  *)
(* detoured one.  A helper of Detours has neither; and whoever was told of *)
(* a child that was not asked to wait finds it going.                      *)
TreeTracked ==
  /\ \A c \in Pids :
       procs[c] # None =>
         /\ (Running(c) /\ procs[c].for = None /\ (c = 1 \/ procs[procs[c].parent].hooked))
              => procs[c].library /\ procs[c].payload
         /\ procs[c].for # None => ~procs[c].library /\ ~procs[c].payload
         /\ procs[c].told = "yes" /\ procs[c].state = "suspended" => procs[c].asked
  /\ runner = "failed" => procs[1].state = "dead"

WindowsSpec == WindowsInit /\ [][WindowsNext]_windowsVars
=============================================================================
