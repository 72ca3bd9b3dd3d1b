---------------------------- MODULE ExecTracking ----------------------------
(***************************************************************************)
(* How tracking passes from a program to the next one a process executes:  *)
(* fspy::Command and fspy/src/unix/mod.rs for the task's own process, the  *)
(* interposed exec and posix_spawn functions of fspy_preload_unix for what *)
(* it runs, and fspy_shared_unix for the resolution and the injection.     *)
(*                                                                         *)
(* One line of processes is followed, from the task to a program of a      *)
(* program of it.  A dynamic program is tracked by the preloaded library,  *)
(* another one by the seccomp filter its process installs before the exec, *)
(* and a process keeps that filter.  Programs exec through libc, name no   *)
(* variable twice, and pass at least the name of the program.              *)
(***************************************************************************)
EXTENDS Integers, SequencesExt

CONSTANTS
  Disk,          \* what is at an absolute path, a pair of a folder and a name
  Cwd,           \* the folder the processes run in
  Programs,      \* the programs a process asks for
  SearchPaths,   \* the folders of PATH
  Shell,         \* /bin/sh
  MaxLibraries,  \* bound: entries of LD_PRELOAD
  Descriptors,   \* what the open descriptors refer to, a folder with an empty name
  Artifacts      \* what takes the place of programs of the system (macOS)

VARIABLES
  platform,      \* of the build: "glibc", "musl" or "macos"
  image,         \* the program that runs, NoFile before the first
  env,           \* its LD_PRELOAD (DYLD_INSERT_LIBRARIES), and FSPY_PAYLOAD
  preloaded,     \* the client of fspy is in the program
  filtered,      \* the process has a seccomp filter
  last,          \* the call that has just been made, Ok in between
  closed         \* history: a program that takes no library was run (macOS)

execVars == <<platform, image, env, preloaded, filtered, last, closed>>

Ok == "ok"
NoFile == <<"none", "">>
Fds == "/proc/self/fd"
Word(w) == <<"word", w>>
Abs(p) == IF p[1] \in {"", ".", Fds} THEN <<Cwd, p[2]>> ELSE p
Kind(p) == IF Abs(p) \in DOMAIN Disk THEN Disk[Abs(p)].kind ELSE "none"
Line(p) == Disk[Abs(p)].line

(* access(X_OK), also of a folder.                                         *)
Access(p) ==
  CASE Kind(p) = "none" -> "ENOENT" [] Kind(p) = "plain" -> "EACCES"
    [] Kind(p) = "loop" -> "ELOOP"  [] OTHER -> Ok

OpenExecutable(p) == IF Kind(p) = "unreadable" THEN "EACCES" ELSE Access(p)

NoCall == [made |-> FALSE]
Nothing == [image |-> NoFile, argv |-> <<>>]
Failed(err, reads) == [err |-> err, reads |-> reads]

-----------------------------------------------------------------------------
(* Resolution (exec/mod.rs, which.rs, shebang.rs).                         *)

(* Mutant: a file that may not be executed ends the search.                *)
WhichStrict(name, path) ==
  LET at(i) == <<path[i], name>>
      ends == {i \in DOMAIN path : Access(at(i)) # "ENOENT"} IN
  IF ends = {} THEN Failed("ENOENT", {at(i) : i \in DOMAIN path})
    ELSE LET i == CHOOSE i \in ends : \A j \in ends : i <= j IN
         [err |-> Access(at(i)), reads |-> {at(j) : j \in 1..i}, prog |-> at(i)]

(* The first candidate that access() grants.                               *)
Which(name, path) ==
  LET at(i) == <<path[i], name>>
      ends == {i \in DOMAIN path : Access(at(i)) \notin {"EACCES", "ENOENT"}}
      upTo(n) == {at(i) : i \in 1..n} IN
  IF ends = {}
    THEN Failed(IF \E i \in DOMAIN path : Access(at(i)) = "EACCES" THEN "EACCES" ELSE "ENOENT",
                upTo(Len(path)))
    ELSE LET i == CHOOSE i \in ends : \A j \in ends : i <= j IN
         [err |-> Access(at(i)), reads |-> upTo(i), prog |-> at(i)]

(* What cuts a line off: the kernel reads 256 bytes of it, on macOS 512,   *)
(* and there the line has to end.                                          *)
LineError(line) ==
  IF \/ line.cut = "path"
     \/ line.interp = NoFile
     \/ platform = "macos" /\ line.cut \in {"args", "unended"}
    THEN "ENOEXEC" ELSE Ok

(* One argument on Linux, and one for each word on macOS.                  *)
LineArgs(line) ==
  IF platform = "macos" \/ line.args = <<>>
    THEN [i \in DOMAIN line.args |-> Word(line.args[i])]
    ELSE <<<<"words", line.args>>>>

(* Mutant: the script comes before the arguments of its line.              *)
SpliceSwapped(script, argv) ==
  <<Line(script).interp, script>> \o LineArgs(Line(script)) \o Tail(argv)

(* The interpreter takes the place of the name, and the script follows the *)
(* arguments of its line.                                                  *)
Splice(script, argv) ==
  <<Line(script).interp>> \o LineArgs(Line(script)) \o <<script>> \o Tail(argv)

ReadShebang(p) ==
  CASE OpenExecutable(p) # Ok -> OpenExecutable(p)
    [] Kind(p) = "folder" -> "EISDIR"
    [] Kind(p) = "script" -> LineError(Line(p))
    [] OTHER -> Ok

ParseShebang(found, argv) ==
  LET p == found.prog reads == found.reads \cup {p} IN
  IF ReadShebang(p) # Ok THEN Failed(ReadShebang(p), reads)
  ELSE IF Kind(p) = "script"
    THEN [err |-> Ok, reads |-> reads, prog |-> Line(p).interp, argv |-> Splice(p, argv)]
    ELSE [err |-> Ok, reads |-> reads, prog |-> p, argv |-> argv]

ResolveExec(call) ==
  LET found == IF call.search /\ call.prog[1] = "" THEN Which(call.prog[2], call.path)
               ELSE [err |-> Ok, reads |-> {}, prog |-> call.prog] IN
  IF found.err # Ok THEN found ELSE ParseShebang(found, call.argv)

-----------------------------------------------------------------------------
(* Injection (spawn/linux/mod.rs, spawn/macos.rs).                         *)

(* Mutant: the library goes first.                                         *)
PrependPathEnv(list) == IF "fspy" \in ToSet(list) THEN list ELSE <<"fspy">> \o list

AppendPathEnv(list) ==
  IF list # <<>> /\ Last(list) = "fspy" THEN list ELSE Append(list, "fspy")

Prepared(r, e, filter) ==
  [err |-> Ok, reads |-> r.reads, prog |-> r.prog, argv |-> r.argv, env |-> e, filter |-> filter]

Injected(r, e) ==
  IF e.payload = "other"
    THEN Failed("EINVAL", r.reads)
    ELSE Prepared(r, [preload |-> AppendPathEnv(e.preload), payload |-> "fspy"], FALSE)

Stripped(r, filter) == Prepared(r, [preload |-> <<>>, payload |-> "none"], filter)

OfSystem(p) ==
  (IF p[1] \in {"", "."} THEN Cwd ELSE p[1]) \in {"/bin", "/usr/bin"}

(* Of the programs of the system the shell and the tools it has a          *)
(* replacement for take a library.                                         *)
MacExec(r, e) ==
  IF Abs(r.prog) \in DOMAIN Artifacts
    THEN Injected([r EXCEPT !.prog = Artifacts[Abs(r.prog)]], e)
  ELSE IF OfSystem(r.prog) THEN Stripped(r, FALSE)
  ELSE Injected(r, e)

(* is_dynamically_linked_to_libc parses ELF, and nothing else.             *)
Linked(r, e, filter) ==
  IF platform = "musl" THEN Stripped(r, TRUE)
  ELSE CASE OpenExecutable(r.prog) # Ok -> Failed(OpenExecutable(r.prog), r.reads)
         [] Kind(r.prog) = "folder" -> Failed("ENODEV", r.reads)
         [] Kind(r.prog) \in {"script", "text"} -> Failed("ENOEXEC", r.reads)
         [] Kind(r.prog) = "dynamic" -> Injected(r, e)
         [] OTHER -> Stripped(r, filter)

(* Mutant: a static program is run without the filter.                     *)
LinuxExecUnfiltered(r, e) == Linked(r, e, FALSE)

LinuxExec(r, e) == Linked(r, e, TRUE)

(* Mutant: only what the search and the line needed is recorded.           *)
ReadSearched(r) == r

ReadProgram(r) == [r EXCEPT !.reads = @ \cup {r.prog}]

(* execveat names a file at a descriptor, or with a flag the descriptor    *)
(* itself (fspy_client_unix/src/convert.rs).  NoFile: the call accesses    *)
(* nothing, and fails.                                                     *)
ToAbsolutePath(call) ==
  LET p == call.prog IN
  IF call.at = "cwd" /\ p[2] # "" THEN p
  ELSE IF p[1] \notin {"", "."} THEN p
  ELSE IF call.at \notin DOMAIN Descriptors \/ (p[2] = "" /\ ~call.empty) THEN NoFile
  ELSE IF p[2] = "" THEN Descriptors[call.at]
  ELSE <<Descriptors[call.at][1], p[2]>>

HandleExec(given) ==
  LET call == [given EXCEPT !.prog = ToAbsolutePath(given)]
      r == IF call.prog = NoFile THEN Failed("the call's own", {}) ELSE ResolveExec(call) IN
  IF r.err # Ok THEN r
  ELSE IF platform = "macos" THEN MacExec(ReadProgram(r), call.env)
                             ELSE LinuxExec(ReadProgram(r), call.env)

-----------------------------------------------------------------------------
(* The kernel and libc.                                                    *)

(* execve: through interpreters of interpreters.                           *)
KernelStep(x) ==
  LET kind == Kind(x.prog) opened == Append(x.opened, Abs(x.prog)) IN
  IF x.err # Ok \/ x.done THEN x
  ELSE CASE kind = "none" -> [x EXCEPT !.err = "ENOENT"]
         [] kind = "loop" -> [x EXCEPT !.err = "ELOOP"]
         [] kind \in {"plain", "folder"} -> [x EXCEPT !.err = "EACCES"]
         [] kind = "text" \/ (kind = "script" /\ LineError(Line(x.prog)) # Ok) ->
              [x EXCEPT !.err = "ENOEXEC"]
         [] kind = "script" -> [x EXCEPT !.prog = Line(x.prog).interp, !.opened = opened,
                                         !.argv = <<Line(x.prog).interp>> \o LineArgs(Line(x.prog))
                                                    \o <<x.prog>> \o Tail(x.argv)]
         [] OTHER -> [x EXCEPT !.done = TRUE, !.opened = opened, !.prog = Abs(x.prog)]

Execve(prog, argv) ==
  KernelStep(KernelStep(KernelStep(
    [err |-> Ok, done |-> FALSE, prog |-> prog, argv |-> argv, opened |-> <<>>])))

(* execvp goes on past a candidate it may not or cannot run, and gives     *)
(* what no loader knows to the shell; posix_spawnp does not.               *)
Libc(given) ==
  LET call == [given EXCEPT !.prog = ToAbsolutePath(given)]
      at(i) == IF call.search /\ call.prog[1] = "" THEN <<call.path[i], call.prog[2]>>
               ELSE call.prog
      n == IF call.search /\ call.prog[1] = "" THEN Len(call.path) ELSE 1
      run(i) == LET x == Execve(at(i), call.argv) IN
                IF x.err = "ENOEXEC" /\ call.search /\ ~call.spawn
                  THEN LET sh == Execve(Shell, <<Shell, at(i)>> \o Tail(call.argv)) IN
                         [sh EXCEPT !.opened = <<Abs(at(i))>> \o @]
                  ELSE x
      ends == {i \in 1..n : run(i).err \notin {"EACCES", "ENOENT"}} IN
  IF call.prog = NoFile THEN [err |-> "ENOENT", tried |-> {}]
  ELSE LET i == IF ends = {} THEN n ELSE CHOOSE i \in ends : \A j \in ends : i <= j IN
       run(i) @@ [tried |-> {Abs(at(j)) : j \in 1..i}]

(* The loader takes the libraries the environment names.  On macOS every   *)
(* program has a loader.                                                   *)
Loads ==
  /\ Kind(image) \in {"dynamic", "unreadable"} \/ platform = "macos"
  /\ platform # "musl"
  /\ "fspy" \in ToSet(env.preload)
  /\ platform = "macos" => ~OfSystem(image)

-----------------------------------------------------------------------------
ExecInit ==
  /\ platform \in {"glibc", "musl", "macos"}
  /\ image = NoFile
  /\ env \in [preload : {<<>>, <<"user">>}, payload : {"none"}]
  /\ preloaded = FALSE /\ filtered = FALSE /\ last = NoCall /\ closed = FALSE

(* What the call comes to.  The kernel may still refuse a program that it  *)
(* was about to run, for its arguments or because it is being written.     *)
Becomes(call, x, by, recorded, refused) ==
  LET ran == Execve(x.prog, x.argv) IN
  /\ IF refused \/ x.err # Ok \/ ran.err # Ok
       THEN /\ last' = [made |-> TRUE, call |-> call, by |-> by, ran |-> Nothing,
                        recorded |-> recorded, refused |-> refused]
            /\ filtered' = (filtered \/ (x.err = Ok /\ x.filter /\ ~call.spawn))
            /\ UNCHANGED <<image, env, preloaded, closed>>
       ELSE /\ last' = [made |-> TRUE, call |-> call, by |-> by,
                        ran |-> [image |-> ran.prog, argv |-> ran.argv],
                        recorded |-> recorded, refused |-> FALSE]
            /\ image' = ran.prog
            /\ env' = x.env
            /\ filtered' = (filtered \/ x.filter)
            /\ preloaded' = FALSE
            /\ closed' = (closed \/ (platform = "macos" /\ OfSystem(ran.prog)))
  /\ UNCHANGED platform

(* A process has one filter with a listener: a second one is EBUSY.        *)
WithFilter(x) ==
  IF x.err = Ok /\ x.filter /\ filtered THEN Failed("EBUSY", x.reads) ELSE x

(* Client::send leaves out what is no file of its own.                     *)
Sent(reads) == {Abs(p) : p \in {p \in reads : p[1] # Fds}}

(* The files on PATH that resolve_program takes for the program.           *)
OnPath(call) ==
  {i \in DOMAIN call.path :
     Kind(<<call.path[i], call.prog[2]>>) \notin {"none", "plain", "folder", "loop"}}

(* fspy::Command::spawn, with the path resolve_program found.              *)
Launch(call) ==
  LET first == CHOOSE i \in OnPath(call) : \A j \in OnPath(call) : i <= j
      at == [call EXCEPT !.prog = Abs(<<call.path[first], call.prog[2]>>)] IN
  /\ image = NoFile
  /\ call.prog[1] = "" /\ OnPath(call) # {} /\ call.spawn /\ call.search /\ call.env = env
  /\ LET x == HandleExec(at) IN Becomes(at, x, "client", {Abs(p) : p \in x.reads}, FALSE)

(* A function of the exec family in a program that has the client.         *)
Intercepted(call) ==
  /\ image # NoFile /\ preloaded
  /\ LET x == WithFilter(HandleExec(call)) IN
     \E refused \in BOOLEAN : Becomes(call, x, "client", Sent(x.reads), refused)

(* The same call in another program.  With a filter, each execve is        *)
(* recorded by the supervisor, and not what its line names.                *)
Trapped(call) ==
  /\ image # NoFile /\ ~preloaded
  /\ LET x == Libc(call) IN
     Becomes(call, IF x.err = Ok THEN [err |-> Ok, prog |-> x.prog, argv |-> x.argv,
                                       env |-> call.env, filter |-> FALSE] ELSE x,
             IF filtered THEN "filter" ELSE "nobody",
             IF filtered THEN x.tried ELSE {}, FALSE)

(* The program starts: the loader, then the constructor of the client.  On *)
(* macOS a program of the system is rid of the loader's variables.         *)
Begin ==
  /\ last.made
  /\ last' = NoCall
  /\ preloaded' = (preloaded \/ Loads)
  /\ env' = IF platform = "macos" /\ OfSystem(image) THEN [env EXCEPT !.preload = <<>>] ELSE env
  /\ UNCHANGED <<platform, image, filtered, closed>>

(* The environments a program passes on: its own, one of its making, one   *)
(* with a library of the user in front or behind; and a tracked program    *)
(* that is itself a runner, those of the run it tracks.                    *)
Envs ==
  {env, [env EXCEPT !.preload = <<"user">> \o @], [env EXCEPT !.preload = Append(@, "user")],
   [preload |-> <<>>, payload |-> "none"]}
  \cup {e \in {[preload |-> <<"fspy">>, payload |-> "other"]} : preloaded}

(* execve, execl, execv and posix_spawn; execvp, execlp, execvpe and       *)
(* posix_spawnp, which search; execveat; and fexecve, which names a        *)
(* descriptor of a file in Cwd.                                            *)
Shapes ==
  {c \in [prog : Programs, search : BOOLEAN, spawn : BOOLEAN, path : SearchPaths,
          at : {"cwd", "none"} \cup DOMAIN Descriptors, empty : BOOLEAN,
          argv : {<<Word("argv0"), Word("x")>>}] :
     /\ ~(c.search /\ c.prog[1] = "") => c.path = CHOOSE p \in SearchPaths : TRUE
     /\ c.at # "cwd" \/ c.empty => ~c.search /\ ~c.spawn /\ c.prog[1] = ""}

Call ==
  /\ ~last.made
  /\ \E c \in Shapes, e \in Envs :
       /\ Len(e.preload) <= MaxLibraries
       /\ LET call == [prog |-> c.prog, search |-> c.search, spawn |-> c.spawn, path |-> c.path,
                       at |-> c.at, empty |-> c.empty, argv |-> c.argv, env |-> e] IN
          Launch(call) \/ Intercepted(call) \/ Trapped(call)

ExecNext == Begin \/ Call

-----------------------------------------------------------------------------
(* Every program that runs is tracked, by the library or by a filter, and  *)
(* the library comes last and can find its payload.  On macOS nothing is   *)
(* known behind a program of the system that takes no library.             *)
StaysTracked ==
  /\ image # NoFile /\ ~last.made => preloaded \/ filtered \/ closed
  /\ preloaded => Last(env.preload) = "fspy" /\ env.payload = "fspy"

RunsAs(p, q) ==
  p = q \/ (platform = "macos" /\ q \in DOMAIN Artifacts /\ p = Artifacts[q])

(* exec/mod.rs: resolve "replicates the behavior of execve/execvp/execvP/  *)
(* execvpe": a tracked call runs the program an untracked one would, with  *)
(* the same arguments.                                                     *)
SameProgramRuns ==
  last.made /\ last.ran # Nothing =>
    LET would == Libc(last.call) IN
    would.err = Ok /\ RunsAs(last.ran.image, would.prog) /\ last.ran.argv = would.argv

(* A tracked call fails where an untracked one would run a program only:   *)
(* behind an interpreter that is a script; for a file without a line that  *)
(* execvp gives to the shell, or that nobody may read; when PATH leads to  *)
(* one that access() grants and exec does not; in the environment of       *)
(* another tracked run; and for a second filter.                           *)
FailsAlike ==
  last.made /\ last.by = "client" /\ last.ran = Nothing /\ ~last.refused =>
    LET would == Libc(last.call) IN
    would.err = Ok =>
      \/ \E f \in ToSet(would.opened) :
           \/ Kind(f) \in {"text", "unreadable"}
           \/ Kind(f) = "script" /\ LineError(Line(f)) # Ok
           \/ Kind(f) = "script" /\ Kind(Line(f).interp) \in {"script", "text"}
      \/ LET c == last.call at(i) == <<c.path[i], c.prog[2]>> IN
         /\ c.search /\ c.prog[1] = ""
         /\ \E i \in DOMAIN c.path :
              /\ Access(at(i)) \notin {"EACCES", "ENOENT"}
              /\ \A j \in 1..i : Abs(at(j)) # would.opened[1]
      \/ last.call.env.payload = "other"
      \/ filtered /\ Kind(would.prog) # "dynamic"

(* The file an untracked call would run, and the interpreter its line      *)
(* names, are recorded: but for the file of a descriptor, which was opened *)
(* before, and for the interpreter where the filter records the call.      *)
ProgramRecorded ==
  last.made /\ last.ran # Nothing =>
    LET opened == Libc(last.call).opened
        known == CASE last.by = "client" -> 2 [] last.by = "filter" -> 1 [] OTHER -> 0 IN
    \A i \in DOMAIN opened :
      i <= known /\ ~(i = 1 /\ last.call.prog[1] = Fds) => opened[i] \in last.recorded

(* The program, its arguments, what fails and what is recorded.            *)
ExecsAlike == SameProgramRuns /\ FailsAlike /\ ProgramRecorded
=============================================================================
