----------------------------- MODULE ToolReports -----------------------------
(***************************************************************************)
(* What a tool says to the runner and what the runner makes of it: the     *)
(* addon of crates/vt_client_napi, Client in crates/vt_client, the         *)
(* requests of crates/vt_ipc_shared, and handle_client and Recorder in     *)
(* crates/vt_server.                                                       *)
(*                                                                         *)
(* IpcServer follows the connections; here are the calls: paths that are   *)
(* relative to a folder the tool may leave, questions about an environment *)
(* that may hold text that is not UTF-8, and names in another case.  The   *)
(* tools run at the same time, and die inside a frame.                     *)
(***************************************************************************)
EXTENDS EnvNames, Integers, Sequences, FiniteSets

CONSTANTS
  Tools,        \* processes that have loaded the addon
  MaxAsked      \* bound: calls of all of them

VARIABLES
  system,       \* "unix" or "windows"
  env,          \* the task's unfiltered environment
  tool,         \* each process: "up", "asking", "alone", "gone"
  cwd,          \* the folder it is in
  line,         \* the frames it has written and the server has not read
  record,       \* the Recorder
  failed,       \* the driver holds an error
  drained,      \* the driver has returned
  count,        \* calls so far
  asked,        \* history: the whole frames written, and what was meant
  told          \* history: what the calls returned

calls == <<count, asked, told>>
recorder == <<record, failed, drained>>
toolVars == <<system, env, tool, cwd, line, recorder, calls>>

Windows == system = "windows"
Unset == "unset"

(* A value that is not UTF-8 is "raw".                                     *)
Environments ==
  {[n \in {"FOO"} |-> "raw"], [n \in {"foo", "BAR"} |-> IF n = "foo" THEN "1" ELSE "2"]}
    \cup IF Windows THEN {} ELSE {[n \in {"FOO", "foo"} |-> IF n = "FOO" THEN "1" ELSE "2"]}

(* EnvQuery: a glob with a star, one without, one that is none, a prefix.  *)
Queries == {"glob f*", "glob f", "glob [", "prefix f"}

(* Mutant: a query is kept by its text, whichever kind it is.              *)
TextOfQuery(q) == IF q = "prefix f" THEN "glob f" ELSE q

(* EnvQuery as the key of the record.                                      *)
QueryKey(q) == q

(* What a query matches in an environment.                                 *)
Matches(q) ==
  CASE q \in {"glob f*", "prefix f"} -> {n \in DOMAIN env : Starts(Windows, n, "f")}
    [] q = "glob f" -> {n \in DOMAIN env : SameName(Windows, n, "f")}

Valued(names) == [n \in names |-> env[n]]

(* load(): without the variable, or when connecting fails, it throws and   *)
(* the wrapper goes on without a runner.                                   *)
ToolsInit ==
  /\ system \in {"unix", "windows"}
  /\ env \in Environments
  /\ tool \in [Tools -> {"up", "alone"}]
  /\ cwd = [c \in Tools |-> "pkg"]
  /\ line = [c \in Tools |-> <<>>]
  /\ record = [inputs |-> {}, outputs |-> {}, off |-> FALSE, gets |-> <<>>, queries |-> <<>>]
  /\ failed = FALSE
  /\ drained = FALSE
  /\ count = 0
  /\ asked = {}
  /\ told = {}

-----------------------------------------------------------------------------
(* The tools.                                                              *)

Chdir(c) ==
  /\ tool[c] = "up" /\ cwd[c] = "pkg" /\ count < MaxAsked
  /\ cwd' = [cwd EXCEPT ![c] = "sub"]
  /\ UNCHANGED <<system, env, tool, line, recorder, calls>>

(* What a path of a call means to the tool that makes it.                  *)
Meant(c, path) == IF path = "rel" THEN <<cwd[c], "file">> ELSE <<"root", "file">>

(* Mutant: a path is made absolute from the folder the tool started in.    *)
FromStart(c, path) == IF path = "rel" THEN <<"pkg", "file">> ELSE <<"root", "file">>

(* resolve_path.                                                           *)
Resolve(c, path) == IF path = "rel" THEN <<cwd[c], "file">> ELSE <<"root", "file">>

(* Client::send.                                                           *)
SendFrame(c, frame, meaning) ==
  /\ tool[c] = "up"
  /\ count < MaxAsked
  /\ count' = count + 1
  /\ line' = [line EXCEPT ![c] = Append(@, frame)]
  /\ asked' = asked \cup {[frame |-> frame, meant |-> meaning]}

Ignore(c) ==
  /\ tool[c] = "up"
  /\ \E kind \in {"input", "output"}, path \in {"rel", "abs"} :
       /\ kind = "output" => path = "rel"
       /\ SendFrame(c, [kind |-> kind, file |-> Resolve(c, path)], Meant(c, path))
  /\ UNCHANGED <<system, env, tool, cwd, recorder, told>>

(* Mutant: a question is tracked when it says so.                          *)
TrackedIfSaid(option) == option = "tracked"

(* GetEnvOptions: tracked unless the call says otherwise.                  *)
TrackedBy(option) == option # "untracked"

Ask(c) ==
  /\ tool[c] = "up"
  /\ \E option \in {"none", "untracked"} :
       \/ \E n \in {"FOO", "foo"} :
            SendFrame(c, [kind |-> "get", name |-> n, tracked |-> TrackedBy(option)], option)
       \/ \E q \in Queries :
            /\ q = "glob [" => option = "none"
            /\ SendFrame(c, [kind |-> "gets", query |-> q, tracked |-> TrackedBy(option)], option)
  /\ tool' = [tool EXCEPT ![c] = "asking"]
  /\ UNCHANGED <<system, env, cwd, recorder, told>>

(* Another program speaks the protocol: it sends a path as it is, or asks  *)
(* not to cache, which the addon's disable_cache does not for now.         *)
Speak(c) ==
  /\ tool[c] = "up"
  /\ \/ SendFrame(c, [kind |-> "output", file |-> <<"file">>], "bad")
     \/ SendFrame(c, [kind |-> "off"], "off")
  /\ UNCHANGED <<system, env, tool, cwd, recorder, told>>

Quit(c) ==
  /\ tool[c] = "up"
  /\ tool' = [tool EXCEPT ![c] = "gone"]
  /\ UNCHANGED <<system, env, cwd, line, recorder, calls>>

(* Killed while it waits for an answer, or inside a frame.                 *)
Dies(c) ==
  /\ tool[c] \in {"up", "asking"}
  /\ tool' = [tool EXCEPT ![c] = "gone"]
  /\ line' = IF tool[c] = "asking" THEN line
             ELSE [line EXCEPT ![c] = Append(@, [kind |-> "torn"])]
  /\ UNCHANGED <<system, env, cwd, recorder, calls>>

-----------------------------------------------------------------------------
(* The server.                                                             *)

(* What the addon makes of an answer: a value that is no text throws.      *)
Heard(value) == IF value = "raw" THEN "throws" ELSE value
HeardAll(map) ==
  IF \E n \in DOMAIN map : map[n] = "raw" THEN [n \in {"throws"} |-> "throws"] ELSE map

(* An answer, if the tool is there to hear it.                             *)
Answer(c, frame, answer) ==
  IF tool[c] = "asking"
  THEN /\ told' = told \cup {[frame |-> frame, answer |-> answer]}
       /\ tool' = [tool EXCEPT ![c] = "up"]
  ELSE UNCHANGED <<told, tool>>

Lookup(name) ==
  LET there == Equal(Windows, env, name) IN
    IF there = {} THEN Unset ELSE env[CHOOSE n \in there : TRUE]

(* handle_client: read_frame and the Recorder's ignore_input,              *)
(* ignore_output and disable_cache.                                        *)
ServeReport(c) ==
  /\ ~drained /\ line[c] # <<>>
  /\ LET frame == Head(line[c]) IN
       /\ \/ frame.kind \in {"input", "output"} /\ Len(frame.file) = 2
          \/ frame.kind = "off"
       /\ record' = CASE frame.kind = "input"  -> [record EXCEPT !.inputs = @ \cup {frame.file}]
                      [] frame.kind = "output" -> [record EXCEPT !.outputs = @ \cup {frame.file}]
                      [] frame.kind = "off"    -> [record EXCEPT !.off = TRUE]
  /\ line' = [line EXCEPT ![c] = Tail(@)]
  /\ UNCHANGED <<system, env, tool, cwd, failed, drained, calls>>

(* Recorder::get_env: the first answer to a tracked question is kept.      *)
ServeGet(c) ==
  /\ ~drained /\ line[c] # <<>>
  /\ LET frame == Head(line[c]) IN
       /\ frame.kind = "get"
       /\ record' = IF frame.tracked /\ Equal(Windows, record.gets, frame.name) = {}
                    THEN [record EXCEPT !.gets =
                            Insert(Windows, @, frame.name, Lookup(frame.name))]
                    ELSE record
       /\ Answer(c, frame, Heard(Lookup(frame.name)))
  /\ line' = [line EXCEPT ![c] = Tail(@)]
  /\ UNCHANGED <<system, env, cwd, failed, drained, count, asked>>

(* Mutant: a repeated query is answered before it is looked at whether it  *)
(* is to be tracked.                                                       *)
KeepAlways(frame) == TRUE

(* What is kept is what was tracked.                                       *)
Keep(frame) == frame.tracked

(* Recorder::get_envs: what a tracked query matched answers it again.      *)
ServeGets(c) ==
  /\ ~drained /\ line[c] # <<>>
  /\ LET frame == Head(line[c])
         key   == QueryKey(frame.query)
         found == IF key \in DOMAIN record.queries THEN record.queries[key]
                  ELSE Valued(Matches(frame.query))
     IN  /\ frame.kind = "gets" /\ frame.query # "glob ["
         /\ record' = IF Keep(frame)
                      THEN [record EXCEPT !.queries =
                              [q \in DOMAIN @ \cup {key} |-> IF q = key THEN found ELSE @[q]]]
                      ELSE record
         /\ Answer(c, frame, HeardAll(found))
  /\ line' = [line EXCEPT ![c] = Tail(@)]
  /\ UNCHANGED <<system, env, cwd, failed, drained, count, asked>>

(* A path that is not absolute, or a glob that is none: the connection     *)
(* ends with an error, and a tool that waits for an answer goes on         *)
(* without.                                                                *)
Refuse(c) ==
  /\ ~drained /\ line[c] # <<>>
  /\ LET frame == Head(line[c]) IN
       \/ frame.kind = "gets" /\ frame.query = "glob ["
       \/ frame.kind \in {"input", "output"} /\ Len(frame.file) # 2
  /\ failed' = TRUE
  /\ line' = [line EXCEPT ![c] = <<>>]
  /\ tool' = [tool EXCEPT ![c] = IF @ = "gone" THEN "gone" ELSE "alone"]
  /\ UNCHANGED <<system, env, cwd, record, drained, calls>>

(* Mutant: the end of a stream inside a frame is an error of the server's. *)
TornFails(c) ==
  /\ ~drained /\ line[c] # <<>> /\ Head(line[c]).kind = "torn"
  /\ line' = [line EXCEPT ![c] = <<>>]
  /\ failed' = TRUE
  /\ UNCHANGED <<system, env, tool, cwd, record, drained, calls>>

(* is_client_gone.                                                         *)
ServeTorn(c) ==
  /\ ~drained /\ line[c] # <<>> /\ Head(line[c]).kind = "torn"
  /\ line' = [line EXCEPT ![c] = <<>>]
  /\ UNCHANGED <<system, env, tool, cwd, recorder, calls>>

(* Mutant: the driver is over with the last process, read or unread.       *)
EndsUnread ==
  /\ ~drained
  /\ \A c \in Tools : tool[c] \in {"alone", "gone"}
  /\ drained' = TRUE
  /\ UNCHANGED <<system, env, tool, cwd, line, record, failed, calls>>

(* The driver returns once nothing is connected and all is read.           *)
DriverEnds ==
  /\ ~drained
  /\ \A c \in Tools : tool[c] \in {"alone", "gone"} /\ line[c] = <<>>
  /\ drained' = TRUE
  /\ UNCHANGED <<system, env, tool, cwd, line, record, failed, calls>>

ToolsNext ==
  \/ \E c \in Tools :
       \/ Chdir(c) \/ Ignore(c) \/ Ask(c) \/ Speak(c)
       \/ Quit(c) \/ Dies(c)
       \/ ServeReport(c) \/ ServeGet(c) \/ ServeGets(c) \/ Refuse(c) \/ ServeTorn(c)
  \/ DriverEnds

ToolsSpec == ToolsInit /\ [][ToolsNext]_toolVars

-----------------------------------------------------------------------------
(* Properties.                                                             *)

Of(kind) == {a \in asked : a.frame.kind = kind}
Files(kind) == {a.meant : a \in Of(kind)}
AskedTracked(kind) == {a.frame : a \in {b \in Of(kind) : b.meant = "none"}}

(* What the driver returns holds the files the tools meant, where they     *)
(* were when they called, and no other; and every question that did not    *)
(* say otherwise, and no other, with the answer the tool was given.        *)
RecordFaithful ==
  drained /\ ~failed =>
    /\ record.inputs = Files("input") /\ record.outputs = Files("output")
    /\ record.off = (Of("off") # {})
    /\ \A f \in AskedTracked("get") : Equal(Windows, record.gets, f.name) # {}
    /\ DOMAIN record.queries = {QueryKey(f.query) : f \in AskedTracked("gets")}
    /\ \A n \in DOMAIN record.gets : \E f \in AskedTracked("get") : f.name = n
    /\ \A t \in told :
         /\ t.frame.kind = "get" =>
              \A n \in Equal(Windows, record.gets, t.frame.name) :
                Heard(record.gets[n]) = t.answer
         /\ t.frame.kind = "gets" /\ QueryKey(t.frame.query) \in DOMAIN record.queries =>
              HeardAll(record.queries[QueryKey(t.frame.query)]) = t.answer

(* Whatever was asked before, a tool hears what its task's environment     *)
(* holds, as a program on this platform would find it.                     *)
AnswersTrue ==
  \A t \in told :
    /\ t.frame.kind = "get" =>
         t.answer \in {Heard(env[n]) : n \in {m \in DOMAIN env :
                         m = t.frame.name \/ (Windows /\ Upper(m) = Upper(t.frame.name))}}
           \cup (IF \E m \in DOMAIN env :
                      m = t.frame.name \/ (Windows /\ Upper(m) = Upper(t.frame.name))
                 THEN {} ELSE {Unset})
    /\ t.frame.kind = "gets" =>
         t.answer = HeardAll(Valued(
           {n \in DOMAIN env : /\ t.frame.query \in {"glob f*", "prefix f"}
                               /\ n = "foo" \/ (Windows /\ n = "FOO")}))

(* The driver fails for what a tool said, never because one died.          *)
FailsForCause ==
  failed => "bad" \in Files("output") \/ \E a \in Of("gets") : a.frame.query = "glob ["

ReportsFaithful == RecordFaithful /\ AnswersTrue /\ FailsForCause
=============================================================================
