------------------------------ MODULE IpcServer ------------------------------
(***************************************************************************)
(* The runner's IPC server for one task and the tools that talk to it:     *)
(* crates/vt_server/src/lib.rs, crates/vt_client/src/lib.rs, the transport *)
(* in crates/vt_socket_ipc, and the part of execute/mod.rs that polls the  *)
(* server while the task's process runs.                                   *)
(*                                                                         *)
(* A tool is a process below the task's child, or the child itself.  It    *)
(* sends reports nobody answers and questions it waits on, and it may die  *)
(* at any point.  On Unix `connect` returns only once the server has taken *)
(* the connection; a Windows named pipe lets the client in before that.    *)
(* A FIFO's writer holds read access to it, so that a write after the      *)
(* server closed its end does not fail: it fills the buffer.               *)
(***************************************************************************)
EXTENDS Integers, Sequences, FiniteSets

CONSTANTS
  Clients,      \* tools
  Main,         \* the tool that is the task's own process
  Transports,   \* "fifo" on Unix, "pipe" on Windows
  Capacity,     \* frames one direction of a connection buffers
  RunnerMayDie, \* the runner may be killed under its tools
  MaxFrames     \* bound: frames one tool sends

VARIABLES
  transport,    \* the one this server is bound to
  child,        \* the task's process
  stop,         \* the shutdown token
  server,       \* "accepting", "draining", "done", or "dead" with the runner
  firstErr,     \* an error was retained
  client,       \* where each tool is
  queue,        \* tools at the door: announced, not accepted
  conn,         \* the handle_client future of each tool
  pipe,         \* frames buffered between a tool and the server
  sent,         \* frames flushed by the tools
  recorded      \* frames that reached the Recorder

tools == <<client, pipe, sent>>
moving == <<child, stop, server, firstErr, client, queue, conn, pipe, sent, recorded>>
ipcVars == <<transport, moving>>

Kinds == {"report", "get", "bad"}
SentBy(c) == {f \in sent : f[1] = c}

(* Mutant: the driver is awaited after the child instead of beside it.     *)
PolledAfterExit == child = "exited"

(* tokio::join!: the driver is polled while the child runs and afterwards. *)
Polled == child \in {"running", "exited"}

(* connect waits until the server has taken the connection.                *)
Handshake == transport = "fifo"

IpcInit ==
  /\ transport \in Transports
  /\ child = "running"
  /\ stop = FALSE
  /\ server = "accepting"
  /\ firstErr = FALSE
  /\ client = [c \in Clients |-> "off"]
  /\ queue = {}
  /\ conn = [c \in Clients |-> "none"]
  /\ pipe = [c \in Clients |-> <<>>]
  /\ sent = {}
  /\ recorded = {}

-----------------------------------------------------------------------------
(* The tools.                                                              *)

(* Client::connect.  A server that stopped accepting refuses.  The named   *)
(* pipe has one instance open at a time and takes its client at once.      *)
Connect(c) ==
  /\ client[c] = "off"
  /\ \/ /\ server # "accepting"
        /\ client' = [client EXCEPT ![c] = "refused"]
        /\ UNCHANGED queue
     \/ /\ server = "accepting"
        /\ Handshake \/ queue = {}
        /\ client' = [client EXCEPT ![c] = IF Handshake THEN "announced" ELSE "up"]
        /\ queue' = queue \cup {c}
  /\ UNCHANGED <<child, stop, server, firstErr, conn, pipe, sent, recorded>>

(* Mutant: a blocking read of the ready byte does not see a dead server.   *)
ConnectFailsBlind(c) ==
  /\ client[c] = "announced"
  /\ server = "accepting"
  /\ c \notin queue
  /\ client' = [client EXCEPT ![c] = "refused"]
  /\ UNCHANGED <<child, stop, server, firstErr, queue, conn, pipe, sent, recorded>>

(* The wait for the ready byte watches the rendezvous: the server is gone. *)
ConnectFails(c) ==
  /\ client[c] = "announced"
  /\ server # "accepting"
  /\ client' = [client EXCEPT ![c] = "refused"]
  /\ UNCHANGED <<child, stop, server, firstErr, queue, conn, pipe, sent, recorded>>

(* Client::send.  A question leaves the tool waiting for its answer.       *)
Send(c, kind) ==
  /\ client[c] = "up"
  /\ Cardinality(SentBy(c)) < MaxFrames
  /\ Len(pipe[c]) < Capacity
  /\ LET f == <<c, Cardinality(SentBy(c)) + 1, kind>> IN
       /\ pipe' = [pipe EXCEPT ![c] = Append(@, f)]
       /\ sent' = sent \cup {f}
  /\ client' = [client EXCEPT ![c] = IF kind = "report" THEN "up" ELSE "asking"]
  /\ UNCHANGED <<child, stop, server, firstErr, queue, conn, recorded>>

(* The buffer is full: the write blocks until there is room.               *)
Block(c) ==
  /\ client[c] = "up"
  /\ Cardinality(SentBy(c)) < MaxFrames
  /\ Len(pipe[c]) = Capacity
  /\ client' = [client EXCEPT ![c] = "writing"]
  /\ UNCHANGED <<child, stop, server, firstErr, queue, conn, pipe, sent, recorded>>

(* There is room, or (named pipe) the other end is closed and it fails.    *)
Unblock(c) ==
  /\ client[c] = "writing"
  /\ \/ Len(pipe[c]) < Capacity
     \/ ~Handshake /\ c \notin queue /\ conn[c] # "open"
  /\ client' = [client EXCEPT ![c] = "up"]
  /\ UNCHANGED <<child, stop, server, firstErr, queue, conn, pipe, sent, recorded>>

(* Client::recv meets the end of a stream the server has closed.  The tool *)
(* may go on, and what it writes then still goes into the FIFO's buffer.   *)
AnswerFails(c) ==
  /\ client[c] = "asking"
  /\ c \notin queue /\ conn[c] # "open"
  /\ client' = [client EXCEPT ![c] = "up"]
  /\ UNCHANGED <<child, stop, server, firstErr, queue, conn, pipe, sent, recorded>>

(* The tool is through, closes its client and exits.                       *)
Leave(c) ==
  /\ c # Main
  /\ client[c] \in {"off", "up", "refused"}
  /\ client' = [client EXCEPT ![c] = "gone"]
  /\ UNCHANGED <<child, stop, server, firstErr, queue, conn, pipe, sent, recorded>>

(* A death may leave the first part of a frame behind.                     *)
Torn(c) ==
  \/ UNCHANGED pipe
  \/ client[c] \in {"up", "writing"} /\ pipe' = [pipe EXCEPT ![c] = Append(@, <<>>)]

(* The tool dies wherever it is.                                           *)
ToolDies(c) ==
  /\ c # Main
  /\ client[c] # "gone"
  /\ client' = [client EXCEPT ![c] = "gone"]
  /\ Torn(c)
  /\ UNCHANGED <<child, stop, server, firstErr, queue, conn, sent, recorded>>

-----------------------------------------------------------------------------
(* run_child.                                                              *)

(* The child exits by itself: not while it waits for an answer.            *)
ChildExits ==
  /\ child = "running"
  /\ client[Main] \notin {"announced", "asking", "writing"}
  /\ child' = "exited"
  /\ client' = [client EXCEPT ![Main] = "gone"]
  /\ UNCHANGED <<stop, server, firstErr, queue, conn, pipe, sent, recorded>>

(* Fast-fail, or somebody else, kills it.                                  *)
ChildKilled ==
  /\ child = "running"
  /\ child' = "exited"
  /\ client' = [client EXCEPT ![Main] = "gone"]
  /\ Torn(Main)
  /\ UNCHANGED <<stop, server, firstErr, queue, conn, sent, recorded>>

(* stop_accepting.signal(), after the child's exit on every path.          *)
Signal ==
  /\ child = "exited"
  /\ ~stop
  /\ stop' = TRUE
  /\ UNCHANGED <<child, server, firstErr, queue, conn, recorded, tools>>

-----------------------------------------------------------------------------
(* The driver: serve, run and handle_client.                               *)

(* server.accept(): the ready byte lets the tool in.  An announcement      *)
(* whose tool is dead is skipped.                                          *)
Accept(c) ==
  /\ Polled
  /\ server = "accepting"
  /\ c \in queue
  /\ queue' = queue \ {c}
  /\ IF Handshake /\ client[c] = "gone"
       THEN UNCHANGED <<client, conn>>
       ELSE /\ conn' = [conn EXCEPT ![c] = "open"]
            /\ client' = IF client[c] = "announced"
                           THEN [client EXCEPT ![c] = "up"] ELSE client
  /\ UNCHANGED <<child, stop, server, firstErr, pipe, sent, recorded>>

(* handle_client reads one frame.  A report reaches the Recorder, a        *)
(* question is answered, unless the tool is gone and the write fails; an   *)
(* invalid request ends the connection with an error.                      *)
Serve(c) ==
  /\ Polled
  /\ conn[c] = "open"
  /\ pipe[c] # <<>>
  /\ LET f == Head(pipe[c]) IN
       /\ f # <<>>
       /\ pipe' = [pipe EXCEPT ![c] = Tail(@)]
       /\ recorded' = IF f[3] = "bad" THEN recorded ELSE recorded \cup {f}
       /\ conn' = [conn EXCEPT ![c] =
                     CASE f[3] = "bad"                         -> "failed"
                       [] f[3] = "get" /\ client[c] = "gone"   -> "ended"
                       [] OTHER                                -> "open"]
       /\ client' = IF f[3] = "get" /\ client[c] = "asking"
                      THEN [client EXCEPT ![c] = "up"] ELSE client
  /\ UNCHANGED <<child, stop, server, firstErr, queue, sent>>

(* End of file, in front of a frame or inside one: the tool is gone.       *)
ServeEof(c) ==
  /\ Polled
  /\ conn[c] = "open"
  /\ client[c] = "gone"
  /\ pipe[c] \in {<<>>, <<<<>>>>}
  /\ conn' = [conn EXCEPT ![c] = "ended"]
  /\ UNCHANGED <<child, stop, server, firstErr, queue, recorded, tools>>

(* Mutant: errors that turn up while draining are thrown away.             *)
ReapAccepting(c) ==
  /\ Polled
  /\ conn[c] \in {"ended", "failed"}
  /\ conn' = [conn EXCEPT ![c] = "none"]
  /\ firstErr' = (firstErr \/ (conn[c] = "failed" /\ server = "accepting"))
  /\ stop' = (stop \/ (conn[c] = "failed" /\ server = "accepting" /\ ~firstErr))
  /\ UNCHANGED <<child, server, queue, recorded, tools>>

(* clients.next() yields the result of one connection.  The first error is *)
(* kept, and while accepting it also shuts the server down.                *)
ReapClient(c) ==
  /\ Polled
  /\ conn[c] \in {"ended", "failed"}
  /\ conn' = [conn EXCEPT ![c] = "none"]
  /\ firstErr' = (firstErr \/ conn[c] = "failed")
  /\ stop' = (stop \/ (conn[c] = "failed" /\ server = "accepting" /\ ~firstErr))
  /\ UNCHANGED <<child, server, queue, recorded, tools>>

(* The accept loop sees the token and drops the listener, with everything  *)
(* at the door.                                                            *)
StopAccepting ==
  /\ Polled
  /\ server = "accepting"
  /\ stop
  /\ server' = "draining"
  /\ queue' = {}
  /\ UNCHANGED <<child, stop, firstErr, conn, recorded, tools>>

(* Every connection has been drained.                                      *)
ServerReturns ==
  /\ Polled
  /\ server = "draining"
  /\ \A c \in Clients : conn[c] = "none"
  /\ server' = "done"
  /\ UNCHANGED <<child, stop, firstErr, queue, conn, recorded, tools>>

(* The runner is killed: every end it held is closed.                      *)
RunnerDies ==
  /\ RunnerMayDie
  /\ server \in {"accepting", "draining"}
  /\ server' = "dead"
  /\ queue' = {}
  /\ conn' = [c \in Clients |-> "none"]
  /\ UNCHANGED <<child, stop, firstErr, recorded, tools>>

Driver ==
  \/ \E c \in Clients : Accept(c) \/ Serve(c) \/ ServeEof(c) \/ ReapClient(c)
  \/ StopAccepting \/ ServerReturns

Tool(c) ==
  \/ Connect(c) \/ ConnectFails(c)
  \/ \E kind \in Kinds : Send(c, kind)
  \/ Block(c) \/ Unblock(c) \/ AnswerFails(c) \/ Leave(c) \/ ToolDies(c)

(* The task is over and nobody is left.                                    *)
Over ==
  /\ server \in {"done", "dead"} /\ child = "exited"
  /\ \A c \in Clients : client[c] = "gone"
  /\ UNCHANGED ipcVars

IpcNext ==
  /\ \/ Driver
     \/ \E c \in Clients : Tool(c)
     \/ ChildExits \/ ChildKilled \/ Signal \/ RunnerDies
     \/ Over
  /\ UNCHANGED transport

IpcSpec == IpcInit /\ [][IpcNext]_ipcVars

(* The runtime polls the driver and the child's future.  A tool that waits *)
(* for nothing is through at some point, and notices a failure: this is    *)
(* what the drain relies on.                                               *)
FairIpcSpec ==
  /\ IpcSpec
  /\ WF_moving(Driver) /\ WF_moving(Signal) /\ WF_moving(ChildExits)
  /\ \A c \in Clients :
       /\ WF_moving(ConnectFails(c)) /\ WF_moving(AnswerFails(c)) /\ WF_moving(Unblock(c))
       /\ WF_moving(Leave(c))

-----------------------------------------------------------------------------
(* Properties.                                                             *)

(* vt_ipc_shared: "Fire-and-forget is safe".  A driver that ends without   *)
(* an error has recorded every frame any tool ever flushed.                *)
EveryReportRecorded == server = "done" /\ ~firstErr => sent \subseteq recorded

(* Over FIFOs this holds whoever died and whenever the child exited; so    *)
(* caching on that result never misses a report, and a protocol violation  *)
(* never passes for success.                                               *)
ReportsComplete == Handshake => EveryReportRecorded

(* The driver comes back once the child is gone, unless its process dies.  *)
(* The child can wait for an answer while it runs, so the driver has to    *)
(* make progress beside it.                                                *)
DriverReturns == <>(server \in {"done", "dead"})

(* No tool hangs: a connect is let in or refused, a question is answered   *)
(* or fails, also when the runner dies under it.                           *)
NoToolHangs ==
  \A c \in Clients :
    client[c] \in {"announced", "asking"} ~> client[c] \in {"up", "refused", "gone"}

(* unix.rs on the client: "A dead server means a prompt error, never a     *)
(* hang."                                                                  *)
DeadServerNeverHangs ==
  \A c \in Clients :
    client[c] = "writing" /\ server = "dead" ~> client[c] # "writing"
=============================================================================
