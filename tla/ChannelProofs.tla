---------------------------- MODULE ChannelProofs ----------------------------
(***************************************************************************)
(* Proofs about the two channels by which a task's processes reach the     *)
(* runner.                                                                 *)
(*                                                                         *)
(* IpcServer over the transport whose connect waits for the server (Unix   *)
(* FIFOs), for any number of tools, frames and buffers: no report a tool   *)
(* has flushed is missing from a result without an error.  The named-pipe  *)
(* transport breaks this (run ipc_windows), and the proof shows where the  *)
(* wait is needed: a tool at the door has sent nothing.                    *)
(*                                                                         *)
(* ShmChannel for any number of senders, slots, bytes and record sizes.    *)
(* The invariant IInv is built in layers: types, then where spans and      *)
(* slots lie, then what the bytes hold, then completeness; the refinement  *)
(* of TraceLog comes last.                                                 *)
(*                                                                         *)
(* ToolReports for any number of tools and calls: each call is in a buffer *)
(* or in the record, a torn frame only ends a buffer, and what is kept is  *)
(* what the environment says of a tracked question.                        *)
(***************************************************************************)
EXTENDS ShmChannel, IpcServer, ToolReports, FiniteSetTheorems, SequenceTheorems, TLAPS

-----------------------------------------------------------------------------
(* IpcServer.                                                              *)

Frame == Clients \X Nat \X Kinds
Buffered(c) == {pipe[c][i] : i \in DOMAIN pipe[c]}

IpcTypeOK ==
  /\ child \in {"running", "exited"}
  /\ stop \in BOOLEAN /\ firstErr \in BOOLEAN
  /\ server \in {"accepting", "draining", "done", "dead"}
  /\ client \in [Clients -> {"off", "announced", "up", "asking", "writing", "refused", "gone"}]
  /\ queue \subseteq Clients
  /\ conn \in [Clients -> {"none", "open", "ended", "failed"}]
  /\ pipe \in [Clients -> Seq(Frame \cup {<<>>})]
  /\ sent \subseteq Frame /\ IsFiniteSet(sent)

Outside(c) == SentBy(c) = {} /\ pipe[c] = <<>> /\ conn[c] = "none"

(* A tool that was not let in has sent nothing.                            *)
DoorInv(c) ==
  /\ client[c] \in {"off", "announced", "refused"} => Outside(c)
  /\ c \in queue => client[c] \in {"announced", "gone"} /\ Outside(c)

(* A tool inside has its connection, or an error has ended that.           *)
InsideInv(c) ==
  client[c] \in {"up", "asking", "writing"} => conn[c] \in {"open", "failed"} \/ firstErr

(* What an open connection has not recorded is in its buffer, where a      *)
(* question has nothing behind it and its tool still waits.                *)
OpenInv(c) ==
  conn[c] = "open" =>
    /\ SentBy(c) \subseteq recorded \cup Buffered(c)
    /\ \A i \in DOMAIN pipe[c] :
         pipe[c][i] # <<>> /\ pipe[c][i][3] = "get" =>
           i = Len(pipe[c]) /\ client[c] \in {"asking", "gone"}

(* A connection that ended well has nothing left.                          *)
EndedInv(c) ==
  /\ conn[c] = "ended" => client[c] = "gone"
  /\ conn[c] \in {"ended", "none"} /\ ~firstErr => SentBy(c) \subseteq recorded

ConnInv(c) == DoorInv(c) /\ InsideInv(c) /\ OpenInv(c) /\ EndedInv(c)

(* Nobody waits for a server that does not accept, and the driver returns  *)
(* when no connection is left.                                             *)
DriverInv ==
  /\ server # "accepting" => queue = {}
  /\ server = "done" => \A c \in Clients : conn[c] = "none"

IpcIInv ==
  /\ IpcTypeOK
  /\ server # "dead" => \A c \in Clients : ConnInv(c)
  /\ DriverInv

FifoInv == Handshake => IpcIInv

-----------------------------------------------------------------------------
(* Every step keeps the types.                                             *)
LEMMA IpcTypeStep ==
  ASSUME IpcTypeOK, [IpcNext]_ipcVars
  PROVE  IpcTypeOK'
<1> USE DEF IpcTypeOK, tools
<1>1. ASSUME NEW c \in Clients, Accept(c) PROVE IpcTypeOK'
  BY <1>1 DEF Accept
<1>2. ASSUME NEW c \in Clients, Serve(c) PROVE IpcTypeOK'
  <2>1. pipe' \in [Clients -> Seq(Frame \cup {<<>>})]
    <3>1. pipe' = [pipe EXCEPT ![c] = Tail(pipe[c])] /\ pipe[c] # <<>>
      BY <1>2 DEF Serve
    <3>2. pipe[c] \in Seq(Frame \cup {<<>>})
      OBVIOUS
    <3>3. Tail(pipe[c]) \in Seq(Frame \cup {<<>>})
      BY <3>1, <3>2, HeadTailProperties
    <3> QED
      BY <3>1, <3>3
  <2> QED
    BY <1>2, <2>1 DEF Serve
<1>3. ASSUME NEW c \in Clients, ServeEof(c) \/ ReapClient(c) PROVE IpcTypeOK'
  BY <1>3 DEF ServeEof, ReapClient
<1>4. CASE StopAccepting \/ ServerReturns \/ Signal \/ RunnerDies \/ UNCHANGED ipcVars
  BY <1>4 DEF StopAccepting, ServerReturns, Signal, RunnerDies, ipcVars, moving
<1>5. ASSUME NEW c \in Clients, NEW kind \in Kinds, Send(c, kind) PROVE IpcTypeOK'
  <2>1. PICK f : /\ f = <<c, Cardinality(SentBy(c)) + 1, kind>>
                 /\ pipe' = [pipe EXCEPT ![c] = Append(pipe[c], f)]
                 /\ sent' = sent \cup {f}
    BY <1>5 DEF Send
  <2>2. Cardinality(SentBy(c)) \in Nat
    BY FS_Subset, FS_CardinalityType DEF SentBy
  <2>3. f \in Frame
    BY <2>1, <2>2 DEF Frame
  <2>4. Append(pipe[c], f) \in Seq(Frame \cup {<<>>})
    <3>1. pipe[c] \in Seq(Frame \cup {<<>>}) /\ f \in Frame \cup {<<>>}
      BY <2>3
    <3> QED
      BY <3>1, AppendProperties
  <2>5. sent' \subseteq Frame /\ IsFiniteSet(sent')
    BY <2>1, <2>3, FS_AddElement
  <2>6. pipe' \in [Clients -> Seq(Frame \cup {<<>>})]
    BY <2>1, <2>4
  <2> QED
    BY <1>5, <2>5, <2>6 DEF Send
<1>6. ASSUME NEW c, Torn(c) PROVE pipe' \in [Clients -> Seq(Frame \cup {<<>>})]
  <2>1. CASE c \in Clients
    <3>1. pipe[c] \in Seq(Frame \cup {<<>>})
      BY <2>1
    <3>2. Append(pipe[c], <<>>) \in Seq(Frame \cup {<<>>})
      BY <3>1, AppendProperties
    <3> QED
      BY <1>6, <3>2 DEF Torn
  <2>2. CASE c \notin Clients
    BY <1>6, <2>2 DEF Torn
  <2> QED
    BY <2>1, <2>2
<1>7. ASSUME NEW c \in Clients,
             \/ Connect(c) \/ ConnectFails(c) \/ Block(c) \/ Unblock(c) \/ AnswerFails(c) \/ Leave(c)
      PROVE  IpcTypeOK'
  BY <1>7 DEF Connect, ConnectFails, Block, Unblock, AnswerFails, Leave
<1>8. ASSUME NEW c \in Clients, ToolDies(c) PROVE IpcTypeOK'
  BY <1>8, <1>6 DEF ToolDies
<1>9. CASE ChildExits
  BY <1>9 DEF ChildExits
<1>10. CASE ChildKilled
  BY <1>10, <1>6 DEF ChildKilled
<1> QED
  BY <1>1, <1>2, <1>3, <1>4, <1>5, <1>7, <1>8, <1>9, <1>10 DEF IpcNext, Driver, Tool, Over

-----------------------------------------------------------------------------
(* Another tool's step leaves what holds of a tool.                        *)
LEMMA OthersStep ==
  ASSUME NEW d \in Clients, ConnInv(d),
         client'[d] = client[d], conn'[d] = conn[d], pipe'[d] = pipe[d],
         SentBy(d)' = SentBy(d), recorded \subseteq recorded', firstErr => firstErr',
         d \in queue' => d \in queue
  PROVE  ConnInv(d)'
BY DEF ConnInv, DoorInv, InsideInv, OpenInv, EndedInv, Outside, Buffered

(* What a sequence has behind its head, and under a new last element.      *)
LEMMA TailElements ==
  ASSUME NEW S, NEW s \in Seq(S), s # <<>>
  PROVE  /\ Tail(s) \in Seq(S)
         /\ Len(Tail(s)) = Len(s) - 1
         /\ \A i \in DOMAIN Tail(s) : i + 1 \in DOMAIN s /\ Tail(s)[i] = s[i + 1]
         /\ \A i \in DOMAIN s : i = 1 \/ (i - 1 \in DOMAIN Tail(s) /\ Tail(s)[i - 1] = s[i])
OBVIOUS

LEMMA AppendElements ==
  ASSUME NEW S, NEW s \in Seq(S), NEW e \in S
  PROVE  /\ Append(s, e) \in Seq(S)
         /\ Len(Append(s, e)) = Len(s) + 1
         /\ DOMAIN Append(s, e) = DOMAIN s \cup {Len(s) + 1}
         /\ Len(s) + 1 \notin DOMAIN s
         /\ \A i \in DOMAIN s : Append(s, e)[i] = s[i]
         /\ Append(s, e)[Len(s) + 1] = e
OBVIOUS

-----------------------------------------------------------------------------
(* A tool connects, leaves, or comes out of a call that blocked.            *)
LEMMA DoorSteps ==
  ASSUME Handshake, IpcTypeOK, DriverInv, NEW c \in Clients, ConnInv(c),
         \/ Connect(c) \/ ConnectFails(c) \/ Block(c) \/ Unblock(c) \/ AnswerFails(c) \/ Leave(c)
  PROVE  ConnInv(c)'
<1> USE DEF IpcTypeOK, ConnInv, DoorInv, InsideInv, OpenInv, EndedInv, Outside, Buffered, SentBy
<1>1. CASE Connect(c)
  BY <1>1 DEF Connect
<1>2. CASE ConnectFails(c)
  BY <1>2 DEF ConnectFails, DriverInv
<1>3. CASE Block(c)
  BY <1>3 DEF Block
<1>4. CASE Unblock(c)
  BY <1>4 DEF Unblock
<1>5. CASE AnswerFails(c)
  BY <1>5 DEF AnswerFails
<1>6. CASE Leave(c)
  BY <1>6 DEF Leave
<1> QED
  BY <1>1, <1>2, <1>3, <1>4, <1>5, <1>6

(* A question is the last thing its tool has sent.                         *)
LEMMA SendStep ==
  ASSUME IpcTypeOK, NEW c \in Clients, ConnInv(c), NEW kind \in Kinds, Send(c, kind),
         conn[c] = "failed" \/ firstErr \/ conn[c] = "open"
  PROVE  ConnInv(c)'
<1> DEFINE f == <<c, Cardinality(SentBy(c)) + 1, kind>>
<1>1. /\ client[c] = "up" /\ c \notin queue
      /\ pipe' = [pipe EXCEPT ![c] = Append(pipe[c], f)]
      /\ sent' = sent \cup {f}
      /\ client' = [client EXCEPT ![c] = IF kind = "report" THEN "up" ELSE "asking"]
      /\ UNCHANGED <<firstErr, queue, conn, recorded>>
  BY DEF Send, ConnInv, DoorInv
<1>2. Cardinality(SentBy(c)) \in Nat
  BY FS_Subset, FS_CardinalityType DEF SentBy, IpcTypeOK
<1>3. f \in Frame /\ f[1] = c /\ f[3] = kind
  BY <1>2 DEF Frame
<1>4. client'[c] = IF kind = "report" THEN "up" ELSE "asking"
  BY <1>1 DEF IpcTypeOK
<1>5. pipe'[c] = Append(pipe[c], f)
  BY <1>1 DEF IpcTypeOK
<1>6. SentBy(c)' = SentBy(c) \cup {f}
  BY <1>1, <1>3 DEF SentBy
<1>7. InsideInv(c)' /\ DoorInv(c)'
  BY <1>1, <1>4 DEF ConnInv, DoorInv, InsideInv, Kinds
<1>8. EndedInv(c)'
  BY <1>1 DEF ConnInv, EndedInv
<1>9. OpenInv(c)'
  <2>1. SUFFICES ASSUME conn[c] = "open" PROVE OpenInv(c)'
    BY <1>1 DEF OpenInv
  <2> DEFINE p == pipe[c]
  <2>2. p \in Seq(Frame \cup {<<>>})
    BY DEF IpcTypeOK
  <2>3. /\ DOMAIN Append(p, f) = DOMAIN p \cup {Len(p) + 1}
        /\ Len(Append(p, f)) = Len(p) + 1
        /\ \A i \in DOMAIN p : Append(p, f)[i] = p[i]
        /\ Append(p, f)[Len(p) + 1] = f
    <3>1. f \in Frame \cup {<<>>}
      BY <1>3
    <3> HIDE DEF f, p
    <3> QED
      BY <2>2, <3>1, AppendElements
  <2>4. SentBy(c)' \subseteq recorded' \cup Buffered(c)'
    <3>1. SentBy(c) \subseteq recorded \cup Buffered(c)
      BY <2>1 DEF ConnInv, OpenInv
    <3>2. Buffered(c)' = Buffered(c) \cup {f}
      <4> HIDE DEF f
      <4> QED
        BY <1>5, <2>3 DEF Buffered
    <3> QED
      BY <1>1, <1>6, <3>1, <3>2
  <2>5. ASSUME NEW i \in DOMAIN pipe'[c], pipe'[c][i] # <<>>, pipe'[c][i][3] = "get"
        PROVE  i = Len(pipe'[c]) /\ client'[c] \in {"asking", "gone"}
    <3>1. i \notin DOMAIN p
      BY <1>1, <1>5, <2>1, <2>3, <2>5 DEF ConnInv, OpenInv
    <3>2. i = Len(p) + 1 /\ kind = "get"
      BY <1>3, <1>5, <2>3, <2>5, <3>1
    <3> QED
      BY <1>4, <1>5, <2>3, <3>2
  <2> QED
    BY <2>4, <2>5 DEF OpenInv
<1> QED
  BY <1>7, <1>8, <1>9 DEF ConnInv

(* A dying tool leaves at most the first part of a frame behind.           *)
LEMMA DeathStep ==
  ASSUME IpcTypeOK, NEW c \in Clients, ConnInv(c), Torn(c),
         client'[c] = "gone", UNCHANGED <<firstErr, queue, conn, sent, recorded>>
  PROVE  ConnInv(c)'
<1> DEFINE p == pipe[c]
<1>1. SentBy(c)' = SentBy(c)
  BY DEF SentBy
<1>2. CASE UNCHANGED pipe
  BY <1>1, <1>2 DEF ConnInv, DoorInv, InsideInv, OpenInv, EndedInv, Outside, Buffered
<1>3. CASE client[c] \in {"up", "writing"} /\ pipe' = [pipe EXCEPT ![c] = Append(@, <<>>)]
  <2>1. p \in Seq(Frame \cup {<<>>}) /\ pipe'[c] = Append(p, <<>>)
    BY <1>3 DEF IpcTypeOK
  <2>2. /\ DOMAIN Append(p, <<>>) = DOMAIN p \cup {Len(p) + 1}
        /\ \A i \in DOMAIN p : Append(p, <<>>)[i] = p[i]
        /\ Append(p, <<>>)[Len(p) + 1] = <<>>
    <3>1. <<>> \in Frame \cup {<<>>}
      OBVIOUS
    <3> HIDE DEF p
    <3> QED
      BY <2>1, <3>1, AppendElements
  <2>3. c \notin queue /\ ~ (\E i \in DOMAIN p : conn[c] = "open" /\ p[i] # <<>> /\ p[i][3] = "get")
    BY <1>3 DEF ConnInv, DoorInv, OpenInv
  <2>4. OpenInv(c)'
    <3>1. Buffered(c) \subseteq Buffered(c)'
      BY <2>1, <2>2 DEF Buffered
    <3>2. conn[c] = "open" => SentBy(c)' \subseteq recorded' \cup Buffered(c)'
      BY <1>1, <3>1 DEF ConnInv, OpenInv
    <3>3. conn[c] = "open" =>
            \A i \in DOMAIN pipe'[c] : pipe'[c][i] # <<>> => pipe'[c][i][3] # "get"
      BY <2>1, <2>2, <2>3
    <3> QED
      BY <3>2, <3>3 DEF OpenInv
  <2>5. DoorInv(c)' /\ InsideInv(c)' /\ EndedInv(c)'
    BY <1>1, <2>3 DEF ConnInv, DoorInv, InsideInv, EndedInv
  <2> QED
    BY <2>4, <2>5 DEF ConnInv
<1> QED
  BY <1>2, <1>3 DEF Torn

-----------------------------------------------------------------------------
(* A tool that is let in has sent nothing yet.                             *)
LEMMA AcceptStep ==
  ASSUME Handshake, IpcTypeOK, NEW c \in Clients, ConnInv(c), Accept(c)
  PROVE  ConnInv(c)'
<1>1. /\ c \in queue /\ Outside(c) /\ client[c] \in {"announced", "gone"}
      /\ SentBy(c)' = {} /\ pipe'[c] = <<>>
      /\ queue' = queue \ {c} /\ UNCHANGED <<firstErr, recorded>>
  BY DEF Accept, ConnInv, DoorInv, Outside, SentBy
<1>2. CASE client[c] = "gone"
  BY <1>1, <1>2 DEF Accept, IpcTypeOK, ConnInv, DoorInv, InsideInv, OpenInv, EndedInv, Outside
<1>3. CASE client[c] = "announced"
  <2>1. client'[c] = "up" /\ conn'[c] = "open"
    BY <1>3 DEF Accept, IpcTypeOK
  <2> QED
    BY <1>1, <2>1 DEF ConnInv, DoorInv, InsideInv, OpenInv, EndedInv
<1> QED
  BY <1>1, <1>2, <1>3

(* A frame leaves the buffer for the Recorder.  A connection that ends     *)
(* without an error has answered a question its tool had died on, and      *)
(* behind that question is nothing.                                        *)
LEMMA ServeStep ==
  ASSUME IpcTypeOK, NEW c \in Clients, ConnInv(c), Serve(c)
  PROVE  ConnInv(c)'
<1> DEFINE p == pipe[c]
           f == Head(pipe[c])
<1>1. /\ conn[c] = "open" /\ p # <<>> /\ f # <<>>
      /\ pipe'[c] = Tail(p)
      /\ recorded' = IF f[3] = "bad" THEN recorded ELSE recorded \cup {f}
      /\ conn'[c] = CASE f[3] = "bad"                       -> "failed"
                      [] f[3] = "get" /\ client[c] = "gone" -> "ended"
                      [] OTHER                              -> "open"
      /\ client'[c] = IF f[3] = "get" /\ client[c] = "asking" THEN "up" ELSE client[c]
      /\ UNCHANGED <<firstErr, queue, sent>>
  BY DEF Serve, IpcTypeOK
<1>2. /\ p \in Seq(Frame \cup {<<>>}) /\ f = p[1] /\ 1 \in DOMAIN p
      /\ Len(p) \in Nat
  BY <1>1 DEF IpcTypeOK
<1>3. /\ Len(Tail(p)) = Len(p) - 1
      /\ \A i \in DOMAIN Tail(p) : i + 1 \in DOMAIN p /\ Tail(p)[i] = p[i + 1]
      /\ \A i \in DOMAIN p : i = 1 \/ (i - 1 \in DOMAIN Tail(p) /\ Tail(p)[i - 1] = p[i])
  <2> HIDE DEF p, f
  <2> QED
    BY <1>1, <1>2, TailElements
<1>4. SentBy(c)' = SentBy(c)
  BY <1>1 DEF SentBy
<1>5. SentBy(c) \subseteq recorded \cup Buffered(c)
  BY <1>1 DEF ConnInv, OpenInv
<1>6. Buffered(c) \subseteq {f} \cup Buffered(c)'
  <2> SUFFICES ASSUME NEW i \in DOMAIN p
               PROVE  p[i] = f \/ \E j \in DOMAIN Tail(p) : Tail(p)[j] = p[i]
    BY <1>1 DEF Buffered
  <2>1. CASE i = 1
    BY <1>2, <2>1
  <2>2. CASE i # 1
    BY <1>3, <2>2
  <2> QED
    BY <2>1, <2>2
<1>7. c \notin queue /\ client[c] \notin {"off", "announced", "refused"}
  BY <1>1 DEF ConnInv, DoorInv, Outside
<1>8. CASE f[3] = "bad"
  BY <1>1, <1>7, <1>8 DEF ConnInv, DoorInv, InsideInv, OpenInv, EndedInv
<1>9. CASE f[3] = "get"
  <2>1. Len(p) = 1 /\ client[c] \in {"asking", "gone"}
    BY <1>1, <1>2, <1>9 DEF ConnInv, OpenInv
  <2>2. DOMAIN Tail(p) = {}
    BY <1>2, <1>3, <2>1
  <2>3. SentBy(c)' \subseteq recorded'
    BY <1>1, <1>4, <1>5, <1>6, <1>9, <2>2 DEF Buffered
  <2>4. OpenInv(c)'
    BY <1>1, <2>2, <2>3 DEF OpenInv
  <2>5. EndedInv(c)' /\ DoorInv(c)' /\ InsideInv(c)'
    BY <1>1, <1>7, <1>9, <2>1, <2>3 DEF DoorInv, InsideInv, EndedInv
  <2> QED
    BY <2>4, <2>5 DEF ConnInv
<1>10. CASE f[3] \notin {"bad", "get"}
  <2>1. conn'[c] = "open" /\ client'[c] = client[c] /\ recorded' = recorded \cup {f}
    BY <1>1, <1>10
  <2>2. SentBy(c)' \subseteq recorded' \cup Buffered(c)'
    BY <1>4, <1>5, <1>6, <2>1
  <2>3. ASSUME NEW i \in DOMAIN pipe'[c], pipe'[c][i] # <<>>, pipe'[c][i][3] = "get"
        PROVE  i = Len(pipe'[c]) /\ client'[c] \in {"asking", "gone"}
    <3>1. i + 1 \in DOMAIN p /\ p[i + 1] # <<>> /\ p[i + 1][3] = "get"
      BY <1>1, <1>3, <2>3
    <3>2. i + 1 = Len(p) /\ client[c] \in {"asking", "gone"}
      BY <1>1, <3>1 DEF ConnInv, OpenInv
    <3>3. i \in Int
      BY <1>1, <1>2, <1>3, <2>3
    <3> QED
      BY <1>1, <1>2, <1>3, <2>1, <3>2, <3>3
  <2>4. OpenInv(c)'
    BY <2>2, <2>3 DEF OpenInv
  <2>5. EndedInv(c)' /\ DoorInv(c)' /\ InsideInv(c)'
    BY <1>1, <1>7, <2>1 DEF DoorInv, InsideInv, EndedInv
  <2> QED
    BY <2>4, <2>5 DEF ConnInv
<1> QED
  BY <1>8, <1>9, <1>10

(* At the end of a stream every frame has been recorded; its error, if     *)
(* any, is kept when the connection is reaped.                             *)
LEMMA EndSteps ==
  ASSUME IpcTypeOK, NEW c \in Clients, ConnInv(c), ServeEof(c) \/ ReapClient(c)
  PROVE  ConnInv(c)'
<1>1. SentBy(c)' = SentBy(c)
  BY DEF SentBy, ServeEof, ReapClient, tools
<1>2. CASE ServeEof(c)
  <2>1. /\ conn[c] = "open" /\ client[c] = "gone" /\ pipe[c] \in {<<>>, <<<<>>>>}
        /\ conn'[c] = "ended" /\ UNCHANGED <<firstErr, queue, recorded, client, pipe>>
    BY <1>2 DEF ServeEof, tools, IpcTypeOK
  <2>2. Buffered(c) \subseteq {<<>>}
    BY <2>1 DEF Buffered
  <2>3. \A g \in SentBy(c) : g \in recorded \/ g = <<>>
    BY <2>1, <2>2 DEF ConnInv, OpenInv
  <2>4. \A g \in SentBy(c) : g # <<>>
    BY DEF SentBy, IpcTypeOK, Frame
  <2>5. c \notin queue
    BY <2>1 DEF ConnInv, DoorInv, Outside
  <2> QED
    BY <1>1, <2>1, <2>3, <2>4, <2>5 DEF ConnInv, DoorInv, InsideInv, OpenInv, EndedInv
<1>3. CASE ReapClient(c)
  <2>1. /\ conn[c] \in {"ended", "failed"} /\ conn'[c] = "none"
        /\ firstErr' = (firstErr \/ conn[c] = "failed")
        /\ UNCHANGED <<queue, recorded, client, pipe>>
    BY <1>3 DEF ReapClient, tools, IpcTypeOK
  <2>2. c \notin queue /\ client[c] \notin {"off", "announced", "refused"}
    BY <2>1 DEF ConnInv, DoorInv, Outside
  <2> QED
    BY <1>1, <2>1, <2>2 DEF ConnInv, DoorInv, InsideInv, OpenInv, EndedInv
<1> QED
  BY <1>2, <1>3

-----------------------------------------------------------------------------
(* Every step keeps what holds of every tool while the runner lives.       *)
LEMMA ConnStep ==
  ASSUME Handshake, IpcIInv, server # "dead", [IpcNext]_ipcVars, server' # "dead"
  PROVE  \A d \in Clients : ConnInv(d)'
<1> SUFFICES ASSUME NEW d \in Clients
             PROVE  ConnInv(d)'
  OBVIOUS
<1> USE DEF tools
<1>1. IpcTypeOK /\ DriverInv /\ \A c \in Clients : ConnInv(c)
  BY DEF IpcIInv
<1>2. ASSUME NEW c \in Clients, c # d,
             Accept(c) \/ Serve(c) \/ ServeEof(c) \/ ReapClient(c) \/ Tool(c)
      PROVE  ConnInv(d)'
  <2>1. SentBy(d)' = SentBy(d)
    <3>1. ASSUME NEW kind \in Kinds, Send(c, kind) PROVE SentBy(d)' = SentBy(d)
      BY <1>2, <3>1 DEF SentBy, Send
    <3>2. ASSUME UNCHANGED sent PROVE SentBy(d)' = SentBy(d)
      BY <3>2 DEF SentBy
    <3> QED
      BY <1>2, <3>1, <3>2 DEF Tool, Accept, Serve, ServeEof, ReapClient, Connect, ConnectFails, Block, Unblock,
                              AnswerFails, Leave, ToolDies
  <2>2. /\ client'[d] = client[d] /\ conn'[d] = conn[d] /\ pipe'[d] = pipe[d]
        /\ recorded \subseteq recorded' /\ (firstErr => firstErr')
        /\ d \in queue' => d \in queue
    <3>1. CASE Accept(c)
      BY <1>1, <1>2, <3>1 DEF Accept, IpcTypeOK
    <3>2. CASE Serve(c)
      BY <1>1, <1>2, <3>2 DEF Serve, IpcTypeOK
    <3>3. CASE ServeEof(c) \/ ReapClient(c)
      BY <1>1, <1>2, <3>3 DEF ServeEof, ReapClient, IpcTypeOK
    <3>4. ASSUME NEW kind \in Kinds, Send(c, kind)
          PROVE  /\ client'[d] = client[d] /\ pipe'[d] = pipe[d]
                 /\ UNCHANGED <<conn, recorded, firstErr, queue>>
      BY <1>1, <1>2, <3>4 DEF Send, IpcTypeOK
    <3>5. CASE Connect(c) \/ ConnectFails(c) \/ Block(c) \/ Unblock(c) \/ AnswerFails(c) \/ Leave(c)
      BY <1>1, <1>2, <3>5 DEF Connect, ConnectFails, Block, Unblock, AnswerFails, Leave, IpcTypeOK
    <3>6. CASE ToolDies(c)
      BY <1>1, <1>2, <3>6 DEF ToolDies, Torn, IpcTypeOK
    <3> QED
      BY <1>2, <3>1, <3>2, <3>3, <3>4, <3>5, <3>6 DEF Tool
  <2> QED
    BY <1>1, <2>1, <2>2, OthersStep
<1>3. CASE Accept(d) \/ Serve(d) \/ ServeEof(d) \/ ReapClient(d) \/ Tool(d)
  <2>1. ASSUME NEW kind \in Kinds, Send(d, kind) PROVE ConnInv(d)'
    <3>1. conn[d] = "failed" \/ firstErr \/ conn[d] = "open"
      BY <1>1, <2>1 DEF Send, ConnInv, InsideInv
    <3> QED
      BY <1>1, <2>1, <3>1, SendStep
  <2>2. CASE ToolDies(d)
    <3>1. client'[d] = "gone"
      BY <1>1, <2>2 DEF ToolDies, IpcTypeOK
    <3> QED
      BY <1>1, <2>2, <3>1, DeathStep DEF ToolDies
  <2> QED
    BY <1>1, <1>3, <2>1, <2>2, DoorSteps, AcceptStep, ServeStep, EndSteps DEF Tool
<1>4. ASSUME UNCHANGED <<firstErr, conn, sent, recorded>>, d \in queue' => d \in queue,
             UNCHANGED <<client, pipe>>
      PROVE  ConnInv(d)'
  <2>1. SentBy(d)' = SentBy(d)
    BY <1>4 DEF SentBy
  <2> QED
    BY <1>1, <1>4, <2>1, OthersStep
<1>5. CASE StopAccepting \/ ServerReturns \/ Signal \/ UNCHANGED ipcVars
  <2>1. UNCHANGED <<firstErr, conn, sent, recorded, client, pipe>> /\ (d \in queue' => d \in queue)
    BY <1>5 DEF StopAccepting, ServerReturns, Signal, ipcVars, moving
  <2> QED
    BY <1>4, <2>1
<1>6. CASE RunnerDies
  BY <1>6 DEF RunnerDies
<1>7. CASE ChildExits \/ ChildKilled
  <2>1. /\ client' = [client EXCEPT ![Main] = "gone"]
        /\ UNCHANGED <<firstErr, queue, conn, sent, recorded>>
        /\ UNCHANGED pipe \/ (ChildKilled /\ Torn(Main))
    BY <1>7 DEF ChildExits, ChildKilled
  <2>2. CASE d # Main
    <3>1. client'[d] = client[d] /\ pipe'[d] = pipe[d] /\ SentBy(d)' = SentBy(d)
      BY <1>1, <2>1, <2>2 DEF IpcTypeOK, Torn, SentBy
    <3> QED
      BY <1>1, <2>1, <3>1, OthersStep
  <2>3. CASE d = Main
    <3>1. client'[d] = "gone" /\ Torn(d)
      BY <1>1, <2>1, <2>3 DEF IpcTypeOK, Torn
    <3> QED
      BY <1>1, <2>1, <3>1, DeathStep
  <2> QED
    BY <2>2, <2>3
<1> QED
  BY <1>2, <1>3, <1>5, <1>6, <1>7 DEF IpcNext, Driver, Over

LEMMA DriverStep ==
  ASSUME IpcIInv, [IpcNext]_ipcVars
  PROVE  DriverInv'
<1> USE DEF IpcIInv, DriverInv, tools
<1>1. ASSUME NEW c \in Clients, Accept(c) PROVE DriverInv'
  BY <1>1 DEF Accept
<1>2. ASSUME NEW c \in Clients, Serve(c) \/ ServeEof(c) \/ ReapClient(c) PROVE DriverInv'
  BY <1>2 DEF Serve, ServeEof, ReapClient
<1>3. CASE StopAccepting \/ ServerReturns \/ Signal \/ RunnerDies \/ UNCHANGED ipcVars
  BY <1>3 DEF StopAccepting, ServerReturns, Signal, RunnerDies, ipcVars, moving
<1>4. ASSUME NEW c \in Clients, NEW kind \in Kinds, Send(c, kind) PROVE DriverInv'
  BY <1>4 DEF Send
<1>5. ASSUME NEW c \in Clients, Connect(c) PROVE DriverInv'
  BY <1>5 DEF Connect
<1>6. ASSUME NEW c \in Clients,
             ConnectFails(c) \/ Block(c) \/ Unblock(c) \/ AnswerFails(c) \/ Leave(c) \/ ToolDies(c)
      PROVE  DriverInv'
  BY <1>6 DEF ConnectFails, Block, Unblock, AnswerFails, Leave, ToolDies
<1>7. CASE ChildExits \/ ChildKilled
  BY <1>7 DEF ChildExits, ChildKilled
<1> QED
  BY <1>1, <1>2, <1>3, <1>4, <1>5, <1>6, <1>7 DEF IpcNext, Driver, Tool, Over

(* A dead runner stays dead.                                               *)
LEMMA DeadStays ==
  ASSUME [IpcNext]_ipcVars, server = "dead"
  PROVE  server' = "dead"
BY DEF IpcNext, ipcVars, moving, Driver, Tool, Over, Accept, Serve, ServeEof, ReapClient,
       StopAccepting, ServerReturns, Connect, ConnectFails, Send, Block, Unblock, AnswerFails, Leave, ToolDies, ChildExits, ChildKilled, Signal,
       RunnerDies

-----------------------------------------------------------------------------
(* What every tool has sent is recorded, buffered, or lost to an error     *)
(* that is kept, wherever tools and driver are.                            *)
THEOREM IpcInvariant == IpcSpec => []FifoInv
<1>1. IpcInit => FifoInv
  <2>1. SUFFICES ASSUME IpcInit PROVE IpcIInv
    BY DEF FifoInv
  <2>2. IpcTypeOK
    <3>1. <<>> \in Seq(Frame \cup {<<>>})
      OBVIOUS
    <3>2. IsFiniteSet({})
      BY FS_EmptySet
    <3> QED
      BY <2>1, <3>1, <3>2 DEF IpcInit, IpcTypeOK
  <2> QED
    BY <2>1, <2>2
       DEF IpcInit, IpcIInv, DriverInv, ConnInv, DoorInv, InsideInv, OpenInv, EndedInv, Outside, SentBy
<1>2. FifoInv /\ [IpcNext]_ipcVars => FifoInv'
  <2> SUFFICES ASSUME FifoInv, [IpcNext]_ipcVars, Handshake' PROVE IpcIInv'
    BY DEF FifoInv
  <2>1. Handshake
    BY DEF Handshake, IpcNext, ipcVars, moving
  <2>2. IpcIInv
    BY <2>1 DEF FifoInv
  <2> QED
    BY <2>1, <2>2, IpcTypeStep, ConnStep, DriverStep, DeadStays DEF IpcIInv
<1> QED
  BY <1>1, <1>2, PTL DEF IpcSpec

(* A result without an error misses no report that was ever flushed, and   *)
(* no violation of the protocol passes for success.                        *)
THEOREM NoReportLost == IpcSpec => []ReportsComplete
<1>1. FifoInv => ReportsComplete
  <2> SUFFICES ASSUME IpcIInv, server = "done", ~firstErr, NEW f \in sent PROVE f \in recorded
    BY DEF ReportsComplete, EveryReportRecorded, FifoInv
  <2>1. f[1] \in Clients /\ f \in SentBy(f[1])
    BY DEF IpcIInv, IpcTypeOK, Frame, SentBy
  <2> QED
    BY <2>1 DEF IpcIInv, DriverInv, ConnInv, EndedInv
<1> QED
  BY <1>1, IpcInvariant, PTL

-----------------------------------------------------------------------------
(* ShmChannel.                                                             *)

USE SlotsAssumption, PayloadAssumption, SizesAssumption, MaxOpsAssumption

(* The record of an operation within the bound is a record.                *)
LEMMA RecType ==
  ASSUME NEW s \in Senders, ops[s] \in Nat, ops[s] < MaxOps
  PROVE  Rec(s) \in Records
BY DEF Rec, Records

(* The record of an operation is not the unwritten byte.                   *)
LEMMA BlankIsNoRecord == Blank \notin Records
BY DEF Blank, Records

(* Nor is any pair.                                                        *)
LEMMA PairIsNotBlank ==
  ASSUME NEW x, NEW y
  PROVE  <<x, y>> # Blank
BY DEF Blank

-----------------------------------------------------------------------------
(* Types.                                                                  *)

(* Every step keeps the types and the bound on operations.                 *)
LEMMA TypeStep ==
  ASSUME TypeOK, OpsInv, SpanInv, [Next]_vars
  PROVE  TypeOK' /\ OpsInv'
<1> USE DEF OpsInv, InOp, region, endpoint
<1>1. CASE Seal
  <2>1. admitted' \in 0 .. Slots
    BY <1>1 DEF Seal, Admit, TypeOK
  <2> QED
    BY <1>1, <2>1 DEF Seal, TypeOK, Phases
<1>2. CASE RemoveBacking
  BY <1>2 DEF RemoveBacking, TypeOK, Phases
<1>3. CASE DropReceiver
  BY <1>3 DEF DropReceiver, TypeOK, Phases
<1>4. CASE ReadSlot
  <2>1. cursor \in SlotIds /\ cursor' \in 0 .. Slots
    BY <1>4 DEF ReadSlot, SlotIds, TypeOK
  <2>2. Committed(cursor) => Span(table[cursor]) \subseteq Addresses
    BY <2>1 DEF SpanInv, InArea, Span, Addresses, TypeOK
  <2>3. delivered' \subseteq SUBSET (Records \cup {Blank})
    BY <1>4, <2>2 DEF ReadSlot, TypeOK
  <2> QED
    BY <1>4, <2>1, <2>3 DEF ReadSlot, TypeOK
<1>5. CASE ReadEnd
  BY <1>5 DEF ReadEnd, TypeOK, Phases
<1>6. ASSUME NEW s \in Senders, Sender(s)
      PROVE  TypeOK' /\ OpsInv'
  <2>1. CASE AttachLocal(s) \/ Open(s) \/ CheckGate(s) \/ Die(s)
    <3>1. /\ \E p \in Pcs \ {"reserved", "losing", "filling", "ready"} :
               pc' = [pc EXCEPT ![s] = p]
          /\ UNCHANGED <<region, backing, frame, ops, endpoint, performed, owed>>
      BY <2>1 DEF AttachLocal, Open, CheckGate, Die, Pcs
    <3> QED
      BY <3>1 DEF TypeOK
  <2>2. ASSUME NEW len \in Sizes, Reserve(s, len)
        PROVE  TypeOK' /\ OpsInv'
    <3>1. CASE len > MaxFrame
      BY <2>2, <3>1 DEF Reserve, TypeOK, Pcs
    <3>2. CASE ~(len > MaxFrame)
      <4>1. reserved' \in Nat /\ frame' \in [Senders -> [offset : Nat, len : Nat, slot : Nat]]
        BY <2>2, <3>2 DEF Reserve, TypeOK
      <4>2. pc' \in [Senders -> Pcs] /\ \A t \in Senders \ {s} : pc'[t] = pc[t]
        BY <2>2, <3>2 DEF Reserve, TypeOK, Pcs
      <4> QED
        BY <2>2, <3>2, <4>1, <4>2 DEF Reserve, TypeOK
    <3> QED
      BY <3>1, <3>2
  <2>3. CASE TakeSlot(s)
    BY <2>3 DEF TakeSlot, TypeOK, Pcs
  <2>4. CASE ReportLoss(s)
    BY <2>4 DEF ReportLoss, TypeOK, Pcs
  <2>5. ASSUME NEW a \in Addresses, Fill(s, a)
        PROVE  TypeOK' /\ OpsInv'
    <3>1. Rec(s) \in Records
      BY <2>5, RecType DEF Fill, TypeOK
    <3> QED
      BY <2>5, <3>1 DEF Fill, TypeOK
  <2>6. CASE Finish(s)
    BY <2>6 DEF Finish, TypeOK, Pcs
  <2>7. CASE Perform(s) \/ PerformUntracked(s)
    <3>1. Rec(s) \in Records
      BY <2>7, RecType DEF Perform, PerformUntracked, TypeOK
    <3>2. /\ pc' = pc \/ pc' = [pc EXCEPT ![s] = "idle"]
          /\ ops' = [ops EXCEPT ![s] = @ + 1]
          /\ performed' = performed \cup {Rec(s)}
          /\ ops[s] < MaxOps
          /\ UNCHANGED <<region, backing, frame, endpoint, owed>>
          /\ pc'[s] \in {"idle", "untracked"}
      BY <2>7 DEF Perform, PerformUntracked, TypeOK
    <3>3. ops' \in [Senders -> 0 .. MaxOps]
      BY <3>2 DEF TypeOK
    <3>4. pc' \in [Senders -> Pcs] /\ \A t \in Senders \ {s} : pc'[t] = pc[t]
      BY <3>2 DEF TypeOK, Pcs
    <3> QED
      BY <3>1, <3>2, <3>3, <3>4 DEF TypeOK
  <2> QED
    BY <1>6, <2>1, <2>2, <2>3, <2>4, <2>5, <2>6, <2>7 DEF Sender
<1>7. CASE UNCHANGED vars
  BY <1>7 DEF vars, TypeOK
<1> QED
  BY <1>1, <1>2, <1>3, <1>4, <1>5, <1>6, <1>7 DEF Next, Receiver

-----------------------------------------------------------------------------
(* Where spans lie.                                                        *)

(* Giving up spans, and leaving the others where they are, keeps them      *)
(* apart.                                                                  *)
LEMMA SpanKept ==
  ASSUME SpanInv, UNCHANGED <<reserved, table>>,
         \A s \in Senders : Holds(s)' =>
           /\ Holds(s)
           /\ frame'[s].offset = frame[s].offset
           /\ frame'[s].len = frame[s].len
  PROVE  SpanInv'
BY DEF SpanInv, InArea, Apart, Committed

(* A claim reserves bytes nobody has, and a commit publishes the bytes its *)
(* sender held.                                                            *)
LEMMA SpanStep ==
  ASSUME TypeOK, SpanInv, SlotInv, [Next]_vars
  PROVE  SpanInv'
<1> USE DEF region, endpoint
<1>1. CASE Receiver \/ UNCHANGED vars
  <2>1. UNCHANGED <<reserved, table, pc, frame>>
    BY <1>1 DEF Receiver, Seal, RemoveBacking, DropReceiver, ReadSlot, ReadEnd, vars
  <2> QED
    BY <2>1, SpanKept DEF Holds
<1>2. ASSUME NEW s \in Senders, Sender(s)
      PROVE  SpanInv'
  <2>1. CASE \/ AttachLocal(s) \/ Open(s) \/ CheckGate(s) \/ ReportLoss(s)
             \/ Perform(s) \/ PerformUntracked(s) \/ Die(s)
    <3>1. /\ UNCHANGED <<reserved, table, frame>>
          /\ \A t \in Senders : Holds(t)' => Holds(t)
      BY <2>1 DEF AttachLocal, Open, CheckGate, ReportLoss, Perform,
                  PerformUntracked, Die, Holds, TypeOK
    <3> QED
      BY <3>1, SpanKept
  <2>2. ASSUME NEW len \in Sizes, Reserve(s, len)
        PROVE  SpanInv'
    <3>1. CASE pc'[s] # "reserved"
      <4>1. /\ UNCHANGED table
            /\ reserved' \in Nat /\ reserved <= reserved'
            /\ \A t \in Senders : Holds(t)' => t # s /\ Holds(t) /\ frame'[t] = frame[t]
        BY <2>2, <3>1 DEF Reserve, Holds, TypeOK
      <4> QED
        BY <4>1 DEF SpanInv, InArea, Apart, Committed, TypeOK
    <3>2. CASE pc'[s] = "reserved"
      <4>1. /\ UNCHANGED table
            /\ reserved' = reserved + len
            /\ frame'[s].offset = reserved /\ frame'[s].len = len
            /\ reserved + len <= PayloadLen
            /\ ~Holds(s)
            /\ \A t \in Senders \ {s} :
                 (Holds(t)' <=> Holds(t)) /\ frame'[t] = frame[t]
        BY <2>2, <3>2 DEF Reserve, Holds, TypeOK, Fits
      <4>2. len \in Nat /\ len # 0
        OBVIOUS
      <4>3. \A t \in Senders \ {s} : Holds(t)' =>
               InArea(frame[t])' /\ Apart(frame[s], frame[t])' /\ Apart(frame[t], frame[s])'
        BY <4>1, <4>2 DEF SpanInv, InArea, Apart, TypeOK
      <4>4. \A k \in SlotIds : Committed(k)' =>
               InArea(table[k])' /\ Apart(frame[s], table[k])'
        BY <4>1, <4>2 DEF SpanInv, InArea, Apart, Committed, TypeOK
      <4>5. InArea(frame[s])'
        BY <4>1, <4>2 DEF InArea, TypeOK
      <4>6. \A t, u \in Senders \ {s} : t # u /\ Holds(t)' /\ Holds(u)' => Apart(frame[t], frame[u])'
        BY <4>1 DEF SpanInv, Apart
      <4>7. \A t \in Senders \ {s}, k \in SlotIds :
               Holds(t)' /\ Committed(k)' => Apart(frame[t], table[k])'
        BY <4>1 DEF SpanInv, Apart, Committed
      <4>8. \A j, k \in SlotIds :
               j # k /\ Committed(j)' /\ Committed(k)' => Apart(table[j], table[k])'
        BY <4>1 DEF SpanInv, Apart, Committed
      <4> QED
        BY <4>3, <4>4, <4>5, <4>6, <4>7, <4>8 DEF SpanInv
    <3> QED
      BY <3>1, <3>2
  <2>3. CASE TakeSlot(s)
    <3>1. /\ UNCHANGED <<reserved, table>>
          /\ \A t \in Senders : Holds(t)' =>
               /\ Holds(t)
               /\ frame'[t].offset = frame[t].offset
               /\ frame'[t].len = frame[t].len
      BY <2>3 DEF TakeSlot, Holds, TypeOK
    <3> QED
      BY <3>1, SpanKept
  <2>4. ASSUME NEW a \in Addresses, Fill(s, a)
        PROVE  SpanInv'
    BY <2>4, SpanKept DEF Fill, Holds
  <2>5. CASE Finish(s)
    <3>1. /\ UNCHANGED <<reserved, frame>>
          /\ frame[s].slot \in SlotIds
          /\ \A k \in SlotIds \ {frame[s].slot} : table'[k] = table[k]
          /\ table'[frame[s].slot].offset = frame[s].offset
          /\ table'[frame[s].slot].len = frame[s].len
          /\ Holds(s) /\ ~Holds(s)'
          /\ \A t \in Senders \ {s} : Holds(t)' <=> Holds(t)
      BY <2>5 DEF Finish, Holds, TypeOK, SlotInv
    <3> QED
      BY <3>1 DEF SpanInv, InArea, Apart, Committed, TypeOK
  <2> QED
    BY <1>2, <2>1, <2>2, <2>3, <2>4, <2>5 DEF Sender
<1> QED
  BY <1>1, <1>2 DEF Next

-----------------------------------------------------------------------------
(* Where slots lie, and what the gate says.                                *)

(* Slots are handed out once, below the counter while the gate is open and *)
(* below the boundary once the seal has succeeded.                         *)
LEMMA SlotStep ==
  ASSUME TypeOK, SpanInv, SlotInv, GateInv, [Next]_vars
  PROVE  SlotInv' /\ GateInv'
<1> USE DEF region, endpoint
<1>1. CASE Seal
  <2>1. /\ UNCHANGED <<table, pc, frame, backing>>
        /\ claims'.closed
        /\ \A k \in SlotIds : Issued(k) => Issued(k)'
    BY <1>1 DEF Seal, Issued, Sealed, Admit, TypeOK, SlotIds
  <2>2. ~backing' => receiver' # "open"
    BY <1>1 DEF Seal
  <2> QED
    BY <2>1, <2>2 DEF SlotInv, GateInv, Committed
<1>2. CASE RemoveBacking \/ DropReceiver \/ ReadSlot \/ ReadEnd \/ UNCHANGED vars
  <2>1. /\ UNCHANGED <<claims, table, pc, frame, admitted>>
        /\ Sealed' => Sealed
    BY <1>2 DEF RemoveBacking, DropReceiver, ReadSlot, ReadEnd, vars, Sealed
  <2>2. SlotInv'
    BY <2>1 DEF SlotInv, Issued, Committed
  <2>3. GateInv'
    BY <1>2 DEF RemoveBacking, DropReceiver, ReadSlot, ReadEnd, vars, GateInv
  <2> QED
    BY <2>2, <2>3
<1>3. ASSUME NEW s \in Senders, Sender(s)
      PROVE  SlotInv' /\ GateInv'
  <2>1. CASE \/ AttachLocal(s) \/ Open(s) \/ CheckGate(s)
             \/ Perform(s) \/ PerformUntracked(s) \/ Die(s)
    <3>1. /\ UNCHANGED <<claims, table, frame, backing, receiver, admitted>>
          /\ \A t \in Senders : pc'[t] = "filling" => pc[t] = "filling"
          /\ \A t \in Senders : pc'[t] = "untracked" =>
               pc[t] = "untracked" \/ ~backing \/ claims.closed
      BY <2>1 DEF AttachLocal, Open, CheckGate, Perform, PerformUntracked, Die, TypeOK
    <3> QED
      BY <3>1 DEF SlotInv, GateInv, Issued, Sealed, Committed
  <2>2. ASSUME NEW len \in Sizes, Reserve(s, len)
        PROVE  SlotInv' /\ GateInv'
    <3>1. /\ UNCHANGED <<claims, table, backing, receiver, admitted>>
          /\ \A t \in Senders : pc'[t] = "filling" =>
               pc[t] = "filling" /\ frame'[t] = frame[t]
          /\ \A t \in Senders : pc'[t] = "untracked" => pc[t] = "untracked"
      BY <2>2 DEF Reserve, TypeOK
    <3> QED
      BY <3>1 DEF SlotInv, GateInv, Issued, Sealed, Committed
  <2>3. CASE TakeSlot(s)
    <3>1. /\ UNCHANGED <<table, backing, receiver, admitted>>
          /\ claims'.closed = claims.closed /\ claims'.count = claims.count + 1
          /\ \A t \in Senders \ {s} : pc'[t] = pc[t] /\ frame'[t] = frame[t]
          /\ pc'[s] # "untracked"
          /\ pc'[s] = "filling" =>
               /\ ~claims.closed /\ claims.count < Slots
               /\ frame'[s].slot = claims.count
      BY <2>3 DEF TakeSlot, TypeOK
    <3>2. GateInv'
      BY <3>1 DEF GateInv
    <3>3. SlotInv'
      <4>1. pc'[s] = "filling" => ~Sealed
        BY <3>1 DEF GateInv, Sealed
      <4>2. PICK n \in Nat : n = claims.count
        BY DEF TypeOK
      <4>3. \A k \in SlotIds : Issued(k) => Issued(k)'
        BY <3>1, <4>2 DEF Issued, Sealed, SlotIds
      <4>4. \A k \in SlotIds : Committed(k)' <=> Committed(k)
        BY <3>1 DEF Committed
      <4>5. CASE pc'[s] # "filling"
        <5>1. \A t \in Senders : pc'[t] = "filling" =>
                t # s /\ pc[t] = "filling" /\ frame'[t] = frame[t]
          BY <3>1, <4>5
        <5> QED
          BY <5>1, <3>1, <4>3, <4>4 DEF SlotInv, Committed
      <4>6. CASE pc'[s] = "filling"
        <5>1. n \in SlotIds /\ ~Issued(n) /\ Issued(n)'
          BY <3>1, <4>1, <4>2, <4>6 DEF Issued, Sealed, SlotIds
        <5>2. ~Committed(n) /\ frame'[s].slot = n
          BY <5>1, <3>1, <4>2, <4>6 DEF SlotInv
        <5>3. \A t \in Senders \ {s} : pc'[t] = "filling" =>
                /\ frame'[t].slot = frame[t].slot
                /\ frame[t].slot \in SlotIds /\ frame[t].slot # n
                /\ ~Committed(frame[t].slot) /\ Issued(frame[t].slot)
          BY <5>1, <3>1 DEF SlotInv
        <5>4. \A t, u \in Senders :
                t # u /\ pc'[t] = "filling" /\ pc'[u] = "filling"
                  => frame'[t].slot # frame'[u].slot
          BY <5>2, <5>3, <3>1 DEF SlotInv
        <5>5. \A t \in Senders : pc'[t] = "filling" =>
                frame'[t].slot \in SlotIds /\ ~Committed(frame[t].slot)'
          BY <5>1, <5>2, <5>3, <4>4, <3>1 DEF Committed
        <5>6. \A t \in Senders : pc'[t] = "filling" => Issued(frame[t].slot)'
          BY <5>1, <5>2, <5>3, <4>3, <3>1 DEF Issued, Sealed
        <5>7. \A k \in SlotIds : Committed(k)' => Issued(k)'
          BY <4>3, <4>4 DEF SlotInv
        <5> QED
          BY <5>4, <5>5, <5>6, <5>7 DEF SlotInv
      <4> QED
        BY <4>5, <4>6
    <3> QED
      BY <3>2, <3>3
  <2>4. CASE ReportLoss(s)
    <3>1. /\ UNCHANGED <<table, frame, backing, receiver, admitted>>
          /\ claims'.closed
          /\ \A t \in Senders : pc'[t] = "filling" => pc[t] = "filling"
      BY <2>4 DEF ReportLoss, TypeOK
    <3> QED
      BY <3>1 DEF SlotInv, GateInv, Issued, Sealed, Committed
  <2>5. ASSUME NEW a \in Addresses, Fill(s, a)
        PROVE  SlotInv' /\ GateInv'
    BY <2>5 DEF Fill, SlotInv, GateInv, Issued, Sealed, Committed
  <2>6. CASE Finish(s)
    <3>1. /\ UNCHANGED <<claims, frame, backing, receiver, admitted>>
          /\ frame[s].slot \in SlotIds
          /\ \A k \in SlotIds \ {frame[s].slot} : table'[k] = table[k]
          /\ pc[s] = "filling" /\ pc'[s] = "ready"
          /\ \A t \in Senders \ {s} : pc'[t] = pc[t]
      BY <2>6 DEF Finish, TypeOK, SlotInv
    <3> QED
      BY <3>1 DEF SlotInv, GateInv, Issued, Sealed, Committed
  <2> QED
    BY <1>3, <2>1, <2>2, <2>3, <2>4, <2>5, <2>6 DEF Sender
<1> QED
  BY <1>1, <1>2, <1>3 DEF Next, Receiver

-----------------------------------------------------------------------------
(* What the bytes hold.                                                    *)

(* Spans that are apart share no byte.                                     *)
LEMMA ApartDisjoint ==
  ASSUME NEW d \in [offset : Nat, len : Nat], NEW e \in [offset : Nat, len : Nat],
         Apart(d, e)
  PROVE  Span(d) \cap Span(e) = {}
BY DEF Apart, Span

(* No step touches a committed descriptor or the bytes it names.           *)
LEMMA FrozenStep ==
  ASSUME TypeOK, SpanInv, SlotInv, [Next]_vars,
         NEW k \in SlotIds, Committed(k)
  PROVE  /\ table'[k] = table[k]
         /\ \A a \in Span(table[k]) : mem'[a] = mem[a]
<1> USE DEF region, endpoint
<1>1. ASSUME NEW s \in Senders, NEW b \in Addresses, Fill(s, b)
      PROVE  \A a \in Span(table[k]) : mem'[a] = mem[a]
  <2>1. Apart(frame[s], table[k])
    BY <1>1 DEF Fill, SpanInv, Holds
  <2>2. b \notin Span(table[k])
    BY <1>1, <2>1 DEF Fill, Apart, Span, TypeOK
  <2> QED
    BY <1>1, <2>2 DEF Fill, TypeOK
<1>2. ASSUME NEW s \in Senders, NEW b \in Addresses, Fill(s, b)
      PROVE  table'[k] = table[k]
  BY <1>2 DEF Fill
<1>3. ASSUME NEW s \in Senders, Finish(s)
      PROVE  UNCHANGED mem /\ table'[k] = table[k]
  BY <1>3 DEF Finish, SlotInv, TypeOK
<1>4. ASSUME NEW s \in Senders, Sender(s),
             ~Finish(s), \A b \in Addresses : ~Fill(s, b)
      PROVE  UNCHANGED <<mem, table>>
  BY <1>4 DEF Sender, AttachLocal, Open, CheckGate, Reserve, TakeSlot, ReportLoss,
              Perform, PerformUntracked, Die
<1>5. CASE Receiver \/ UNCHANGED vars
  BY <1>5 DEF Receiver, Seal, RemoveBacking, DropReceiver, ReadSlot, ReadEnd, vars
<1> QED
  BY <1>1, <1>2, <1>3, <1>4, <1>5 DEF Next

(* A record that is in the table stays there.                              *)
LEMMA HeldKept ==
  ASSUME TypeOK, SpanInv, SlotInv, [Next]_vars,
         NEW k \in SlotIds, NEW r, HeldBy(r, k)
  PROVE  HeldBy(r, k)'
BY FrozenStep DEF HeldBy, Committed

(* Steps that only move senders on leave the bytes explained.              *)
LEMMA ByteKept ==
  ASSUME ByteInv, UNCHANGED <<mem, table, ops, performed>>,
         \A t \in Senders :
           /\ pc[t] = "filling" => \/ pc'[t] = "filling" /\ frame'[t] = frame[t]
                                   \/ pc'[t] \in {"ready", "dead"}
           /\ pc[t] \in {"ready", "dead"} => pc'[t] \in {"ready", "dead"}
  PROVE  ByteInv'
<1>1. \A t \in Senders : Rec(t)' = Rec(t)
  BY DEF Rec
<1>2. \A r, k : HeldBy(r, k)' <=> HeldBy(r, k)
  BY DEF HeldBy, Committed
<1> QED
  BY <1>1, <1>2 DEF ByteInv, Committed

(* A sender's record appears in memory only while it fills its own span,   *)
(* and in performed only after that.                                       *)
LEMMA ByteStep ==
  ASSUME TypeOK, OpsInv, SpanInv, SlotInv, ByteInv, [Next]_vars
  PROVE  ByteInv'
<1> USE DEF region, endpoint
<1>1. CASE Receiver \/ UNCHANGED vars
  <2>1. UNCHANGED <<mem, table, ops, performed, pc, frame>>
    BY <1>1 DEF Receiver, Seal, RemoveBacking, DropReceiver, ReadSlot, ReadEnd, vars
  <2> QED
    BY <2>1, ByteKept
<1>2. ASSUME NEW s \in Senders, Sender(s)
      PROVE  ByteInv'
  <2>1. CASE AttachLocal(s) \/ Open(s) \/ CheckGate(s) \/ ReportLoss(s) \/ Die(s)
    <3>1. /\ UNCHANGED <<mem, table, ops, performed, frame>>
          /\ \A t \in Senders \ {s} : pc'[t] = pc[t]
          /\ pc'[s] = "dead" \/ pc[s] \notin {"filling", "ready", "dead"}
      BY <2>1 DEF AttachLocal, Open, CheckGate, ReportLoss, Die, TypeOK
    <3> QED
      BY <3>1, ByteKept DEF Die, TypeOK
  <2>2. ASSUME NEW len \in Sizes, Reserve(s, len)
        PROVE  ByteInv'
    <3>1. /\ UNCHANGED <<mem, table, ops, performed>>
          /\ pc[s] = "idle"
          /\ \A t \in Senders \ {s} : pc'[t] = pc[t] /\ frame'[t] = frame[t]
      BY <2>2 DEF Reserve, TypeOK
    <3> QED
      BY <3>1, ByteKept
  <2>3. CASE TakeSlot(s)
    <3>1. /\ UNCHANGED <<mem, table, ops, performed>>
          /\ pc[s] = "reserved"
          /\ \A t \in Senders \ {s} : pc'[t] = pc[t] /\ frame'[t] = frame[t]
      BY <2>3 DEF TakeSlot, TypeOK
    <3> QED
      BY <3>1, ByteKept
  <2>4. ASSUME NEW b \in Addresses, Fill(s, b)
        PROVE  ByteInv'
    <3>1. /\ UNCHANGED <<table, ops, performed, pc, frame>>
          /\ pc[s] = "filling" /\ b \in Span(frame[s])
          /\ mem'[b] = Rec(s)
          /\ \A a \in Addresses \ {b} : mem'[a] = mem[a]
      BY <2>4 DEF Fill, TypeOK
    <3>2. \A t \in Senders : Rec(t)' = Rec(t)
      BY <3>1 DEF Rec
    <3>3. \A t \in Senders, a \in Addresses : mem'[a] = Rec(t) =>
            \/ pc[t] = "filling" /\ a \in Span(frame[t])
            \/ pc[t] \in {"ready", "dead"}
      <4>1. \A t \in Senders : Rec(t) = Rec(s) => t = s
        BY DEF Rec
      <4> QED
        BY <3>1, <4>1 DEF ByteInv
    <3>4. \A t \in Senders, n \in 0 .. MaxOps - 1, a \in Addresses :
            mem'[a] = <<t, n>> => n <= ops[t]
      <4>1. \A t \in Senders, n \in 0 .. MaxOps - 1 : <<t, n>> = Rec(s) => n = ops[t]
        BY DEF Rec
      <4>2. \A t \in Senders : ops[t] \in Int
        BY DEF TypeOK
      <4>3. ASSUME NEW t \in Senders, NEW n \in 0 .. MaxOps - 1, NEW a \in Addresses,
                   mem'[a] = <<t, n>>
            PROVE  n <= ops[t]
        <5>1. CASE a = b
          BY <3>1, <4>1, <4>2, <4>3, <5>1
        <5>2. CASE a # b
          BY <3>1, <4>3, <5>2 DEF ByteInv
        <5> QED
          BY <5>1, <5>2
      <4> QED
        BY <4>3
    <3>5. \A k \in SlotIds : Committed(k)' => \E r \in Records : HeldBy(r, k)'
      BY <3>1, HeldKept DEF ByteInv, Committed
    <3> QED
      BY <3>1, <3>2, <3>3, <3>4, <3>5 DEF ByteInv
  <2>5. CASE Finish(s)
    <3>1. /\ UNCHANGED <<mem, ops, performed, frame>>
          /\ pc[s] = "filling" /\ pc'[s] = "ready"
          /\ \A t \in Senders \ {s} : pc'[t] = pc[t]
          /\ frame[s].slot \in SlotIds
          /\ \A k \in SlotIds \ {frame[s].slot} : table'[k] = table[k]
          /\ \A t \in Senders : Rec(t)' = Rec(t)
      BY <2>5 DEF Finish, TypeOK, SlotInv, Rec
    <3>2. Rec(s) \in Records /\ \A a \in Span(table'[frame[s].slot]) : mem'[a] = Rec(s)
      BY <2>5, <3>1, RecType DEF Finish, Span, TypeOK, OpsInv, InOp
    <3>3. \A k \in SlotIds : Committed(k)' => \E r \in Records : HeldBy(r, k)'
      BY <3>1, <3>2, HeldKept DEF ByteInv, Committed, HeldBy
    <3>4. \A t \in Senders, a \in Addresses : mem'[a] = Rec(t) =>
            \/ pc'[t] = "filling" /\ a \in Span(frame[t])
            \/ pc'[t] \in {"ready", "dead"}
      BY <3>1 DEF ByteInv
    <3> QED
      BY <3>1, <3>3, <3>4 DEF ByteInv
  <2>6. CASE Perform(s) \/ PerformUntracked(s)
    <3>1. /\ UNCHANGED <<mem, table, frame>>
          /\ performed' = performed \cup {Rec(s)}
          /\ ops'[s] = ops[s] + 1 /\ ops[s] \in Nat /\ ops[s] < MaxOps
          /\ \A t \in Senders \ {s} : pc'[t] = pc[t] /\ ops'[t] = ops[t]
          /\ pc'[s] \in {"idle", "untracked"}
      BY <2>6 DEF Perform, PerformUntracked, TypeOK, OpsInv, InOp
    <3>2. \A t \in Senders, a \in Addresses : mem'[a] = Rec(t)' =>
            \/ pc'[t] = "filling" /\ a \in Span(frame[t])
            \/ pc'[t] \in {"ready", "dead"}
      <4>1. ASSUME NEW t \in Senders, NEW a \in Addresses, mem[a] = <<t, ops'[t]>>, t = s
            PROVE  FALSE
        <5>1. mem[a] \in Records
          BY <4>1, PairIsNotBlank DEF TypeOK
        <5>2. ops[s] + 1 \in 0 .. MaxOps - 1
          BY <4>1, <5>1, <3>1 DEF Records
        <5> QED
          BY <4>1, <5>2, <3>1 DEF ByteInv
      <4>2. \A t \in Senders \ {s} : Rec(t)' = Rec(t)
        BY <3>1 DEF Rec
      <4> QED
        BY <4>1, <4>2, <3>1 DEF ByteInv, Rec
    <3>3. \A t \in Senders, n \in 0 .. MaxOps - 1, a \in Addresses :
            mem'[a] = <<t, n>> => n <= ops'[t]
      BY <3>1 DEF ByteInv, TypeOK
    <3>4. \A t \in Senders, n \in 0 .. MaxOps - 1 : <<t, n>> \in performed' => n < ops'[t]
      BY <3>1 DEF ByteInv, Rec, TypeOK
    <3>5. \A k \in SlotIds : Committed(k)' => \E r \in Records : HeldBy(r, k)'
      BY <3>1 DEF ByteInv, HeldBy, Committed
    <3> QED
      BY <3>1, <3>2, <3>3, <3>4, <3>5 DEF ByteInv
  <2> QED
    BY <1>2, <2>1, <2>2, <2>3, <2>4, <2>5, <2>6 DEF Sender
<1> QED
  BY <1>1, <1>2 DEF Next

-----------------------------------------------------------------------------
(* Completeness.                                                           *)

(* Before the boundary every performed operation is recorded or the gate   *)
(* is shut; the boundary turns that into a promise about what is read.     *)
LEMMA CompleteStep ==
  ASSUME IInv, [Next]_vars
  PROVE  CompleteInv'
<1> USE DEF region, endpoint
<1>0. TypeOK /\ OpsInv /\ SpanInv /\ SlotInv /\ GateInv /\ ByteInv /\ CompleteInv
  BY DEF IInv
<1>1. \A k \in SlotIds, r \in Records : HeldBy(r, k) => HeldBy(r, k)'
  BY <1>0, HeldKept
<1>2. \A r \in Records : Recorded(r) => Recorded(r)'
  BY <1>1 DEF Recorded
<1>3. performed \subseteq Records /\ owed \subseteq Records
  BY <1>0 DEF TypeOK
<1>4. 0 .. admitted - 1 \subseteq SlotIds
  BY <1>0 DEF TypeOK, SlotIds
<1>9. ASSUME NEW t \in Senders, Rec(t) \in Records, Recorded(Rec(t)), ops'[t] = ops[t]
      PROVE  Recorded(Rec(t))'
  <2>1. PICK r \in Records : r = Rec(t)
    BY <1>9
  <2>2. Recorded(r)'
    BY <1>2, <1>9, <2>1
  <2>3. r = Rec(t)'
    BY <1>9, <2>1 DEF Rec
  <2> QED
    BY <2>2, <2>3 DEF Recorded, HeldBy
<1>5. CASE Seal
  <2>1. /\ UNCHANGED <<table, mem, cursor>> /\ owed' = performed /\ receiver = "open"
        /\ receiver' \in {"lost", "sealed"}
        /\ Sealed' => ~claims.closed /\ admitted' = Admit(claims.count)
    BY <1>5 DEF Seal, Sealed
  <2>2. ASSUME Sealed', NEW r \in owed'
        PROVE  \E k \in 0 .. admitted' - 1 : HeldBy(r, k)'
    <3>1. PICK k \in SlotIds : HeldBy(r, k)
      BY <1>0, <2>1, <2>2 DEF CompleteInv, Recorded
    <3>2. Issued(k) /\ ~claims.closed
      BY <1>0, <2>1, <2>2, <3>1 DEF SlotInv, HeldBy
    <3>3. k \in 0 .. admitted' - 1
      BY <1>0, <2>1, <2>2, <3>1, <3>2 DEF Issued, Admit, SlotIds, TypeOK
    <3> QED
      BY <2>1, <3>1, <3>3 DEF HeldBy, Committed
  <2>3. SealComplete'
    BY <2>2 DEF SealComplete
  <2>4. cursor' = 0
    BY <1>0, <2>1 DEF CompleteInv
  <2> QED
    BY <2>1, <2>3, <2>4 DEF CompleteInv
<1>6. CASE RemoveBacking \/ DropReceiver \/ ReadEnd \/ UNCHANGED vars
  <2>1. /\ UNCHANGED <<claims, table, mem, pc, ops, admitted, cursor, delivered, performed, owed>>
        /\ receiver' = "open" => receiver = "open"
        /\ receiver' = "sealed" => receiver = "sealed"
        /\ receiver' = "reading" => receiver \in {"sealed", "reading"}
        /\ receiver' = "done" => receiver \in {"reading", "done"}
    BY <1>6 DEF RemoveBacking, DropReceiver, ReadEnd, vars
  <2>2. \A r : Recorded(r)' <=> Recorded(r)
    BY <2>1 DEF Recorded, HeldBy, Committed
  <2>3. \A r, k : HeldBy(r, k)' <=> HeldBy(r, k)
    BY <2>1 DEF HeldBy, Committed
  <2>4. \A s \in Senders : Rec(s)' = Rec(s)
    BY <2>1 DEF Rec
  <2>5. Sealed' => Sealed
    BY <2>1 DEF Sealed
  <2>6. SealComplete'
    BY <1>0, <2>1, <2>3, <2>5 DEF CompleteInv, SealComplete
  <2>7. receiver' \in {"sealed", "open"} => cursor' = 0
    BY <1>0, <2>1 DEF CompleteInv
  <2>8. receiver' \in {"reading", "done"} =>
          \A r \in owed', k \in SlotIds : k < cursor' /\ HeldBy(r, k)' => {r} \in delivered'
    BY <1>0, <2>1, <2>3 DEF CompleteInv, SlotIds
  <2>9. receiver' = "open" /\ ~claims'.closed =>
         /\ \A r \in performed' : Recorded(r)'
         /\ \A s \in Senders : pc'[s] = "ready" => Recorded(Rec(s))'
    BY <1>0, <2>1, <2>2, <2>4 DEF CompleteInv, Recorded, HeldBy, Committed
  <2> QED
    BY <2>6, <2>7, <2>8, <2>9 DEF CompleteInv
<1>7. CASE ReadSlot
  <2>1. /\ UNCHANGED <<claims, table, mem, pc, ops, admitted, receiver, performed, owed>>
        /\ cursor' = cursor + 1 /\ receiver = "reading"
        /\ cursor \in SlotIds
        /\ delivered \subseteq delivered'
        /\ Committed(cursor) => {mem[a] : a \in Span(table[cursor])} \in delivered'
    BY <1>0, <1>7 DEF ReadSlot, SlotIds, TypeOK
  <2>2. \A r, k : HeldBy(r, k)' <=> HeldBy(r, k)
    BY <2>1 DEF HeldBy, Committed
  <2>3. ASSUME NEW r \in owed, HeldBy(r, cursor)
        PROVE  {r} \in delivered'
    <3>1. table[cursor].offset \in Span(table[cursor])
      BY <1>0, <2>1, <2>3 DEF HeldBy, Committed, Span, TypeOK
    <3>2. {mem[a] : a \in Span(table[cursor])} = {r}
      BY <2>3, <3>1 DEF HeldBy
    <3> QED
      BY <2>1, <2>3, <3>2 DEF HeldBy
  <2>4. \A r \in owed', k \in SlotIds : k < cursor' /\ HeldBy(r, k)' => {r} \in delivered'
    <3> SUFFICES ASSUME NEW r \in owed, NEW k \in SlotIds, k < cursor + 1, HeldBy(r, k)
                 PROVE  {r} \in delivered'
      BY <2>1, <2>2
    <3>1. CASE k = cursor
      BY <2>3, <3>1
    <3>2. CASE k < cursor
      BY <1>0, <2>1, <3>2 DEF CompleteInv
    <3> QED
      BY <3>1, <3>2, <2>1 DEF SlotIds
  <2>5. SealComplete'
    BY <1>0, <2>1, <2>2 DEF CompleteInv, SealComplete, Sealed
  <2> QED
    BY <2>1, <2>4, <2>5 DEF CompleteInv
<1>8. ASSUME NEW s \in Senders, Sender(s)
      PROVE  CompleteInv'
  <2>1. UNCHANGED <<receiver, admitted, cursor, delivered, owed>>
    BY <1>8 DEF Sender, AttachLocal, Open, CheckGate, Reserve, TakeSlot, ReportLoss,
                Fill, Finish, Perform, PerformUntracked, Die
  <2>2. SealComplete'
    BY <1>0, <1>1, <1>3, <1>4, <2>1 DEF CompleteInv, SealComplete, Sealed
  <2>3. ASSUME NEW r \in owed, NEW k \in SlotIds, HeldBy(r, k)'
        PROVE  HeldBy(r, k)
    <3>1. CASE Finish(s) /\ k = frame[s].slot
      <4>1. /\ pc[s] = "filling" /\ UNCHANGED mem
            /\ table'[k] = [offset |-> frame[s].offset, len |-> frame[s].len]
            /\ \A a \in Span(table'[k]) : mem'[a] = Rec(s)
        BY <3>1, <1>0 DEF Finish, Span, TypeOK
      <4>2. frame[s].offset \in Span(table'[k])
        BY <1>0, <4>1 DEF SpanInv, Holds, InArea, Span, TypeOK
      <4>3. r = Rec(s)
        BY <2>3, <4>1, <4>2 DEF HeldBy
      <4>4. Rec(s) \notin performed
        BY <1>0, <4>1 DEF ByteInv, Rec, TypeOK, OpsInv, InOp
      <4> QED
        BY <1>0, <4>3, <4>4 DEF TypeOK
    <3>2. CASE ~(Finish(s) /\ k = frame[s].slot)
      <4>1. table'[k] = table[k]
        <5>1. CASE Finish(s)
          BY <1>0, <3>2, <5>1 DEF Finish, TypeOK
        <5>2. CASE ~Finish(s)
          BY <1>8, <5>2 DEF Sender, AttachLocal, Open, CheckGate, Reserve, TakeSlot,
                 ReportLoss, Fill, Perform, PerformUntracked, Die
        <5> QED
          BY <5>1, <5>2
      <4>2. Committed(k)
        BY <2>3, <4>1 DEF HeldBy, Committed
      <4> QED
        BY <1>0, <2>3, <4>1, <4>2, FrozenStep DEF HeldBy
    <3> QED
      BY <3>1, <3>2
  <2>4. receiver' \in {"reading", "done"} =>
          \A r \in owed', k \in SlotIds : k < cursor' /\ HeldBy(r, k)' => {r} \in delivered'
    BY <1>0, <2>1, <2>3 DEF CompleteInv
  <2>5. receiver' = "open" /\ ~claims'.closed =>
         /\ \A r \in performed' : Recorded(r)'
         /\ \A t \in Senders : pc'[t] = "ready" => Recorded(Rec(t))'
    <3> SUFFICES ASSUME receiver = "open", ~claims'.closed
                 PROVE  /\ \A r \in performed' : Recorded(r)'
                        /\ \A t \in Senders : pc'[t] = "ready" => Recorded(Rec(t))'
      BY <2>1
    <3>1. ~claims.closed
      <4>1. CASE TakeSlot(s)
        BY <1>0, <4>1 DEF TakeSlot, TypeOK
      <4>2. CASE ReportLoss(s)
        BY <4>2 DEF ReportLoss
      <4>3. CASE ~TakeSlot(s) /\ ~ReportLoss(s)
        BY <1>8, <4>3 DEF Sender, AttachLocal, Open, CheckGate, Reserve, Fill, Finish,
                    Perform, PerformUntracked, Die
      <4> QED
        BY <4>1, <4>2, <4>3
    <3>2. /\ \A r \in performed : Recorded(r)
          /\ \A t \in Senders : pc[t] = "ready" => Recorded(Rec(t))
      BY <1>0, <3>1 DEF CompleteInv
    <3>3. \A t \in Senders : InOp(t) => Rec(t) \in Records
      BY <1>0, RecType DEF OpsInv, TypeOK
    <3>4. CASE Perform(s)
      <4>1. /\ performed' = performed \cup {Rec(s)} /\ pc[s] = "ready"
            /\ \A t \in Senders : pc'[t] = "ready" => t # s /\ pc[t] = "ready"
            /\ \A t \in Senders \ {s} : Rec(t)' = Rec(t)
        BY <3>4, <1>0 DEF Perform, TypeOK, Rec
      <4>2. \A t \in Senders : pc[t] = "ready" => Recorded(Rec(t)) /\ Rec(t) \in Records
        BY <3>2, <3>3 DEF InOp
      <4>3. \A r \in performed' : Recorded(r)'
        BY <1>2, <1>3, <3>2, <4>1, <4>2
      <4>4. \A t \in Senders : pc'[t] = "ready" => Recorded(Rec(t))'
        BY <1>1, <4>1, <4>2 DEF Recorded, HeldBy
      <4> QED
        BY <4>3, <4>4
    <3>5. CASE PerformUntracked(s)
      BY <1>0, <3>1, <3>5 DEF PerformUntracked, GateInv
    <3>6. CASE Finish(s)
      <4>1. /\ UNCHANGED <<mem, performed, ops>>
            /\ pc[s] = "filling" /\ frame[s].slot \in SlotIds
            /\ \A t \in Senders \ {s} : pc'[t] = pc[t]
            /\ table'[frame[s].slot] = [offset |-> frame[s].offset, len |-> frame[s].len]
            /\ \A a \in Span(table'[frame[s].slot]) : mem'[a] = Rec(s)
            /\ frame[s].len # 0
        BY <3>6, <1>0 DEF Finish, TypeOK, SlotInv, Span, SpanInv, Holds, InArea
      <4>2. Recorded(Rec(s))'
        BY <4>1 DEF Recorded, HeldBy, Committed, Rec
      <4>3. \A t \in Senders \ {s} : pc'[t] = "ready" => Recorded(Rec(t)) /\ Rec(t) \in Records
        BY <3>2, <3>3, <4>1 DEF InOp
      <4>4. \A t \in Senders \ {s} : pc'[t] = "ready" => Recorded(Rec(t))'
        BY <1>9, <4>1, <4>3
      <4> QED
        BY <1>2, <1>3, <3>2, <4>1, <4>2, <4>4
    <3>7. CASE ~Perform(s) /\ ~PerformUntracked(s) /\ ~Finish(s)
      <4>1. /\ UNCHANGED <<performed, ops>>
            /\ \A t \in Senders : pc'[t] = "ready" => pc[t] = "ready"
        BY <1>0, <1>8, <3>7 DEF Sender, AttachLocal, Open, CheckGate, Reserve,
                    TakeSlot, ReportLoss, Fill, Die, TypeOK
      <4>2. \A t \in Senders : pc'[t] = "ready" => Recorded(Rec(t)) /\ Rec(t) \in Records
        BY <3>2, <3>3, <4>1 DEF InOp
      <4>3. \A t \in Senders : pc'[t] = "ready" => Recorded(Rec(t))'
        BY <1>9, <4>1, <4>2
      <4> QED
        BY <1>2, <1>3, <3>2, <4>1, <4>3
    <3> QED
      BY <3>4, <3>5, <3>6, <3>7
  <2>6. receiver' \in {"sealed", "open"} => cursor' = 0
    BY <1>0, <2>1 DEF CompleteInv
  <2> QED
    BY <2>2, <2>4, <2>5, <2>6 DEF CompleteInv
<1> QED
  BY <1>5, <1>6, <1>7, <1>8 DEF Next, Receiver

-----------------------------------------------------------------------------
(* The theorems.                                                           *)

(* IInv holds initially, every step keeps it, so it holds in every state.  *)
THEOREM InductiveInvariant == Spec => []IInv
<1>1. Init => IInv
  <2> SUFFICES ASSUME Init PROVE IInv
    OBVIOUS
  <2>1. TypeOK
    BY DEF Init, TypeOK, Pcs, Phases, Unfinished
  <2>2. \A k \in SlotIds : ~Committed(k)
    BY DEF Init, Committed, Unfinished
  <2>3. \A s \in Senders, a \in Addresses : \A n : mem[a] # <<s, n>>
    BY PairIsNotBlank DEF Init
  <2>4. OpsInv /\ SpanInv /\ SlotInv /\ GateInv
    BY <2>2 DEF Init, OpsInv, InOp, SpanInv, Holds, SlotInv, GateInv
  <2>5. ByteInv
    BY <2>2, <2>3 DEF Init, ByteInv, Rec
  <2>6. CompleteInv
    BY DEF Init, CompleteInv, SealComplete, Sealed
  <2> QED
    BY <2>1, <2>4, <2>5, <2>6 DEF IInv
<1>2. IInv /\ [Next]_vars => IInv'
  BY TypeStep, SpanStep, SlotStep, ByteStep, CompleteStep DEF IInv
<1> QED
  BY <1>1, <1>2, PTL DEF Spec

(* Every variable keeps its type; in particular the seal never admits more *)
(* slots than the table has.                                               *)
THEOREM TypeCorrect == Spec => []TypeOK
BY InductiveInvariant, PTL DEF IInv

(* A successful seal admits the record of everything performed before it,  *)
(* for any number of senders dying or running out of room anywhere.        *)
THEOREM Completeness == Spec => []SealComplete
<1>1. IInv => SealComplete
  BY DEF IInv, CompleteInv
<1> QED
  BY <1>1, InductiveInvariant, PTL

(* Frames being filled and frames already committed never share a byte or  *)
(* a slot, and none leaves the payload area.                               *)
THEOREM Disjointness == Spec => []SpansDisjoint
<1>1. IInv => SpansDisjoint
  <2> SUFFICES ASSUME IInv PROVE SpansDisjoint
    OBVIOUS
  <2>1. TypeOK /\ SpanInv /\ SlotInv
    BY DEF IInv
  <2>2. \A s \in Senders : pc[s] = "filling" => Holds(s) /\ InArea(frame[s])
    BY <2>1 DEF SpanInv, Holds
  <2>3. \A s \in Senders : pc[s] = "filling" => Span(frame[s]) \subseteq Addresses
    BY <2>1, <2>2 DEF InArea, Span, Addresses, TypeOK
  <2>4. ASSUME NEW s \in Senders, NEW t \in Senders, s # t,
               pc[s] = "filling", pc[t] = "filling"
        PROVE  Span(frame[s]) \cap Span(frame[t]) = {} /\ frame[s].slot # frame[t].slot
    <3>1. Apart(frame[s], frame[t])
      BY <2>1, <2>2, <2>4 DEF SpanInv
    <3>2. frame[s].slot # frame[t].slot
      BY <2>1, <2>4 DEF SlotInv
    <3> QED
      BY <2>1, <3>1, <3>2 DEF Apart, Span, TypeOK
  <2>5. ASSUME NEW s \in Senders, NEW k \in SlotIds, pc[s] = "filling", Committed(k)
        PROVE  Span(frame[s]) \cap Span(table[k]) = {}
    <3>1. Apart(frame[s], table[k])
      BY <2>1, <2>2, <2>5 DEF SpanInv
    <3> QED
      BY <2>1, <3>1 DEF Apart, Span, TypeOK
  <2>6. ASSUME NEW j \in SlotIds, NEW k \in SlotIds, j # k, Committed(j), Committed(k)
        PROVE  Span(table[j]) \cap Span(table[k]) = {}
    <3>1. Apart(table[j], table[k])
      BY <2>1, <2>6 DEF SpanInv
    <3> QED
      BY <2>1, <3>1, ApartDisjoint DEF TypeOK
  <2> QED
    BY <2>3, <2>4, <2>5, <2>6 DEF SpansDisjoint
<1> QED
  BY <1>1, InductiveInvariant, PTL

(* Every frame handed to the decoder is one whole record.                  *)
THEOREM WholeFrames == Spec => []FramesWhole
<1>1. Init => FramesWhole
  BY DEF Init, FramesWhole
<1>2. IInv /\ FramesWhole /\ [Next]_vars => FramesWhole'
  <2> SUFFICES ASSUME IInv, FramesWhole, [Next]_vars PROVE FramesWhole'
    OBVIOUS
  <2> USE DEF region, endpoint
  <2>1. CASE ReadSlot
    <3>1. cursor \in SlotIds /\ TypeOK /\ SpanInv /\ ByteInv
      BY <2>1, SMTT(30) DEF ReadSlot, IInv, TypeOK, SlotIds
    <3>2. ASSUME Committed(cursor)
          PROVE  \E r \in Records : {mem[a] : a \in Span(table[cursor])} = {r}
      <4>1. PICK r \in Records : HeldBy(r, cursor)
        BY <3>1, <3>2 DEF ByteInv
      <4>2. table[cursor].offset \in Span(table[cursor])
        BY <3>1, <3>2 DEF Committed, Span, TypeOK
      <4> QED
        BY <4>1, <4>2 DEF HeldBy
    <3> QED
      BY <2>1, <3>2 DEF ReadSlot, FramesWhole
  <2>2. CASE ~ReadSlot
    <3>1. UNCHANGED delivered
      BY <2>2 DEF Next, Receiver, Seal, RemoveBacking, DropReceiver, ReadEnd, Sender,
         AttachLocal, Open, CheckGate, Reserve, TakeSlot, ReportLoss, Fill, Finish,
         Perform, PerformUntracked, Die, vars
    <3> QED
      BY <3>1 DEF FramesWhole
  <2> QED
    BY <2>1, <2>2
<1> QED
  BY <1>1, <1>2, InductiveInvariant, PTL DEF Spec

(* No step ever changes a committed descriptor or the bytes it names.      *)
THEOREM FrozenFrames == Spec => CommittedFrozen
<1>1. IInv /\ [Next]_vars =>
        [\A k \in SlotIds : Committed(k) =>
           /\ table'[k] = table[k]
           /\ \A a \in Span(table[k]) : mem'[a] = mem[a]]_vars
  BY FrozenStep DEF IInv
<1> QED
  BY <1>1, InductiveInvariant, PTL DEF Spec, CommittedFrozen

-----------------------------------------------------------------------------
(* Refinement of TraceLog.                                                 *)

(* A step that changes neither table nor the gate nor what the receiver    *)
(* and the history variables say is invisible to TraceLog.                 *)
LEMMA SameTrace ==
  ASSUME UNCHANGED <<table, mem>>
  PROVE  Trace' = Trace
BY DEF Trace, HeldBy, Committed

(* Filling bytes adds nothing to the trace.                                *)
LEMMA FillTrace ==
  ASSUME IInv, NEW s \in Senders, NEW b \in Addresses, Fill(s, b)
  PROVE  Trace' = Trace
<1>1. TypeOK /\ SpanInv /\ SlotInv /\ [Next]_vars
  BY DEF IInv, Next, Sender
<1>2. \A k \in SlotIds : Committed(k)' <=> Committed(k)
  BY DEF Fill, Committed
<1>3. \A k \in SlotIds : \A r : HeldBy(r, k)' <=> HeldBy(r, k)
  BY <1>1, <1>2, FrozenStep DEF HeldBy
<1> QED
  BY <1>3 DEF Trace

(* Committing a frame adds exactly the record it holds, one that was       *)
(* neither in the trace nor performed.                                     *)
LEMMA FinishTrace ==
  ASSUME IInv, NEW s \in Senders, Finish(s)
  PROVE  /\ Rec(s) \in Records
         /\ Rec(s) \notin performed \cup Trace
         /\ Trace' = Trace \cup {Rec(s)}
<1>1. TypeOK /\ OpsInv /\ SpanInv /\ SlotInv /\ ByteInv /\ [Next]_vars
  BY DEF IInv, Next, Sender
<1>2. Rec(s) \in Records /\ Rec(s) \notin performed
  <2>1. ops[s] \in 0 .. MaxOps - 1
    BY <1>1 DEF Finish, OpsInv, InOp, TypeOK
  <2> QED
    BY <1>1, <2>1, RecType DEF ByteInv, Rec
<1>3. Rec(s) \notin Trace
  <2> SUFFICES ASSUME NEW k \in SlotIds, HeldBy(Rec(s), k) PROVE FALSE
    BY DEF Trace
  <2>1. Apart(frame[s], table[k]) /\ pc[s] = "filling"
    BY <1>1 DEF SpanInv, HeldBy, Finish, Holds
  <2>2. table[k].offset \in Span(table[k]) /\ table[k].offset \in Addresses
    BY <1>1 DEF HeldBy, SpanInv, InArea, Span, Committed, Addresses, TypeOK
  <2>3. table[k].offset \in Span(frame[s])
    BY <1>1, <2>1, <2>2 DEF HeldBy, ByteInv
  <2> QED
    BY <1>1, <2>1, <2>2, <2>3 DEF Apart, Span, TypeOK
<1>4. PICK n \in SlotIds : n = frame[s].slot
  BY <1>1 DEF SlotInv, Finish
<1>5. HeldBy(Rec(s), n)' /\ UNCHANGED <<mem, ops>>
  BY <1>1, <1>4 DEF Finish, HeldBy, Committed, Span, SpanInv, Holds, InArea, TypeOK, Rec
<1>6. \A k \in SlotIds \ {n} : \A r : HeldBy(r, k)' <=> HeldBy(r, k)
  BY <1>1, <1>4 DEF Finish, HeldBy, Committed, TypeOK
<1>7. ~Committed(n)
  BY <1>1, <1>4 DEF SlotInv, Finish
<1>8. \A r : HeldBy(r, n)' => r = Rec(s)
  <2>1. frame[s].offset \in Span(table'[n])
    BY <1>1, <1>4 DEF Finish, Span, SpanInv, Holds, InArea, TypeOK
  <2>2. mem'[frame[s].offset] = Rec(s)
    BY <1>1, <1>4, <2>1 DEF Finish, Span, TypeOK
  <2> QED
    BY <2>1, <2>2 DEF HeldBy
<1>9. \A r \in Records : r = Rec(s) => HeldBy(r, n)'
  BY <1>5 DEF HeldBy, Rec
<1> QED
  BY <1>2, <1>3, <1>6, <1>7, <1>8, <1>9 DEF Trace, HeldBy

(* Adding a singleton to a set of sets adds its element to the union.      *)
LEMMA UnionAdd ==
  ASSUME NEW S, NEW r
  PROVE  UNION (S \cup {{r}}) = (UNION S) \cup {r}
<1>1. \A x : x \in UNION (S \cup {{r}}) <=> x \in (UNION S) \cup {r}
  OBVIOUS
<1> QED
  BY <1>1

(* The channel implements TraceLog: every step of a sender or of the       *)
(* receiver is a step of the abstract trace, or invisible to it.           *)
THEOREM Refinement == Spec => RefinesTraceLog
<1>1. Init => Log!Init
  BY DEF Init, Log!Init, Trace, Verdict, HeldBy, Committed, Unfinished
<1>2. IInv /\ [Next]_vars => [Log!Next]_(Log!vars)
  <2> SUFFICES ASSUME IInv, [Next]_vars
               PROVE  [Log!Next]_(Log!vars)
    OBVIOUS
  <2> USE DEF region, endpoint
  <2>0. TypeOK /\ OpsInv /\ GateInv /\ ByteInv /\ CompleteInv
    BY DEF IInv
  <2>1. CASE Seal
    <3>1. Trace' = Trace
      BY <2>1, SameTrace DEF Seal
    <3>2. Log!Close
      BY <2>1, <3>1 DEF Seal, Log!Close, Verdict
    <3> QED
      BY <3>2 DEF Log!Next
  <2>2. CASE RemoveBacking
    <3>1. Trace' = Trace
      BY <2>2, SameTrace DEF RemoveBacking
    <3> QED
      BY <2>2, <3>1 DEF RemoveBacking, Log!vars, Verdict
  <2>3. CASE DropReceiver
    <3>1. Trace' = Trace
      BY <2>3, SameTrace DEF DropReceiver
    <3>2. Log!Drop
      BY <2>3, <3>1 DEF DropReceiver, Log!Drop, Verdict
    <3> QED
      BY <3>2 DEF Log!Next
  <2>4. CASE ReadSlot
    <3>1. Trace' = Trace
      BY <2>4, SameTrace DEF ReadSlot
    <3>2. CASE ~Committed(cursor)
      BY <2>4, <3>1, <3>2 DEF ReadSlot, Log!vars, Verdict
    <3>3. CASE Committed(cursor)
      <4>1. cursor \in SlotIds
        BY <2>0, <2>4 DEF ReadSlot, SlotIds, TypeOK
      <4>2. PICK r \in Records : HeldBy(r, cursor)
        BY <2>0, <3>3, <4>1 DEF ByteInv
      <4>3. table[cursor].offset \in Span(table[cursor])
        BY <2>0, <3>3, <4>1 DEF Committed, Span, TypeOK
      <4>4. {mem[a] : a \in Span(table[cursor])} = {r}
        BY <4>2, <4>3 DEF HeldBy
      <4>5. UNION delivered' = (UNION delivered) \cup {r}
        <5>1. delivered' = delivered \cup {{r}}
          BY <2>4, <3>3, <4>4 DEF ReadSlot
        <5> QED
          BY <5>1, UnionAdd
      <4>6. r \in Trace
        BY <4>1, <4>2 DEF Trace
      <4>7. /\ Verdict = "complete" /\ Verdict' = "complete"
            /\ UNCHANGED <<performed, owed, claims>>
        BY <2>4 DEF ReadSlot, Verdict
      <4>8. Log!Deliver(r)
        BY <3>1, <4>5, <4>6, <4>7 DEF Log!Deliver
      <4> QED
        BY <4>8 DEF Log!Next
    <3> QED
      BY <3>2, <3>3
  <2>5. CASE ReadEnd
    <3>1. Trace' = Trace
      BY <2>5, SameTrace DEF ReadEnd
    <3>2. owed \subseteq UNION delivered
      <4> SUFFICES ASSUME NEW r \in owed PROVE {r} \in delivered
        OBVIOUS
      <4>1. PICK k \in 0 .. admitted - 1 : HeldBy(r, k)
        BY <2>0, <2>5 DEF ReadEnd, CompleteInv, SealComplete, Sealed
      <4>2. k \in SlotIds /\ k < cursor
        BY <2>0, <2>5 DEF ReadEnd, SlotIds, TypeOK
      <4> QED
        BY <2>0, <2>5, <4>1, <4>2 DEF ReadEnd, CompleteInv
    <3>3. Log!EndOfTrace
      BY <2>5, <3>1, <3>2 DEF ReadEnd, Log!EndOfTrace, Verdict
    <3> QED
      BY <3>3 DEF Log!Next
  <2>6. ASSUME NEW s \in Senders, Sender(s)
        PROVE  [Log!Next]_(Log!vars)
    <3>1. CASE AttachLocal(s) \/ Open(s) \/ CheckGate(s) \/ Die(s)
      BY <3>1, SameTrace DEF AttachLocal, Open, CheckGate, Die, Log!vars, Verdict
    <3>2. ASSUME NEW len \in Sizes, Reserve(s, len)
          PROVE  [Log!Next]_(Log!vars)
      BY <3>2, SameTrace DEF Reserve, Log!vars, Verdict
    <3>3. CASE TakeSlot(s)
      <4>1. claims'.closed = claims.closed
        BY <2>0, <3>3 DEF TakeSlot, TypeOK
      <4> QED
        BY <3>3, <4>1, SameTrace DEF TakeSlot, Log!vars, Verdict
    <3>4. CASE ReportLoss(s)
      <4>1. Log!ReportLoss
        BY <3>4, SameTrace DEF ReportLoss, Log!ReportLoss, Verdict
      <4> QED
        BY <4>1 DEF Log!Next
    <3>5. ASSUME NEW b \in Addresses, Fill(s, b)
          PROVE  [Log!Next]_(Log!vars)
      BY <3>5, FillTrace DEF Fill, Log!vars, Verdict
    <3>6. CASE Finish(s)
      <4>1. Log!Publish(Rec(s)) /\ Rec(s) \in Records
        BY <3>6, FinishTrace DEF Finish, Log!Publish, Verdict
      <4> QED
        BY <4>1 DEF Log!Next
    <3>7. CASE Perform(s)
      <4>1. Rec(s) \in Records /\ Rec(s) \notin performed
        <5>1. ops[s] \in 0 .. MaxOps - 1
          BY <2>0, <3>7 DEF Perform, OpsInv, InOp, TypeOK
        <5> QED
          BY <2>0, <5>1, RecType DEF ByteInv, Rec
      <4>2. Trace' = Trace
        BY <3>7, SameTrace DEF Perform
      <4>3. Verdict = "open" => Rec(s) \in Trace \/ claims.closed
        BY <2>0, <3>7, <4>1 DEF Perform, Verdict, CompleteInv, Recorded, Trace
      <4>4. Log!Perform(Rec(s))
        BY <3>7, <4>1, <4>2, <4>3 DEF Perform, Log!Perform, Verdict
      <4> QED
        BY <4>1, <4>4 DEF Log!Next
    <3>8. CASE PerformUntracked(s)
      <4>1. Rec(s) \in Records /\ Rec(s) \notin performed
        <5>1. ops[s] \in 0 .. MaxOps - 1
          BY <2>0, <3>8 DEF PerformUntracked, TypeOK
        <5> QED
          BY <2>0, <5>1, RecType DEF ByteInv, Rec
      <4>2. Trace' = Trace
        BY <3>8, SameTrace DEF PerformUntracked
      <4>3. Verdict = "open" => claims.closed
        BY <2>0, <3>8 DEF PerformUntracked, Verdict, GateInv
      <4>4. Log!Perform(Rec(s))
        BY <3>8, <4>1, <4>2, <4>3 DEF PerformUntracked, Log!Perform, Verdict
      <4> QED
        BY <4>1, <4>4 DEF Log!Next
    <3> QED
      BY <2>6, <3>1, <3>2, <3>3, <3>4, <3>5, <3>6, <3>7, <3>8 DEF Sender
  <2>7. CASE UNCHANGED vars
    BY <2>7, SameTrace DEF vars, Log!vars, Verdict
  <2> QED
    BY <2>1, <2>2, <2>3, <2>4, <2>5, <2>6, <2>7 DEF Next, Receiver
<1> QED
  BY <1>1, <1>2, InductiveInvariant, PTL DEF Spec, Log!Spec, RefinesTraceLog

-----------------------------------------------------------------------------
(* ToolReports.                                                            *)

Folders == {"pkg", "sub", "root", "file"}
Frames ==
  [kind : {"input", "output"}, file : Seq(Folders)] \cup [kind : {"off", "torn"}]
    \cup [kind : {"get"}, name : {"FOO", "foo"}, tracked : BOOLEAN]
    \cup [kind : {"gets"}, query : Queries, tracked : BOOLEAN]

(* What the frame of a call says of what the call means.                   *)
CallOK(a) ==
  /\ a.frame \in Frames /\ a.frame.kind # "torn"
  /\ a.frame.kind = "input" => Len(a.frame.file) = 2 /\ a.meant = a.frame.file
  /\ a.frame.kind = "output" =>
       \/ Len(a.frame.file) = 2 /\ a.meant = a.frame.file
       \/ Len(a.frame.file) # 2 /\ a.meant = "bad"
  /\ a.frame.kind = "get" => a.frame.name \in {"FOO", "foo"}
  /\ a.frame.kind = "gets" => a.frame.query \in Queries
  /\ a.frame.kind \in {"get", "gets"} => (a.frame.tracked <=> a.meant = "none")

(* A frame in a buffer was written by a call; one that is torn ends what a *)
(* dead tool has written.                                                  *)
TornAt(c, i) == line[c][i].kind = "torn" /\ i = Len(line[c]) /\ tool[c] = "gone"
FrameOK(c, i) == TornAt(c, i) \/ \E a \in asked : a.frame = line[c][i]

(* A frame of a call is to be read still, or the record has what it says.  *)
Unread(f) == \E c \in Tools : \E i \in DOMAIN line[c] : line[c][i] = f
InRecord(f) ==
  /\ f.kind = "input" => f.file \in record.inputs
  /\ f.kind = "output" => Len(f.file) = 2 /\ f.file \in record.outputs
  /\ f.kind = "off" => record.off
  /\ f.kind = "get" /\ f.tracked => Equal(Windows, record.gets, f.name) # {}
  /\ f.kind = "gets" => /\ f.query # "glob ["
                        /\ f.tracked => f.query \in DOMAIN record.queries
NoneLost == ~failed => \A a \in asked : Unread(a.frame) \/ InRecord(a.frame)

(* Nothing else is in the record.                                          *)
RecordOK ==
  /\ \A p \in record.inputs : \E a \in Of("input") : a.frame.file = p
  /\ \A p \in record.outputs : \E a \in Of("output") : a.frame.file = p
  /\ record.off => Of("off") # {}
  /\ \A n \in DOMAIN record.gets :
       /\ \E f \in AskedTracked("get") : f.name = n
       /\ record.gets[n] = Lookup(n)
  /\ \A q \in DOMAIN record.queries :
       /\ \E f \in AskedTracked("gets") : f.query = q
       /\ record.queries[q] = Valued(Matches(q))

(* What a tool heard is what the environment says.                         *)
ToldOK(t) ==
  /\ t.frame.kind = "get" =>
       t.frame.name \in {"FOO", "foo"} /\ t.answer = Heard(Lookup(t.frame.name))
  /\ t.frame.kind = "gets" =>
       /\ t.frame.query \in Queries \ {"glob ["}
       /\ t.answer = HeardAll(Valued(Matches(t.frame.query)))

RecordFields(r) ==
  /\ r = [inputs |-> r.inputs, outputs |-> r.outputs, off |-> r.off, gets |-> r.gets,
           queries |-> r.queries]
  /\ r.off \in BOOLEAN

ToolsTypeOK ==
  /\ system \in {"unix", "windows"} /\ env \in Environments
  /\ tool \in [Tools -> {"up", "asking", "alone", "gone"}]
  /\ cwd \in [Tools -> {"pkg", "sub"}] /\ line \in [Tools -> Seq(Frames)]
  /\ failed \in BOOLEAN /\ drained \in BOOLEAN /\ RecordFields(record)

ToolsInv ==
  /\ ToolsTypeOK
  /\ \A a \in asked : CallOK(a)
  /\ \A c \in Tools : \A i \in DOMAIN line[c] : FrameOK(c, i)
  /\ NoneLost /\ RecordOK
  /\ \A t \in told : ToldOK(t)
  /\ FailsForCause
  /\ drained => \A c \in Tools : tool[c] \in {"alone", "gone"} /\ line[c] = <<>>


-----------------------------------------------------------------------------
(* What a name and a query say does not change, and what was asked stays.  *)
LEMMA SameEnvironment ==
  ASSUME system' = system, env' = env
  PROVE  /\ Windows' = Windows
         /\ \A n : Lookup(n)' = Lookup(n)
         /\ \A q : Valued(Matches(q))' = Valued(Matches(q))
BY DEF Windows, Lookup, Valued, Matches, Equal

LEMMA SameTold ==
  ASSUME system' = system, env' = env, NEW t, ToldOK(t)
  PROVE  ToldOK(t)'
BY SameEnvironment DEF ToldOK

LEMMA MoreAsked ==
  ASSUME asked \subseteq asked'
  PROVE  /\ \A kind : Of(kind) \subseteq Of(kind)'
         /\ \A kind : Files(kind) \subseteq Files(kind)'
         /\ \A kind : AskedTracked(kind) \subseteq AskedTracked(kind)'
BY DEF Of, Files, AskedTracked

LEMMA SameRecord ==
  ASSUME system' = system, env' = env, record' = record, asked \subseteq asked', RecordOK
  PROVE  RecordOK'
BY SameEnvironment, MoreAsked DEF RecordOK, Windows

LEMMA SameCause ==
  ASSUME asked \subseteq asked', FailsForCause, failed' = failed
  PROVE  FailsForCause'
BY MoreAsked DEF FailsForCause

LEMMA SameInRecord ==
  ASSUME system' = system, record' = record, NEW f, InRecord(f)
  PROVE  InRecord(f)'
BY DEF InRecord, Windows, Equal

(* What Append and Tail do to the frames of a buffer.                      *)
LEMMA Appended ==
  ASSUME NEW s \in Seq(Frames), NEW f \in Frames
  PROVE  /\ Append(s, f) \in Seq(Frames) /\ Len(Append(s, f)) = Len(s) + 1
         /\ \A i \in DOMAIN s : i \in DOMAIN Append(s, f) /\ Append(s, f)[i] = s[i]
         /\ Len(s) + 1 \in DOMAIN Append(s, f) /\ Append(s, f)[Len(s) + 1] = f
         /\ \A i \in DOMAIN Append(s, f) : i \in DOMAIN s \/ i = Len(s) + 1
OBVIOUS

LEMMA Taken ==
  ASSUME NEW s \in Seq(Frames), s # <<>>
  PROVE  /\ Tail(s) \in Seq(Frames) /\ Head(s) \in Frames /\ 1 \in DOMAIN s /\ Head(s) = s[1]
         /\ \A i \in DOMAIN s : i = 1 \/ (i - 1 \in DOMAIN Tail(s) /\ Tail(s)[i - 1] = s[i])
         /\ \A i \in DOMAIN Tail(s) : i + 1 \in DOMAIN s /\ Tail(s)[i] = s[i + 1]
         /\ Len(Tail(s)) = Len(s) - 1
OBVIOUS

-----------------------------------------------------------------------------
(* A call that is sent: its frame is unread, and the others stay.          *)
LEMMA SaidStep ==
  ASSUME ToolsInv, NEW c \in Tools, NEW said, NEW meaning,
         CallOK([frame |-> said, meant |-> meaning]), SendFrame(c, said, meaning),
         UNCHANGED <<system, env, cwd, recorder, told>>,
         tool' = tool \/ tool' = [tool EXCEPT ![c] = "asking"]
  PROVE  ToolsInv'
<1> DEFINE call == [frame |-> said, meant |-> meaning]
<1>1. /\ ToolsTypeOK /\ (\A a \in asked : CallOK(a)) /\ NoneLost /\ RecordOK /\ FailsForCause
      /\ \A d \in Tools : \A i \in DOMAIN line[d] : FrameOK(d, i)
      /\ \A t \in told : ToldOK(t)
      /\ drained => \A d \in Tools : tool[d] \in {"alone", "gone"} /\ line[d] = <<>>
      BY DEF ToolsInv
<1>2. /\ call.frame = said /\ said \in Frames /\ said.kind # "torn"
      BY DEF CallOK
<1>3. /\ tool[c] = "up" /\ asked' = asked \cup {call}
      /\ line' = [line EXCEPT ![c] = Append(@, said)]
      /\ system' = system /\ env' = env /\ record' = record /\ failed' = failed
      /\ drained' = drained /\ told' = told /\ cwd' = cwd
      BY DEF SendFrame, recorder
<1> HIDE DEF call
<1>4. asked \subseteq asked'
      BY <1>3
<1>5. line \in [Tools -> Seq(Frames)] /\ tool \in [Tools -> {"up", "asking", "alone", "gone"}]
      BY <1>1 DEF ToolsTypeOK
<1>6. line'[c] = Append(line[c], said) /\ \A d \in Tools : d # c => line'[d] = line[d]
      BY <1>3, <1>5
<1>7. \A d \in Tools : tool[d] = "gone" => tool'[d] = "gone" /\ d # c
      BY <1>3, <1>5
<1>8. line[c] \in Seq(Frames)
      BY <1>5
<1>9. /\ line'[c] \in Seq(Frames)
      /\ \A i \in DOMAIN line[c] : i \in DOMAIN line'[c] /\ line'[c][i] = line[c][i]
      /\ Len(line[c]) + 1 \in DOMAIN line'[c] /\ line'[c][Len(line[c]) + 1] = said
      /\ \A i \in DOMAIN line'[c] : i \in DOMAIN line[c] \/ i = Len(line[c]) + 1
      BY <1>2, <1>6, <1>8, Appended
<1>10. ToolsTypeOK'
  <2>1. line' \in [Tools -> Seq(Frames)]
        BY <1>3, <1>5, <1>6, <1>9
  <2>2. tool' \in [Tools -> {"up", "asking", "alone", "gone"}]
        BY <1>5
  <2>. QED BY <1>1, <1>3, <2>1, <2>2 DEF ToolsTypeOK, Environments, Windows
<1>11. \A a \in asked' : CallOK(a)'
  <2>1. \A a \in asked' : CallOK(a)
        BY <1>1, <1>3 DEF call
  <2>. QED BY <2>1 DEF CallOK
<1>12. \A d \in Tools : \A i \in DOMAIN line'[d] : FrameOK(d, i)'
  <2> SUFFICES ASSUME NEW d \in Tools, NEW i \in DOMAIN line'[d] PROVE FrameOK(d, i)'
      OBVIOUS
  <2>1. CASE d # c
    <3>1. line'[d] = line[d] /\ i \in DOMAIN line[d]
          BY <1>6, <2>1
    <3>2. FrameOK(d, i)
          BY <1>1, <3>1
    <3>. QED BY <1>4, <1>7, <3>1, <3>2 DEF FrameOK, TornAt
  <2>2. CASE d = c /\ i \in DOMAIN line[c]
    <3>1. FrameOK(c, i) /\ tool[c] # "gone" /\ line'[c][i] = line[c][i]
          BY <1>1, <1>3, <1>9, <2>2
    <3>. QED BY <1>4, <2>2, <3>1 DEF FrameOK, TornAt
  <2>3. CASE d = c /\ i = Len(line[c]) + 1
        BY <1>2, <1>3, <1>9, <2>3 DEF FrameOK
  <2>. QED BY <1>9, <2>1, <2>2, <2>3
<1>13. NoneLost'
  <2> SUFFICES ASSUME ~failed, NEW a \in asked' PROVE Unread(a.frame)' \/ InRecord(a.frame)'
      BY <1>3 DEF NoneLost
  <2>1. CASE a = call
        BY <1>2, <1>9, <2>1 DEF Unread
  <2>2. CASE a \in asked
    <3>1. CASE InRecord(a.frame)
          BY <1>3, <3>1, SameInRecord
    <3>2. CASE Unread(a.frame)
      <4>1. PICK d \in Tools : \E i \in DOMAIN line[d] : line[d][i] = a.frame
            BY <3>2 DEF Unread
      <4>. QED BY <1>6, <1>9, <4>1 DEF Unread
    <3>. QED BY <1>1, <2>2, <3>1, <3>2 DEF NoneLost
  <2>. QED BY <1>3, <2>1, <2>2
<1>14. RecordOK' /\ FailsForCause'
       BY <1>1, <1>3, <1>4, SameRecord, SameCause
<1>15. \A t \in told' : ToldOK(t)'
       BY <1>1, <1>3, SameTold
<1>16. ~drained'
       BY <1>1, <1>3
<1>. QED BY <1>10, <1>11, <1>12, <1>13, <1>14, <1>15, <1>16 DEF ToolsInv

LEMMA IgnoreStep ==
  ASSUME ToolsInv, NEW c \in Tools, Ignore(c)
  PROVE  ToolsInv'
<1>1. PICK kind \in {"input", "output"}, path \in {"rel", "abs"} :
        SendFrame(c, [kind |-> kind, file |-> Resolve(c, path)], Meant(c, path))
      BY DEF Ignore
<1>6. PICK said, meaning : /\ said = [kind |-> kind, file |-> Resolve(c, path)]
                            /\ meaning = Meant(c, path)
      OBVIOUS
<1>2. cwd[c] \in {"pkg", "sub"}
      BY DEF ToolsInv, ToolsTypeOK
<1>3. /\ Resolve(c, path) \in Seq(Folders) /\ Len(Resolve(c, path)) = 2
      /\ Meant(c, path) = Resolve(c, path)
  <2>1. \A a, b \in Folders : <<a, b>> \in Seq(Folders) /\ Len(<<a, b>>) = 2
        OBVIOUS
  <2>2. cwd[c] \in Folders /\ "file" \in Folders /\ "root" \in Folders
        BY <1>2 DEF Folders
  <2>3. Resolve(c, path) = <<cwd[c], "file">> \/ Resolve(c, path) = <<"root", "file">>
        BY DEF Resolve
  <2>4. Meant(c, path) = Resolve(c, path)
        BY DEF Meant, Resolve
  <2>. QED BY <2>1, <2>2, <2>3, <2>4
<1>4. said \in Frames /\ said.kind = kind /\ said.file = Resolve(c, path)
      BY <1>3, <1>6 DEF Frames
<1>5. CallOK([frame |-> said, meant |-> meaning])
      BY <1>3, <1>4, <1>6 DEF CallOK
<1>7. UNCHANGED <<system, env, cwd, recorder, told>> /\ tool' = tool
      BY DEF Ignore
<1>. QED BY <1>1, <1>5, <1>6, <1>7, SaidStep

LEMMA AskStep ==
  ASSUME ToolsInv, NEW c \in Tools, Ask(c)
  PROVE  ToolsInv'
<1>1. UNCHANGED <<system, env, cwd, recorder, told>> /\ tool' = [tool EXCEPT ![c] = "asking"]
      BY DEF Ask
<1>2. PICK option \in {"none", "untracked"} :
        \/ \E n \in {"FOO", "foo"} :
             SendFrame(c, [kind |-> "get", name |-> n, tracked |-> TrackedBy(option)], option)
        \/ \E q \in Queries :
             SendFrame(c, [kind |-> "gets", query |-> q, tracked |-> TrackedBy(option)], option)
      BY DEF Ask
<1>3. TrackedBy(option) \in BOOLEAN /\ (TrackedBy(option) <=> option = "none")
      BY DEF TrackedBy
<1>4. ASSUME NEW n \in {"FOO", "foo"},
             SendFrame(c, [kind |-> "get", name |-> n, tracked |-> TrackedBy(option)], option)
      PROVE  ToolsInv'
  <2> DEFINE said == [kind |-> "get", name |-> n, tracked |-> TrackedBy(option)]
  <2>1. said \in Frames /\ said.kind = "get" /\ said.name = n /\ said.tracked = TrackedBy(option)
        BY <1>3 DEF Frames
  <2> HIDE DEF said
  <2>2. CallOK([frame |-> said, meant |-> option])
        BY <1>3, <2>1 DEF CallOK
  <2>. QED BY <1>1, <1>4, <2>2, SaidStep DEF said
<1>5. ASSUME NEW q \in Queries,
             SendFrame(c, [kind |-> "gets", query |-> q, tracked |-> TrackedBy(option)], option)
      PROVE  ToolsInv'
  <2> DEFINE said == [kind |-> "gets", query |-> q, tracked |-> TrackedBy(option)]
  <2>1. said \in Frames /\ said.kind = "gets" /\ said.query = q /\ said.tracked = TrackedBy(option)
        BY <1>3 DEF Frames
  <2> HIDE DEF said
  <2>2. CallOK([frame |-> said, meant |-> option])
        BY <1>3, <2>1 DEF CallOK
  <2>. QED BY <1>1, <1>5, <2>2, SaidStep DEF said
<1>. QED BY <1>2, <1>4, <1>5

LEMMA SpeakStep ==
  ASSUME ToolsInv, NEW c \in Tools, Speak(c)
  PROVE  ToolsInv'
<1>1. UNCHANGED <<system, env, cwd, recorder, told>> /\ tool' = tool
      BY DEF Speak
<1>2. /\ [kind |-> "output", file |-> <<"file">>] \in Frames /\ [kind |-> "off"] \in Frames
      /\ Len(<<"file">>) = 1
  <2>1. <<"file">> \in Seq(Folders) /\ Len(<<"file">>) = 1
        BY DEF Folders
  <2>. QED BY <2>1 DEF Frames
<1>3. CallOK([frame |-> [kind |-> "output", file |-> <<"file">>], meant |-> "bad"])
      BY <1>2 DEF CallOK
<1>4. CallOK([frame |-> [kind |-> "off"], meant |-> "off"])
      BY <1>2 DEF CallOK
<1>5. CASE SendFrame(c, [kind |-> "output", file |-> <<"file">>], "bad")
      BY <1>1, <1>3, <1>5, SaidStep
<1>6. CASE SendFrame(c, [kind |-> "off"], "off")
      BY <1>1, <1>4, <1>6, SaidStep
<1>. QED BY <1>5, <1>6 DEF Speak

-----------------------------------------------------------------------------
(* The parts of the invariant, one by one.                                 *)
LEMMA ToolsParts ==
  ASSUME ToolsInv
  PROVE  /\ ToolsTypeOK /\ (\A a \in asked : CallOK(a)) /\ NoneLost /\ RecordOK /\ FailsForCause
         /\ \A d \in Tools : \A i \in DOMAIN line[d] : FrameOK(d, i)
         /\ \A t \in told : ToldOK(t)
         /\ drained => \A d \in Tools : tool[d] \in {"alone", "gone"} /\ line[d] = <<>>
         /\ line \in [Tools -> Seq(Frames)] /\ tool \in [Tools -> {"up", "asking", "alone", "gone"}]
BY DEF ToolsInv, ToolsTypeOK

(* The answer changes who waits, and what was heard.                       *)
LEMMA Answered ==
  ASSUME ToolsTypeOK, NEW c \in Tools, NEW said, NEW answer, Answer(c, said, answer)
  PROVE  /\ tool' \in [Tools -> {"up", "asking", "alone", "gone"}]
         /\ \A d \in Tools : tool[d] = "gone" => tool'[d] = "gone"
         /\ told' \subseteq told \cup {[frame |-> said, answer |-> answer]}
BY DEF Answer, ToolsTypeOK

(* A frame that is read was written by a call, and leaves its buffer.      *)
LEMMA ReadStep ==
  ASSUME ToolsInv, NEW c \in Tools, line[c] # <<>>, Head(line[c]).kind # "torn",
         line' = [line EXCEPT ![c] = Tail(@)], UNCHANGED <<system, env, cwd, asked, failed, drained>>,
         tool' \in [Tools -> {"up", "asking", "alone", "gone"}],
         \A d \in Tools : tool[d] = "gone" => tool'[d] = "gone",
         RecordFields(record')
  PROVE  /\ \E a \in asked : a.frame = Head(line[c])
         /\ ToolsTypeOK' /\ (\A a \in asked' : CallOK(a)') /\ FailsForCause'
         /\ \A d \in Tools : \A i \in DOMAIN line'[d] : FrameOK(d, i)'
         /\ \A f : Unread(f) => Unread(f)' \/ f = Head(line[c])
<1>1. line[c] \in Seq(Frames) /\ line'[c] = Tail(line[c]) /\ \A d \in Tools : d # c => line'[d] = line[d]
      BY ToolsParts
<1>2. /\ line'[c] \in Seq(Frames) /\ 1 \in DOMAIN line[c] /\ Head(line[c]) = line[c][1]
      /\ \A i \in DOMAIN line[c] : i = 1 \/ (i - 1 \in DOMAIN line'[c] /\ line'[c][i - 1] = line[c][i])
      /\ \A i \in DOMAIN line'[c] : i + 1 \in DOMAIN line[c] /\ line'[c][i] = line[c][i + 1]
      /\ Len(line'[c]) = Len(line[c]) - 1
  <2> DEFINE s == line[c]
  <2>1. s \in Seq(Frames) /\ s # <<>> /\ line'[c] = Tail(s)
        BY <1>1
  <2> HIDE DEF s
  <2>2. /\ Tail(s) \in Seq(Frames) /\ Head(s) \in Frames /\ 1 \in DOMAIN s /\ Head(s) = s[1]
        /\ \A i \in DOMAIN s : i = 1 \/ (i - 1 \in DOMAIN Tail(s) /\ Tail(s)[i - 1] = s[i])
        /\ \A i \in DOMAIN Tail(s) : i + 1 \in DOMAIN s /\ Tail(s)[i] = s[i + 1]
        /\ Len(Tail(s)) = Len(s) - 1
        BY <2>1, Taken
  <2>. QED BY <2>1, <2>2, Zenon DEF s
<1>3. \E a \in asked : a.frame = Head(line[c])
      BY <1>2, ToolsParts DEF FrameOK, TornAt
<1>4. ToolsTypeOK'
  <2>1. line' \in [Tools -> Seq(Frames)]
        BY <1>1, <1>2, ToolsParts
  <2>2. ToolsTypeOK
        BY ToolsParts
  <2>. QED BY <2>1, <2>2 DEF ToolsTypeOK, Environments, Windows
<1>5. (\A a \in asked' : CallOK(a)') /\ FailsForCause'
  <2>1. \A a \in asked : CallOK(a)
        BY ToolsParts
  <2>. QED BY <2>1, ToolsParts, SameCause DEF CallOK
<1>6. \A d \in Tools : \A i \in DOMAIN line'[d] : FrameOK(d, i)'
  <2> SUFFICES ASSUME NEW d \in Tools, NEW i \in DOMAIN line'[d] PROVE FrameOK(d, i)'
      OBVIOUS
  <2>1. CASE d # c
    <3>1. line'[d] = line[d] /\ FrameOK(d, i)
          BY <1>1, <2>1, ToolsParts
    <3>. QED BY <3>1 DEF FrameOK, TornAt
  <2>2. CASE d = c
    <3>1. i + 1 \in DOMAIN line[c] /\ line'[c][i] = line[c][i + 1] /\ FrameOK(c, i + 1)
          BY <1>2, <2>2, ToolsParts
    <3>2. CASE TornAt(c, i + 1)
      <4>1. Len(line'[c]) = Len(line[c]) - 1 /\ i \in Nat /\ Len(line[c]) \in Nat
            BY <1>1, <1>2, <2>2
      <4>2. i = Len(line'[c])
            BY <3>2, <4>1 DEF TornAt
      <4>. QED BY <2>2, <3>1, <3>2, <4>2 DEF FrameOK, TornAt
    <3>. QED BY <2>2, <3>1, <3>2 DEF FrameOK
  <2>. QED BY <2>1, <2>2
<1>7. \A f : Unread(f) => Unread(f)' \/ f = Head(line[c])
  <2> SUFFICES ASSUME NEW f, Unread(f), f # Head(line[c]) PROVE Unread(f)'
      OBVIOUS
  <2>1. PICK d \in Tools : \E i \in DOMAIN line[d] : line[d][i] = f
        BY DEF Unread
  <2>2. PICK i \in DOMAIN line[d] : line[d][i] = f
        BY <2>1
  <2>3. CASE d # c
        BY <1>1, <2>2, <2>3 DEF Unread
  <2>4. CASE d = c
    <3>1. i - 1 \in DOMAIN line'[c] /\ line'[c][i - 1] = f
          BY <1>2, <2>2, <2>4
    <3>. QED BY <3>1 DEF Unread
  <2>. QED BY <2>3, <2>4
<1>. QED BY <1>3, <1>4, <1>5, <1>6, <1>7

(* The record after it has what the record before had, and the frame.      *)
LEMMA NoneLostStep ==
  ASSUME ToolsInv, NEW said, UNCHANGED <<asked, failed>>,
         \A f : Unread(f) => Unread(f)' \/ f = said,
         InRecord(said)', \A f : InRecord(f) => InRecord(f)'
  PROVE  NoneLost'
BY DEF ToolsInv, NoneLost

LEMMA ServeReportStep ==
  ASSUME ToolsInv, NEW c \in Tools, ServeReport(c)
  PROVE  ToolsInv'
<1>0. PICK said : said = Head(line[c])
      OBVIOUS
<1>1. /\ ~drained /\ line[c] # <<>> /\ line' = [line EXCEPT ![c] = Tail(@)]
      /\ UNCHANGED <<system, env, tool, cwd, failed, drained, asked, told>>
      /\ (said.kind \in {"input", "output"} /\ Len(said.file) = 2) \/ said.kind = "off"
      /\ record' = CASE said.kind = "input"  -> [record EXCEPT !.inputs = @ \cup {said.file}]
                     [] said.kind = "output" -> [record EXCEPT !.outputs = @ \cup {said.file}]
                     [] said.kind = "off"    -> [record EXCEPT !.off = TRUE]
      BY <1>0 DEF ServeReport, calls
<1>2. said.kind # "torn" /\ tool' \in [Tools -> {"up", "asking", "alone", "gone"}]
      BY <1>1, ToolsParts
<1>4. /\ RecordFields(record')
      /\ record'.gets = record.gets /\ record'.queries = record.queries
      /\ record'.inputs = record.inputs \/ (said.kind = "input" /\ record'.inputs = record.inputs \cup {said.file})
      /\ record'.outputs = record.outputs \/ (said.kind = "output" /\ record'.outputs = record.outputs \cup {said.file})
      /\ record'.off = record.off \/ (said.kind = "off" /\ record'.off = TRUE)
      /\ record.inputs \subseteq record'.inputs /\ record.outputs \subseteq record'.outputs
      /\ said.kind = "input" => said.file \in record'.inputs
      /\ said.kind = "output" => said.file \in record'.outputs
      /\ record.off => record'.off
      /\ said.kind = "off" => record'.off
  <2>1. RecordFields(record)
        BY DEF ToolsInv, ToolsTypeOK
  <2>. QED BY <1>1, <2>1 DEF RecordFields
<1>3. /\ \E a \in asked : a.frame = said
      /\ ToolsTypeOK' /\ (\A a \in asked' : CallOK(a)') /\ FailsForCause'
      /\ \A d \in Tools : \A i \in DOMAIN line'[d] : FrameOK(d, i)'
      /\ \A f : Unread(f) => Unread(f)' \/ f = said
      BY <1>0, <1>1, <1>2, <1>4, ReadStep
<1>5. NoneLost'
  <2>1. InRecord(said)'
        BY <1>1, <1>4 DEF InRecord
  <2>2. ASSUME NEW f, InRecord(f) PROVE InRecord(f)'
        BY <1>1, <1>4, <2>2 DEF InRecord, Windows, Equal
  <2>. QED BY <1>1, <1>3, <2>1, <2>2, NoneLostStep
<1>6. RecordOK'
  <2>1. RecordOK
        BY ToolsParts
  <2>2. \A kind : Of(kind)' = Of(kind) /\ AskedTracked(kind)' = AskedTracked(kind)
        BY <1>1 DEF Of, AskedTracked
  <2>3. said.kind \in {"input", "output", "off"} => \E a \in Of(said.kind) : a.frame = said
        BY <1>3 DEF Of
  <2>4. \A p \in record'.inputs : \E a \in Of("input")' : a.frame.file = p
        BY <1>4, <2>1, <2>2, <2>3 DEF RecordOK
  <2>5. \A p \in record'.outputs : \E a \in Of("output")' : a.frame.file = p
        BY <1>4, <2>1, <2>2, <2>3 DEF RecordOK
  <2>6. record'.off => Of("off")' # {}
        BY <1>4, <2>1, <2>2, <2>3 DEF RecordOK
  <2>7. \A n \in DOMAIN record'.gets :
          (\E f \in AskedTracked("get")' : f.name = n) /\ record'.gets[n] = Lookup(n)'
    <3>1. \A n \in DOMAIN record.gets :
            (\E f \in AskedTracked("get") : f.name = n) /\ record.gets[n] = Lookup(n)
          BY <2>1 DEF RecordOK
    <3>2. \A n : Lookup(n)' = Lookup(n)
          BY <1>1, SameEnvironment
    <3>. QED BY <1>4, <2>2, <3>1, <3>2
  <2>8. \A q \in DOMAIN record'.queries :
          (\E f \in AskedTracked("gets")' : f.query = q) /\ record'.queries[q] = Valued(Matches(q))'
    <3>1. \A q \in DOMAIN record.queries :
            (\E f \in AskedTracked("gets") : f.query = q) /\ record.queries[q] = Valued(Matches(q))
          BY <2>1 DEF RecordOK
    <3>2. \A q : Valued(Matches(q))' = Valued(Matches(q))
          BY <1>1, SameEnvironment
    <3>. QED BY <1>4, <2>2, <3>1, <3>2
  <2>. QED BY <2>4, <2>5, <2>6, <2>7, <2>8 DEF RecordOK
<1>7. \A t \in told' : ToldOK(t)'
      BY <1>1, ToolsParts, SameTold
<1>. QED BY <1>1, <1>3, <1>5, <1>6, <1>7 DEF ToolsInv

(* A frame that was written by a tracked call asks a tracked question.     *)
LEMMA FrameAsked ==
  ASSUME ToolsInv, NEW said, \E a \in asked : a.frame = said
  PROVE  /\ said.kind = "get" => said.name \in {"FOO", "foo"} /\ said.tracked \in BOOLEAN
         /\ said.kind = "gets" => said.query \in Queries /\ said.tracked \in BOOLEAN
         /\ said.kind \in {"get", "gets"} /\ said.tracked => said \in AskedTracked(said.kind)
<1>1. PICK a \in asked : a.frame = said
      OBVIOUS
<1>2. CallOK(a)
      BY ToolsParts
<1>3. said \in Frames
      BY <1>1, <1>2 DEF CallOK
<1>4. said.kind \in {"get", "gets"} => said.tracked \in BOOLEAN
      BY <1>3 DEF Frames
<1>. QED BY <1>1, <1>2, <1>4 DEF CallOK, AskedTracked, Of

LEMMA ServeGetStep ==
  ASSUME ToolsInv, NEW c \in Tools, ServeGet(c)
  PROVE  ToolsInv'
<1>0. PICK said : said = Head(line[c])
      OBVIOUS
<1>1. /\ ~drained /\ line[c] # <<>> /\ line' = [line EXCEPT ![c] = Tail(@)]
      /\ UNCHANGED <<system, env, cwd, failed, drained, asked>>
      /\ said.kind = "get" /\ Answer(c, said, Heard(Lookup(said.name)))
      /\ record' = IF said.tracked /\ Equal(Windows, record.gets, said.name) = {}
                   THEN [record EXCEPT !.gets = Insert(Windows, @, said.name, Lookup(said.name))]
                   ELSE record
      BY <1>0 DEF ServeGet
<1>2. PICK gets : gets = Insert(Windows, record.gets, said.name, Lookup(said.name))
      OBVIOUS
<1>3. /\ RecordFields(record')
      /\ record'.inputs = record.inputs /\ record'.outputs = record.outputs
      /\ record'.off = record.off /\ record'.queries = record.queries
      /\ \/ /\ record'.gets = record.gets
            /\ ~(said.tracked /\ Equal(Windows, record.gets, said.name) = {})
         \/ /\ record'.gets = gets /\ said.tracked
            /\ Equal(Windows, record.gets, said.name) = {}
  <2>1. RecordFields(record)
        BY DEF ToolsInv, ToolsTypeOK
  <2>. QED BY <1>1, <1>2, <2>1 DEF RecordFields
<1>4. /\ tool' \in [Tools -> {"up", "asking", "alone", "gone"}]
      /\ \A d \in Tools : tool[d] = "gone" => tool'[d] = "gone"
      /\ told' \subseteq told \cup {[frame |-> said, answer |-> Heard(Lookup(said.name))]}
      BY <1>1, Answered, ToolsParts
<1>5. /\ \E a \in asked : a.frame = said
      /\ ToolsTypeOK' /\ (\A a \in asked' : CallOK(a)') /\ FailsForCause'
      /\ \A d \in Tools : \A i \in DOMAIN line'[d] : FrameOK(d, i)'
      /\ \A f : Unread(f) => Unread(f)' \/ f = said
      BY <1>0, <1>1, <1>3, <1>4, ReadStep
<1>6. Equal(Windows, record.gets, said.name) = {} =>
        /\ DOMAIN gets = DOMAIN record.gets \cup {said.name}
        /\ gets[said.name] = Lookup(said.name)
        /\ \A n \in DOMAIN record.gets : gets[n] = record.gets[n]
  <2> SUFFICES ASSUME Equal(Windows, record.gets, said.name) = {}
               PROVE  /\ DOMAIN gets = DOMAIN record.gets \cup {said.name}
                      /\ gets[said.name] = Lookup(said.name)
                      /\ \A n \in DOMAIN record.gets : gets[n] = record.gets[n]
      OBVIOUS
  <2>1. gets = [k \in DOMAIN record.gets \cup {said.name} |->
                  IF k \in {said.name} THEN Lookup(said.name) ELSE record.gets[k]]
        BY <1>2 DEF Insert
  <2>2. said.name \notin DOMAIN record.gets
        BY DEF Equal, SameName
  <2>. QED BY <2>1, <2>2
<1>7. NoneLost'
  <2>1. ASSUME NEW f, InRecord(f) PROVE InRecord(f)'
        BY <1>1, <1>3, <1>6, <2>1 DEF InRecord, Windows, Equal
  <2>2. said.tracked => Equal(Windows, record.gets, said.name)' # {}
        BY <1>1, <1>3, <1>6 DEF Windows, Equal, SameName
  <2>3. InRecord(said)'
        BY <1>1, <2>2 DEF InRecord
  <2>. QED BY <1>1, <1>5, <2>1, <2>3, NoneLostStep
<1>8. RecordOK'
  <2>1. RecordOK
        BY ToolsParts
  <2>2. \A kind : Of(kind)' = Of(kind) /\ AskedTracked(kind)' = AskedTracked(kind)
        BY <1>1 DEF Of, AskedTracked
  <2>3. said.tracked => said \in AskedTracked("get")
        BY <1>1, <1>5, FrameAsked
  <2>4. \A n \in DOMAIN record'.gets :
          (\E f \in AskedTracked("get") : f.name = n) /\ record'.gets[n] = Lookup(n)
        BY <1>3, <1>6, <2>1, <2>3 DEF RecordOK
  <2>5. \A n \in DOMAIN record'.gets :
          (\E f \in AskedTracked("get")' : f.name = n) /\ record'.gets[n] = Lookup(n)'
        BY <1>1, <2>2, <2>4, SameEnvironment
  <2>6. \A q \in DOMAIN record'.queries :
          (\E f \in AskedTracked("gets")' : f.query = q) /\ record'.queries[q] = Valued(Matches(q))'
    <3>1. \A q \in DOMAIN record.queries :
            (\E f \in AskedTracked("gets") : f.query = q) /\ record.queries[q] = Valued(Matches(q))
          BY <2>1 DEF RecordOK
    <3>2. \A q : Valued(Matches(q))' = Valued(Matches(q))
          BY <1>1, SameEnvironment
    <3>. QED BY <1>3, <2>2, <3>1, <3>2
  <2>7. /\ \A p \in record'.inputs : \E a \in Of("input")' : a.frame.file = p
        /\ \A p \in record'.outputs : \E a \in Of("output")' : a.frame.file = p
        /\ record'.off => Of("off")' # {}
        BY <1>3, <2>1, <2>2 DEF RecordOK
  <2>. QED BY <2>5, <2>6, <2>7 DEF RecordOK
<1>9. \A t \in told' : ToldOK(t)'
  <2>1. PICK t : t = [frame |-> said, answer |-> Heard(Lookup(said.name))]
        OBVIOUS
  <2>2. ToldOK(t)
        BY <1>1, <1>5, <2>1, FrameAsked DEF ToldOK
  <2>. QED BY <1>1, <1>4, <2>1, <2>2, ToolsParts, SameTold
<1>. QED BY <1>1, <1>5, <1>7, <1>8, <1>9 DEF ToolsInv

LEMMA ServeGetsStep ==
  ASSUME ToolsInv, NEW c \in Tools, ServeGets(c)
  PROVE  ToolsInv'
<1>0. PICK said : said = Head(line[c])
      OBVIOUS
<1>1. PICK key, found :
        /\ key = QueryKey(said.query)
        /\ found = IF key \in DOMAIN record.queries THEN record.queries[key]
                   ELSE Valued(Matches(said.query))
      OBVIOUS
<1>13. PICK queries :
        queries = [q \in DOMAIN record.queries \cup {key} |->
                     IF q = key THEN found ELSE record.queries[q]]
      OBVIOUS
<1>2. /\ ~drained /\ line[c] # <<>> /\ line' = [line EXCEPT ![c] = Tail(@)]
      /\ UNCHANGED <<system, env, cwd, failed, drained, asked>>
      /\ said.kind = "gets" /\ said.query # "glob [" /\ Answer(c, said, HeardAll(found))
      /\ record' = IF Keep(said) THEN [record EXCEPT !.queries = queries] ELSE record
      BY <1>0, <1>1, <1>13 DEF ServeGets
<1>3. /\ key = said.query /\ (Keep(said) <=> said.tracked)
      /\ found = Valued(Matches(said.query))
      BY <1>1, ToolsParts DEF QueryKey, Keep, RecordOK
<1>4. /\ RecordFields(record')
      /\ record'.inputs = record.inputs /\ record'.outputs = record.outputs
      /\ record'.off = record.off /\ record'.gets = record.gets
      /\ \/ record'.queries = record.queries /\ ~said.tracked
         \/ record'.queries = queries /\ said.tracked
  <2>1. RecordFields(record)
        BY DEF ToolsInv, ToolsTypeOK
  <2>. QED BY <1>2, <1>3, <2>1 DEF RecordFields
<1>5. /\ tool' \in [Tools -> {"up", "asking", "alone", "gone"}]
      /\ \A d \in Tools : tool[d] = "gone" => tool'[d] = "gone"
      /\ told' \subseteq told \cup {[frame |-> said, answer |-> HeardAll(found)]}
      BY <1>2, Answered, ToolsParts
<1>6. /\ \E a \in asked : a.frame = said
      /\ ToolsTypeOK' /\ (\A a \in asked' : CallOK(a)') /\ FailsForCause'
      /\ \A d \in Tools : \A i \in DOMAIN line'[d] : FrameOK(d, i)'
      /\ \A f : Unread(f) => Unread(f)' \/ f = said
      BY <1>0, <1>2, <1>4, <1>5, ReadStep
<1>7. /\ DOMAIN record.queries \subseteq DOMAIN record'.queries
      /\ said.tracked => key \in DOMAIN record'.queries
      /\ \A q \in DOMAIN record'.queries :
           \/ q \in DOMAIN record.queries /\ record'.queries[q] = record.queries[q]
           \/ q = key /\ record'.queries[q] = found /\ said.tracked
      BY <1>4, <1>13
<1>8. NoneLost'
  <2>1. ASSUME NEW f, InRecord(f) PROVE InRecord(f)'
        BY <1>2, <1>4, <1>7, <2>1 DEF InRecord, Windows, Equal
  <2>2. InRecord(said)'
        BY <1>2, <1>3, <1>7 DEF InRecord
  <2>. QED BY <1>2, <1>6, <2>1, <2>2, NoneLostStep
<1>9. RecordOK'
  <2>1. RecordOK
        BY ToolsParts
  <2>2. \A kind : Of(kind)' = Of(kind) /\ AskedTracked(kind)' = AskedTracked(kind)
        BY <1>2 DEF Of, AskedTracked
  <2>3. said.tracked => said \in AskedTracked("gets")
        BY <1>2, <1>6, FrameAsked
  <2>4. \A q \in DOMAIN record'.queries :
          (\E f \in AskedTracked("gets") : f.query = q) /\ record'.queries[q] = Valued(Matches(q))
    <3> SUFFICES ASSUME NEW q \in DOMAIN record'.queries
                 PROVE  /\ \E f \in AskedTracked("gets") : f.query = q
                        /\ record'.queries[q] = Valued(Matches(q))
        OBVIOUS
    <3>1. CASE q \in DOMAIN record.queries /\ record'.queries[q] = record.queries[q]
          BY <2>1, <3>1 DEF RecordOK
    <3>2. CASE q = key /\ record'.queries[q] = found /\ said.tracked
          BY <1>3, <2>3, <3>2
    <3>. QED BY <1>7, <3>1, <3>2
  <2>5. \A n \in DOMAIN record'.gets :
          (\E f \in AskedTracked("get")' : f.name = n) /\ record'.gets[n] = Lookup(n)'
    <3>1. \A n \in DOMAIN record.gets :
            (\E f \in AskedTracked("get") : f.name = n) /\ record.gets[n] = Lookup(n)
          BY <2>1 DEF RecordOK
    <3>2. \A n : Lookup(n)' = Lookup(n)
          BY <1>2, SameEnvironment
    <3>. QED BY <1>4, <2>2, <3>1, <3>2
  <2>6. \A q \in DOMAIN record'.queries :
          (\E f \in AskedTracked("gets")' : f.query = q) /\ record'.queries[q] = Valued(Matches(q))'
        BY <1>2, <2>2, <2>4, SameEnvironment
  <2>7. /\ \A p \in record'.inputs : \E a \in Of("input")' : a.frame.file = p
        /\ \A p \in record'.outputs : \E a \in Of("output")' : a.frame.file = p
        /\ record'.off => Of("off")' # {}
        BY <1>4, <2>1, <2>2 DEF RecordOK
  <2>. QED BY <2>5, <2>6, <2>7 DEF RecordOK
<1>10. \A t \in told' : ToldOK(t)'
  <2>1. PICK t : t = [frame |-> said, answer |-> HeardAll(found)]
        OBVIOUS
  <2>2. ToldOK(t)
        BY <1>2, <1>3, <1>6, <2>1, FrameAsked DEF ToldOK
  <2>. QED BY <1>2, <1>5, <2>1, <2>2, ToolsParts, SameTold
<1>. QED BY <1>2, <1>6, <1>8, <1>9, <1>10 DEF ToolsInv

LEMMA RefuseStep ==
  ASSUME ToolsInv, NEW c \in Tools, Refuse(c)
  PROVE  ToolsInv'
<1>0. PICK said : said = Head(line[c])
      OBVIOUS
<1>1. /\ ~drained /\ line[c] # <<>> /\ line' = [line EXCEPT ![c] = <<>>] /\ failed' = TRUE
      /\ UNCHANGED <<system, env, cwd, record, drained, asked, told>>
      /\ tool' = [tool EXCEPT ![c] = IF @ = "gone" THEN "gone" ELSE "alone"]
      /\ \/ said.kind = "gets" /\ said.query = "glob ["
         \/ said.kind \in {"input", "output"} /\ Len(said.file) # 2
      BY <1>0 DEF Refuse, calls
<1>2. \E a \in asked : a.frame = said
  <2>1. line[c] \in Seq(Frames) /\ 1 \in DOMAIN line[c] /\ said = line[c][1]
        BY <1>0, <1>1, ToolsParts, Taken
  <2>2. FrameOK(c, 1) /\ said.kind # "torn"
        BY <1>1, <2>1, ToolsParts
  <2>. QED BY <2>1, <2>2 DEF FrameOK, TornAt
<1>3. FailsForCause'
  <2>1. PICK a \in asked : a.frame = said
        BY <1>2
  <2>2. CallOK(a)
        BY ToolsParts
  <2>3. CASE said.kind = "gets" /\ said.query = "glob ["
        BY <1>1, <2>1, <2>3 DEF FailsForCause, Of
  <2>4. CASE said.kind \in {"input", "output"} /\ Len(said.file) # 2
        BY <1>1, <2>1, <2>2, <2>4 DEF FailsForCause, Of, Files, CallOK
  <2>. QED BY <1>1, <2>3, <2>4
<1>4. /\ line'[c] = <<>> /\ line' \in [Tools -> Seq(Frames)]
      /\ \A d \in Tools : d # c => line'[d] = line[d]
      /\ tool' \in [Tools -> {"up", "asking", "alone", "gone"}]
      /\ \A d \in Tools : tool[d] = "gone" => tool'[d] = "gone"
  <2>1. <<>> \in Seq(Frames)
        OBVIOUS
  <2>2. line \in [Tools -> Seq(Frames)] /\ tool \in [Tools -> {"up", "asking", "alone", "gone"}]
        BY ToolsParts
  <2>. QED BY <1>1, <2>1, <2>2
<1>5. ToolsTypeOK'
      BY <1>1, <1>4, ToolsParts DEF ToolsTypeOK, Environments, Windows, RecordFields
<1>6. \A d \in Tools : \A i \in DOMAIN line'[d] : FrameOK(d, i)'
  <2> SUFFICES ASSUME NEW d \in Tools, NEW i \in DOMAIN line'[d] PROVE FrameOK(d, i)'
      OBVIOUS
  <2>1. d # c /\ line'[d] = line[d] /\ FrameOK(d, i)
        BY <1>4, ToolsParts
  <2>. QED BY <1>1, <1>4, <2>1 DEF FrameOK, TornAt
<1>7. RecordOK' /\ (\A t \in told' : ToldOK(t)') /\ (\A a \in asked' : CallOK(a)') /\ NoneLost'
  <2>1. RecordOK'
        BY <1>1, ToolsParts, SameRecord
  <2>2. \A t \in told' : ToldOK(t)'
        BY <1>1, ToolsParts, SameTold
  <2>3. \A a \in asked : CallOK(a)
        BY ToolsParts
  <2>. QED BY <1>1, <2>1, <2>2, <2>3 DEF NoneLost, CallOK
<1>. QED BY <1>1, <1>3, <1>5, <1>6, <1>7 DEF ToolsInv

(* A torn frame is the last of its buffer: no frame of a call goes with    *)
(* it.                                                                     *)
LEMMA ServeTornStep ==
  ASSUME ToolsInv, NEW c \in Tools, ServeTorn(c)
  PROVE  ToolsInv'
<1>1. /\ ~drained /\ line[c] # <<>> /\ line' = [line EXCEPT ![c] = <<>>]
      /\ UNCHANGED <<system, env, tool, cwd, record, failed, drained, asked, told>>
      /\ Head(line[c]).kind = "torn"
      BY DEF ServeTorn, calls, recorder
<1>2. /\ line[c] \in Seq(Frames) /\ Len(line[c]) = 1 /\ Head(line[c]) = line[c][1]
  <2>1. line[c] \in Seq(Frames) /\ 1 \in DOMAIN line[c] /\ Head(line[c]) = line[c][1]
        BY <1>1, ToolsParts
  <2>2. FrameOK(c, 1)
        BY <2>1, ToolsParts
  <2>3. \A a \in asked : a.frame.kind # "torn"
        BY ToolsParts DEF CallOK
  <2>. QED BY <1>1, <2>1, <2>2, <2>3 DEF FrameOK, TornAt
<1>3. /\ line'[c] = <<>> /\ line' \in [Tools -> Seq(Frames)]
      /\ \A d \in Tools : d # c => line'[d] = line[d]
      BY <1>1, ToolsParts
<1>4. ToolsTypeOK'
      BY <1>1, <1>3, ToolsParts DEF ToolsTypeOK, Environments, Windows, RecordFields
<1>5. \A d \in Tools : \A i \in DOMAIN line'[d] : FrameOK(d, i)'
  <2> SUFFICES ASSUME NEW d \in Tools, NEW i \in DOMAIN line'[d] PROVE FrameOK(d, i)'
      OBVIOUS
  <2>1. d # c /\ line'[d] = line[d] /\ FrameOK(d, i)
        BY <1>3, ToolsParts
  <2>. QED BY <1>1, <2>1 DEF FrameOK, TornAt
<1>6. NoneLost'
  <2> SUFFICES ASSUME ~failed, NEW a \in asked PROVE Unread(a.frame)' \/ InRecord(a.frame)'
      BY <1>1 DEF NoneLost
  <2>1. CASE InRecord(a.frame)
        BY <1>1, <2>1, SameInRecord
  <2>2. CASE Unread(a.frame)
    <3>1. PICK d \in Tools : \E i \in DOMAIN line[d] : line[d][i] = a.frame
          BY <2>2 DEF Unread
    <3>2. a.frame.kind # "torn"
          BY ToolsParts DEF CallOK
    <3>3. d # c
          BY <1>1, <1>2, <3>1, <3>2
    <3>. QED BY <1>3, <3>1, <3>3 DEF Unread
  <2>. QED BY <2>1, <2>2, ToolsParts DEF NoneLost
<1>7. RecordOK' /\ (\A t \in told' : ToldOK(t)') /\ (\A a \in asked' : CallOK(a)') /\ FailsForCause'
  <2>1. RecordOK' /\ FailsForCause'
        BY <1>1, ToolsParts, SameRecord, SameCause
  <2>2. \A t \in told' : ToldOK(t)'
        BY <1>1, ToolsParts, SameTold
  <2>3. \A a \in asked : CallOK(a)
        BY ToolsParts
  <2>. QED BY <1>1, <2>1, <2>2, <2>3 DEF CallOK
<1>. QED BY <1>1, <1>4, <1>5, <1>6, <1>7 DEF ToolsInv

(* A tool that moves, leaves or dies sends nothing whole.                  *)
LEMMA EndsStep ==
  ASSUME ToolsInv, NEW c \in Tools, Chdir(c) \/ Quit(c) \/ Dies(c)
  PROVE  ToolsInv'
<1>1. /\ UNCHANGED <<system, env, record, failed, drained, asked, told>>
      /\ tool[c] \in {"up", "asking"}
      /\ cwd' = cwd \/ cwd' = [cwd EXCEPT ![c] = "sub"]
      /\ tool' = tool \/ tool' = [tool EXCEPT ![c] = "gone"]
      /\ \/ line' = line
         \/ /\ line' = [line EXCEPT ![c] = Append(@, [kind |-> "torn"])]
            /\ tool' = [tool EXCEPT ![c] = "gone"]
      BY DEF Chdir, Quit, Dies, calls, recorder
<1>2. PICK torn : torn = [kind |-> "torn"]
      OBVIOUS
<1>3. torn \in Frames /\ torn.kind = "torn"
      BY <1>2 DEF Frames
<1>4. /\ line[c] \in Seq(Frames) /\ ~drained
      /\ \A d \in Tools : d # c => line'[d] = line[d]
      /\ line' \in [Tools -> Seq(Frames)]
      /\ \A d \in Tools : tool[d] = "gone" => tool'[d] = "gone" /\ d # c
      /\ tool' \in [Tools -> {"up", "asking", "alone", "gone"}]
      /\ cwd' \in [Tools -> {"pkg", "sub"}]
  <2>1. line[c] \in Seq(Frames) /\ Append(line[c], torn) \in Seq(Frames)
        BY <1>3, ToolsParts, Appended
  <2>. QED BY <1>1, <1>2, <2>1, ToolsParts DEF ToolsTypeOK
<1>5. /\ \A i \in DOMAIN line[c] : i \in DOMAIN line'[c] /\ line'[c][i] = line[c][i]
      /\ \A i \in DOMAIN line'[c] :
           \/ i \in DOMAIN line[c]
           \/ line'[c][i].kind = "torn" /\ i = Len(line'[c]) /\ tool'[c] = "gone"
  <2>1. CASE line' = line
        BY <2>1
  <2>2. CASE line'[c] = Append(line[c], torn) /\ tool'[c] = "gone"
    <3>1. /\ Len(line'[c]) = Len(line[c]) + 1
          /\ \A i \in DOMAIN line[c] : i \in DOMAIN line'[c] /\ line'[c][i] = line[c][i]
          /\ line'[c][Len(line[c]) + 1] = torn
          /\ \A i \in DOMAIN line'[c] : i \in DOMAIN line[c] \/ i = Len(line[c]) + 1
          BY <1>3, <1>4, <2>2, Appended
    <3>. QED BY <1>3, <2>2, <3>1
  <2>. QED BY <1>1, <1>2, <2>1, <2>2, ToolsParts
<1>6. ToolsTypeOK'
      BY <1>1, <1>4, ToolsParts DEF ToolsTypeOK, Environments, Windows, RecordFields
<1>7. \A d \in Tools : \A i \in DOMAIN line'[d] : FrameOK(d, i)'
  <2> SUFFICES ASSUME NEW d \in Tools, NEW i \in DOMAIN line'[d] PROVE FrameOK(d, i)'
      OBVIOUS
  <2>1. CASE d # c
    <3>1. line'[d] = line[d] /\ FrameOK(d, i)
          BY <1>4, <2>1, ToolsParts
    <3>. QED BY <1>1, <1>4, <3>1 DEF FrameOK, TornAt
  <2>2. CASE d = c /\ i \in DOMAIN line[c]
    <3>1. FrameOK(c, i) /\ tool[c] # "gone" /\ line'[c][i] = line[c][i]
          BY <1>1, <1>5, <2>2, ToolsParts
    <3>. QED BY <1>1, <2>2, <3>1 DEF FrameOK, TornAt
  <2>3. CASE d = c /\ i \notin DOMAIN line[c]
        BY <1>5, <2>3 DEF FrameOK, TornAt
  <2>. QED BY <2>1, <2>2, <2>3
<1>8. NoneLost'
  <2> SUFFICES ASSUME ~failed, NEW a \in asked PROVE Unread(a.frame)' \/ InRecord(a.frame)'
      BY <1>1 DEF NoneLost
  <2>1. CASE InRecord(a.frame)
        BY <1>1, <2>1, SameInRecord
  <2>2. CASE Unread(a.frame)
    <3>1. PICK d \in Tools : \E i \in DOMAIN line[d] : line[d][i] = a.frame
          BY <2>2 DEF Unread
    <3>2. PICK i \in DOMAIN line[d] : line[d][i] = a.frame
          BY <3>1
    <3>3. CASE d = c
          BY <1>5, <3>2, <3>3 DEF Unread
    <3>4. CASE d # c
          BY <1>4, <3>2, <3>4 DEF Unread
    <3>. QED BY <3>3, <3>4
  <2>. QED BY <2>1, <2>2, ToolsParts DEF NoneLost
<1>9. RecordOK' /\ (\A t \in told' : ToldOK(t)') /\ (\A a \in asked' : CallOK(a)') /\ FailsForCause'
  <2>1. RecordOK' /\ FailsForCause'
        BY <1>1, ToolsParts, SameRecord, SameCause
  <2>2. \A t \in told' : ToldOK(t)'
        BY <1>1, ToolsParts, SameTold
  <2>3. \A a \in asked : CallOK(a)
        BY ToolsParts
  <2>. QED BY <1>1, <2>1, <2>2, <2>3 DEF CallOK
<1>. QED BY <1>1, <1>4, <1>6, <1>7, <1>8, <1>9 DEF ToolsInv

(* A step that changes none of it, and the driver's end.                   *)
LEMMA DriverEndsStep ==
  ASSUME ToolsInv, DriverEnds \/ UNCHANGED toolVars
  PROVE  ToolsInv'
<1>1. /\ UNCHANGED <<system, env, tool, cwd, line, record, failed, asked, told>>
      /\ drained' = drained \/ (drained' = TRUE /\ \A c \in Tools : tool[c] \in {"alone", "gone"} /\ line[c] = <<>>)
      BY DEF DriverEnds, toolVars, calls, recorder
<1>2. ToolsTypeOK'
      BY <1>1, ToolsParts DEF ToolsTypeOK, Environments, Windows, RecordFields
<1>3. \A d \in Tools : \A i \in DOMAIN line'[d] : FrameOK(d, i)'
      BY <1>1, ToolsParts DEF FrameOK, TornAt
<1>4. NoneLost'
      BY <1>1, ToolsParts, SameInRecord DEF NoneLost, Unread
<1>5. RecordOK' /\ (\A t \in told' : ToldOK(t)') /\ (\A a \in asked' : CallOK(a)') /\ FailsForCause'
  <2>1. RecordOK' /\ FailsForCause'
        BY <1>1, ToolsParts, SameRecord, SameCause
  <2>2. \A t \in told' : ToldOK(t)'
        BY <1>1, ToolsParts, SameTold
  <2>3. \A a \in asked : CallOK(a)
        BY ToolsParts
  <2>. QED BY <1>1, <2>1, <2>2, <2>3 DEF CallOK
<1>. QED BY <1>1, <1>2, <1>3, <1>4, <1>5, ToolsParts DEF ToolsInv

LEMMA ToolsInitInv ==
  ToolsInit => ToolsInv
<1> SUFFICES ASSUME ToolsInit PROVE ToolsInv
    OBVIOUS
<1>1. /\ asked = {} /\ told = {} /\ failed = FALSE /\ drained = FALSE
      /\ \A c \in Tools : line[c] = <<>>
      /\ record = [inputs |-> {}, outputs |-> {}, off |-> FALSE, gets |-> <<>>, queries |-> <<>>]
      BY DEF ToolsInit
<1>2. ToolsTypeOK
  <2>1. line \in [Tools -> Seq(Frames)] /\ cwd \in [Tools -> {"pkg", "sub"}]
    <3>1. <<>> \in Seq(Frames)
          OBVIOUS
    <3>. QED BY <3>1 DEF ToolsInit
  <2>2. RecordFields(record)
        BY <1>1 DEF RecordFields
  <2>3. tool \in [Tools -> {"up", "asking", "alone", "gone"}]
        BY DEF ToolsInit
  <2>. QED BY <1>1, <2>1, <2>2, <2>3 DEF ToolsInit, ToolsTypeOK
<1>3. RecordOK
  <2>1. /\ record.inputs = {} /\ record.outputs = {} /\ record.off = FALSE
        /\ record.gets = <<>> /\ record.queries = <<>>
        BY <1>1
  <2>2. DOMAIN <<>> = {}
        OBVIOUS
  <2>3. DOMAIN record.gets = {} /\ DOMAIN record.queries = {}
        BY <2>1, <2>2
  <2>. QED BY <2>1, <2>3 DEF RecordOK
<1>4. \A c \in Tools : \A i \in DOMAIN line[c] : FrameOK(c, i)
  <2>1. DOMAIN <<>> = {}
        OBVIOUS
  <2>. QED BY <1>1, <2>1
<1>5. NoneLost /\ FailsForCause /\ (\A a \in asked : CallOK(a)) /\ (\A t \in told : ToldOK(t))
      BY <1>1 DEF NoneLost, FailsForCause
<1>. QED BY <1>1, <1>2, <1>3, <1>4, <1>5 DEF ToolsInv

LEMMA ToolsStep ==
  ToolsInv /\ [ToolsNext]_toolVars => ToolsInv'
<1> SUFFICES ASSUME ToolsInv, [ToolsNext]_toolVars PROVE ToolsInv'
    OBVIOUS
<1>1. ASSUME NEW c \in Tools, Chdir(c) \/ Quit(c) \/ Dies(c) PROVE ToolsInv'
      BY <1>1, EndsStep
<1>2. ASSUME NEW c \in Tools, Ignore(c) PROVE ToolsInv'
      BY <1>2, IgnoreStep
<1>3. ASSUME NEW c \in Tools, Ask(c) PROVE ToolsInv'
      BY <1>3, AskStep
<1>4. ASSUME NEW c \in Tools, Speak(c) PROVE ToolsInv'
      BY <1>4, SpeakStep
<1>5. ASSUME NEW c \in Tools, ServeReport(c) PROVE ToolsInv'
      BY <1>5, ServeReportStep
<1>6. ASSUME NEW c \in Tools, ServeGet(c) PROVE ToolsInv'
      BY <1>6, ServeGetStep
<1>7. ASSUME NEW c \in Tools, ServeGets(c) PROVE ToolsInv'
      BY <1>7, ServeGetsStep
<1>8. ASSUME NEW c \in Tools, Refuse(c) PROVE ToolsInv'
      BY <1>8, RefuseStep
<1>9. ASSUME NEW c \in Tools, ServeTorn(c) PROVE ToolsInv'
      BY <1>9, ServeTornStep
<1>10. CASE DriverEnds \/ UNCHANGED toolVars
      BY <1>10, DriverEndsStep
<1>. QED BY <1>1, <1>2, <1>3, <1>4, <1>5, <1>6, <1>7, <1>8, <1>9, <1>10 DEF ToolsNext

-----------------------------------------------------------------------------
(* What the platform finds under a name, and what a query matches.         *)
LEMMA NamesFound ==
  ASSUME system \in {"unix", "windows"}, NEW name
  PROVE  Equal(Windows, env, name) =
           {m \in DOMAIN env : m = name \/ (Windows /\ Upper(m) = Upper(name))}
BY DEF Equal, SameName, Fold

LEMMA EnvironmentNames ==
  ASSUME env \in Environments
  PROVE  DOMAIN env \subseteq {"FOO", "foo", "BAR"}
BY DEF Environments

LEMMA QueryFinds ==
  ASSUME ToolsTypeOK, NEW q \in Queries \ {"glob ["}
  PROVE  Matches(q) = {n \in DOMAIN env : /\ q \in {"glob f*", "prefix f"}
                                          /\ n = "foo" \/ (Windows /\ n = "FOO")}
<1>1. DOMAIN env \subseteq {"FOO", "foo", "BAR"}
      BY EnvironmentNames DEF ToolsTypeOK
<1>2. ASSUME NEW n \in {"FOO", "foo", "BAR"}
      PROVE  /\ Starts(Windows, n, "f") <=> n = "foo" \/ (Windows /\ n = "FOO")
             /\ ~SameName(Windows, n, "f")
      BY <1>2 DEF Starts, SameName, Fold, First, Upper
<1>3. CASE q \in {"glob f*", "prefix f"}
      BY <1>1, <1>2, <1>3 DEF Matches
<1>4. CASE q = "glob f"
      BY <1>1, <1>2, <1>4 DEF Matches
<1>. QED BY <1>3, <1>4 DEF Queries

(* Names that are the same are found, or not, alike.                       *)
LEMMA SameLookup ==
  ASSUME NEW a, NEW b, SameName(Windows, a, b)
  PROVE  Lookup(a) = Lookup(b)
<1>1. Equal(Windows, env, a) = Equal(Windows, env, b)
      BY DEF Equal, SameName
<1>. QED BY <1>1 DEF Lookup

LEMMA AnswersHold ==
  ToolsInv => AnswersTrue
<1> SUFFICES ASSUME ToolsInv, NEW t \in told
             PROVE  /\ t.frame.kind = "get" =>
                         t.answer \in {Heard(env[n]) : n \in {m \in DOMAIN env :
                           m = t.frame.name \/ (Windows /\ Upper(m) = Upper(t.frame.name))}}
                           \cup (IF \E m \in DOMAIN env :
                                      m = t.frame.name \/ (Windows /\ Upper(m) = Upper(t.frame.name))
                                 THEN {} ELSE {Unset})
                    /\ t.frame.kind = "gets" =>
                         t.answer = HeardAll(Valued(
                           {n \in DOMAIN env : /\ t.frame.query \in {"glob f*", "prefix f"}
                                               /\ n = "foo" \/ (Windows /\ n = "FOO")}))
    BY DEF AnswersTrue
<1>1. ToldOK(t) /\ ToolsTypeOK
      BY ToolsParts
<1>2. ASSUME t.frame.kind = "get"
      PROVE  t.answer \in {Heard(env[n]) : n \in {m \in DOMAIN env :
                  m = t.frame.name \/ (Windows /\ Upper(m) = Upper(t.frame.name))}}
               \cup (IF \E m \in DOMAIN env :
                          m = t.frame.name \/ (Windows /\ Upper(m) = Upper(t.frame.name))
                     THEN {} ELSE {Unset})
  <2>1. PICK there : there = Equal(Windows, env, t.frame.name)
        OBVIOUS
  <2>2. there = {m \in DOMAIN env : m = t.frame.name \/ (Windows /\ Upper(m) = Upper(t.frame.name))}
        BY <1>1, <2>1, NamesFound DEF ToolsTypeOK
  <2>3. t.answer = Heard(Lookup(t.frame.name))
        BY <1>1, <1>2 DEF ToldOK
  <2>4. CASE there = {}
    <3>1. Lookup(t.frame.name) = Unset
          BY <2>1, <2>4 DEF Lookup
    <3>2. t.answer = Unset
          BY <2>3, <3>1 DEF Heard, Unset
    <3>. QED BY <2>2, <2>4, <3>2
  <2>5. CASE there # {}
    <3>1. PICK n \in there : Lookup(t.frame.name) = env[n]
          BY <2>1, <2>5 DEF Lookup
    <3>. QED BY <2>2, <2>3, <3>1
  <2>. QED BY <2>4, <2>5
<1>3. ASSUME t.frame.kind = "gets"
      PROVE  t.answer = HeardAll(Valued(
                {n \in DOMAIN env : /\ t.frame.query \in {"glob f*", "prefix f"}
                                    /\ n = "foo" \/ (Windows /\ n = "FOO")}))
  <2>1. t.frame.query \in Queries \ {"glob ["} /\ t.answer = HeardAll(Valued(Matches(t.frame.query)))
        BY <1>1, <1>3 DEF ToldOK
  <2>. QED BY <1>1, <2>1, QueryFinds
<1>. QED BY <1>2, <1>3

LEMMA RecordHolds ==
  ToolsInv => RecordFaithful
<1> SUFFICES ASSUME ToolsInv, drained, ~failed
             PROVE  RecordFaithful
    BY DEF RecordFaithful
<1>1. \A a \in asked : InRecord(a.frame) /\ CallOK(a)
  <2>1. \A f : ~Unread(f)
        BY ToolsParts DEF Unread
  <2>. QED BY <2>1, ToolsParts DEF NoneLost
<1>2. record.inputs = Files("input")
  <2>1. ASSUME NEW p \in record.inputs PROVE p \in Files("input")
    <3>1. PICK a \in Of("input") : a.frame.file = p
          BY ToolsParts DEF RecordOK
    <3>. QED BY <1>1, <3>1 DEF CallOK, Of, Files
  <2>2. ASSUME NEW p \in Files("input") PROVE p \in record.inputs
    <3>1. PICK a \in Of("input") : a.meant = p
          BY DEF Files
    <3>. QED BY <1>1, <3>1 DEF CallOK, Of, InRecord
  <2>. QED BY <2>1, <2>2
<1>3. record.outputs = Files("output")
  <2>1. \A a \in Of("output") : a.meant = a.frame.file /\ a.frame.file \in record.outputs
        BY <1>1 DEF CallOK, InRecord, Of
  <2>2. ASSUME NEW p \in record.outputs PROVE p \in Files("output")
    <3>1. PICK a \in Of("output") : a.frame.file = p
          BY ToolsParts DEF RecordOK
    <3>. QED BY <2>1, <3>1 DEF Files
  <2>3. ASSUME NEW p \in Files("output") PROVE p \in record.outputs
        BY <2>1 DEF Files
  <2>. QED BY <2>2, <2>3
<1>4. record.off = (Of("off") # {})
  <2>1. record.off \in BOOLEAN /\ (record.off => Of("off") # {})
        BY ToolsParts DEF RecordOK, ToolsTypeOK, RecordFields
  <2>2. Of("off") # {} => record.off
        BY <1>1 DEF InRecord, Of
  <2>. QED BY <2>1, <2>2
<1>5. \A kind \in {"get", "gets"} : \A f \in AskedTracked(kind) :
        f.kind = kind /\ f.tracked /\ InRecord(f)
  <2> SUFFICES ASSUME NEW kind \in {"get", "gets"}, NEW f \in AskedTracked(kind)
               PROVE  f.kind = kind /\ f.tracked /\ InRecord(f)
      OBVIOUS
  <2>1. PICK a \in asked : a.frame = f /\ a.frame.kind = kind /\ a.meant = "none"
        BY DEF AskedTracked, Of
  <2>2. CallOK(a) /\ InRecord(a.frame)
        BY <1>1
  <2>. QED BY <2>1, <2>2 DEF CallOK
<1>6. \A f \in AskedTracked("get") : Equal(Windows, record.gets, f.name) # {}
      BY <1>5 DEF InRecord
<1>7. DOMAIN record.queries = {QueryKey(f.query) : f \in AskedTracked("gets")}
  <2>1. \A f \in AskedTracked("gets") : f.query \in DOMAIN record.queries
        BY <1>5 DEF InRecord
  <2>2. \A q \in DOMAIN record.queries : \E f \in AskedTracked("gets") : f.query = q
        BY ToolsParts DEF RecordOK
  <2>. QED BY <2>1, <2>2 DEF QueryKey
<1>8. \A n \in DOMAIN record.gets : \E f \in AskedTracked("get") : f.name = n
      BY ToolsParts DEF RecordOK
<1>9. ASSUME NEW t \in told
      PROVE  /\ t.frame.kind = "get" =>
                  \A n \in Equal(Windows, record.gets, t.frame.name) :
                    Heard(record.gets[n]) = t.answer
             /\ t.frame.kind = "gets" /\ QueryKey(t.frame.query) \in DOMAIN record.queries =>
                  HeardAll(record.queries[QueryKey(t.frame.query)]) = t.answer
  <2>1. ToldOK(t) /\ RecordOK
        BY ToolsParts
  <2>2. ASSUME t.frame.kind = "get", NEW n \in Equal(Windows, record.gets, t.frame.name)
        PROVE  Heard(record.gets[n]) = t.answer
    <3>1. n \in DOMAIN record.gets /\ SameName(Windows, n, t.frame.name)
          BY <2>2 DEF Equal
    <3>2. record.gets[n] = Lookup(n) /\ Lookup(n) = Lookup(t.frame.name)
          BY <2>1, <3>1, SameLookup DEF RecordOK
    <3>. QED BY <2>1, <2>2, <3>2 DEF ToldOK
  <2>3. t.frame.kind = "gets" /\ QueryKey(t.frame.query) \in DOMAIN record.queries =>
          HeardAll(record.queries[QueryKey(t.frame.query)]) = t.answer
        BY <2>1 DEF ToldOK, RecordOK, QueryKey
  <2>. QED BY <2>2, <2>3
<1>. QED BY <1>2, <1>3, <1>4, <1>6, <1>7, <1>8, <1>9 DEF RecordFaithful

(* What the driver returns holds the files the tools meant, where they     *)
(* were when they called, and no other, and every tracked question with    *)
(* the answer the tool was given; that answer is what the task's           *)
(* environment holds, and the driver fails for what a tool said, never     *)
(* because one died.                                                       *)
THEOREM ReportsAreFaithful == ToolsSpec => []ReportsFaithful
<1>1. ToolsInv => ReportsFaithful
      BY AnswersHold, RecordHolds, ToolsParts DEF ReportsFaithful
<1>. QED BY <1>1, ToolsInitInv, ToolsStep, PTL DEF ToolsSpec
=============================================================================
