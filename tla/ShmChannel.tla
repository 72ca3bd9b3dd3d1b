----------------------------- MODULE ShmChannel -----------------------------
(***************************************************************************)
(* The shared-memory channel between the threads of a tracked command and  *)
(* the task runner: crates/fspy_shared/src/ipc/channel (mod.rs and         *)
(* shm_io/{layout,writer,reader}.rs).                                      *)
(*                                                                         *)
(* Each sender is one thread of one traced process.  It repeats: claim a   *)
(* frame, fill it, commit it, and only then perform the operation the      *)
(* record describes.  Every atomic instruction on the region is a step of  *)
(* its own, a sender may die between any two of them, and the receiver     *)
(* seals whenever the root process happens to exit.                        *)
(***************************************************************************)
EXTENDS Integers, FiniteSets

CONSTANTS
  Senders,      \* threads of traced processes
  Slots,        \* descriptors in the table
  PayloadLen,   \* bytes in the payload area
  MaxFrame,     \* the longest frame a descriptor describes (u32::MAX)
  Sizes,        \* serialized sizes of records
  MaxOps        \* bound: operations one sender performs

ASSUME SlotsAssumption   == Slots \in Nat
ASSUME PayloadAssumption == PayloadLen \in Nat /\ MaxFrame \in Nat
ASSUME SizesAssumption   == Sizes \subseteq Nat \ {0}
ASSUME MaxOpsAssumption  == MaxOps \in Nat

VARIABLES
  claims,       \* the claim counter: CLOSED gate (bit 63) and the count below
  reserved,     \* the payload counter
  table,        \* descriptor slots
  mem,          \* payload bytes: the record each byte belongs to
  backing,      \* the backing file still has its name
  pc,           \* where each sender is
  frame,        \* the span and slot a sender's claim got
  ops,          \* operations each sender has completed or skipped
  receiver,     \* where the receiver is
  admitted,     \* slots the seal admitted
  cursor,       \* slots the iterator has passed
  delivered,    \* frames handed out, each as the records its bytes hold
  performed,    \* history: operations that have happened
  owed          \* history: operations that happened before the seal

region    == <<claims, reserved, table, mem>>
endpoint  == <<receiver, admitted, cursor, delivered>>
vars == <<region, backing, pc, frame, ops, endpoint, performed, owed>>

(* One record per operation; Blank is a byte nobody has written.           *)
Records == Senders \X (0 .. MaxOps - 1)
Blank   == <<>>
Unfinished == [offset |-> 0, len |-> 0]
SlotIds == 0 .. Slots - 1
Addresses == 0 .. PayloadLen - 1

Rec(s) == <<s, ops[s]>>
Span(d) == d.offset .. d.offset + d.len - 1

(* A slot is committed once its length field is nonzero.                   *)
Committed(k) == table[k].len # 0

(* Mutant: only the start is checked against the payload area.             *)
FitsStartOnly(offset, len) == offset <= PayloadLen

(* fitted_offset: the frame ends inside the payload area.                  *)
Fits(offset, len) == offset + len <= PayloadLen

(* A claim count past the table stands for the whole table.                *)
Admit(count) == IF count <= Slots THEN count ELSE Slots

Init ==
  /\ claims = [closed |-> FALSE, count |-> 0]
  /\ reserved = 0
  /\ table = [k \in SlotIds |-> Unfinished]
  /\ mem = [a \in Addresses |-> Blank]
  /\ backing = TRUE
  /\ pc = [s \in Senders |-> "detached"]
  /\ frame = [s \in Senders |-> [offset |-> 0, len |-> 0, slot |-> 0]]
  /\ ops = [s \in Senders |-> 0]
  /\ receiver = "open"
  /\ admitted = 0
  /\ cursor = 0
  /\ delivered = {}
  /\ performed = {}
  /\ owed = {}

-----------------------------------------------------------------------------
(* Attaching.                                                              *)

(* Receiver::sender: the supervisor maps the receiver's own handle before  *)
(* the command is spawned.                                                 *)
AttachLocal(s) ==
  /\ pc[s] = "detached"
  /\ receiver = "open"
  /\ pc' = [pc EXCEPT ![s] = "idle"]
  /\ UNCHANGED <<region, backing, frame, ops, endpoint, performed, owed>>

(* ChannelConf::sender, first half: open and map the backing file.         *)
Open(s) ==
  /\ pc[s] = "detached"
  /\ pc' = [pc EXCEPT ![s] = IF backing THEN "mapped" ELSE "untracked"]
  /\ UNCHANGED <<region, backing, frame, ops, endpoint, performed, owed>>

(* ChannelConf::sender, second half: give up on a channel already closed.  *)
CheckGate(s) ==
  /\ pc[s] = "mapped"
  /\ pc' = [pc EXCEPT ![s] = IF claims.closed THEN "untracked" ELSE "idle"]
  /\ UNCHANGED <<region, backing, frame, ops, endpoint, performed, owed>>

-----------------------------------------------------------------------------
(* ShmWriter::claim_frame, FrameMut::finish, and the operation itself.     *)

(* The oversize check, then the fetch_add on the payload counter.          *)
Reserve(s, len) ==
  /\ pc[s] = "idle"
  /\ ops[s] < MaxOps
  /\ IF len > MaxFrame
       THEN /\ pc' = [pc EXCEPT ![s] = "losing"]
            /\ UNCHANGED <<reserved, frame>>
       ELSE /\ reserved' = reserved + len
            /\ pc' = [pc EXCEPT ![s] =
                        IF Fits(reserved, len) THEN "reserved" ELSE "losing"]
            /\ frame' = [frame EXCEPT ![s] =
                           [offset |-> reserved, len |-> len, slot |-> 0]]
  /\ UNCHANGED <<claims, table, mem, backing, ops, endpoint, performed, owed>>

(* Mutant: the gate bit is masked off instead of tested.                   *)
TakeSlotUngated(s) ==
  /\ pc[s] = "reserved"
  /\ claims' = [claims EXCEPT !.count = @ + 1]
  /\ pc' = [pc EXCEPT ![s] = IF claims.count < Slots THEN "filling" ELSE "losing"]
  /\ frame' = [frame EXCEPT ![s].slot = claims.count]
  /\ UNCHANGED <<reserved, table, mem, backing, ops, endpoint, performed, owed>>

(* The fetch_add on the claim counter.  A gate found set refuses the claim *)
(* without any report; an index past the table is a loss.                  *)
TakeSlot(s) ==
  /\ pc[s] = "reserved"
  /\ claims' = [claims EXCEPT !.count = @ + 1]
  /\ pc' = [pc EXCEPT ![s] = CASE claims.closed         -> "ready"
                               [] ~claims.closed /\ claims.count < Slots -> "filling"
                               [] OTHER                 -> "losing"]
  /\ frame' = [frame EXCEPT ![s].slot = claims.count]
  /\ UNCHANGED <<reserved, table, mem, backing, ops, endpoint, performed, owed>>

(* Mutant: the failed claim returns without setting the gate.              *)
ReportLossQuietly(s) ==
  /\ pc[s] = "losing"
  /\ pc' = [pc EXCEPT ![s] = "ready"]
  /\ UNCHANGED <<region, backing, frame, ops, endpoint, performed, owed>>

(* report_loss: storing CLOSED sets the gate and forgets the count.        *)
ReportLoss(s) ==
  /\ pc[s] = "losing"
  /\ claims' = [closed |-> TRUE, count |-> 0]
  /\ pc' = [pc EXCEPT ![s] = "ready"]
  /\ UNCHANGED <<reserved, table, mem, backing, frame, ops, endpoint, performed, owed>>

(* Payload bytes reach memory one by one, in no particular order.          *)
Fill(s, a) ==
  /\ pc[s] = "filling"
  /\ a \in Span(frame[s])
  /\ mem[a] # Rec(s)
  /\ mem' = [mem EXCEPT ![a] = Rec(s)]
  /\ UNCHANGED <<claims, reserved, table, backing, pc, frame, ops, endpoint,
                 performed, owed>>

(* Mutant: a Relaxed store may overtake the payload writes.                *)
FinishRelaxed(s) ==
  /\ pc[s] = "filling"
  /\ table' = [table EXCEPT ![frame[s].slot] =
                 [offset |-> frame[s].offset, len |-> frame[s].len]]
  /\ pc' = [pc EXCEPT ![s] = "ready"]
  /\ UNCHANGED <<claims, reserved, mem, backing, frame, ops, endpoint, performed, owed>>

(* finish: the Release store becomes visible after every payload byte.     *)
Finish(s) ==
  /\ pc[s] = "filling"
  /\ \A a \in Span(frame[s]) : mem[a] = Rec(s)
  /\ table' = [table EXCEPT ![frame[s].slot] =
                 [offset |-> frame[s].offset, len |-> frame[s].len]]
  /\ pc' = [pc EXCEPT ![s] = "ready"]
  /\ UNCHANGED <<claims, reserved, mem, backing, frame, ops, endpoint, performed, owed>>

(* send has returned, so the intercepted operation goes ahead.             *)
Perform(s) ==
  /\ pc[s] = "ready"
  /\ performed' = performed \cup {Rec(s)}
  /\ ops' = [ops EXCEPT ![s] = @ + 1]
  /\ pc' = [pc EXCEPT ![s] = "idle"]
  /\ UNCHANGED <<region, backing, frame, endpoint, owed>>

(* A process without a sender performs its operations unrecorded.          *)
PerformUntracked(s) ==
  /\ pc[s] = "untracked"
  /\ ops[s] < MaxOps
  /\ performed' = performed \cup {Rec(s)}
  /\ ops' = [ops EXCEPT ![s] = @ + 1]
  /\ UNCHANGED <<region, backing, pc, frame, endpoint, owed>>

(* A sender dies at any point, and nothing cleans up after it.             *)
Die(s) ==
  /\ pc[s] # "dead"
  /\ pc' = [pc EXCEPT ![s] = "dead"]
  /\ UNCHANGED <<region, backing, frame, ops, endpoint, performed, owed>>

Sender(s) ==
  \/ AttachLocal(s) \/ Open(s) \/ CheckGate(s)
  \/ \E len \in Sizes : Reserve(s, len)
  \/ TakeSlot(s) \/ ReportLoss(s)
  \/ \E a \in Addresses : Fill(s, a)
  \/ Finish(s) \/ Perform(s) \/ PerformUntracked(s)
  \/ Die(s)

-----------------------------------------------------------------------------
(* Receiver::close, ShmReader::seal and ShmReader::iter.                   *)

(* The swap draws the boundary and shuts the gate in one step.             *)
Seal ==
  /\ receiver = "open"
  /\ claims' = [closed |-> TRUE, count |-> 0]
  /\ receiver' = IF claims.closed THEN "lost" ELSE "sealed"
  /\ admitted' = IF claims.closed THEN 0
                 ELSE Admit(claims.count)
  /\ owed' = performed
  /\ UNCHANGED <<reserved, table, mem, backing, pc, frame, ops, cursor, delivered,
                 performed>>

(* Mutant: the backing file goes before the gate is shut.                  *)
RemoveBackingFirst ==
  /\ receiver \in {"open", "sealed", "lost"}
  /\ backing \/ receiver = "sealed"
  /\ backing' = FALSE
  /\ receiver' = IF receiver = "sealed" THEN "reading" ELSE receiver
  /\ UNCHANGED <<region, pc, frame, ops, admitted, cursor, delivered, performed, owed>>

(* drop(keeper): the backing file goes only after the gate is shut.        *)
RemoveBacking ==
  /\ receiver \in {"sealed", "lost"}
  /\ backing
  /\ backing' = FALSE
  /\ receiver' = IF receiver = "sealed" THEN "reading" ELSE "lost"
  /\ UNCHANGED <<region, pc, frame, ops, admitted, cursor, delivered, performed, owed>>

(* The receiver is dropped without being closed (the spawn failed).        *)
DropReceiver ==
  /\ receiver = "open"
  /\ backing' = FALSE
  /\ receiver' = "dropped"
  /\ UNCHANGED <<region, pc, frame, ops, admitted, cursor, delivered, performed, owed>>

(* Mutant: an unfinished slot is waited for instead of skipped.            *)
ReadSlotWaiting ==
  /\ receiver = "reading"
  /\ cursor < admitted
  /\ Committed(cursor)
  /\ cursor' = cursor + 1
  /\ delivered' = delivered \cup {{mem[a] : a \in Span(table[cursor])}}
  /\ UNCHANGED <<region, backing, pc, frame, ops, receiver, admitted, performed, owed>>

(* Iter::next on one slot: the Acquire load, and for a committed slot the  *)
(* bytes it points at.                                                     *)
ReadSlot ==
  /\ receiver = "reading"
  /\ cursor < admitted
  /\ cursor' = cursor + 1
  /\ delivered' = IF Committed(cursor)
                    THEN delivered \cup {{mem[a] : a \in Span(table[cursor])}}
                    ELSE delivered
  /\ UNCHANGED <<region, backing, pc, frame, ops, receiver, admitted, performed, owed>>

ReadEnd ==
  /\ receiver = "reading"
  /\ cursor = admitted
  /\ receiver' = "done"
  /\ UNCHANGED <<region, backing, pc, frame, ops, admitted, cursor, delivered,
                 performed, owed>>

Receiver == Seal \/ RemoveBacking \/ DropReceiver \/ ReadSlot \/ ReadEnd

Next == Receiver \/ \E s \in Senders : Sender(s)

Spec == Init /\ [][Next]_vars

(* Once it closes, the receiver runs to the end of close() and of the      *)
(* iteration by itself; nothing is assumed of any sender.                  *)
FairSpec == Spec /\ WF_vars(RemoveBacking) /\ WF_vars(ReadSlot) /\ WF_vars(ReadEnd)

-----------------------------------------------------------------------------
(* Properties.                                                             *)

Pcs == {"detached", "mapped", "idle", "reserved", "losing", "filling", "ready",
        "untracked", "dead"}
Phases == {"open", "sealed", "lost", "reading", "done", "dropped"}

(* Every variable has its type: counters are naturals, a descriptor is an  *)
(* offset and a length, a payload byte belongs to one record or to none.   *)
TypeOK ==
  /\ claims \in [closed : BOOLEAN, count : Nat]
  /\ reserved \in Nat
  /\ table \in [SlotIds -> [offset : Nat, len : Nat]]
  /\ mem \in [Addresses -> Records \cup {Blank}]
  /\ backing \in BOOLEAN
  /\ pc \in [Senders -> Pcs]
  /\ frame \in [Senders -> [offset : Nat, len : Nat, slot : Nat]]
  /\ ops \in [Senders -> 0 .. MaxOps]
  /\ receiver \in Phases
  /\ admitted \in 0 .. Slots
  /\ cursor \in 0 .. Slots
  /\ delivered \subseteq SUBSET (Records \cup {Blank})
  /\ performed \subseteq Records
  /\ owed \subseteq performed

(* The record is readable in slot k: committed, and every byte is its own. *)
HeldBy(r, k) == Committed(k) /\ \A a \in Span(table[k]) : mem[a] = r

Sealed == receiver \in {"sealed", "reading", "done"}

(* A seal that succeeds admits the record of every operation performed     *)
(* before it, whatever died, was refused or ran out of room (the           *)
(* completeness argument of layout.rs rule 1).                             *)
SealComplete ==
  Sealed => \A r \in owed : \E k \in 0 .. admitted - 1 : HeldBy(r, k)

(* Nobody writes where somebody else may read or write: the spans of       *)
(* frames being filled and of committed frames are disjoint and inside     *)
(* the payload area (the SAFETY argument of claim_frame).                  *)
SpansDisjoint ==
  /\ \A s, t \in Senders :
       s # t /\ pc[s] = "filling" /\ pc[t] = "filling"
         => /\ Span(frame[s]) \cap Span(frame[t]) = {}
            /\ frame[s].slot # frame[t].slot
  /\ \A s \in Senders : pc[s] = "filling" =>
       /\ Span(frame[s]) \subseteq Addresses
       /\ \A k \in SlotIds : Committed(k) => Span(frame[s]) \cap Span(table[k]) = {}
  /\ \A j, k \in SlotIds : j # k /\ Committed(j) /\ Committed(k)
       => Span(table[j]) \cap Span(table[k]) = {}

(* Every frame the receiver hands out is one whole record: no torn or      *)
(* half-written payload is ever decoded (ipc.rs expects exactly that).     *)
FramesWhole == \A f \in delivered : \E r \in Records : f = {r}

(* A committed frame never changes again, neither its descriptor nor the   *)
(* bytes it names, so borrows handed out by the reader stay valid.         *)
CommittedFrozen ==
  [][\A k \in SlotIds : Committed(k) =>
       /\ table'[k] = table[k]
       /\ \A a \in Span(table[k]) : mem'[a] = mem[a]]_vars

(* Closing and reading never wait for a sender, not even for one that died *)
(* holding a claim.                                                        *)
ReceiverNeverWaits ==
  receiver \in {"sealed", "reading"} ~> receiver = "done"

(* The channel implements TraceLog: committed records are the trace, and   *)
(* the gate is the report of a loss.                                       *)
Trace   == {r \in Records : \E k \in SlotIds : HeldBy(r, k)}
Verdict == CASE receiver \in {"sealed", "reading"} -> "complete"
             [] receiver = "done"                  -> "read"
             [] OTHER                              -> receiver

Log == INSTANCE TraceLog WITH
  trace <- Trace, closed <- claims.closed, verdict <- Verdict,
  delivered <- UNION delivered

RefinesTraceLog == Log!Spec

-----------------------------------------------------------------------------
(* The inductive strengthening of TypeOK and SealComplete, proved in       *)
(* ChannelProofs.                                                          *)

(* A sender that is inside an operation has not used up its bound.         *)
InOp(s) == pc[s] \in {"reserved", "losing", "filling", "ready"}
OpsInv == \A s \in Senders : InOp(s) => ops[s] < MaxOps

(* A sender holds its span from the first fetch_add until it commits.      *)
Holds(s) == pc[s] \in {"reserved", "filling"}
InArea(d) == d.len # 0 /\ d.offset + d.len <= reserved /\ d.offset + d.len <= PayloadLen
Apart(d, e) == d.offset + d.len <= e.offset \/ e.offset + e.len <= d.offset

SpanInv ==
  /\ \A s \in Senders : Holds(s) => InArea(frame[s])
  /\ \A k \in SlotIds : Committed(k) => InArea(table[k])
  /\ \A s, t \in Senders :
       s # t /\ Holds(s) /\ Holds(t) => Apart(frame[s], frame[t])
  /\ \A s \in Senders, k \in SlotIds :
       Holds(s) /\ Committed(k) => Apart(frame[s], table[k])
  /\ \A j, k \in SlotIds :
       j # k /\ Committed(j) /\ Committed(k) => Apart(table[j], table[k])

(* A slot index is inside what the counter has given out, and after a      *)
(* successful seal inside what the seal admitted.                          *)
Issued(k) ==
  /\ ~claims.closed => k < claims.count
  /\ Sealed => k < admitted

SlotInv ==
  /\ \A s \in Senders : pc[s] = "filling" =>
       frame[s].slot \in SlotIds /\ ~Committed(frame[s].slot) /\ Issued(frame[s].slot)
  /\ \A s, t \in Senders :
       s # t /\ pc[s] = "filling" /\ pc[t] = "filling" => frame[s].slot # frame[t].slot
  /\ \A k \in SlotIds : Committed(k) => Issued(k)

(* Nobody is turned away, and no boundary is drawn, with the gate open.    *)
GateInv ==
  /\ receiver \notin {"open", "dropped"} => claims.closed
  /\ ~backing => receiver # "open"
  /\ \A s \in Senders : pc[s] = "untracked" => claims.closed \/ receiver = "dropped"

(* Where the record of a sender's current operation may be found, and that *)
(* it is nowhere before that operation.                                    *)
ByteInv ==
  /\ \A s \in Senders, a \in Addresses : mem[a] = Rec(s) =>
       \/ pc[s] = "filling" /\ a \in Span(frame[s])
       \/ pc[s] \in {"ready", "dead"}
  /\ \A s \in Senders, n \in 0 .. MaxOps - 1, a \in Addresses :
       mem[a] = <<s, n>> => n <= ops[s]
  /\ \A s \in Senders, n \in 0 .. MaxOps - 1 : <<s, n>> \in performed => n < ops[s]
  /\ \A k \in SlotIds : Committed(k) => \E r \in Records : HeldBy(r, k)

(* Completeness before, at and after the boundary.                         *)
Recorded(r) == \E k \in SlotIds : HeldBy(r, k)

CompleteInv ==
  /\ receiver = "open" /\ ~claims.closed =>
       /\ \A r \in performed : Recorded(r)
       /\ \A s \in Senders : pc[s] = "ready" => Recorded(Rec(s))
  /\ SealComplete
  /\ receiver \in {"sealed", "open"} => cursor = 0
  /\ receiver \in {"reading", "done"} =>
       \A r \in owed, k \in SlotIds : k < cursor /\ HeldBy(r, k) => {r} \in delivered

IInv ==
  TypeOK /\ OpsInv /\ SpanInv /\ SlotInv /\ GateInv /\ ByteInv /\ CompleteInv
=============================================================================
