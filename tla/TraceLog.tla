------------------------------ MODULE TraceLog ------------------------------
(***************************************************************************)
(* What the access-tracking channel promises to the task runner, without   *)
(* counters, slots or bytes.  Tracked threads publish a record and then    *)
(* perform the operation it describes; the receiver draws one boundary.    *)
(* Either the receiver learns that something is missing, or every          *)
(* operation performed before the boundary has its record in the trace     *)
(* the receiver goes on to read.                                           *)
(***************************************************************************)

CONSTANT Records            \* one per operation a tracked thread may perform

VARIABLES
  performed,                \* operations that have happened
  trace,                    \* records the receiver can see
  closed,                   \* a loss was reported, or the boundary was drawn
  verdict,                  \* "open", "dropped", "lost", "complete" or "read"
  owed,                     \* operations performed before the boundary
  delivered                 \* records the receiver has read

vars == <<performed, trace, closed, verdict, owed, delivered>>

Init ==
  /\ performed = {}
  /\ trace = {}
  /\ closed = FALSE
  /\ verdict = "open"
  /\ owed = {}
  /\ delivered = {}

(* A record enters the trace before its operation happens.                 *)
Publish(r) ==
  /\ r \notin performed \cup trace
  /\ trace' = trace \cup {r}
  /\ UNCHANGED <<performed, closed, verdict, owed, delivered>>

ReportLoss ==
  /\ closed' = TRUE
  /\ UNCHANGED <<performed, trace, verdict, owed, delivered>>

(* Until the boundary, an operation whose record is missing happens only   *)
(* once the loss is known.                                                 *)
Perform(r) ==
  /\ r \notin performed
  /\ verdict = "open" => r \in trace \/ closed
  /\ performed' = performed \cup {r}
  /\ UNCHANGED <<trace, closed, verdict, owed, delivered>>

Close ==
  /\ verdict = "open"
  /\ verdict' = IF closed THEN "lost" ELSE "complete"
  /\ closed' = TRUE
  /\ owed' = performed
  /\ UNCHANGED <<performed, trace, delivered>>

(* The receiver goes away without asking for the trace.                    *)
Drop ==
  /\ verdict = "open"
  /\ verdict' = "dropped"
  /\ UNCHANGED <<performed, trace, closed, owed, delivered>>

Deliver(r) ==
  /\ verdict = "complete"
  /\ r \in trace
  /\ delivered' = delivered \cup {r}
  /\ UNCHANGED <<performed, trace, closed, verdict, owed>>

(* Reading ends only with everything owed in hand.                         *)
EndOfTrace ==
  /\ verdict = "complete"
  /\ owed \subseteq delivered
  /\ verdict' = "read"
  /\ UNCHANGED <<performed, trace, closed, owed, delivered>>

Next ==
  \/ \E r \in Records : Publish(r) \/ Perform(r) \/ Deliver(r)
  \/ ReportLoss
  \/ Close
  \/ Drop
  \/ EndOfTrace

Spec == Init /\ [][Next]_vars

(* No operation escapes the trace: a receiver that was not told of a loss  *)
(* has the record of everything that happened before it stopped listening. *)
NothingMissing ==
  verdict \in {"complete", "read"} => owed \subseteq trace
=============================================================================
