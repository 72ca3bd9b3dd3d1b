----------------------------- MODULE Supervisor -----------------------------
(***************************************************************************)
(* Tracking by seccomp: the supervisor's loop and its handler tasks        *)
(* (crates/fspy_seccomp_unotify/src/supervisor/), the targets that install *)
(* the filter (src/target.rs) and the handler that records what they do    *)
(* (crates/fspy/src/unix/syscall_handler/mod.rs).                          *)
(*                                                                         *)
(* A target stands for a program that installs the filter and everything   *)
(* it starts, which inherits it.  The kernel holds a trapped system call   *)
(* until it is answered; a signal may interrupt it, and the call is made   *)
(* again under a new id; without a supervisor it fails.                    *)
(***************************************************************************)
EXTENDS Integers, Sequences

CONSTANTS
  Traced,
  Unset,
  MaxCalls      \* bound: notifications a target raises

VARIABLES
  target,       \* where a target is; "trapped" in a call, "failed" in its exec
  call,         \* the id of its last notification
  backlog,      \* connections that are not accepted
  loop,         \* the handling loop
  incoming,     \* the connection it receives a descriptor from
  stopping,     \* cancel_tx is dropped
  handler,      \* the handler task of a target
  notified,     \* the id it works on
  kept,         \* the accesses in the channel, as <<target, id>>
  performed     \* history: the calls that were let through and not refused

supVars == <<target, call, backlog, loop, incoming, stopping, handler, notified,
             kept, performed>>
tracked == <<target, call, performed>>
control == <<loop, incoming, stopping, backlog>>

SupInit ==
  /\ target = [t \in Traced |-> "none"]
  /\ call = [t \in Traced |-> 0]
  /\ backlog = <<>>
  /\ loop = "accepting"
  /\ incoming = Unset
  /\ stopping = FALSE
  /\ handler = [t \in Traced |-> "none"]
  /\ notified = [t \in Traced |-> 0]
  /\ kept = {}
  /\ performed = {}

Step(t, where) == target' = [target EXCEPT ![t] = where]

Work(t, what) == handler' = [handler EXCEPT ![t] = what]

Over == loop \in {"returned", "error"}

-----------------------------------------------------------------------------
(* install_target, in the child, before the exec.  The socket's name goes  *)
(* with the loop; a connection in the backlog needs nobody to accept it.   *)

Install(t) ==
  /\ target[t] = "none"
  /\ IF Over
       THEN Step(t, "failed") /\ UNCHANGED backlog
       ELSE Step(t, "connected") /\ backlog' = Append(backlog, t)
  /\ UNCHANGED <<call, performed, loop, incoming, stopping, handler, notified, kept>>

SendFd(t) ==
  /\ target[t] = "connected"
  /\ Step(t, IF Over THEN "failed" ELSE "running")
  /\ UNCHANGED <<call, performed, control, handler, notified, kept>>

(* A system call the filter names.                                         *)
Trap(t) ==
  /\ target[t] = "running"
  /\ call[t] < MaxCalls
  /\ call' = [call EXCEPT ![t] = @ + 1]
  /\ Step(t, "trapped")
  /\ UNCHANGED <<performed, control, handler, notified, kept>>

Interrupt(t) ==
  /\ target[t] = "trapped"
  /\ Step(t, "running")
  /\ UNCHANGED <<call, performed, control, handler, notified, kept>>

(* Nobody has the descriptor any more, and the call fails.                 *)
NoSupervisor(t) ==
  /\ target[t] = "trapped"
  /\ Over \/ handler[t] = "error"
  /\ Step(t, "refused")
  /\ UNCHANGED <<call, performed, control, handler, notified, kept>>

(* The target, and all it started, exits or is killed.                     *)
TargetDies(t) ==
  /\ target[t] \notin {"none", "gone", "trapped", "connected"}
  /\ Step(t, "gone")
  /\ UNCHANGED <<call, performed, control, handler, notified, kept>>

TargetKilled(t) ==
  /\ target[t] \in {"connected", "trapped"}
  /\ Step(t, IF target[t] = "connected" THEN "aborted" ELSE "gone")
  /\ UNCHANGED <<call, performed, control, handler, notified, kept>>

-----------------------------------------------------------------------------
(* The loop.                                                               *)

EndLoop(how) ==
  /\ loop' = how
  /\ incoming' = Unset
  /\ backlog' = <<>>

(* Mutant: the cancellation is looked at when a target has connected.      *)
BreakLoopOnAccept ==
  /\ loop = "accepting"
  /\ stopping /\ backlog # <<>>
  /\ loop' = "joining"
  /\ UNCHANGED <<incoming, stopping, backlog, tracked, handler, notified, kept>>

(* select() looks at the cancellation first.                               *)
BreakLoop ==
  /\ loop = "accepting"
  /\ stopping
  /\ loop' = "joining"
  /\ UNCHANGED <<incoming, stopping, backlog, tracked, handler, notified, kept>>

AcceptTarget ==
  /\ loop = "accepting"
  /\ ~stopping
  /\ backlog # <<>>
  /\ incoming' = Head(backlog)
  /\ backlog' = Tail(backlog)
  /\ loop' = "receiving"
  /\ UNCHANGED <<stopping, tracked, handler, notified, kept>>

(* The descriptor is here, and a task handles what it reports.             *)
ReceiveFd ==
  /\ loop = "receiving"
  /\ target[incoming] \notin {"connected", "aborted"}
  /\ Work(incoming, "waiting")
  /\ loop' = "accepting"
  /\ incoming' = Unset
  /\ UNCHANGED <<stopping, backlog, tracked, notified, kept>>

(* The connection ended without one: `?` ends the loop, and the JoinSet    *)
(* goes with every task in it.                                             *)
ReceiveFails ==
  /\ loop = "receiving"
  /\ target[incoming] = "aborted"
  /\ EndLoop("error")
  /\ handler' = [t \in Traced |-> IF handler[t] \in {"none", "done"} THEN handler[t]
                                   ELSE "error"]
  /\ UNCHANGED <<stopping, tracked, notified, kept>>

(* Mutant: the tasks that are left are aborted.                            *)
ReturnAtOnce ==
  /\ loop = "joining"
  /\ EndLoop("returned")
  /\ handler' = [t \in Traced |-> IF handler[t] \in {"none", "done"} THEN handler[t]
                                   ELSE "error"]
  /\ UNCHANGED <<stopping, tracked, notified, kept>>

(* join_next() until every task has returned its handler.                  *)
AllJoined ==
  /\ loop = "joining"
  /\ \A t \in Traced : handler[t] \in {"none", "done"}
  /\ EndLoop("returned")
  /\ UNCHANGED <<stopping, tracked, handler, notified, kept>>

(* Supervisor::stop, once the root process has exited.                     *)
Stop ==
  /\ ~stopping
  /\ stopping' = TRUE
  /\ UNCHANGED <<loop, incoming, backlog, tracked, handler, notified, kept>>

-----------------------------------------------------------------------------
(* A handler task.                                                         *)

(* NotifyListener::next.  A notification that is gone again is ENOENT.     *)
ReceiveNotification(t) ==
  /\ handler[t] = "waiting"
  /\ target[t] = "trapped"
  /\ notified[t] # call[t]
  /\ notified' = [notified EXCEPT ![t] = call[t]]
  /\ Work(t, "handling")
  /\ UNCHANGED <<control, tracked, kept>>

(* handle_notify reads the target's memory and records the access.  That   *)
(* fails with the target, and for a call the kernel will refuse as well: a *)
(* path too long or in no memory of the target, a descriptor that is none. *)
(* Either way nothing is recorded, and the call is answered.               *)
HandleNotify(t) ==
  /\ handler[t] = "handling"
  /\ \/ /\ target[t] # "gone"
        /\ kept' = kept \cup {<<t, notified[t]>>}
        /\ Work(t, "answering")
     \/ Work(t, "ignoring") /\ UNCHANGED kept
  /\ UNCHANGED <<control, tracked, notified>>

Answers(t) == handler[t] \in {"answering", "ignoring"}

(* The call goes on, and is performed unless the kernel refuses it.        *)
Continue(t, id) ==
  /\ Step(t, "running")
  /\ performed' = IF handler[t] = "answering" THEN performed \cup {<<t, id>>} ELSE performed

(* Mutant: whatever the target is trapped in continues.                    *)
SendContinueAny(t) ==
  /\ Answers(t)
  /\ IF target[t] = "trapped"
       THEN Continue(t, call[t])
       ELSE UNCHANGED <<target, performed>>
  /\ Work(t, "waiting")
  /\ UNCHANGED <<control, call, notified, kept>>

(* Mutant: an answer nobody waits for is an error.                         *)
SendContinueStrict(t) ==
  /\ Answers(t)
  /\ IF target[t] = "trapped" /\ call[t] = notified[t]
       THEN Continue(t, notified[t]) /\ Work(t, "waiting")
       ELSE Work(t, "error") /\ UNCHANGED <<target, performed>>
  /\ UNCHANGED <<control, call, notified, kept>>

(* send_continue.  The id of a call that was interrupted is ENOENT.        *)
SendContinue(t) ==
  /\ Answers(t)
  /\ IF target[t] = "trapped" /\ call[t] = notified[t]
       THEN Continue(t, notified[t])
       ELSE UNCHANGED <<target, performed>>
  /\ Work(t, "waiting")
  /\ UNCHANGED <<control, call, notified, kept>>

(* No process has the filter any more, and next() returns None.            *)
HandlerReturns(t) ==
  /\ handler[t] = "waiting"
  /\ target[t] = "gone"
  /\ Work(t, "done")
  /\ UNCHANGED <<control, tracked, notified, kept>>

-----------------------------------------------------------------------------
Handling(t) ==
  \/ ReceiveNotification(t) \/ HandleNotify(t) \/ SendContinue(t) \/ HandlerReturns(t)

Loop == BreakLoop \/ AcceptTarget \/ ReceiveFd \/ ReceiveFails \/ AllJoined

TargetStep(t) ==
  \/ Install(t) \/ SendFd(t) \/ Trap(t) \/ Interrupt(t) \/ NoSupervisor(t)
  \/ TargetDies(t) \/ TargetKilled(t)

SupNext ==
  \/ Loop \/ Stop
  \/ \E t \in Traced : Handling(t) \/ TargetStep(t)

SupSpec == SupInit /\ [][SupNext]_supVars

(* The runtime polls the loop and the tasks.  A target on its way between  *)
(* connect and send is not held up forever, and what the root process left *)
(* behind ends at some point: stop() waits for it.                         *)
FairSupSpec ==
  /\ SupSpec
  /\ WF_supVars(Loop)
  /\ \A t \in Traced :
       /\ WF_supVars(Handling(t))
       /\ WF_supVars(SendFd(t)) /\ WF_supVars(NoSupervisor(t))
       /\ WF_supVars(stopping /\ TargetDies(t))

-----------------------------------------------------------------------------
(* syscall_handler: "The supervisor lets a syscall continue only after its *)
(* handler returns, so every record is published before the access it      *)
(* describes": also when the call was interrupted and made again while the *)
(* first one was handled.                                                  *)
RecordedFirst == performed \subseteq kept

(* A handler's task never ends under a target that lives, as long as the   *)
(* loop does: each call that is trapped is let through, or interrupted,    *)
(* unless its target dies, or the loop ended with an error, or it came     *)
(* after the stop.                                                         *)
CallsContinue ==
  \A t \in Traced :
    target[t] = "trapped" /\ ~stopping ~>
      \/ target[t] \in {"running", "gone"}
      \/ loop = "error" \/ stopping

(* stop() comes back with the handlers once the targets are gone, and not  *)
(* before, so what they did is recorded when the channel closes.           *)
StopReturns ==
  (stopping /\ loop # "error") ~> Over

(* The loop serves the calls while targets live, and ends when told to.    *)
SupervisorResponds == CallsContinue /\ StopReturns

StoppedAfterTargets ==
  loop = "returned" =>
    \A t \in Traced : handler[t] # "none" => handler[t] = "done" /\ target[t] = "gone"

(* The channel, closed after stop(), has the record of every access.       *)
RecordsComplete == RecordedFirst /\ StoppedAfterTargets

(* supervisor/mod.rs: "Errors on the supervisor side could be caused by a  *)
(* target process aborting.  It shouldn't break the syscall handling loop  *)
(* as there might be target processes."                                    *)
LoopSurvives == loop # "error"
=============================================================================
