------------------------------ MODULE MCSession ------------------------------
(***************************************************************************)
(* TLC instance of the two loops a session polls: the scheduler, and the   *)
(* IPC server of one task over either transport; and of what tools say to  *)
(* that server.  They share no variable: the initial states choose one,    *)
(* and the others stand still.                                             *)
(***************************************************************************)
EXTENDS MCScheduler, IpcServer, ToolReports

VARIABLE
  part          \* "scheduler", "ipc" or "tools"

SessionInit ==
  /\ part \in {"scheduler", "ipc", "tools"}
  /\ Init /\ IpcInit /\ ToolsInit
  /\ part # "ipc" => transport = "fifo"
  /\ part # "tools" => system = "unix" /\ env = [n \in {"FOO"} |-> "raw"]
                       /\ tool = [c \in Tools |-> "up"]

SessionNext ==
  \/ /\ \/ part = "scheduler" /\ Next /\ UNCHANGED <<ipcVars, toolVars>>
        \/ part = "ipc" /\ IpcNext /\ UNCHANGED <<vars, toolVars>>
        \/ part = "tools" /\ ToolsNext /\ UNCHANGED <<vars, ipcVars>>
     /\ UNCHANGED part
  \/ part = "tools" /\ drained /\ UNCHANGED <<part, vars, ipcVars, toolVars>>

Ipc == part = "ipc"

(* The fairness Scheduler and IpcServer state.                             *)
SessionSpec ==
  /\ SessionInit /\ [][SessionNext]_<<part, vars, ipcVars, toolVars>>
  /\ WF_vars(part = "scheduler" /\ Executor)
  /\ WF_moving(Ipc /\ Driver) /\ WF_moving(Ipc /\ Signal) /\ WF_moving(Ipc /\ ChildExits)
  /\ \A c \in Clients :
       /\ WF_moving(Ipc /\ ConnectFails(c)) /\ WF_moving(Ipc /\ AnswerFails(c))
       /\ WF_moving(Ipc /\ Unblock(c)) /\ WF_moving(Ipc /\ Leave(c))

-----------------------------------------------------------------------------
(* The scheduler's run returns, however its tasks end (Scheduler), and     *)
(* over either transport the driver comes back once the child is gone; a   *)
(* connect is let in or refused, and a question is answered or fails; over *)
(* named pipes a tool does not wait for room in a pipe whose server died,  *)
(* either (IpcServer).                                                     *)
NobodyHangs ==
  /\ part = "scheduler" => RunReturns
  /\ Ipc => DriverReturns /\ NoToolHangs
  /\ Ipc /\ transport = "pipe" => DeadServerNeverHangs
=============================================================================
