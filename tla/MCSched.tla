------------------------------ MODULE MCSched ------------------------------
(* Sched and its loops on small tables. *)
EXTENDS SchedLoops

BootThree == <<TRUE, FALSE, FALSE>>
BootTwo == <<TRUE, FALSE>>

-----------------------------------------------------------------------------
(* What comments and messages of the code say, and the code does not do. *)

(***************************************************************************)
(* The panic "no avaliable processes" is right: no task of the table it    *)
(* leaves could run.                                                       *)
(***************************************************************************)
NoProcessesMeansNone == halt = "no processes" => \A p \in Pid : ~Runnable(tasks[p])

(***************************************************************************)
(* A hardware fault finishes the process that caused it: a task that is    *)
(* not on the processor with its own program and has no lethal signal      *)
(* pending does not die.                                                   *)
(***************************************************************************)
FaultFinishesItsOwner ==
  [][\A p \in Pid : ~tasks[p].dead /\ tasks'[p].dead => cpu = p \/ Dies(tasks[p])]_vars
=============================================================================
