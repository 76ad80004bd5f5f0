------------------------------- MODULE Sched -------------------------------
(***************************************************************************)
(* The process table and scheduler of klyx (kernel/sched.c) with every     *)
(* kernel entry that reaches it (kernel/traps.c): the timer, the task      *)
(* system calls, the error traps, and init's direct calls of               *)
(* sched_make_task.  Handlers run with interrupts off, so each is a step.  *)
(*                                                                         *)
(* A register set is its owner: the pid whose program it continues, or     *)
(* KERNEL when it continues kernel code.  The signal ring of a task is the *)
(* sequence of what is pending, oldest first (SigRing shows why it may be).*)
(***************************************************************************)
EXTENDS Integers, Sequences, FiniteSetsExt

CONSTANTS
  TASKS_CAP,      \* slots of the process table, 256 in the code
  TASK_SIG_CAP,   \* cells of a signal ring, 64 in the code
  BootYieldOnly,  \* the yield_only argument of each task kernel_start makes
  Uids, Gids,     \* the ids setuid and setgid are called with
  KillSigs,       \* the signals kill is called with
  TrapSigs        \* the signals the error traps post

\* include/signal.h
SIGCHLD == 4
SIGCONT == 5
SIGFPE == 6
SIGILL == 8
SIGKILL == 10
SIGSTOP == 14
SIGSYS == 23
SIGURG == 25
SIG_COUNT == 29
Sig == 1 .. SIG_COUNT - 1

Pid == 0 .. TASKS_CAP - 1
INIT == 0
KERNEL == -1
Context == Pid \cup {KERNEL}

ASSUME TableAssumption ==
  /\ TASKS_CAP \in Nat \ {0}
  /\ TASK_SIG_CAP \in Nat \ {0, 1}
  /\ BootYieldOnly \in Seq(BOOLEAN)
  /\ Len(BootYieldOnly) \in 1 .. TASKS_CAP
ASSUME IdAssumption == Uids \subseteq Nat /\ Gids \subseteq Nat /\ 0 \in Uids \cap Gids
ASSUME SigAssumption ==
  /\ KillSigs \subseteq Sig
  /\ TrapSigs \subseteq Sig \ {SIGSTOP, SIGCONT}

VARIABLES
  tasks,                 \* the process table
  current_task,
  cpu,                   \* whose registers the processor holds
  is_tasking_avaliable,  \* set by the first system call 0
  halt                   \* "none", or why the processor loops for ever

vars == <<tasks, current_task, cpu, is_tasking_avaliable, halt>>

Halts == {"none", "hang", "no init", "kill init", "no processes", "NMI",
          "unknown syscall"}

Task == [regs : Context, dead : BOOLEAN, paused : BOOLEAN, yield_only : BOOLEAN,
         uid : Uids, gid : Gids, pending : Seq(Sig)]

(* What a handler works on: it maps one machine to the next. *)
Machine == [tasks : [Pid -> Task], current : Pid, cpu : Context, halt : Halts]

Now == [tasks |-> tasks, current |-> current_task, cpu |-> cpu, halt |-> halt]

Become(next) ==
  /\ \E m \in {next} : /\ tasks' = m.tasks /\ current_task' = m.current
                      /\ cpu' = m.cpu /\ halt' = m.halt
  /\ UNCHANGED is_tasking_avaliable

Panic(m, why) == [m EXCEPT !.halt = why]
-----------------------------------------------------------------------------
(***************************************************************************)
(* Making tasks.  The memset of the whole task_t is what gives a reused    *)
(* slot an empty queue, paused = false and root's ids.                     *)
(***************************************************************************)
NewTask(p, yield_only) ==
  [regs |-> p, dead |-> FALSE, paused |-> FALSE, yield_only |-> yield_only,
   uid |-> 0, gid |-> 0, pending |-> <<>>]

(* A slot that was never used: the zeroed static table. *)
NoTask == [NewTask(KERNEL, FALSE) EXCEPT !.dead = TRUE]

DeadSlots(t) == {p \in Pid : t[p].dead}

(* A full table sets errno and returns 0: no slot changes. *)
sched_make_task(m, yield_only) ==
  IF DeadSlots(m.tasks) = {} THEN m
  ELSE LET p == Min(DeadSlots(m.tasks))
       IN [m EXCEPT !.tasks[p] = NewTask(p, yield_only)]
-----------------------------------------------------------------------------
(* Posting and delivering signals. *)
FullRingTakesOneMore(m, p, sig) ==      \* mutant
  IF Len(m.tasks[p].pending) >= TASK_SIG_CAP THEN m
  ELSE [m EXCEPT !.tasks[p].pending = Append(@, sig)]

sched_kill_task(m, p, sig) ==
  IF Len(m.tasks[p].pending) >= TASK_SIG_CAP - 1 THEN m
  ELSE [m EXCEPT !.tasks[p].pending = Append(@, sig)]

(* Every case of the switch but these two goes to sig_die. *)
Lethal == Sig \ {SIGSTOP, SIGCONT}

LethalAt(t) == {i \in DOMAIN t.pending : t.pending[i] \in Lethal}

Dies(t) == ~t.dead /\ LethalAt(t) # {}

(***************************************************************************)
(* The loop of __flush_signals in closed form.  The signals before the     *)
(* first lethal one are SIGSTOP and SIGCONT, of which the last decides;    *)
(* death ends the loop and leaves the rest in the ring.                    *)
(***************************************************************************)
FlushLeavesLethal(t) ==                 \* mutant: the read head is not moved
  LET mild == IF Dies(t) THEN Min(LethalAt(t)) - 1 ELSE Len(t.pending)
  IN IF t.dead THEN t
     ELSE [t EXCEPT !.dead    = Dies(t),
                    !.paused  = IF mild = 0 THEN @ ELSE t.pending[mild] = SIGSTOP,
                    !.pending = SubSeq(t.pending, mild + 1, Len(t.pending))]

__flush_signals(t) ==
  LET mild == IF Dies(t) THEN Min(LethalAt(t)) - 1 ELSE Len(t.pending)
      rest == SubSeq(t.pending, mild + 2, Len(t.pending))
  IN IF t.dead THEN t
     ELSE [t EXCEPT !.dead    = Dies(t),
                    !.paused  = IF mild = 0 THEN @ ELSE t.pending[mild] = SIGSTOP,
                    !.pending = rest]

Runnable(t) == ~t.dead /\ ~t.paused
-----------------------------------------------------------------------------
(***************************************************************************)
(* Switching.  The loop of sched_next_task looks at the slots after the    *)
(* current one in turn, the current one last.  It takes the first runnable *)
(* one, and flushes the signals of each live one it passes; a task that a  *)
(* SIGCONT wakes while it is passed is not looked at again.                *)
(***************************************************************************)
AlwaysFromSlot0(c, d) == (d - 1) % TASKS_CAP                  \* mutant

Turn(c, d) == (c + d) % TASKS_CAP

StoppedRunToo(t, c) == {d \in 1 .. TASKS_CAP : ~t[Turn(c, d)].dead}     \* mutant
NeverItself(t, c) == {d \in 1 .. TASKS_CAP - 1 : Runnable(t[Turn(c, d)])} \* mutant

ReadyTurns(t, c) == {d \in 1 .. TASKS_CAP : Runnable(t[Turn(c, d)])}

PassedKeepSignals(t, c) == {}           \* mutant

Passed(t, c) ==
  LET last == IF ReadyTurns(t, c) = {} THEN TASKS_CAP ELSE Min(ReadyTurns(t, c)) - 1
  IN {Turn(c, d) : d \in 1 .. last}

FlushAll(t, S) == [p \in Pid |-> IF p \in S THEN __flush_signals(t[p]) ELSE t[p]]

LoadsTheOldRegs(m) ==                   \* mutant
  LET t == m.tasks
      c == m.current
      swept == FlushAll(t, Passed(t, c))
      next == Turn(c, Min(ReadyTurns(t, c)))
  IN IF INIT \in Passed(t, c) /\ Dies(t[INIT]) THEN Panic(m, "kill init")
     ELSE IF ReadyTurns(t, c) = {}
     THEN Panic([m EXCEPT !.tasks = swept], "no processes")
     ELSE [m EXCEPT !.tasks = swept, !.current = next, !.cpu = swept[c].regs]

(* The loop over the slots; a panic leaves the table as the loop found it. *)
PickNext(m) ==
  LET t == m.tasks
      c == m.current
      swept == FlushAll(t, Passed(t, c))
      next == Turn(c, Min(ReadyTurns(t, c)))
  IN IF INIT \in Passed(t, c) /\ Dies(t[INIT]) THEN Panic(m, "kill init")
     ELSE IF ReadyTurns(t, c) = {}
     THEN Panic([m EXCEPT !.tasks = swept], "no processes")
     ELSE [m EXCEPT !.tasks = swept, !.current = next, !.cpu = swept[next].regs]

SaveRegs(m) == [m EXCEPT !.tasks[m.current].regs = m.cpu]

SwitchBeforeFlush(m) ==                 \* mutant
  LET picked == PickNext(SaveRegs(m))
  IN [picked EXCEPT !.tasks[m.current] = __flush_signals(@)]

InitMayDie(m) ==                        \* mutant
  PickNext([SaveRegs(m) EXCEPT !.tasks[m.current] = __flush_signals(@)])

sched_next_task(m) ==
  LET saved == SaveRegs(m)
      c == m.current
  IN IF c = INIT /\ Dies(saved.tasks[c]) THEN Panic(saved, "kill init")
     ELSE PickNext([saved EXCEPT !.tasks[c] = __flush_signals(@)])
-----------------------------------------------------------------------------
(* kernel_start up to its int 0x80: the table is filled, tasking is off. *)
Init ==
  /\ tasks = [p \in Pid |-> IF p < Len(BootYieldOnly)
                            THEN NewTask(p, BootYieldOnly[p + 1]) ELSE NoTask]
  /\ current_task = INIT
  /\ cpu = KERNEL
  /\ is_tasking_avaliable = FALSE
  /\ halt = "none"

(* The first system call 0, with sched_start_tasking. *)
Setup ==
  /\ ~is_tasking_avaliable /\ halt = "none"
  /\ is_tasking_avaliable' = TRUE
  /\ current_task' = INIT
  /\ IF tasks[INIT].dead THEN halt' = "no init" /\ UNCHANGED cpu
                         ELSE cpu' = tasks[INIT].regs /\ UNCHANGED halt
  /\ UNCHANGED tasks

(* x86_error_trap before tasking: for(;;). *)
BootTrap ==
  /\ ~is_tasking_avaliable /\ halt = "none"
  /\ Become(Panic(Now, "hang"))

(* A task is running its own program. *)
Running == is_tasking_avaliable /\ halt = "none" /\ cpu = current_task

Timer ==
  /\ Running /\ ~tasks[current_task].yield_only
  /\ Become(sched_next_task(Now))

SysYield == Running /\ Become(sched_next_task(Now))

ExitOfTheNextTask ==                    \* mutant
  /\ Running /\ current_task # INIT
  /\ LET m == sched_next_task(Now)
     IN Become([m EXCEPT !.tasks[m.current].dead = TRUE])

SysExit ==
  /\ Running
  /\ IF current_task = INIT THEN Become(Panic(Now, "kill init"))
     ELSE Become(sched_next_task([Now EXCEPT !.tasks[current_task].dead = TRUE]))

(* System call 0 again. *)
SysSetupAgain ==
  Running /\ Become(sched_next_task(sched_kill_task(Now, current_task, SIGSYS)))

AnyoneMaySetuid(id) ==                  \* mutant
  Running /\ Become([Now EXCEPT !.tasks[current_task].uid = id])

SysSetuid(id) ==
  /\ Running /\ tasks[current_task].uid = 0
  /\ Become([Now EXCEPT !.tasks[current_task].uid = id])

(* It asks for uid 0, as setuid does. *)
SysSetgid(id) ==
  /\ Running /\ tasks[current_task].uid = 0
  /\ Become([Now EXCEPT !.tasks[current_task].gid = id])

(* The calls of kill that post; every other one only returns a code. *)
SysKill(p, sig) ==
  /\ Running /\ ~tasks[p].dead
  /\ tasks[current_task].uid \in {0, tasks[p].uid}
  /\ Become(sched_kill_task(Now, p, sig))

SysUnknown == Running /\ Become(Panic(Now, "unknown syscall"))

(* The traps that run x86_error_trap and return to the task it picked. *)
ErrorTrap(sig) ==
  Running /\ Become(sched_next_task(sched_kill_task(Now, current_task, sig)))

(***************************************************************************)
(* x86_trap_do_divide_by_0 has no INT_END: when x86_error_trap returns     *)
(* with the next task chosen, execution goes on behind the handler.  gcc   *)
(* puts an invalid instruction there, so the next task "runs" kernel code; *)
(* a compiler that puts nothing falls into x86_trap_nmi and its panic.     *)
(***************************************************************************)
DivideError ==
  /\ Running
  /\ LET m == sched_next_task(sched_kill_task(Now, current_task, SIGFPE))
     IN \/ Become(IF m.halt = "none" THEN [m EXCEPT !.cpu = KERNEL] ELSE m)
        \/ Become(IF m.halt = "none" THEN Panic(m, "NMI") ELSE m)

(* The invalid instruction, taken with interrupts off. *)
KernelUd2 ==
  /\ is_tasking_avaliable /\ halt = "none" /\ cpu = KERNEL
  /\ Become(sched_next_task(sched_kill_task(Now, current_task, SIGILL)))

(* NMI, double fault, invalid TSS and SIMD traps panic. *)
FatalTrap ==
  /\ is_tasking_avaliable /\ halt = "none"
  /\ Become(Panic(Now, "NMI"))

(* test_init, in ring 0, calls sched_make_task itself. *)
Spawn ==
  /\ Running /\ current_task = INIT
  /\ Become(sched_make_task(Now, FALSE))

Next ==
  \/ Setup \/ BootTrap \/ Timer \/ SysYield \/ SysExit \/ SysSetupAgain
  \/ \E id \in Uids : SysSetuid(id)
  \/ \E id \in Gids : SysSetgid(id)
  \/ \E p \in Pid, sig \in KillSigs : SysKill(p, sig)
  \/ SysUnknown
  \/ \E sig \in TrapSigs : ErrorTrap(sig)
  \/ DivideError \/ KernelUd2 \/ FatalTrap \/ Spawn

Spec == Init /\ [][Next]_vars

(***************************************************************************)
(* What the machine does of itself: kernel_start reaches its int 0x80, the *)
(* PIT interrupts, test_init (which the timer may not switch) yields in    *)
(* every turn of its loop, an invalid instruction traps.  In every state   *)
(* that is not halted exactly one of these can happen.                     *)
(***************************************************************************)
Drive ==
  \/ Setup
  \/ Timer
  \/ tasks[current_task].yield_only /\ SysYield
  \/ KernelUd2

Fairness == WF_vars(Drive)

FairSpec == Spec /\ Fairness
-----------------------------------------------------------------------------
TypeOK ==
  /\ tasks \in [Pid -> Task]
  /\ \A p \in Pid : Len(tasks[p].pending) < TASK_SIG_CAP
  /\ current_task \in Pid
  /\ cpu \in Context
  /\ is_tasking_avaliable \in BOOLEAN
  /\ halt \in Halts

(***************************************************************************)
(* Slot 0 is init for ever: no exit, signal or trap frees it, so the       *)
(* lowest dead slot sched_make_task takes is never slot 0.                 *)
(***************************************************************************)
InitImmortal == ~tasks[INIT].dead

(***************************************************************************)
(* The task the processor goes back to is alive and not stopped, whatever  *)
(* signals sched_next_task delivered, to it or to others, on the way.      *)
(***************************************************************************)
CurrentRunnable ==
  is_tasking_avaliable /\ halt = "none" => Runnable(tasks[current_task])

(***************************************************************************)
(* Register sets stay with their owner through every switch: the processor *)
(* holds those of the current task and a live slot its own program's, or   *)
(* the kernel code DivideError sent it to.                                 *)
(***************************************************************************)
OwnContext ==
  /\ is_tasking_avaliable /\ halt = "none" => cpu \in {current_task, KERNEL}
  /\ \A p \in Pid : ~tasks[p].dead => tasks[p].regs \in {p, KERNEL}

(***************************************************************************)
(* A live task dies by its own hand (it is on the processor, or in the     *)
(* kernel code of DivideError) or of a signal that was pending already.    *)
(***************************************************************************)
DeathHasCause ==
  [][\A p \in Pid : ~tasks[p].dead /\ tasks'[p].dead =>
        Dies(tasks[p]) \/ p = current_task]_vars

(***************************************************************************)
(* SIGSTOP holds until SIGCONT: a stopped task is never the current one    *)
(* after a switch, and is stopped until a SIGCONT of its own queue is      *)
(* delivered, it dies, or the machine halts.                               *)
(***************************************************************************)
StopHolds ==
  [][\A p \in Pid : ~tasks[p].dead /\ tasks[p].paused /\ p # current_task /\ halt' = "none" =>
        /\ current_task' # p
        /\ tasks'[p].paused \/ SIGCONT \in {tasks[p].pending[i] : i \in DOMAIN tasks[p].pending}
     ]_vars

(***************************************************************************)
(* The panic "no avaliable processes" needs a stopped init: while init is  *)
(* neither stopped nor about to be, somebody can run.                      *)
(***************************************************************************)
NoProcessesNeedsStoppedInit ==
  [][halt = "none" /\ halt' = "no processes" =>
        tasks[INIT].paused \/ SIGSTOP \in {tasks[INIT].pending[i] : i \in DOMAIN tasks[INIT].pending}
    ]_vars

(***************************************************************************)
(* A task that gave up root (setuid) gets it back by no system call: only  *)
(* a dead slot changes from another uid to 0.                              *)
(***************************************************************************)
RootStaysGivenUp ==
  [][\A p \in Pid : ~tasks[p].dead /\ tasks[p].uid # 0 => tasks'[p].uid = tasks[p].uid]_vars

(***************************************************************************)
(* Round robin starves nobody: a live task that is not stopped gets the    *)
(* processor, unless it dies or is stopped first or the machine halts.     *)
(***************************************************************************)
NoStarvation ==
  \A p \in Pid : Runnable(tasks[p]) ~>
                   \/ is_tasking_avaliable /\ current_task = p
                   \/ ~Runnable(tasks[p]) \/ halt # "none"

(***************************************************************************)
(* A lethal signal that was queued kills, even a stopped task: signals are *)
(* delivered to the task that is switched out and to the stopped ones the  *)
(* search for the next task passes over, and every slot's turn comes.      *)
(***************************************************************************)
LethalSignalKills ==
  \A p \in Pid : Dies(tasks[p]) ~> tasks[p].dead \/ halt # "none"
-----------------------------------------------------------------------------
(* The signals that anybody posts. *)
Posted == KillSigs \cup TrapSigs \cup {SIGSYS, SIGFPE, SIGILL}

(* What a slot of the table is to its users. *)
AsProcess(t) ==
  [state |-> IF t.dead THEN "dead" ELSE IF t.paused THEN "stopped" ELSE "runs",
   queue |-> t.pending, uid |-> t.uid]

OnProcessor == IF is_tasking_avaliable /\ halt = "none" THEN current_task ELSE KERNEL

Promise == INSTANCE Procs
  WITH procs <- [p \in Pid |-> AsProcess(tasks[p])], on <- OnProcessor, Nobody <- KERNEL,
       Sig <- Posted, Stop <- SIGSTOP, Continue <- SIGCONT, Limit <- TASK_SIG_CAP - 1

(***************************************************************************)
(* Through every switch, trap and reused slot, processes obey the signals  *)
(* that were posted to them, each once and in order, and nothing else.     *)
(***************************************************************************)
ImplementsProcs == Promise!Spec
=============================================================================
