------------------------------ MODULE IntFrame ------------------------------
(***************************************************************************)
(* Interrupt frames: INT_START and INT_END (include/klyx/hw.h), which save *)
(* the interrupted registers on the stack of the interrupted task and put  *)
(* registers back from wherever the global interrupt_esp_stack_ptr points, *)
(* and INT_BECAME_ASYNC / INT_BECAME_SYNC (kernel/traps.c), between which  *)
(* a handler runs with interrupts on.                                      *)
(*                                                                         *)
(* Memory is counted in words of 4 bytes and a stack grows down.  Who runs *)
(* next, which tasks die in a switch (sched_next_task flushes the signals  *)
(* of the current task and of the stopped ones it passes) and whose signal *)
(* ring is full is left open here: Sched says that.  A program has no      *)
(* depth of its own here; what it had pushed counts as its top.            *)
(***************************************************************************)
EXTENDS Integers

CONSTANTS
  TASKS_CAP,        \* slots of the process table
  TASK_STACK_CAP,   \* words between the stacks of two slots
  LOCALS            \* words a handler has on the stack while interrupts are on

FRAME == 16                 \* 5 segments, pushal, eip, cs, eflags
IRET == 3                   \* eip, cs, eflags

(* The locals hold at least the copies of the globals; a stack holds a     *)
(* handler with its locals and one more frame.                             *)
ASSUME FrameAssumption ==
  /\ TASKS_CAP \in Nat \ {0} /\ LOCALS \in Nat \ {0}
  /\ TASK_STACK_CAP \in Nat /\ TASK_STACK_CAP > 2 * FRAME + LOCALS

VARIABLES
  cpu,              \* the registers of the running task
  current,          \* current_task
  alive,            \* the slots that are not TASK_DEAD
  regs,             \* tasks[p].regs
  mem,              \* the frames in memory, by address
  esp_stack_ptr,    \* interrupt_esp_stack_ptr
  hit,              \* history: tasks interrupted between SYNC and cli
  spared,           \* history: tasks that outlived a fault, their ring being full
  diverted          \* history: tasks whose registers the debugger set, or
                    \*   on whose stack another one's trap wrote

frameVars == <<cpu, current, alive, regs, mem, esp_stack_ptr, hit, spared, diverted>>
history == <<hit, spared, diverted>>

Pid == 0 .. TASKS_CAP - 1
INIT == 0
KERNEL == -1                \* kernel_start, before tasking

AllAtTheSameTop(p) == TASK_STACK_CAP                     \* mutant

(* TASKS_STACK_START + TASK_STACK_CAP * pid *)
StackTop(p) == TASK_STACK_CAP * (p + 1)

(* Registers: on whose stack, how deep, where in the program, and the      *)
(* frame the handler it is in will leave through.  "ud2": run on into it   *)
(* from the divide handler; "stuck": put back there out of the table;      *)
(* "wild": anywhere, and the model follows such a task no further.         *)
Registers(p, esp, at, frame) == [who |-> p, esp |-> esp, at |-> at, frame |-> frame]

NoFrame == 0
Fresh(p) == Registers(p, StackTop(p), "user", NoFrame)
Wild(p) == Registers(p, NoFrame, "wild", NoFrame)

(* What is left of memory when the words from a up to b are written. *)
Spill(m, a, b) == [f \in {g \in DOMAIN m : g + FRAME <= a \/ b <= g} |-> m[f]]

Store(m, f, r) ==
  LET rest == Spill(m, f, f + FRAME)
  IN [g \in DOMAIN rest \union {f} |-> IF g = f THEN r ELSE rest[g]]
-----------------------------------------------------------------------------
(* A handler with interrupts off is a function of this machine. *)
Now == [cpu |-> cpu, current |-> current, alive |-> alive, regs |-> regs,
        mem |-> mem, ptr |-> esp_stack_ptr, frame |-> NoFrame]

Become(next) ==
  \E m \in {next} :
    /\ cpu' = m.cpu /\ current' = m.current /\ alive' = m.alive
    /\ regs' = m.regs /\ mem' = m.mem /\ esp_stack_ptr' = m.ptr

(* code: the words the processor pushes above eip, an error code or none.  *)
(* With one, eip is read where the error code lies.                        *)
INT_START(m, code) ==
  LET f == m.cpu.esp - code - FRAME
      saved == [m.cpu EXCEPT !.esp = @ - code - IRET,
                             !.at = IF code # 0 THEN "wild"
                                    ELSE IF @ = "ud2" THEN "stuck" ELSE @]
  IN [m EXCEPT !.mem = Store(@, f, saved), !.ptr = f, !.frame = f]

InterruptedEspOnly(m) ==                         \* mutant: the +12 is left out
  LET sp == m.mem[m.frame].esp
  IN IF m.ptr # m.frame \/ m.frame \notin DOMAIN m.mem
     THEN [m EXCEPT !.cpu = Wild(m.current)]
     ELSE [m EXCEPT !.cpu = [m.mem[m.frame] EXCEPT !.esp = sp],
                    !.ptr = sp,
                    !.mem = Spill(Spill(@, m.frame, m.frame + FRAME), sp - IRET, sp)]

(***************************************************************************)
(* Pops the registers from where the global points, sets esp to the esp of *)
(* the frame the handler was given plus the 12 bytes, and pushes what      *)
(* iret takes there.  A global that no longer points at that frame makes   *)
(* it pop other words of the stack.                                        *)
(***************************************************************************)
INT_END(m) ==
  LET sp == m.mem[m.frame].esp + IRET
  IN IF m.ptr # m.frame \/ m.frame \notin DOMAIN m.mem
     THEN [m EXCEPT !.cpu = Wild(m.current)]
     ELSE [m EXCEPT !.cpu = [m.mem[m.frame] EXCEPT !.esp = sp],
                    !.ptr = sp,
                    !.mem = Spill(Spill(@, m.frame, m.frame + FRAME), sp - IRET, sp)]

(* sched_next_task: the frame goes to the table, the table to the frame. *)
SwitchTo(m, living, next) ==
  LET table == [m.regs EXCEPT ![m.current] = m.mem[m.frame]]
  IN [m EXCEPT !.regs = table, !.alive = living, !.current = next,
               !.mem[m.frame] = table[next]]
-----------------------------------------------------------------------------
(* The four boot tasks besides init are one here; the kernel's own stack   *)
(* is apart from theirs.                                                   *)
FrameInit ==
  /\ cpu = Registers(KERNEL, -TASK_STACK_CAP, "user", NoFrame)
  /\ current = INIT
  /\ alive = {p \in Pid : p < 2}
  /\ regs = [p \in Pid |-> Fresh(p)]
  /\ mem = [a \in {} |-> Fresh(INIT)]
  /\ esp_stack_ptr = NoFrame
  /\ hit = {} /\ spared = {} /\ diverted = {}

Running == cpu.who # KERNEL /\ cpu.at # "wild"

(* At the ud2 interrupts are off: nothing comes before its trap. *)
Interruptible == cpu.at \in {"user", "body", "back"}

(* Who is left after a switch: not without init, that would be a panic. *)
Outcomes == {living \in SUBSET alive : INIT \in living}

(* int $0x80 of kernel_start with eax = 0: sched_start_tasking. *)
StartTasking ==
  /\ cpu.who = KERNEL
  /\ LET m == INT_START(Now, 0)
     IN Become(INT_END([m EXCEPT !.current = INIT, !.mem[m.frame] = regs[INIT]]))
  /\ UNCHANGED history

(* An interrupt that comes after SYNC and before cli changes the global. *)
Interrupted == hit' = IF cpu.at = "back" THEN hit \union {current} ELSE hit

(* Keyboard, and the timer when it does not switch. *)
Interrupt ==
  /\ Interruptible
  /\ Become(INT_END(INT_START(Now, 0)))
  /\ Interrupted /\ UNCHANGED <<spared, diverted>>

(* The timer switches every task but init. *)
TimerSwitch ==
  /\ Running /\ Interruptible /\ current # INIT
  /\ \E living \in Outcomes : \E next \in living :
       Become(INT_END(SwitchTo(INT_START(Now, 0), living, next)))
  /\ Interrupted /\ UNCHANGED <<spared, diverted>>

(* System calls 1 (exit) and 4 (yield). *)
SwitchCall ==
  /\ Running /\ cpu.at = "user"
  /\ \E living \in Outcomes : \E next \in living :
       Become(INT_END(SwitchTo(INT_START(Now, 0), living, next)))
  /\ UNCHANGED history

Outlives(living) == spared' = IF current \in living THEN spared \union {current} ELSE spared

(* x86_error_trap, in a program or in a buffer a system call was given.    *)
(* The task dies, unless its ring was full of signals that kill nobody.    *)
ErrorTrap(code) ==
  /\ Running /\ cpu.at \in {"user", "body"}
  /\ \E living \in Outcomes :
       /\ \E next \in living :
            Become(INT_END(SwitchTo(INT_START(Now, code), living, next)))
       /\ Outlives(living)
  /\ UNCHANGED <<hit, diverted>>

(***************************************************************************)
(* x86_trap_do_divide_by_0: the switch is done, but no INT_END follows and *)
(* the handler runs on, with the stack of the divider below its frame and  *)
(* the next task as current_task, into the ud2 behind it.                  *)
(***************************************************************************)
DivideError ==
  /\ Running /\ cpu.at = "user"
  /\ \E living \in Outcomes :
       /\ \E next \in living :
            LET m == SwitchTo(INT_START(Now, 0), living, next)
            IN Become([m EXCEPT !.cpu = Registers(cpu.who, m.frame, "ud2", NoFrame)])
       /\ Outlives(living)
  /\ UNCHANGED <<hit, diverted>>

(* Who uses the stack the processor is stuck on, below the words its trap  *)
(* writes or above: it has grown since the divide, or has a new owner.     *)
StackUsers == {p \in alive \ {current} : cpu.at = "stuck" /\ p = cpu.who /\ p = regs[p].who
                                         /\ regs[p].at # "stuck"}

(* The trap of that ud2: x86_trap_invalid_opcode, for the current task.    *)
(* Its registers are those of the handler, and so they go to the table.    *)
KernelUd2 ==
  /\ Running /\ cpu.at \in {"ud2", "stuck"}
  /\ \E living \in Outcomes, hurt \in SUBSET StackUsers :
       /\ \E next \in living :
            LET table == [p \in Pid |-> IF p \in hurt THEN [regs[p] EXCEPT !.at = "wild"]
                                        ELSE regs[p]]
            IN Become(INT_END(SwitchTo([INT_START(Now, 0) EXCEPT !.regs = table], living, next)))
       /\ Outlives(living)
       /\ diverted' = diverted \union hurt
  /\ UNCHANGED hit

(* System calls 2 and 3 and the breakpoint trap, up to sti. *)
BecameAsync ==
  /\ Running /\ cpu.at = "user"
  /\ LET m == INT_START(Now, 0)
     IN Become([m EXCEPT !.cpu = Registers(current, m.frame - LOCALS, "body", m.frame)])
  /\ UNCHANGED history

ForgetsTheGlobals ==                             \* mutant
  /\ Running /\ cpu.at = "body"
  /\ cpu' = [cpu EXCEPT !.at = "back"]
  /\ UNCHANGED <<esp_stack_ptr, current, alive, regs, mem, history>>

(* jump, setsp and the like in the debugger, which is one such handler:    *)
(* the program will go on where its frame is now made to say.              *)
DebuggerSets ==
  /\ Running /\ cpu.at = "body"
  /\ mem' = [mem EXCEPT ![cpu.frame].at = "wild"]
  /\ diverted' = diverted \union {current}
  /\ UNCHANGED <<cpu, current, alive, regs, esp_stack_ptr, hit, spared>>

(* INT_BECAME_SYNC before its cli. *)
BecameSync ==
  /\ Running /\ cpu.at = "body"
  /\ cpu' = [cpu EXCEPT !.at = "back"]
  /\ esp_stack_ptr' = cpu.frame
  /\ UNCHANGED <<current, alive, regs, mem, history>>

(* cli and the INT_END of the handler. *)
LeaveHandler ==
  /\ Running /\ cpu.at = "back"
  /\ Become(INT_END([Now EXCEPT !.frame = cpu.frame]))
  /\ UNCHANGED history

(* sched_make_task, called by init outside any handler. *)
MakeTask ==
  /\ Running /\ current = INIT /\ cpu.at = "user"
  /\ \E p \in Pid \ alive :
       /\ \A q \in Pid \ alive : p <= q
       /\ alive' = alive \union {p}
       /\ regs' = [regs EXCEPT ![p] = Fresh(p)]
       /\ hit' = hit \ {p} /\ spared' = spared \ {p} /\ diverted' = diverted \ {p}
  /\ UNCHANGED <<cpu, current, mem, esp_stack_ptr>>

FrameNext ==
  \/ StartTasking \/ Interrupt \/ TimerSwitch \/ SwitchCall
  \/ \E code \in {0, 1} : ErrorTrap(code)
  \/ DivideError \/ KernelUd2
  \/ BecameAsync \/ DebuggerSets \/ BecameSync \/ LeaveHandler
  \/ MakeTask

FrameSpec == FrameInit /\ [][FrameNext]_frameVars
-----------------------------------------------------------------------------
Context(p) == IF p = current THEN cpu ELSE regs[p]
InHandler(r) == r.at \in {"body", "back"}

(***************************************************************************)
(* The frame a handler will leave through stands on the stack of its task, *)
(* whatever interrupts, switches, deaths, faults and new tasks come while  *)
(* interrupts are on, and holds the registers of the program, unless the   *)
(* debugger set them there.                                                *)
(***************************************************************************)
FramesStand ==
  \A p \in alive : LET r == Context(p) IN
    cpu.who # KERNEL /\ InHandler(r) =>
      /\ r.frame \in DOMAIN mem
      /\ p \notin diverted => mem[r.frame] = Registers(p, StackTop(p), "user", NoFrame)

(***************************************************************************)
(* A handler about to leave finds the global pointing at its own frame,    *)
(* unless an interrupt came between INT_BECAME_SYNC and its cli; then it   *)
(* never does, and the task goes astray.  Nothing else leads astray but a  *)
(* fault with an error code that its task outlives, the debugger, and the  *)
(* trap of a task put back at the ud2 of the divide handler, which only a  *)
(* task that outlived that trap is.                                        *)
(***************************************************************************)
LeavesThroughOwnFrame ==
  /\ cpu.at = "back" => (esp_stack_ptr = cpu.frame <=> current \notin hit)
  /\ cpu.at = "wild" => current \in hit \union spared \union diverted
  /\ cpu.at = "stuck" => current \in spared

(***************************************************************************)
(* No path drifts: a program always runs with the stack its task was given *)
(* (12 bytes above the address in the table), a handler one frame and its  *)
(* locals below, a saved task at the 12 bytes INT_END will add; and the    *)
(* registers on the processor are those of the current task.  The one      *)
(* exception runs at the ud2 of the divide handler, one frame below the    *)
(* top of the divider's stack, or is saved there for a task that outlived  *)
(* its trap.                                                               *)
(***************************************************************************)
StacksLevel ==
  LET Level(r, top) ==
        /\ r.at = "user" => r.esp = top
        /\ InHandler(r) => r.frame = StackTop(r.who) + IRET - FRAME
                           /\ r.esp = top - FRAME - LOCALS
        /\ r.at \in {"ud2", "stuck"} => r.esp = top - FRAME
  IN /\ cpu.who # KERNEL =>
          /\ cpu.who = current \/ cpu.at \in {"ud2", "stuck"}
          /\ Level(cpu, StackTop(cpu.who) + IRET)
     /\ \A p \in alive \ {current} :
          /\ regs[p].who = p \/ (regs[p].at = "stuck" /\ p \in spared)
          /\ Level(regs[p], StackTop(regs[p].who))
=============================================================================
