# klyx: models, checks and proofs

klyx is a small i386 kernel. Everything runs in ring 0 on one processor; the
only concurrency is that of interrupts and of the switches they cause. These
modules model its process table and scheduler, its signals, the programs it
boots, both sides of its terminals, the stack frames of its interrupts, and its
pure parts: clock, segments and gates, string routines, the debugger console
and the i386 emulator. TLC checks them on small instances and TLAPS proves the
invariants of the kernel's concurrent parts and of the programs it boots for
every size, and what its pure parts compute for every input. Every safety
property that a run checks is a theorem; liveness is only model-checked.

## 1. Inventory

| Component | Source | State | Operations | Model |
|---|---|---|---|---|
| Process table, scheduler | `kernel/sched.c` | `tasks[256]`, `current_task` | `sched_make_task`, `sched_kill_task`, `__flush_signals`, `sched_next_task`, `sched_start_tasking` | `Sched` |
| Signal rings | `kernel/sched.c`, `sched.h` | per task: cells, two heads, size | post, deliver, reset on reuse | `SigRing`, `SigFifo` |
| System calls, error traps | `kernel/traps.c` | `is_tasking_avaliable`, the interrupted frame | 13 system calls, timer, 18 traps | `Sched`, `IntFrame`, `Clock`, `CLib` (partly) |
| Boot programs | `kernel/test.c`, `kernel/main.c` | program, terminal, login, su nesting | init, login, shell, test_b | `Userland` |
| Keyboard and line input | `kernel/console.c`, `kernel/tty.c` | 4 scancode rings, `keys_state`, displayed terminal, `errno`, a line | keyboard interrupt, `con_read`, `tty_read` | `Console` |
| Screen output | `kernel/console.c`, `kernel/main.c` | 4 copies, 4 cursors, video memory | `con_putstr`, `con_putstr_rev`, F1-F4 redraw, the shell's `strcpy` | `Screen` |
| Interrupt frames | `include/klyx/hw.h`, `kernel/traps.c` | 4 globals and the stacks | `INT_START`, `INT_END`, `INT_BECAME_*` | `IntFrame` |
| Clock | `kernel/time.c` | RTC registers | `__get_time`, `mktime` | `Clock` |
| i386 emulator | `kernel/i386_emulator.c` | registers, memory | register access, operands, five instructions | `Emulator` |
| Descriptor tables | `kernel/hw.c` | GDT, IDT | `gdt_set`, `gdt_init`, `idt_set` | `Descriptors` |
| Debugger console | `kernel/traps.c` | saved registers | a command line | `Debugger` |
| C library | `include/string.h` | - | copy, fill, compare, length | `CLib` |
| Kernel start and panic | `kernel/main.c` | - | boot table, gates, lines | `Sched`, `Screen`, `Descriptors` (partly) |
| Mutex, mfs.h, printf (vendored), boot loader, build | - | - | - | section 8 |

How they interact. An interrupt or trap saves the registers of the interrupted
task in a frame and calls its handler. A handler that switches calls
`sched_next_task`, which copies the frame to the current slot, delivers signals
and copies the chosen slot's registers into the frame. `kill` and the error
traps only post a signal to a ring; it is delivered when its task is switched
out or, if it is stopped, when a search passes it. The system calls read, write
and time and the breakpoint trap run longer: read, write and the breakpoint with
interrupts on, so that they race with the keyboard interrupt, with the other
shells, and with every handler that uses the same four globals of hw.h. init
finds dead shells with `kill(pid, 0)` and calls `sched_make_task` directly.

What is hard here: the order of delivery, search and copy inside one switch;
slots that are reused while others still name them by pid; a full ring; the
stopped and the unswitchable task; the polling readers, which share `errno`,
the displayed terminal and the ring counters with no lock; the writers, whose
picture and screen an F-key, a kernel message or a death may separate; frames
found through a global. `PROJECT.json` lists these hazards line by line.

What makes each component correct:

* scheduler: init is never freed; the task that gets the processor is alive and
  not stopped; registers stay with their owner; nobody dies without a cause;
  nobody starves; it panics only when it must;
* rings: a bounded queue, in order, losing only when full;
* system calls: root, once given up, does not come back;
* boot programs: the machine never halts whatever users type, short of setting a
  register in the debugger; every shell has the identity its user logged in with;
  a lost shell comes back;
* input: each key reaches the reader of its terminal once and in order;
* output: the screen is the picture of the displayed terminal; a cursor is
  outside only where the code is about to bring it back;
* frames: a handler leaves through the frame it came by; stacks do not drift;
* clock: a reading is of one moment; days are counted as on a calendar;
* emulator, descriptors, library, debugger: what they compute is what it should
  be, or exactly this far from it.

## 2. Modules

| Module | Stands for |
|---|---|
| `SigFifo` | what a signal ring promises: a queue of at most `TASK_SIG_CAP - 1` signals |
| `SigRing` | the ring with its heads, counter and cells; implements `SigFifo` |
| `SigRingProofs` | the ring invariant and the refinement, for every capacity |
| `Procs` | what the process table promises: processes that obey their signals in order |
| `Sched` | process table, signals, switches, system calls, traps; implements `Procs` |
| `SchedLoops` | the loops of the source, one turn after another, against the closed forms of `Sched` |
| `MCSched` | instances; the properties the code does not have |
| `SchedProofs` | the inductive invariant of `Sched` and what follows from it; the loops are their closed forms; what no step of `Sched` does; the refinement of `Procs` |
| `Userland`, `MCUserland` | the boot programs, each step one action of `Sched` |
| `UserlandProofs` | the inductive invariant of `Userland`, over that of `Sched` |
| `Console` | keyboard interrupt, scancode rings, polling readers |
| `ConsoleProofs` | the inductive invariant of `Console` |
| `Screen`, `MCScreen` | writers, pictures, the screen, F-keys, kernel messages, deaths |
| `ScreenProofs` | the inductive invariant of `Screen` |
| `IntFrame` | the stacks and frames of nested and interrupted handlers |
| `IntFrameProofs` | the inductive invariant of `IntFrame` |
| `Clock`, `Emulator`, `Descriptors`, `CLib`, `Debugger` | the pure parts, as operators |
| `Algorithms` | a step that draws an input for one of them, and the properties |
| `MCAlgorithms` | the inputs they are checked on, and the bitwise or |
| `HardwareProofs` | emulator, descriptors and debugger, for every input |
| `AlgorithmsProofs` | clock and string routines, for every input; the invariants of `Algorithms` |

`Userland` extends `Sched`: its actions conjoin an action of `Sched` (`SysKill`,
`SysExit`, `Spawn`, `Timer`, ...) with a move of the program counter of the task
that makes it, so the programs can do only what the handlers allow. The rings of
`Sched` are sequences; `SigRing` shows that the heads and counter of the code
are such sequences.

`Sched`: `tasks[p]` is the record of slot p (pid p + 1).
`regs` is abstracted to the owner of the register set (or `KERNEL`, for the code
behind the handler that lacks `INT_END`); `cpu` is what the interrupted frame
holds; `halt` is the panic that stopped the machine. A handler is one action,
because interrupt gates clear IF. The loop of `__flush_signals` and that of
`sched_next_task` are closed forms; the invariant `ClosedFormsAreTheLoops` of
`SchedLoops` compares them with the loops, turn by turn, in every reachable state.

`Procs` knows neither slots' registers, nor switches, nor turns. A process runs, is
stopped or dead, and has a queue and a uid; in a step somebody may post, exit,
start a process or change its uid, and then every process obeys as many of its
signals as it likes. `AsProcess` maps a slot to its process, `OnProcessor` the
current task to the process that has the processor (none before the first
system call and after a panic). So a missed delivery is allowed and a signal
delivered twice, out of order, or to the next process of a reused slot is not.

`IntFrame` is the same switch seen from below: memory in words of 4 bytes, a
frame of 16 words that stands until a word of it is written, the global
`interrupt_esp_stack_ptr`. A set of registers is whose it is, how deep its stack
is, where in a handler it is, and the frame that handler will leave through; the
contents of the other registers move with it. Who runs next is left
open, and so is who dies in a switch: any set of tasks without init, since
`sched_next_task` flushes the signals of the current task and of every stopped one
it passes; `Sched` says which. An init that dies is a panic. A handler with
interrupts off is one action; `BecameAsync`, `BecameSync` and `LeaveHandler` are the
three pieces of one that turns them on, and `DebuggerSets` is a register set in the
debugger, which is such a handler. `DivideError` is the handler without an
`INT_END`: it switches and runs on into the ud2 that gcc puts behind the call, on
the divider's stack, with the next task as `current_task`. Its registers are then at
"ud2", and only the trap of that ud2 can follow (`KernelUd2`). That trap stores them
in the slot of the current task; if this one outlives its SIGILL because its ring was
full, it is "stuck": whenever it is switched to, it runs at that ud2 again. By then
the divider's stack may have been used since, or have a new owner, whose words the
trap writes over or not (`StackUsers`). `StackTop(p)` is one stack above the address
in `sched_make_task`, so that slot 0 has room below it. The boot tasks besides init
are one, and the stack of the kernel's start lies apart. Three history variables
remember tasks: `hit` those interrupted in the window of `INT_BECAME_SYNC`, `spared`
those that outlived a fault, and `diverted` those whose registers the debugger
set or whose stack a stuck one's trap wrote on. A task that is "wild" may be at any
address, and the model follows it no further.

`Userland`: `at[p]` is the place in the program of slot p, `login[p]` the account
chosen, `su[p]` the stack of ids that nested `su` shells keep in locals. Root's
login and the refusal to log in without root are the branches of `login()`; the
refusal cannot be taken, since every task starts with the ids of root. `Kdbg` is the
shell's `kdbg`, whose task is in the debugger until `cont`. One that sets no register
goes on behind the trap. `jump`, though, sets `eip` to any address and the other
commands set `esi`, in which the compiler may keep what the shell goes on with; so
the first of either sets the history variable `adrift`, and from then on the
programs do what they like. What the properties of `Userland` say, they say until
then, and each begins with `~adrift`. `Adrift` keeps one thing such a task may do, a
system call that does not exist, to show that the condition is needed: the kernel
then panics.

`Console`: the handler is one action; `tty_read`, `con_read` and `pop_scancode`
are split at each access to shared state. Where the source leaves the order open
(`--size`), the model follows the code gcc emits with the flags of the
Makefile: load, test, store. `unread` and `rough` are history variables: the keys
accepted and not yet acted on, and whether something hit a reader in mid-pop.

`Screen` splits a character at each access to what writers share, in the order of the
source: the write to the copy, the test of `current_tty_displ`, the write to the screen,
the load and the store of the cursor, its test, its reset; a scroll is `memcpy` and
`memset` on the copy, the test, and the two again on the screen. (gcc, with the flags of
the Makefile, moves the cursor's test before its store; the model does not rely on
that.) So a cursor stands past the end between its store and its reset, where an
interrupt may print with it: 4000 bytes further lies the picture of the next
terminal, and `Owner` says whose picture an index hits. A death just there leaves it
outside for the task that gets the slot. A message of the kernel is one step, because it
is printed with interrupts off; here it is one character. `Strcpy` is the shell's
`strcpy` command, which writes to the video memory and to no picture. `torn` says that a
redraw, a message or a death came where it leaves screen and picture apart, or that
`strcpy` did; `crossed` names the writers with a character in flight that a message was
printed across; `left` the terminals whose cursor a death left untested. The four bytes of
colour are left out: a cell is its character.

The pure parts are operators over records, put together in `Algorithms`: a step
draws an input and the invariants are about it. Its constant `Inputs` says which
inputs there are of each kind, and `InputAssumption` what they may be: any the
kernel can meet. Widths are constants where a mask or a wrap matters: a byte of
`Emulator` has `BYTE` values (256), a digit of `Descriptors` has `DIGIT` (16),
a size_t of `Debugger` has `SIZE` (16^8). Masks and fields of the code fall on
those borders, so the arithmetic is the same at smaller radix. The emulator works on
words and bytes by quotient and remainder; only where a byte is ORed over another
does it need the bits, through the constant `BitOr`, of which no more is assumed
than that it stays within a byte. TLC takes the `|` of the module `Bitwise` for it. `Clock` counts accesses: the clock announces an update `LEAD`
of them ahead. A PC's clock does so 244 microseconds ahead, room for many more
than the six accesses of one reading, which is what `LEAD > 6` says.

The operators marked `mutant` are wrong variants that no specification uses;
they show what each property would notice.

## 3. Runs

| Run | Bounds | Shows |
|---|---|---|
| `sigring` | ring of 4, three signals | the counters agree; the ring implements the bounded queue |
| `sched_safety` | 3 slots, rings of 3 cells, kill with SIGCHLD, stop and continue, a trap's signal | the safety and action properties of the scheduler; closed forms are the loops; `Sched` implements `Procs` |
| `sched_ids` | 3 slots (one free at boot), two uids, two gids | `RootStaysGivenUp`; `Sched` implements `Procs`, uids included |
| `sched_live` | 3 slots, rings of 2 cells | `NoStarvation`, `LethalSignalKills` under fairness |
| `userland` | 6 slots, root and one account, one nested `su`, one task in the debugger | `NeverHalts`, `SlotsAsInitThinks`, `UidIsTheLogins` |
| `userland_live` | 6 slots, root only, one task in the debugger | `ShellComesBack` under fairness |
| `console` | 2 terminals, ring of 3, one kind of key and backspace | `ReadsInOrder`, `SizeNeverAhead` |
| `screen` | 3 columns, 2 rows, 2 terminals, one of them reversed, 4 characters, 2 marks | `CursorsInside`, `ScreenIsThePicture` |
| `frame` | 3 slots, stacks of 64 words, 2 words of locals | `FramesStand`, `LeavesThroughOwnFrame`, `StacksLevel` |
| `algorithms` | 40 thousand inputs, see `MCAlgorithms` | the twelve properties of the pure parts |
| `sched_noproc`, `sched_fault` | as small as shows it | the disagreements of section 5 |

Why the bounds are enough. Three slots give init, a task that acts and one that
is acted on, and a round of the search that passes somebody; two would make the
current task also the last one looked at. A ring of three cells holds two
signals: enough to queue a stop, a continue or a kill in either order and
to be full. Six slots are the five boot tasks and one that must stay free. A
scancode ring of three holds two keys, so it wraps, fills and can lose count;
two readers are what the races over `errno` and the displayed terminal take.
Two rows
are a scroll that moves one up and drops one; two newlines reach it and leave two more
characters, to come between its steps or after it; one backspace wraps the cursor from
0, and the mark a message then leaves goes past the picture, to the other terminal or
to none. The two marks are interchangeable, so `MCScreen` takes them as a symmetry set.
Stacks of 64 words hold the handler, its locals and a frame on top,
with a gap; `IntFrameProofs` needs only more than 34. Of the pure parts, `MCAlgorithms`
takes every register number with values on both sides of each border of a mask;
every day of six years around a leap day, a century and the end of the two
digits; every instant of an update; every limit of a 32-bit range at radix 2;
every memory of six bytes of three values; every command with up to one digit
too many.

The bounds inside the models are `MAX_UNREAD` (keys typed ahead), `TypedOn` (the
terminals typed on), `Held` (keys that may stay down), `SU_DEPTH`, `KDBG_MAX` (tasks in the
debugger at a time), `MAX_CHARS` and `TEXT` (cells that `strcpy` writes, 32 in the code).
`TypedOn = {0}` keeps the other ring empty; its reader still polls it and, after
a switch at the wrong moment, pops from ring 0.

`CHECK_DEADLOCK FALSE` stands in the `MCSched` configurations because a panic
loops for ever, in `MCScreen` because of the bound on characters, in `IntFrame`
because nothing is said of a task gone astray, in `MCUserland` because one adrift may
panic, and in `MCAlgorithms` because an input is drawn once. `Console` and `SigRing` are
checked for deadlock.

## 4. Fairness

`Sched` has one condition, `WF_vars(Drive)`: in a machine that is not halted the
boot reaches its first system call, the PIT interrupts a task that may be
switched, a task the timer may not switch (only init) yields, as `test_init`
does in every turn of its loop, and an invalid instruction traps. In every state
that is not halted exactly one of these can happen. No system call or trap of a
program is fair. `Userland` likewise: the timer and init's own steps go on;
users need not type. There weak fairness of the one disjunction is enough
because the timer leaves init alone until it yields. The other specifications
state safety only.

## 5. Disagreements found

Two have a run:

* `sched_noproc`: a stopped init with a pending SIGCONT, last to be passed, is
  woken by the sweep and the kernel panics that no process is available.
* `sched_fault`: a division by zero makes the next task die too, because the
  handler has no `INT_END`.

The others are stated by passing properties, which say what the code does
instead:

* `ImplementsProcs`: SIGCHLD and SIGURG, marked "ignore" in `sigtype` (`sched.h:76`,
  `sched.c:28`), and SIGTSTP, SIGTTIN and SIGTTOU, marked "stop" (`sched.h:78`,
  `sched.c:40`), are lethal signals: nothing reads the table.
* `UidIsTheLogins`: after `login` an ordinary user's shell has group 0; setgid
  is refused once setuid has been done (`test.c:123`).
* `SlotsAsInitThinks` is conditional: once test_b has been killed its slot is
  the lowest dead one, the next shell init starts lands there, and init starts
  another for the pid it still finds dead.
* `SizeNeverAhead` is an inequality: a key typed between the load and the store
  of the counter is not counted, so it waits for the next key, and a ring that
  has lost count can be overrun.
* `Console` has no end of file: ESC is a special key, which the interrupt does not
  put into the ring (`console.c:236`), so `con_read` never returns it, and nothing ends
  a read but a newline.
* `NeverHalts`, `SlotsAsInitThinks` and `UidIsTheLogins` hold until somebody sets a register
  in the debugger: `jump` (`traps.c:173`) sends a shell to any address.
* `LeavesThroughOwnFrame`: an interrupt between the last assignment of
  `INT_BECAME_SYNC` and its `cli` makes the handler pop a frame that is gone; a
  task that outlives a trap with an error code resumes with the code in `eip`'s
  place, because no trap handler drops it.
* `StacksLevel`: after a division by zero the ud2 behind the handler traps on the
  divider's stack, and a task whose ring is full outlives the SIGILL and is put back
  there, on a stack that is not its own.
* `CursorsInside`: a cursor is past its end between its store and its reset, and stays
  there if its task dies between the two.
* `ScreenIsThePicture` excepts what `torn` remembers: an F-key between the test
  and the write of `con_putstr`, a message or a death in the middle of a write, a
  message printed with another terminal's cursor past its end, and the shell's
  `strcpy` command, which writes to the screen alone (`test.c:234`).
* `DaysAreRightOrOneBehind`, `RepeatsOnlyNewYear`: `mktime` is a day behind in
  January and February and through every leap year, so the first day of the
  year after a common one has the number of the last.
* `WritesStayInPlace`: the emulator's masks for bytes keep the wrong byte of the
  value; a byte written reads back 0 and its neighbour is ORed.
* `Address`: the members `reg1`, `reg2`, `imm1`, `imm2` of an operand share one
  union, so `[reg1 + reg2 * imm1]` of the comments in `i386_emulator.h` has one
  number for all; push moves `esp` before it evaluates its operand.
* `DebuggerSetsTwoRegisters`: `memcmp` compares first bytes only, so every `set`
  command of the debugger sets `esi`, and those with four letters lose a digit.
* `StrcpyKeepsTheOldEnd`: `strcpy` copies no NUL.
* `SegmentsHoldTheirLimit`: the flat segments of `gdt_init` end at 1 MiB (their
  limit is in bytes and is divided into pages), while the stacks lie far above;
  an emulator that checks no limits does not notice.

## 6. Proofs

`SigRingProofs` proves, for every capacity and signal set, `RingCorrect` (the
ring invariant) and `RingImplementsFifo`. The only assumption is that a ring has at
least two cells.

`SchedProofs` proves for every table size, ring capacity and boot table:
`SchedTypeOK`, `InitIsImmortal`, `CurrentIsRunnable`, `ContextsAreOwn`, all from
`SchedInvHolds`. The inductive invariant `SchedInv` joins the four properties
and one more fact: until tasking starts, init is not stopped. `CurrentRunnable` speaks only of a machine that is tasking, and
without that fact the first system call could load a stopped init. The
argument goes by operator: a lemma for each of `sched_make_task`,
`sched_kill_task`, `__flush_signals`, `PickNext` and `sched_next_task` says what
it keeps of a well-formed machine, and the proof of each action combines the
lemmas of the operators it calls. `NatMin` (the least element of a non-empty
set of naturals exists) comes from the well-founded order on Nat and carries the
two uses of `Min`. The assumptions are those of `Sched`: the table has a slot, a ring two cells, the
boot table fits and the sets of signals consist of signals.

`LoopsAreTheClosedForms` proves of the same module that a ring of any capacity, flushed
signal by signal, and a table of any size, searched slot by slot, come to the closed
forms `__flush_signals` and `PickNext`, on which every other theorem about `Sched`
rests. `Flushed(t, k)` and `Tried(m, n)` say where the loops stand after some
turns: a task that has obeyed `k` stops and continues, or died at the first lethal
signal; a search that has passed `n` slots and flushed them, or found a task, or met
a dying init. The lemmas `FlushedTurn` and `TriedTurn` take each one turn further.
The second needs that a search sees no slot twice (`TurnOnce`), since only then is
each slot as the search found the table. The argument by the least turn is the one
described under `AlgorithmsProofs` below.

The last part of the module proves the four action properties of `Sched` under
`SchedInv`: `RootIsNotRegained`, `EveryDeathHasCause`, `StopHoldsUntilCont` and
`EmptySearchNeedsStoppedInit`. One relation between the machine before and after
a handler says all four at once; each operator is shown to keep to it, so an
action is lawful because the operators it is made of are.

`SchedImplementsProcs` proves the refinement. A flush is a process obeying its
signals up to the first lethal one (`FlushObeys`); a switch may flush the same slot
twice, first as the current one and then as one the search passes, and the second
flush finds nothing (`FlushTwice`). Hence a switch is every process obeying some
of its signals or none (`SwitchObeys`), and a handler is the action of `Procs` that
its call before the switch is: `SignalStep`, `ExitStep`, `SetuidStep` and
`SpawnStep` each take one slot to one process; a post to a full ring and a spawn
in a full table change nothing, and are `Obey`. It rests on `SchedInv`: only a current task that is
runnable may be the one that has the processor.

`ScreenProofs` proves `ScreenTypes`, `CursorsStayInside` and
`ScreenShowsThePicture` for every size of screen, with two assumptions: cursor
arithmetic of one more row fits an unsigned short (80 * 26 does), and each
terminal has one writer. The second is a restriction: `Userland` reaches two
shells on one terminal once test_b has been killed. None of the three is inductive. To the
types (`Shape`) `CursorInv` adds that a writer about to reset found its cursor too large
and that any other whose cursor is outside has not tested it yet (`Tested`);
`ScreenInv` adds what is true between copy and screen: a character
in flight is in the picture at the cell its writer remembers, and while the
displayed terminal's writer is between its copy and its screen the two differ in
just that cell, or by just that scroll; `crossed` and `torn` excuse the rest.

`IntFrameProofs` proves `HandlersKeepTheirFrames`, `OnlyTheWindowLeadsAstray` and
`StacksDoNotDrift` for any number of tasks, from one assumption: a stack holds
two frames and the locals of a handler (8192 bytes against some hundred).
`FrameInv` says of each task, on the processor or in the table, on whose stack its
registers are and at which of a few depths (`Level`), of a saved one that it is its own or
stuck (`Settled`), and of a task in a handler that its program's registers stand in its
frame (`Standing`). That is inductive because stacks of two slots do not meet
(`StacksApart`, the only arithmetic that multiplies), because what an interrupt writes
lies above or below the frame, and because the ud2 of the divide handler lies one frame
down its stack, so that its trap writes below the frame of any handler that stands
there; what it does to that handler's locals is in `StackUsers`. A handler with interrupts off is a
function of the machine: `InterruptOutcome` and `SwitchOutcome` say what it leaves, once,
`SwitchKeeps` that every switch keeps the invariant whoever dies in it, and every
action cites them.

`UserlandProofs` proves `ProgramsNeverHalt`, `ProbesFindTheirShells` and
`ShellsKeepTheirUid` for any accounts, any number of nested `su` shells, any number of
tasks in the debugger and any table size, each until a register is set there. The assumptions are those of `Sched` and `Userland`; one of them,
`BootAssumption`, says that every boot task has a program and that init's gate is
the only-by-yield kind, as the calls in `kernel_start` (`main.c`) have it. None of
the three is inductive. `UserInv` adds `SchedInv`; that no signal is ever pending
for init, that it is not stopped and the timer spares it (`InitCalm`, so the two panics
need something no program does); that between two probes of one turn of its loop
nobody else runs (`InitProbes`, `ProbesDone`: when init probes slot 4 the shell of
slot 1 lives, which is why a new shell lands where the next probe looks); that a
live task is at a place of its own program (`PlaceFits`); and the ids of a shell
at each such place, with those saved by nested `su` (`ShellsFit`). Each action is an
action of `Sched`, so its effect on the table comes from lemmas about `Sched`'s
operators, and what remains is a move of one program counter.

`ConsoleProofs` proves `ConsoleTypes`, `KeysAreReadInOrder` and `CounterIsNeverAhead` for
any number of terminals and readers, kinds of key and ring size. `ReadsInOrder` alone
is not inductive: whether a step of a reader is right depends on what it loaded
before. `ConsoleInv` therefore says of each place of a reader what its locals still
mean there (`ReaderInv`): the terminal it stored is its own, the counter it loaded
promises no key that is not there, the index it will store is the one it read.
All of that holds while nothing hit a reader in mid-pop (`rough`). The order of a ring
is one relation on plain values (`Kept`), with a lemma for a key put in and
one for a key taken out; the proof of a step first shows which of the two,
or none, happens to which ring.

`HardwareProofs` proves what the operators of the emulator, the descriptor
tables and the debugger do, for bytes and digits of any number of values: the 256
and 16 of the code, and those TLC takes. `WritesStay` is about every register
set, register number and value; `SubTakesBack` and `PushAndPopMove` about every
state of registers and memory and every two operands. `SegmentsAreAsAsked` is
about every limit and base and a table of any length, `GatesLead` about handlers at
any addresses of 32 bits, no two at the same one, and `LinesSetTwoRegisters` about
every line, however long. The assumptions are that a byte and a digit have at least two
values, that the table has more than three entries, and the one on `BitOr`.
Almost all of the arithmetic is one idea, that a number is cut into fields and put
together again, which is nonlinear when the radix is a parameter. So it is
done once, on plain numbers (`DivMod`, `DivModIs`, `QuotientBelow`, `ModShift`),
and then for a field of a dword (`Part`, `Put`), for four bytes in memory
(`LoadsTheStored`), for a base and a limit in a descriptor (`BaseIs`, `LimitIs`), and the
proofs about instructions cite those. Memory wraps round, so whether two dwords
in it meet is a question of remainders (`Around`, `AroundBack`).
`ReadHexReadsWhatIsSpelled`, on which the debugger's commands rest, compares two recursions
over a line of any length: that a solution exists at all is shown with a shortest line
that has none (`NumberExists`), and that each turn of `__read_hex` is the
remainder of the number so far with the step `HexStep`.

`AlgorithmsProofs` proves, for every moment of the clock and instant of its update,
`TimeReadsOneMoment`; for every day of its century, `DaysAreCountedOrOneLess` and
`OnlyNewYearRepeats`; and for every memory that ends in NUL,
`StrcmpIsAnEquality`, `ScrollIsAMove` and `StrcpyKeepsTheEnd`. The first needs
`ClockAssumption`, that the clock announces an update more than six accesses ahead;
the others assume nothing. At its end are the twelve invariants of `Algorithms`
(`RegisterWritesHolds` to `DebuggerLinesHolds`), each from the theorem about its operator
here or in `HardwareProofs`: they hold whatever the inputs are, by `InputAssumption`, which
TLC finds true of its own.
Three of the theorems before those rest on loops: the copy of `memcpy`, the years and the months of
the calendar. The provers have no induction over a predicate, but they have the
well-founded order on the naturals. So each loop gets a closed form (`Copied`,
`YearsBefore`, `MonthsBefore`), a lemma that one turn takes the closed form to
itself (`CopyTurn`, `YearStep`, `MonthStep`), and an argument by the least
counterexample: were loop and closed form ever apart, they would be apart
first at some turn (`LeastOf`), and the turn before forbids it.

Only model-checked: `NoStarvation`, `LethalSignalKills` and `ShellComesBack`, since
liveness under fairness is out of the prover's reach. Outside what is proved
lies also the module `Bitwise`, which the provers cannot use: that `|` of two bytes
is a byte is checked by TLC for the bytes of its instance and assumed otherwise. The two
properties of section 5 that have a run are false.

## 7. Plan

Readers that share a terminal in `Console`, and writers that do in `Screen`.

## 8. Not modelled

The vendored printf, the boot loader, the link scripts and tools are no part of
the kernel's logic; `mfs.h` declares structures only. The mutex is used by
nobody. getuid, getgid and getpid change no state, and of uname only its
`strcpy` is modelled. The commands of the shell that only print, and `enc`, change
no process. A shell in the debugger reads its lines with the `tty_read` of `Console` and
is that reader; its `peek` only prints. What a task does at an address it was sent to with
`jump`, or with registers of another's making, is not modelled beyond the one call of
`Adrift`: in ring 0 it is anything. A program has no depth of its own in `IntFrame`, so
stacks never overflow there. In the code they can: every `su` nests a `shell()` with
a buffer of 512 bytes on a stack of 8192, and about a dozen of them run into the stack
below. `SU_DEPTH` is any number in the proofs, but nothing in `Userland` says where the
ids that su put aside lie. The emulator's functions for a `regs_t` are the text of those for an
`int_regs_t` and share their operators. Of `struct tm`, the day of the week is
left out: nothing reads it. `con_setcur` and `tty_setcur` have no caller. The
rate of the PIT and the loading of the tables are instructions with no state
here. The instants of `kernel_start` in which gates are loaded and the
controllers not yet remapped are not modelled; `Gates` is about the end of them.
Register contents are not in `IntFrame`, so the handler `idt_nothing`, which
ends an interrupt without saving `eax`, is in `Gates` only. Two shells on one
terminal (see section 5) would share one scancode ring and one picture; `Console`
has one reader and `Screen` one writer per terminal.
