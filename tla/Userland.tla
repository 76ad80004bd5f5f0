----------------------------- MODULE Userland ------------------------------
(***************************************************************************)
(* The programs of kernel/test.c on top of the scheduler: init, which      *)
(* probes three pids with kill(pid, 0) and refills the table, the login    *)
(* and shell of each terminal, and test_b, which the shells stop, continue *)
(* and kill.  Every step of a program is one step of Sched and moves the   *)
(* program counter of the task that makes it; the timer moves only the     *)
(* processor.  The shells' kdbg enters the debugger of kernel/traps.c,     *)
(* which may send its task to any address: from then on the programs are   *)
(* adrift, and what is claimed of them is claimed until then.              *)
(***************************************************************************)
EXTENDS Sched

CONSTANTS Logins,      \* the uids of the accounts a user may log in with
          SU_DEPTH,    \* how many su shells a user nests (bounds the model)
          KDBG_MAX     \* tasks in the debugger at one time (bounds the model)

ASSUME LoginAssumption ==
  Logins \subseteq Uids \cap Gids /\ SU_DEPTH \in Nat /\ KDBG_MAX \in Nat

VARIABLES prog,        \* the program of each slot
          tty,         \* its terminal
          at,          \* where the program is
          login,       \* the uid of the account chosen at login
          su,          \* the ids each nested su put aside, innermost last
          adrift       \* history: a register was set in the debugger

progVars == <<prog, tty, at, login, su>>
userVars == <<vars, progVars, adrift>>

Programs == {"none", "test_init", "test_a", "test_b", "test_c"}
Places == {"probe 2", "probe 4", "probe 5", "yield", "login", "setgid", "shell",
           "kdbg"}

(* What kernel_start loads, slot by slot. *)
BootProg == <<"test_init", "test_a", "test_b", "test_a", "test_c">>
BootTty == <<0, 0, 1, 2, 3>>

(* It makes these five tasks; init, the first, is the one it makes yield_only. *)
ASSUME BootAssumption == Len(BootYieldOnly) = Len(BootProg) /\ BootYieldOnly[1]

Start(program) == CASE program = "test_init" -> "probe 2"
                    [] program = "test_b" -> "yield"
                    [] OTHER -> "login"

UserInit ==
  /\ Init
  /\ prog = [p \in Pid |-> IF p < Len(BootProg) THEN BootProg[p + 1] ELSE "none"]
  /\ tty = [p \in Pid |-> IF p < Len(BootTty) THEN BootTty[p + 1] ELSE 0]
  /\ at = [p \in Pid |-> Start(prog[p])]
  /\ login = [p \in Pid |-> 0]
  /\ su = [p \in Pid |-> <<>>]
  /\ adrift = FALSE

Me == current_task
At(place) == Running /\ at[Me] = place
GoTo(place) == at' = [at EXCEPT ![Me] = place]
Stay == UNCHANGED progVars
-----------------------------------------------------------------------------
(* init *)

(* The slot that sched_make_task fills belongs to program on terminal t. *)
Load(program, t, next) ==
  LET p == Min(DeadSlots(tasks))
  IN /\ Spawn
     /\ prog' = [prog EXCEPT ![p] = program]
     /\ tty' = [tty EXCEPT ![p] = t]
     /\ at' = [at EXCEPT ![p] = Start(program), ![Me] = next]
     /\ login' = [login EXCEPT ![p] = 0]
     /\ su' = [su EXCEPT ![p] = <<>>]

ProbeOneTooFar(here, pid, program, t, next) ==    \* mutant: a pid is slot + 1
  /\ At(here)
  /\ \/ tasks[pid].dead /\ Load(program, t, next)
     \/ ~tasks[pid].dead /\ GoTo(next) /\ UNCHANGED <<vars, prog, tty, login, su>>

(* kill(pid, 0) fails for a dead slot; the new task goes to the lowest one. *)
Probe(here, pid, program, t, next) ==
  /\ At(here)
  /\ \/ tasks[pid - 1].dead /\ Load(program, t, next)
     \/ ~tasks[pid - 1].dead /\ GoTo(next) /\ UNCHANGED <<vars, prog, tty, login, su>>

ProbeTestB == Probe("probe 2", 3, "test_a", 0, "probe 4")      \* mutant

Probe2 == Probe("probe 2", 2, "test_a", 0, "probe 4")
Probe4 == Probe("probe 4", 4, "test_a", 2, "probe 5")
Probe5 == Probe("probe 5", 5, "test_c", 3, "yield")

InitYields ==
  /\ At("yield") /\ prog[Me] = "test_init"
  /\ SysYield /\ GoTo("probe 2") /\ UNCHANGED <<prog, tty, login, su>>
-----------------------------------------------------------------------------
(* test_b *)

TestBYields == At("yield") /\ prog[Me] = "test_b" /\ SysYield /\ Stay
-----------------------------------------------------------------------------
(* login *)

(***************************************************************************)
(* The first half of a login: root is root already, another calls setuid.  *)
(* A task here is fresh and sched_make_task gave it the ids of root, so    *)
(* the refusal "must be runned as root" is a path no task takes.           *)
(***************************************************************************)
Login(id) ==
  /\ At("login") /\ tasks[Me].uid = 0 /\ tasks[Me].gid = 0
  /\ login' = [login EXCEPT ![Me] = id]
  /\ UNCHANGED <<prog, tty, su>>
  /\ \/ id = 0 /\ GoTo("shell") /\ UNCHANGED vars
     \/ id # 0 /\ GoTo("setgid") /\ SysSetuid(id)

(* setgid(id): what the system call answers, login does not ask. *)
LoginGroup ==
  /\ At("setgid")
  /\ GoTo("shell") /\ UNCHANGED <<prog, tty, login, su>>
  /\ IF tasks[Me].uid = 0 THEN SysSetgid(login[Me]) ELSE UNCHANGED vars
-----------------------------------------------------------------------------
(* shell *)

(* The pid the three commands name: test_b's, as the boot table numbers it. *)
FirstPid == 1                           \* mutant

CommandPid == 3

(* kill, stop and cont: the answer of the system call is not looked at. *)
ShellKill(sig) ==
  /\ At("shell") /\ Stay
  /\ \/ SysKill(CommandPid - 1, sig)
     \/ /\ \/ tasks[CommandPid - 1].dead
           \/ tasks[Me].uid \notin {0, tasks[CommandPid - 1].uid}
        /\ UNCHANGED vars

(* ud *)
ShellUd == At("shell") /\ ErrorTrap(SIGILL) /\ Stay

SuForgets ==                            \* mutant: the uid is not put back
  /\ At("shell") /\ su[Me] # <<>>
  /\ LET old == su[Me][Len(su[Me])]
     IN Become([Now EXCEPT !.tasks[Me].gid = old.gid])
  /\ su' = [su EXCEPT ![Me] = SubSeq(@, 1, Len(@) - 1)]
  /\ UNCHANGED <<prog, tty, at, login>>

(* su: the shell writes its own ids into the table, then nests a shell. *)
Su ==
  /\ At("shell") /\ Len(su[Me]) < SU_DEPTH
  /\ su' = [su EXCEPT ![Me] = Append(@, [uid |-> tasks[Me].uid, gid |-> tasks[Me].gid])]
  /\ Become([Now EXCEPT !.tasks[Me].uid = 0, !.tasks[Me].gid = 0])
  /\ UNCHANGED <<prog, tty, at, login>>

(* exit in a shell su started: the ids put aside come back. *)
SuExit ==
  /\ At("shell") /\ su[Me] # <<>>
  /\ LET old == su[Me][Len(su[Me])]
     IN Become([Now EXCEPT !.tasks[Me].uid = old.uid, !.tasks[Me].gid = old.gid])
  /\ su' = [su EXCEPT ![Me] = SubSeq(@, 1, Len(@) - 1)]
  /\ UNCHANGED <<prog, tty, at, login>>

(* exit in the first shell: test_a and test_c end in the system call. *)
ShellExit == At("shell") /\ su[Me] = <<>> /\ SysExit /\ Stay
-----------------------------------------------------------------------------
(***************************************************************************)
(* kdbg: the breakpoint trap's command line, which runs with interrupts    *)
(* on and whose task is switched, killed and stopped like any other.       *)
(***************************************************************************)
Kdbg ==
  /\ At("shell") /\ Cardinality({p \in Pid : ~tasks[p].dead /\ at[p] = "kdbg"}) < KDBG_MAX
  /\ GoTo("kdbg") /\ UNCHANGED <<vars, prog, tty, login, su>>

(* cont with no register set: the shell goes on behind the trap. *)
KdbgCont == At("kdbg") /\ GoTo("shell") /\ UNCHANGED <<vars, prog, tty, login, su>>

(***************************************************************************)
(* jump sets eip and each set command some register: which of the shell's  *)
(* values that was is the compiler's choice, so none of them is relied on. *)
(***************************************************************************)
KdbgSets == ~adrift /\ At("kdbg") /\ adrift' = TRUE /\ UNCHANGED <<vars, progVars>>

(***************************************************************************)
(* cont after that: the task goes on at any address, and may make a system *)
(* call nobody knows.  What else ring 0 lets it do, and the other programs *)
(* from now on, are not modelled.                                          *)
(***************************************************************************)
Adrift == adrift /\ At("kdbg") /\ SysUnknown /\ Stay /\ UNCHANGED adrift
-----------------------------------------------------------------------------
Tick == Timer /\ Stay
Start0 == Setup /\ Stay

ProgramStep ==
  \/ Start0 \/ Tick
  \/ Probe2 \/ Probe4 \/ Probe5 \/ InitYields
  \/ TestBYields
  \/ \E id \in Logins : Login(id)
  \/ LoginGroup
  \/ \E sig \in {SIGKILL, SIGSTOP, SIGCONT} : ShellKill(sig)
  \/ ShellUd \/ Su \/ SuExit \/ ShellExit
  \/ Kdbg \/ KdbgCont

UserNext ==
  \/ ~adrift /\ ProgramStep /\ UNCHANGED adrift
  \/ KdbgSets
  \/ Adrift

(* The machine and init go on by themselves; what users type they may not. *)
UserDrive ==
  /\ ~adrift /\ UNCHANGED adrift
  /\ Start0 \/ Tick \/ Probe2 \/ Probe4 \/ Probe5 \/ InitYields

UserSpec == UserInit /\ [][UserNext]_userVars

UserFairSpec == UserSpec /\ WF_userVars(UserDrive)
-----------------------------------------------------------------------------
IsShell(p) == ~tasks[p].dead /\ prog[p] \in {"test_a", "test_c"}

(***************************************************************************)
(* Whatever the users type, the kernel does not panic, unless one of them  *)
(* sets a register in the debugger.                                        *)
(***************************************************************************)
NeverHalts == ~adrift => halt = "none"

ProbesLead ==
  /\ ~tasks[1].dead => prog[1] = "test_a" /\ tty[1] = 0
  /\ ~tasks[2].dead /\ prog[2] = "test_b" =>
       /\ ~tasks[3].dead => prog[3] = "test_a" /\ tty[3] = 2
       /\ ~tasks[4].dead => prog[4] = "test_c" /\ tty[4] = 3
  /\ \A p \in Pid : p > 4 => tasks[p].dead

(***************************************************************************)
(* Where init's pids lead, while nobody sets a register in the debugger.   *)
(* The shell of tty 0 is always in slot 1, since init probes it first and  *)
(* slot 1 is then the lowest dead one; the shells of ttys 2 and 3 are      *)
(* where init looks for them for as long as test_b keeps slot 2; and no    *)
(* task is ever made past the five boot slots.                             *)
(***************************************************************************)
SlotsAsInitThinks == ~adrift => ProbesLead

(***************************************************************************)
(* Outside su a shell has the uid its user logged in with, whatever slot,  *)
(* former owner, nested su or signal came before, and the group 0: login   *)
(* asks for the user's group when setuid has already taken the right to.   *)
(* So it is in the debugger too, until someone sets a register there.      *)
(***************************************************************************)
UidIsTheLogins ==
  ~adrift =>
    \A p \in Pid : IsShell(p) /\ at[p] \in {"shell", "kdbg"} =>
      IF su[p] = <<>> THEN tasks[p].uid = login[p] /\ tasks[p].gid = 0
      ELSE tasks[p].uid = 0 /\ su[p][1].uid = login[p]

(***************************************************************************)
(* The terminal of the console gets its shell back after exit, ud or kill, *)
(* unless someone sets a register in the debugger.                         *)
(***************************************************************************)
ShellComesBack == tasks[1].dead ~> ~tasks[1].dead \/ adrift
=============================================================================
