--------------------------- MODULE UserlandProofs ---------------------------
(***************************************************************************)
(* The boot programs for any number of accounts, nested su shells, tasks   *)
(* in the debugger and spare slots: until someone sets a register in the   *)
(* debugger, no sequence of commands panics the kernel, the slots stay     *)
(* where init's probes expect them, and a shell has its user's uid.        *)
(***************************************************************************)
EXTENDS Userland, SchedProofs

Ids == [uid : Uids, gid : Gids]

ProgramsTyped ==
  /\ prog \in [Pid -> Programs]
  /\ tty \in [Pid -> 0 .. 3]
  /\ at \in [Pid -> Places]
  /\ login \in [Pid -> Uids]
  /\ su \in [Pid -> Seq(Ids)]

(* No signal waits for init, it is not stopped, and the timer spares it.   *)
InitCalm(tab) ==
  /\ tab[INIT].pending = <<>>
  /\ ~tab[INIT].paused
  /\ tab[INIT].yield_only

(* So nobody else runs between two probes of one turn of init's loop.      *)
InitProbes ==
  /\ prog[INIT] = "test_init"
  /\ at[INIT] \in {"probe 2", "probe 4", "probe 5", "yield"}
  /\ at[INIT] # "probe 2" => current_task = INIT

GoesOn == halt = "none"

(* The places of test_a and test_c. *)
InShell == {"login", "setgid", "shell", "kdbg"}
USE DEF InShell

(* Every other live task is at a place of its own program. *)
PlaceFits ==
  \A p \in Pid \ {INIT} : ~tasks[p].dead =>
    \/ prog[p] \in {"test_a", "test_c"} /\ at[p] \in InShell
    \/ prog[p] = "test_b" /\ at[p] = "yield"

TestBLives == ~tasks[2].dead /\ prog[2] = "test_b"

(* What a probe has left behind when init is at the next one. *)
ProbesDone ==
  /\ at[INIT] \in {"probe 4", "probe 5"} => ~tasks[1].dead
  /\ at[INIT] = "probe 5" /\ TestBLives => ~tasks[3].dead

(* The ids of a shell at each place it can be. *)
IdsFit(t, place, id, saved) ==
  /\ t.gid = 0
  /\ place = "login" => t.uid = 0 /\ saved = <<>>
  /\ place = "setgid" => t.uid = id /\ id # 0 /\ saved = <<>>
  /\ place \in {"shell", "kdbg"} /\ saved = <<>> => t.uid = id
  /\ place \in {"shell", "kdbg"} /\ saved # <<>> =>
       /\ t.uid = 0 /\ saved[1].uid = id
       /\ \A i \in 1 .. Len(saved) : saved[i].gid = 0 /\ (i > 1 => saved[i].uid = 0)

ShellsFit ==
  \A p \in Pid : IsShell(p) => IdsFit(tasks[p], at[p], login[p], su[p])

(* The inductive invariant, but for what depends on which slots are dead.  *)
TasksInv ==
  /\ SchedInv /\ GoesOn
  /\ ProgramsTyped /\ InitCalm(tasks) /\ InitProbes /\ PlaceFits /\ ShellsFit

UserInv == TasksInv /\ ProbesLead /\ ProbesDone

(* Of what runs once a register was set in the debugger it says nothing.   *)
UntilAdrift == adrift \in BOOLEAN /\ (~adrift => UserInv)
-----------------------------------------------------------------------------
(***************************************************************************)
(* What a handler that does not call init leaves alone.  It kills nobody   *)
(* without a cause the other proofs give; here it matters that it revives  *)
(* nobody, changes no ids and does not panic while init is calm.           *)
(***************************************************************************)
Carries(t, u) ==
  /\ u.uid = t.uid /\ u.gid = t.gid /\ u.yield_only = t.yield_only
  /\ t.dead => u.dead

Quiet(m, n) ==
  /\ n.halt = "none"
  /\ InitCalm(n.tasks)
  /\ \A p \in Pid : Carries(m.tasks[p], n.tasks[p])

LEMMA BootSlots == {1, 2, 3, 4} \subseteq Pid /\ INIT \in Pid
  <1>1. Len(BootProg) = 5
    BY DEF BootProg
  <1>2. TASKS_CAP \in Nat /\ TASKS_CAP >= 5
    BY <1>1, BootAssumption, TableAssumption
  <1> QED BY <1>2 DEF Pid, INIT

(* Delivery keeps the ids, and does nothing to a task nothing waits for.   *)
LEMMA FlushCarries ==
  ASSUME NEW t, TaskOK(t)
  PROVE  /\ Carries(t, __flush_signals(t))
         /\ t.pending = <<>> => /\ ~Dies(t)
                               /\ __flush_signals(t).pending = <<>>
                               /\ __flush_signals(t).paused = t.paused
  <1> DEFINE mild == IF Dies(t) THEN Min(LethalAt(t)) - 1 ELSE Len(t.pending)
             rest == SubSeq(t.pending, mild + 2, Len(t.pending))
             stop == IF mild = 0 THEN t.paused ELSE t.pending[mild] = SIGSTOP
  <1>1. t.pending = <<>> => ~Dies(t)
    BY EmptySeq DEF Dies, LethalAt
  <1>2. t.pending = <<>> => mild = 0 /\ stop = t.paused /\ rest = <<>>
    <2> SUFFICES ASSUME t.pending = <<>>
                 PROVE  mild = 0 /\ stop = t.paused /\ rest = <<>>
      OBVIOUS
    <2>1. mild = 0 /\ Len(t.pending) = 0
      BY <1>1, EmptySeq
    <2>2. rest = SubSeq(<<>>, 2, 0)
      BY <2>1
    <2>3. SubSeq(<<>>, 2, 0) = <<>>
      OBVIOUS
    <2> QED BY <2>1, <2>2, <2>3
  <1>3. CASE t.dead
    BY <1>1, <1>3 DEF __flush_signals, Carries
  <1>4. CASE ~t.dead
    <2>1. __flush_signals(t) = [t EXCEPT !.dead = Dies(t), !.paused = stop, !.pending = rest]
      BY <1>4 DEF __flush_signals
    <2> HIDE DEF mild, rest, stop
    <2>2. /\ __flush_signals(t).uid = t.uid /\ __flush_signals(t).gid = t.gid
          /\ __flush_signals(t).yield_only = t.yield_only
          /\ __flush_signals(t).paused = stop /\ __flush_signals(t).pending = rest
      BY <2>1 DEF TaskOK, Task
    <2> QED BY <1>1, <1>2, <1>4, <2>2 DEF Carries
  <1> QED BY <1>3, <1>4

LEMMA FlushAllCarries ==
  ASSUME NEW tab, TableOK(tab), InitCalm(tab), NEW S \in SUBSET Pid
  PROVE  /\ TableOK(FlushAll(tab, S)) /\ InitCalm(FlushAll(tab, S))
         /\ \A p \in Pid : Carries(tab[p], FlushAll(tab, S)[p])
         /\ ~Dies(tab[INIT])
  <1>1. ASSUME NEW p \in Pid
        PROVE  /\ Carries(tab[p], FlushAll(tab, S)[p])
               /\ tab[p].pending = <<>> =>
                    /\ ~Dies(tab[p])
                    /\ FlushAll(tab, S)[p].pending = <<>>
                    /\ FlushAll(tab, S)[p].paused = tab[p].paused
    <2>1. TaskOK(tab[p])
      BY DEF TableOK, TaskOK
    <2>2. FlushAll(tab, S)[p] = IF p \in S THEN __flush_signals(tab[p]) ELSE tab[p]
      BY DEF FlushAll
    <2>3. Carries(tab[p], tab[p])
      BY DEF Carries
    <2>4. tab[p].pending = <<>> => ~Dies(tab[p])
      BY EmptySeq DEF Dies, LethalAt
    <2> QED BY <2>1, <2>2, <2>3, <2>4, FlushCarries
  <1>2. InitCalm(FlushAll(tab, S)) /\ ~Dies(tab[INIT])
    BY <1>1, InitIsPid DEF InitCalm, Carries
  <1> QED BY <1>1, <1>2, FlushTable

LEMMA PickIsQuiet ==
  ASSUME NEW m, m \in Machine, TableOK(m.tasks), m.halt = "none", InitCalm(m.tasks)
  PROVE  Quiet(m, PickNext(m))
  <1> DEFINE t == m.tasks
             c == m.current
             swept == FlushAll(t, Passed(t, c))
             next == Turn(c, Min(ReadyTurns(t, c)))
             n == PickNext(m)
  <1>1. c \in Pid /\ Passed(t, c) \in SUBSET Pid
    BY PassedIsPid DEF Machine
  <1>2. /\ InitCalm(swept) /\ ~Dies(t[INIT])
        /\ \A p \in Pid : Carries(t[p], swept[p])
    BY <1>1, FlushAllCarries
  <1>3. ReadyTurns(t, c) # {}
    BY <1>1, SearchReachesInit DEF TableOK, InitCalm, Runnable
  <1>4. n = [m EXCEPT !.tasks = swept, !.current = next, !.cpu = swept[next].regs]
    BY <1>2, <1>3 DEF PickNext
  <1> HIDE DEF swept, next, n
  <1>5. n.tasks = swept /\ n.halt = "none"
    BY <1>4 DEF Machine
  <1> QED BY <1>2, <1>5 DEF Quiet, n

LEMMA QuietTwice ==
  ASSUME NEW l, NEW m, NEW n, Quiet(l, m), Quiet(m, n)
  PROVE  Quiet(l, n)
  BY DEF Quiet, Carries

(***************************************************************************)
(* While init is calm a switch finds a task to run, and panics for nobody. *)
(***************************************************************************)
LEMMA SwitchIsQuiet ==
  ASSUME NEW m, Busy(m), InitCalm(m.tasks)
  PROVE  Quiet(m, sched_next_task(m))
  <1> DEFINE c == m.current
             saved == SaveRegs(m)
             flushed == [saved EXCEPT !.tasks[c] = __flush_signals(@)]
             n == sched_next_task(m)
  <1>1. c \in Pid /\ m.tasks \in [Pid -> Task] /\ m.cpu \in Context /\ m \in Machine
    BY DEF Busy, Machine
  <1>2. /\ saved \in Machine /\ saved.current = c /\ saved.halt = "none"
        /\ saved.tasks = [m.tasks EXCEPT ![c] = [m.tasks[c] EXCEPT !.regs = m.cpu]]
    <2>1. saved = [m EXCEPT !.tasks =
                     [m.tasks EXCEPT ![c] = [m.tasks[c] EXCEPT !.regs = m.cpu]]]
      BY <1>1 DEF SaveRegs, Machine
    <2>2. [m.tasks[c] EXCEPT !.regs = m.cpu] \in Task
      BY <1>1 DEF Task
    <2> HIDE DEF saved
    <2> QED BY <1>1, <2>1, <2>2 DEF Machine, Busy
  <1>3. \A p \in Pid :
          /\ saved.tasks[p].pending = m.tasks[p].pending
          /\ saved.tasks[p].dead = m.tasks[p].dead
          /\ saved.tasks[p].paused = m.tasks[p].paused
          /\ saved.tasks[p].uid = m.tasks[p].uid
          /\ saved.tasks[p].gid = m.tasks[p].gid
          /\ saved.tasks[p].yield_only = m.tasks[p].yield_only
          /\ saved.tasks[p].regs = IF p = c THEN m.cpu ELSE m.tasks[p].regs
    BY <1>1, <1>2 DEF Task
  <1>4. TableOK(saved.tasks)
    BY <1>2, <1>3, InitIsPid DEF TableOK, Busy, Machine
  <1>5. InitCalm(saved.tasks)
    BY <1>3, InitIsPid DEF InitCalm
  <1>6. {c} \in SUBSET Pid
    BY <1>1
  <1>7. Quiet(m, saved)
    BY <1>2, <1>3, <1>5 DEF Quiet, Carries
  <1> HIDE DEF saved, c
  <1>8. ~Dies(saved.tasks[INIT])
    BY <1>4, <1>5, <1>6, FlushAllCarries
  <1>9. n = PickNext(flushed)
    BY <1>8 DEF sched_next_task, saved, c
  <1>10. flushed \in Machine /\ flushed.halt = "none"
         /\ flushed.tasks = FlushAll(saved.tasks, {c})
    <2>1. __flush_signals(saved.tasks[c]) \in Task
      BY <1>1, <1>4, FlushTask DEF TableOK, TaskOK
    <2> QED BY <1>1, <1>2, <2>1 DEF Machine, FlushAll
  <1> HIDE DEF flushed, n
  <1>11. TableOK(flushed.tasks) /\ Quiet(saved, flushed)
    BY <1>4, <1>5, <1>6, <1>10, FlushAllCarries DEF Quiet
  <1>12. Quiet(flushed, n)
    BY <1>9, <1>10, <1>11, PickIsQuiet DEF Quiet
  <1> QED BY <1>7, <1>11, <1>12, QuietTwice DEF n

(* Posting to another task than init.                                      *)
LEMMA PostIsQuiet ==
  ASSUME NEW m, Busy(m), InitCalm(m.tasks), NEW p \in Pid \ {INIT}, NEW sig \in Sig
  PROVE  Quiet(m, sched_kill_task(m, p, sig))
  <1> DEFINE n == sched_kill_task(m, p, sig)
             t == m.tasks[p]
             u == [t EXCEPT !.pending = Append(t.pending, sig)]
  <1>1. m \in Machine /\ m.tasks \in [Pid -> Task] /\ t \in Task /\ m.halt = "none"
    BY DEF Busy, Machine
  <1>2. Carries(t, u) /\ \A q \in Pid : Carries(m.tasks[q], m.tasks[q])
    BY <1>1 DEF Carries, Task
  <1> HIDE DEF u
  <1>3. n = m \/ n = [m EXCEPT !.tasks = [m.tasks EXCEPT ![p] = u]]
    BY <1>1 DEF sched_kill_task, Machine, u
  <1> HIDE DEF n
  <1>4. n.halt = "none" /\ n.tasks \in {m.tasks, [m.tasks EXCEPT ![p] = u]}
    BY <1>1, <1>3 DEF Machine
  <1>5. n.tasks[INIT] = m.tasks[INIT]
        /\ \A q \in Pid : n.tasks[q] \in {m.tasks[q], IF q = p THEN u ELSE m.tasks[q]}
    BY <1>1, <1>4, InitIsPid
  <1> QED BY <1>2, <1>4, <1>5 DEF Quiet, InitCalm, n
-----------------------------------------------------------------------------
(* The part of the invariant that is about the programs' table entries.    *)
LEMMA UserNow ==
  ASSUME UserInv
  PROVE  /\ tasks \in [Pid -> Task] /\ current_task \in Pid /\ ~tasks[INIT].dead
         /\ Running => Busy(Now) /\ Settled(Now) /\ ~tasks[current_task].dead
         /\ current_task # INIT => at[INIT] = "probe 2"
         /\ Now.tasks = tasks /\ Now.current = current_task /\ Now.halt = halt
         /\ Now.cpu = cpu
  BY InvOfNow DEF UserInv, TasksInv, InitProbes, SchedInv, TypeOK, InitImmortal,
                  CurrentRunnable, Running, Runnable, Now

LEMMA BecomeNow ==
  ASSUME NEW n, Become(n)
  PROVE  /\ tasks' = n.tasks /\ current_task' = n.current /\ cpu' = n.cpu /\ halt' = n.halt
         /\ is_tasking_avaliable' = is_tasking_avaliable
  BY DEF Become

(***************************************************************************)
(* A handler that does not call init, while init is at its first probe or  *)
(* yields there: what the programs know of the table still holds.          *)
(***************************************************************************)
LEMMA QuietStep ==
  ASSUME UserInv, is_tasking_avaliable, NEW n, Settled(n), Quiet(Now, n), Become(n),
         UNCHANGED <<prog, tty, login, su>>,
         at' \in [Pid -> Places], at'[INIT] = "probe 2",
         \A p \in Pid \ {INIT} : at'[p] = at[p]
  PROVE  UserInv'
  <1>1. SchedInv'
    BY SettledKeepsInv DEF UserInv, TasksInv
  <1>2. /\ GoesOn' /\ InitCalm(tasks')
        /\ \A p \in Pid : Carries(tasks[p], tasks'[p])
    BY BecomeNow, UserNow DEF Quiet, GoesOn
  <1>3. ProgramsTyped' /\ InitProbes' /\ ProbesDone'
    BY DEF UserInv, TasksInv, ProgramsTyped, InitProbes, ProbesDone
  <1>4. PlaceFits'
    BY <1>2 DEF UserInv, TasksInv, PlaceFits, Carries
  <1>5. ProbesLead'
    BY <1>2, BootSlots DEF UserInv, TasksInv, ProbesLead, Carries
  <1>6. ASSUME NEW p \in Pid, IsShell(p)'
        PROVE  IdsFit(tasks[p], at[p], login[p], su[p])'
    <2>1. IsShell(p) /\ p # INIT
      BY <1>2, <1>6 DEF IsShell, Carries, UserInv, TasksInv, InitProbes
    <2>2. IdsFit(tasks[p], at[p], login[p], su[p])
      BY <2>1 DEF UserInv, TasksInv, ShellsFit
    <2>3. tasks'[p].uid = tasks[p].uid /\ tasks'[p].gid = tasks[p].gid
      BY <1>2 DEF Carries
    <2> QED BY <2>1, <2>2, <2>3 DEF IdsFit
  <1> QED BY <1>1, <1>2, <1>3, <1>4, <1>5, <1>6 DEF UserInv, TasksInv, ShellsFit

(* A shell changes its own ids, its place and what it remembers.           *)
LEMMA ShellStep ==
  ASSUME UserInv, current_task # INIT, IsShell(current_task), is_tasking_avaliable,
         NEW n, Settled(n), Become(n), n.halt = halt,
         \A p \in Pid : /\ n.tasks[p].dead = tasks[p].dead
                        /\ p # current_task => n.tasks[p] = tasks[p],
         UNCHANGED <<prog, tty>>,
         ProgramsTyped',
         \A p \in Pid \ {current_task} :
            at'[p] = at[p] /\ login'[p] = login[p] /\ su'[p] = su[p],
         at'[current_task] \in InShell,
         IdsFit(n.tasks[current_task], at'[current_task], login'[current_task],
                su'[current_task])
  PROVE  UserInv'
  <1> DEFINE c == current_task
  <1>1. SchedInv'
    BY SettledKeepsInv DEF UserInv, TasksInv
  <1>2. /\ tasks' = n.tasks /\ halt' = halt /\ at[INIT] = "probe 2" /\ INIT \in Pid
    BY BecomeNow, UserNow, InitIsPid
  <1>3. /\ GoesOn' /\ InitCalm(tasks') /\ InitProbes' /\ ProbesDone'
    BY <1>2 DEF UserInv, TasksInv, GoesOn, InitCalm, InitProbes, ProbesDone
  <1>4. PlaceFits'
    BY <1>2 DEF UserInv, TasksInv, PlaceFits, IsShell
  <1>5. ProbesLead'
    BY <1>2, BootSlots DEF UserInv, TasksInv, ProbesLead
  <1>6. ASSUME NEW p \in Pid, IsShell(p)'
        PROVE  IdsFit(tasks[p], at[p], login[p], su[p])'
    <2>1. CASE p = c
      BY <2>1, <1>2
    <2>2. CASE p # c
      <3>1. IdsFit(tasks[p], at[p], login[p], su[p])
        BY <1>2, <1>6 DEF IsShell, UserInv, TasksInv, ShellsFit
      <3> QED BY <2>2, <3>1, <1>2
    <2> QED BY <2>1, <2>2
  <1> QED BY <1>1, <1>3, <1>4, <1>5, <1>6 DEF UserInv, TasksInv, ShellsFit

(* The slot a new task gets: the lowest dead one, never init's.            *)
LEMMA SpawnFillsLowest ==
  ASSUME UserInv, Spawn, NEW q \in Pid, tasks[q].dead
  PROVE  LET p == Min(DeadSlots(tasks))
         IN /\ p \in Pid \ {INIT} /\ p <= q /\ tasks[p].dead
            /\ \A r \in Pid : r < p => ~tasks[r].dead
            /\ tasks' = [tasks EXCEPT ![p] = NewTask(p, FALSE)]
            /\ current_task' = current_task /\ halt' = halt
            /\ SchedInv'
  <1> DEFINE p == Min(DeadSlots(tasks))
             n == sched_make_task(Now, FALSE)
  <1>1. DeadSlots(tasks) \in SUBSET Nat /\ DeadSlots(tasks) # {}
    BY DEF DeadSlots, Pid
  <1>2. p \in DeadSlots(tasks) /\ \A y \in DeadSlots(tasks) : p <= y
    BY <1>1, NatMin
  <1>3. Settled(n) /\ Become(n) /\ is_tasking_avaliable
    BY UserNow, MakeTaskSettles DEF Spawn, Running
  <1>4. n = [Now EXCEPT !.tasks = [tasks EXCEPT ![p] = NewTask(p, FALSE)]]
    BY <1>1, UserNow DEF sched_make_task, Now
  <1>5. SchedInv'
    BY <1>3, SettledKeepsInv DEF UserInv, TasksInv
  <1> HIDE DEF p, n
  <1>6. /\ n.tasks = [tasks EXCEPT ![p] = NewTask(p, FALSE)]
        /\ n.current = current_task /\ n.halt = halt
    BY <1>4 DEF Now
  <1>7. p \in Pid \ {INIT} /\ p <= q /\ tasks[p].dead
    BY <1>2, UserNow DEF DeadSlots
  <1>8. ASSUME NEW r \in Pid, r < p PROVE ~tasks[r].dead
    <2>1. r \in DeadSlots(tasks) => p <= r
      BY <1>2
    <2> QED BY <2>1, <1>7, <1>8 DEF DeadSlots, Pid
  <1> QED BY <1>3, <1>5, <1>6, <1>7, <1>8, BecomeNow DEF p
(* A new program on terminal t in slot p, the lowest dead one.             *)
Loaded(p, program, t) ==
  /\ tasks[p].dead /\ \A r \in Pid : r < p => ~tasks[r].dead
  /\ \A r \in Pid : tasks'[r].dead <=> tasks[r].dead /\ r # p
  /\ \A r \in Pid : prog'[r] = IF r = p THEN program ELSE prog[r]
  /\ \A r \in Pid : tty'[r] = IF r = p THEN t ELSE tty[r]

LEMMA UpTo ==
  ASSUME NEW p \in Pid \ {INIT}, NEW q \in Pid, p <= q
  PROVE  p \in 1 .. q
  BY DEF Pid, INIT

LEMMA LoadedSlots ==
  ASSUME ProbesLead, NEW p \in 1 .. 4, NEW program, NEW t, Loaded(p, program, t),
         p = 1 => program = "test_a" /\ t = 0,
         p = 2 => program # "test_b",
         p = 3 /\ TestBLives => program = "test_a" /\ t = 2,
         p = 4 /\ TestBLives => program = "test_c" /\ t = 3
  PROVE  ProbesLead'
  <1>1. 1 \in Pid /\ 2 \in Pid /\ 3 \in Pid /\ 4 \in Pid
    BY BootSlots
  <1>2. \A r \in Pid : tasks'[r].dead <=> tasks[r].dead /\ r # p
    BY DEF Loaded
  <1>3. /\ \A r \in Pid \ {p} : prog'[r] = prog[r] /\ tty'[r] = tty[r]
        /\ prog'[p] = program /\ tty'[p] = t
    BY <1>1 DEF Loaded
  <1>4. TestBLives' => p # 2 /\ TestBLives
    BY <1>1, <1>2, <1>3 DEF TestBLives
  <1>5. ~tasks'[1].dead => prog'[1] = "test_a" /\ tty'[1] = 0
    BY <1>1, <1>2, <1>3 DEF ProbesLead
  <1>6. TestBLives' /\ ~tasks'[3].dead => prog'[3] = "test_a" /\ tty'[3] = 2
    BY <1>1, <1>2, <1>3, <1>4 DEF ProbesLead, TestBLives
  <1>7. TestBLives' /\ ~tasks'[4].dead => prog'[4] = "test_c" /\ tty'[4] = 3
    BY <1>1, <1>2, <1>3, <1>4 DEF ProbesLead, TestBLives
  <1>8. \A r \in Pid : r > 4 => tasks'[r].dead
    BY <1>2 DEF ProbesLead
  <1> QED BY <1>5, <1>6, <1>7, <1>8 DEF ProbesLead, TestBLives

(***************************************************************************)
(* init loads a shell program into the lowest dead slot: all but what the  *)
(* probes are about, which depends on the slot that was found dead.        *)
(***************************************************************************)
LEMMA LoadKeeps ==
  ASSUME UserInv, current_task = INIT, NEW q \in Pid, tasks[q].dead,
         NEW program \in {"test_a", "test_c"}, NEW t \in 0 .. 3,
         NEW next \in {"probe 4", "probe 5", "yield"}, Load(program, t, next)
  PROVE  /\ TasksInv' /\ at'[INIT] = next
         /\ \E p \in 1 .. q : Loaded(p, program, t)
  <1> DEFINE p == Min(DeadSlots(tasks))
  <1>1. /\ p \in Pid \ {INIT} /\ p <= q /\ tasks[p].dead
        /\ \A r \in Pid : r < p => ~tasks[r].dead
        /\ tasks' = [tasks EXCEPT ![p] = NewTask(p, FALSE)]
        /\ current_task' = current_task /\ halt' = halt
        /\ SchedInv'
    BY SpawnFillsLowest DEF Load
  <1>2. /\ prog' = [prog EXCEPT ![p] = program]
        /\ tty' = [tty EXCEPT ![p] = t]
        /\ at' = [at EXCEPT ![p] = Start(program), ![INIT] = next]
        /\ login' = [login EXCEPT ![p] = 0]
        /\ su' = [su EXCEPT ![p] = <<>>]
    BY DEF Load, Me
  <1> HIDE DEF p
  <1>3. Start(program) = "login"
    BY DEF Start
  <1>4. /\ ~tasks'[p].dead /\ tasks'[p].uid = 0 /\ tasks'[p].gid = 0
        /\ \A r \in Pid \ {p} : tasks'[r] = tasks[r]
    BY <1>1, UserNow DEF NewTask
  <1>5. ProgramsTyped
    BY DEF UserInv, TasksInv
  <1>6. /\ at'[p] = "login" /\ login'[p] = 0 /\ su'[p] = <<>> /\ prog'[p] = program
        /\ at'[INIT] = next
        /\ \A r \in Pid \ {p} : /\ prog'[r] = prog[r] /\ login'[r] = login[r]
                                /\ su'[r] = su[r] /\ (r # INIT => at'[r] = at[r])
    BY <1>1, <1>2, <1>3, <1>5, InitIsPid DEF ProgramsTyped
  <1>7. ProgramsTyped'
    <2>1. /\ program \in Programs /\ Start(program) \in Places /\ next \in Places
          /\ 0 \in Uids /\ <<>> \in Seq(Ids)
      BY <1>3, IdAssumption, EmptySeq DEF Programs, Places
    <2>2. prog' \in [Pid -> Programs] /\ tty' \in [Pid -> 0 .. 3] /\ at' \in [Pid -> Places]
      BY <1>2, <1>5, <2>1 DEF ProgramsTyped
    <2>3. login' \in [Pid -> Uids] /\ su' \in [Pid -> Seq(Ids)]
      BY <1>2, <1>5, <2>1 DEF ProgramsTyped
    <2> QED BY <2>2, <2>3 DEF ProgramsTyped
  <1>8. GoesOn' /\ InitCalm(tasks') /\ InitProbes'
    BY <1>1, <1>4, <1>6, InitIsPid DEF UserInv, TasksInv, GoesOn, InitCalm, InitProbes
  <1>9. PlaceFits'
    BY <1>4, <1>6 DEF UserInv, TasksInv, PlaceFits
  <1>10. ASSUME NEW r \in Pid, IsShell(r)'
         PROVE  IdsFit(tasks[r], at[r], login[r], su[r])'
    <2>1. CASE r = p
      BY <2>1, <1>4, <1>6 DEF IdsFit
    <2>2. CASE r # p
      <3>1. r # INIT /\ IsShell(r)
        BY <2>2, <1>4, <1>6, <1>10 DEF IsShell, UserInv, TasksInv, InitProbes
      <3>2. IdsFit(tasks[r], at[r], login[r], su[r])
        BY <3>1 DEF UserInv, TasksInv, ShellsFit
      <3>3. /\ tasks'[r] = tasks[r] /\ at'[r] = at[r] /\ login'[r] = login[r]
            /\ su'[r] = su[r]
        BY <2>2, <3>1, <1>4, <1>6
      <3> QED BY <3>2, <3>3
    <2> QED BY <2>1, <2>2
  <1>11. \A r \in Pid : tasks'[r].dead <=> tasks[r].dead /\ r # p
    BY <1>1, <1>4
  <1>12. \A r \in Pid : /\ prog'[r] = IF r = p THEN program ELSE prog[r]
                       /\ tty'[r] = IF r = p THEN t ELSE tty[r]
    BY <1>2, <1>5 DEF ProgramsTyped
  <1>13. Loaded(p, program, t)
    BY <1>1, <1>11, <1>12 DEF Loaded
  <1>14. p \in 1 .. q
    BY <1>1, UpTo
  <1> QED BY <1>1, <1>6, <1>7, <1>8, <1>9, <1>10, <1>13, <1>14
          DEF TasksInv, ShellsFit

(* A probe that finds its slot alive only goes on to the next.             *)
LEMMA SkipKeeps ==
  ASSUME UserInv, current_task = INIT, NEW next \in {"probe 4", "probe 5", "yield"},
         GoTo(next), UNCHANGED <<vars, prog, tty, login, su>>
  PROVE  /\ TasksInv' /\ ProbesLead' /\ at'[INIT] = next
  <1>1. /\ tasks' = tasks /\ current_task' = current_task /\ halt' = halt
        /\ at' = [at EXCEPT ![INIT] = next]
    BY DEF vars, GoTo, Me
  <1>2. SchedInv'
    BY NextInv DEF UserInv, TasksInv
  <1>3. at' \in [Pid -> Places] /\ at'[INIT] = next
        /\ \A p \in Pid \ {INIT} : at'[p] = at[p]
    BY <1>1, InitIsPid DEF UserInv, TasksInv, ProgramsTyped, Places
  <1>4. ProgramsTyped' /\ GoesOn' /\ InitCalm(tasks') /\ InitProbes' /\ ProbesLead'
    BY <1>1, <1>3 DEF UserInv, TasksInv, ProgramsTyped, GoesOn, InitProbes,
                      ProbesLead
  <1>5. PlaceFits'
    BY <1>1, <1>3 DEF UserInv, TasksInv, PlaceFits
  <1>6. ShellsFit'
    BY <1>1, <1>3 DEF UserInv, TasksInv, ShellsFit, IsShell, InitProbes
  <1> QED BY <1>2, <1>3, <1>4, <1>5, <1>6 DEF TasksInv

LEMMA ProbeKeeps == UserInv /\ (Probe2 \/ Probe4 \/ Probe5) => UserInv'
  <1> SUFFICES ASSUME UserInv, Probe2 \/ Probe4 \/ Probe5 PROVE UserInv'
    OBVIOUS
  <1>1. /\ ProbesLead /\ ProbesDone
        /\ Running /\ at[current_task] \in {"probe 2", "probe 4", "probe 5"} =>
             current_task = INIT
    BY UserNow DEF UserInv, TasksInv, PlaceFits
  <1>2. /\ 1 \in Pid /\ 3 \in Pid /\ 4 \in Pid
        /\ 0 \in 0 .. 3 /\ 2 \in 0 .. 3 /\ 3 \in 0 .. 3
    BY BootSlots
  <1>3. ASSUME Probe2 PROVE UserInv'
    <2>1. /\ current_task = INIT /\ at[INIT] = "probe 2"
      BY <1>1, <1>3 DEF Probe2, Probe, At, Me, ProbesDone
    <2>2. CASE tasks[1].dead /\ Load("test_a", 0, "probe 4")
      <3>1. TasksInv' /\ at'[INIT] = "probe 4" /\ \E p \in 1 .. 1 : Loaded(p, "test_a", 0)
        BY <2>1, <2>2, <1>2, LoadKeeps, Zenon
      <3>2. PICK p \in 1 .. 1 : Loaded(p, "test_a", 0)
        BY <3>1
      <3>4. p = 1 /\ p \in 1 .. 4 /\ p # 2 /\ p # 3 /\ p # 4
        OBVIOUS
      <3>6. ProbesLead'
        BY <1>1, <3>2, <3>4, LoadedSlots
      <3>7. ProbesDone'
        BY <1>2, <3>1, <3>2, <3>4 DEF ProbesDone, Loaded
      <3> QED BY <3>1, <3>6, <3>7 DEF UserInv
    <2>3. CASE ~tasks[1].dead /\ GoTo("probe 4") /\ UNCHANGED <<vars, prog, tty, login, su>>
      <3>1. TasksInv' /\ ProbesLead' /\ at'[INIT] = "probe 4"
        BY <2>1, <2>3, SkipKeeps
      <3>2. ProbesDone'
        BY <2>3, <3>1 DEF ProbesDone, vars
      <3> QED BY <3>1, <3>2 DEF UserInv
    <2>4. 2 - 1 = 1
      OBVIOUS
    <2> QED BY <1>3, <2>2, <2>3, <2>4, Zenon DEF Probe2, Probe
  <1>4. ASSUME Probe4 PROVE UserInv'
    <2>1. /\ current_task = INIT /\ at[INIT] = "probe 4"
          /\ ~tasks[1].dead
      BY <1>1, <1>4 DEF Probe4, Probe, At, Me, ProbesDone
    <2>2. CASE tasks[3].dead /\ Load("test_a", 2, "probe 5")
      <3>1. TasksInv' /\ at'[INIT] = "probe 5" /\ \E p \in 1 .. 3 : Loaded(p, "test_a", 2)
        BY <2>1, <2>2, <1>2, LoadKeeps, Zenon
      <3>2. PICK p \in 1 .. 3 : Loaded(p, "test_a", 2)
        BY <3>1
      <3>3. p # 1
        BY <2>1, <3>2 DEF Loaded
      <3>4. p \in 1 .. 4 /\ p # 1 /\ p # 4 /\ "test_a" # "test_b"
        BY <3>3
      <3>6. ProbesLead'
        BY <1>1, <3>2, <3>4, LoadedSlots
      <3>7. ProbesDone'
        <4>1. p = 2 \/ p = 3
          BY <3>3
        <4> QED BY <4>1, <2>1, <1>2, BootSlots, <3>1, <3>2 DEF ProbesDone, Loaded, TestBLives
      <3> QED BY <3>1, <3>6, <3>7 DEF UserInv
    <2>3. CASE ~tasks[3].dead /\ GoTo("probe 5") /\ UNCHANGED <<vars, prog, tty, login, su>>
      <3>1. TasksInv' /\ ProbesLead' /\ at'[INIT] = "probe 5"
        BY <2>1, <2>3, SkipKeeps
      <3>2. ProbesDone'
        BY <2>1, <2>3, <3>1 DEF ProbesDone, vars
      <3> QED BY <3>1, <3>2 DEF UserInv
    <2>4. 4 - 1 = 3
      OBVIOUS
    <2> QED BY <1>4, <2>2, <2>3, <2>4, Zenon DEF Probe4, Probe
  <1>5. ASSUME Probe5 PROVE UserInv'
    <2>1. /\ current_task = INIT /\ at[INIT] = "probe 5"
          /\ ~tasks[1].dead /\ (TestBLives => ~tasks[3].dead)
      BY <1>1, <1>5 DEF Probe5, Probe, At, Me, ProbesDone
    <2>2. CASE tasks[4].dead /\ Load("test_c", 3, "yield")
      <3>1. TasksInv' /\ at'[INIT] = "yield" /\ \E p \in 1 .. 4 : Loaded(p, "test_c", 3)
        BY <2>1, <2>2, <1>2, LoadKeeps, Zenon
      <3>2. PICK p \in 1 .. 4 : Loaded(p, "test_c", 3)
        BY <3>1
      <3>3. p # 1
        BY <2>1, <3>2 DEF Loaded
      <3>4. p \in 1 .. 4 /\ p # 1 /\ "test_c" # "test_b" /\ (p = 3 => ~TestBLives)
        BY <2>1, <3>2, <3>3 DEF Loaded
      <3>6. ProbesLead'
        BY <1>1, <3>2, <3>4, LoadedSlots
      <3>7. ProbesDone'
        BY <3>1 DEF ProbesDone
      <3> QED BY <3>1, <3>6, <3>7 DEF UserInv
    <2>3. CASE ~tasks[4].dead /\ GoTo("yield") /\ UNCHANGED <<vars, prog, tty, login, su>>
      <3>1. TasksInv' /\ ProbesLead' /\ at'[INIT] = "yield"
        BY <2>1, <2>3, SkipKeeps
      <3>2. ProbesDone'
        BY <3>1 DEF ProbesDone, vars
      <3> QED BY <3>1, <3>2 DEF UserInv
    <2>4. 5 - 1 = 4
      OBVIOUS
    <2> QED BY <1>5, <2>2, <2>3, <2>4, Zenon DEF Probe5, Probe
  <1> QED BY <1>3, <1>4, <1>5
-----------------------------------------------------------------------------
LEMMA UserInitInv == UserInit => UserInv
  <1> SUFFICES ASSUME UserInit PROVE UserInv
    OBVIOUS
  <1> USE BootSlots
  <1>0. Len(BootYieldOnly) = 5
    BY BootAssumption DEF BootProg
  <1>1. ASSUME NEW p \in Pid, p < 5
        PROVE  /\ ~tasks[p].dead /\ ~tasks[p].paused /\ tasks[p].pending = <<>>
               /\ tasks[p].uid = 0 /\ tasks[p].gid = 0
               /\ tasks[p].yield_only = BootYieldOnly[p + 1]
    <2>1. tasks[p] = NewTask(p, BootYieldOnly[p + 1])
      BY <1>0, <1>1 DEF UserInit, Init
    <2> QED BY <2>1 DEF NewTask
  <1>11. ASSUME NEW p \in Pid, p >= 5
         PROVE  tasks[p].dead
    <2>1. tasks[p] = NoTask
      BY <1>0, <1>11 DEF UserInit, Init, Pid
    <2> QED BY <2>1 DEF NoTask, NewTask
  <1>2. ASSUME NEW p \in Pid
        PROVE  /\ prog[p] \in Programs /\ tty[p] \in 0 .. 3 /\ at[p] \in Places
               /\ login[p] = 0 /\ su[p] = <<>>
               /\ p = 0 => prog[p] = "test_init" /\ at[p] = "probe 2"
               /\ p = 1 => prog[p] = "test_a" /\ tty[p] = 0 /\ at[p] = "login"
               /\ p = 2 => prog[p] = "test_b" /\ at[p] = "yield"
               /\ p = 3 => prog[p] = "test_a" /\ tty[p] = 2 /\ at[p] = "login"
               /\ p = 4 => prog[p] = "test_c" /\ tty[p] = 3 /\ at[p] = "login"
    <2>1. /\ prog[p] = IF p < 5 THEN BootProg[p + 1] ELSE "none"
          /\ tty[p] = IF p < 5 THEN BootTty[p + 1] ELSE 0
          /\ at[p] = Start(prog[p]) /\ login[p] = 0 /\ su[p] = <<>>
      BY DEF UserInit, BootProg, BootTty
    <2>2. p \in Nat /\ (p < 5 => p \in {0, 1, 2, 3, 4})
      BY DEF Pid
    <2>3. /\ p = 0 => prog[p] = "test_init" /\ tty[p] = 0
          /\ p = 1 => prog[p] = "test_a" /\ tty[p] = 0
          /\ p = 2 => prog[p] = "test_b" /\ tty[p] = 1
          /\ p = 3 => prog[p] = "test_a" /\ tty[p] = 2
          /\ p = 4 => prog[p] = "test_c" /\ tty[p] = 3
          /\ p >= 5 => prog[p] = "none" /\ tty[p] = 0
      BY <2>1, <2>2 DEF BootProg, BootTty
    <2>4. p \in {0, 1, 2, 3, 4} \/ p >= 5
      BY <2>2
    <2>5. prog[p] \in Programs /\ tty[p] \in 0 .. 3
      BY <2>3, <2>4 DEF Programs
    <2>6. /\ at[p] \in Places
          /\ prog[p] = "test_init" => at[p] = "probe 2"
          /\ prog[p] = "test_b" => at[p] = "yield"
          /\ prog[p] \in {"test_a", "test_c"} => at[p] = "login"
      BY <2>1 DEF Start, Places
    <2> QED BY <2>1, <2>3, <2>5, <2>6
  <1>3. SchedInv /\ GoesOn /\ current_task = INIT
    BY InitInv DEF UserInit, Init, GoesOn
  <1>4. ProgramsTyped
    <2>1. 0 \in Uids /\ <<>> \in Seq(Ids)
      BY IdAssumption, EmptySeq
    <2>2. /\ prog \in [Pid -> Programs] /\ tty \in [Pid -> 0 .. 3]
          /\ at \in [Pid -> Places] /\ login \in [Pid -> Uids] /\ su \in [Pid -> Seq(Ids)]
      BY <1>2, <2>1 DEF UserInit
    <2> QED BY <2>2 DEF ProgramsTyped
  <1>5. InitCalm(tasks) /\ InitProbes
    <2>1. 0 \in Pid /\ 0 < 5 /\ 0 + 1 = 1 /\ INIT = 0
      BY DEF INIT
    <2>2. /\ ~tasks[INIT].paused /\ tasks[INIT].pending = <<>>
          /\ tasks[INIT].yield_only = BootYieldOnly[1]
      BY <1>1, <2>1
    <2>3. prog[INIT] = "test_init" /\ at[INIT] = "probe 2"
      BY <1>2, <2>1
    <2> QED BY <1>3, <2>2, <2>3, BootAssumption DEF InitCalm, InitProbes
  <1>6. ASSUME NEW p \in Pid \ {INIT}, ~tasks[p].dead PROVE p \in {1, 2, 3, 4}
    BY <1>11, <1>6 DEF Pid, INIT
  <1>7. PlaceFits
    BY <1>2, <1>6 DEF PlaceFits
  <1>8. ShellsFit
    <2> SUFFICES ASSUME NEW p \in Pid, IsShell(p)
                 PROVE  IdsFit(tasks[p], at[p], login[p], su[p])
      BY DEF ShellsFit
    <2>1. p \in Pid \ {INIT} /\ ~tasks[p].dead
      BY <1>5 DEF IsShell, InitProbes
    <2>2. p \in {1, 2, 3, 4}
      BY <1>6, <2>1
    <2>3. p < 5 /\ (p = 2 => prog[p] = "test_b") /\ (p # 2 => at[p] = "login") /\ su[p] = <<>>
      <3>1. /\ su[p] = <<>> /\ (p = 2 => prog[p] = "test_b")
            /\ (p = 1 \/ p = 3 \/ p = 4 => at[p] = "login")
        BY <1>2
      <3> QED BY <2>2, <3>1
    <2>4. tasks[p].uid = 0 /\ tasks[p].gid = 0 /\ p # 2
      BY <1>1, <2>3 DEF IsShell
    <2> QED BY <2>3, <2>4 DEF IdsFit
  <1>9. ProbesLead
    <2>1. \A p \in Pid : p > 4 => tasks[p].dead
      BY <1>11 DEF Pid
    <2> QED BY <1>2, <2>1 DEF ProbesLead
  <1>10. ProbesDone
    BY <1>2 DEF ProbesDone, INIT
  <1> QED BY <1>3, <1>4, <1>5, <1>7, <1>8, <1>9, <1>10 DEF UserInv, TasksInv
-----------------------------------------------------------------------------
(* The current task with other ids, as setuid, su and the end of su leave  *)
(* it.                                                                     *)
OnlyIdsDiffer(t, u) ==
  /\ u.regs = t.regs /\ u.dead = t.dead /\ u.paused = t.paused
  /\ u.yield_only = t.yield_only /\ u.pending = t.pending

WithOwn(t) == [Now EXCEPT !.tasks = [tasks EXCEPT ![current_task] = t]]

LEMMA OwnIdsSettle ==
  ASSUME UserInv, Running, NEW t \in Task,
         OnlyIdsDiffer(tasks[current_task], t)
  PROVE  LET n == WithOwn(t)
         IN /\ Settled(n) /\ n.halt = halt /\ n.tasks[current_task] = t
            /\ \A p \in Pid : /\ n.tasks[p].dead = tasks[p].dead
                              /\ p # current_task => n.tasks[p] = tasks[p]
  <1> DEFINE c == current_task
             n == WithOwn(t)
  <1>1. /\ t.regs = tasks[c].regs /\ t.dead = tasks[c].dead /\ t.paused = tasks[c].paused
        /\ t.yield_only = tasks[c].yield_only /\ t.pending = tasks[c].pending
    BY DEF OnlyIdsDiffer
  <1>2. /\ c \in Pid /\ tasks \in [Pid -> Task] /\ Settled(Now) /\ Now \in Machine
        /\ Now.tasks = tasks /\ Now.current = c /\ Now.cpu = cpu /\ Now.halt = halt
    BY UserNow DEF Settled
  <1>3. /\ n \in Machine /\ n.current = c /\ n.cpu = cpu /\ n.halt = halt
        /\ n.tasks = [tasks EXCEPT ![c] = t]
    BY <1>2 DEF Machine, WithOwn
  <1> HIDE DEF n
  <1>4. n.tasks[c] = t /\ \A p \in Pid \ {c} : n.tasks[p] = tasks[p]
    BY <1>2, <1>3
  <1>5. ASSUME NEW p \in Pid
        PROVE  /\ n.tasks[p].dead = tasks[p].dead /\ n.tasks[p].regs = tasks[p].regs
               /\ n.tasks[p].paused = tasks[p].paused
               /\ n.tasks[p].pending = tasks[p].pending
    BY <1>1, <1>4
  <1>6. Settled(n)
    BY <1>2, <1>3, <1>5, InitIsPid DEF Settled, TableOK, Runnable, Machine
  <1> QED BY <1>3, <1>4, <1>5, <1>6 DEF n

LEMMA PostSettles ==
  ASSUME NEW m, Busy(m), Settled(m), NEW p \in Pid, NEW sig \in Sig
  PROVE  Settled(sched_kill_task(m, p, sig))
  <1> DEFINE n == sched_kill_task(m, p, sig)
  <1>1. m.current \in Pid /\ m.halt = "none"
    BY DEF Busy, Machine
  <1>2. /\ Busy(n) /\ n.current = m.current
        /\ n.tasks[m.current].dead = m.tasks[m.current].dead
        /\ n.tasks[m.current].paused = m.tasks[m.current].paused
    BY <1>1, PostKeepsBusy
  <1> HIDE DEF n
  <1> QED BY <1>1, <1>2 DEF Busy, Settled, Runnable, n

(* A task other than init marks itself dead, and the machine switches.     *)
LEMMA ExitIsQuiet ==
  ASSUME UserInv, Running, current_task # INIT
  PROVE  LET b == [Now EXCEPT !.tasks[current_task].dead = TRUE]
         IN Busy(b) /\ Quiet(Now, b)
  <1> DEFINE c == current_task
             u == [tasks[c] EXCEPT !.dead = TRUE]
             b == [Now EXCEPT !.tasks[c].dead = TRUE]
  <1>1. /\ c \in Pid /\ tasks \in [Pid -> Task] /\ Busy(Now) /\ Now.tasks = tasks
        /\ Now.current = c /\ Now.cpu = cpu /\ Now.halt = halt /\ InitCalm(tasks)
    BY UserNow DEF UserInv, TasksInv
  <1>2. b = [Now EXCEPT !.tasks = [tasks EXCEPT ![c] = u]]
    BY <1>1 DEF Now
  <1>3. /\ u \in Task /\ u.dead /\ Carries(tasks[c], u)
        /\ u.regs = tasks[c].regs /\ u.pending = tasks[c].pending
    <2>1. tasks[c] \in Task
      BY <1>1
    <2>2. u \in Task /\ u.dead
      BY <2>1 DEF Task
    <2>3. /\ u.regs = tasks[c].regs /\ u.pending = tasks[c].pending
          /\ u.uid = tasks[c].uid /\ u.gid = tasks[c].gid
          /\ u.yield_only = tasks[c].yield_only
      BY <2>1 DEF Task
    <2> QED BY <2>2, <2>3 DEF Carries
  <1> HIDE DEF u, b
  <1>4. /\ b \in Machine /\ b.current = c /\ b.cpu = cpu /\ b.halt = halt
        /\ b.tasks = [tasks EXCEPT ![c] = u]
    BY <1>1, <1>2, <1>3 DEF Busy, Machine
  <1>5. b.tasks[c] = u /\ \A p \in Pid \ {c} : b.tasks[p] = tasks[p]
    BY <1>1, <1>4
  <1>6. TableOK(b.tasks)
    <2>1. b.tasks \in [Pid -> Task]
      BY <1>4 DEF Machine
    <2>2. ASSUME NEW q \in Pid
          PROVE  /\ b.tasks[q].pending = tasks[q].pending
                 /\ b.tasks[q].dead = (q = c \/ tasks[q].dead)
                 /\ b.tasks[q].regs = tasks[q].regs
      BY <1>3, <1>5, <1>1, <2>1 DEF Task
    <2> QED BY <1>1, <2>1, <2>2, InitIsPid DEF TableOK, Busy
  <1>7. Busy(b)
    BY <1>1, <1>4, <1>6 DEF Busy
  <1>8. Quiet(Now, b)
    <2>1. \A p \in Pid : Carries(tasks[p], b.tasks[p])
      BY <1>3, <1>5 DEF Carries
    <2>2. b.tasks[INIT] = tasks[INIT]
      BY <1>5, InitIsPid
    <2> QED BY <1>1, <1>4, <2>1, <2>2 DEF Quiet, InitCalm, Busy
  <1> QED BY <1>7, <1>8 DEF b

(* What a task other than init finds when it runs.                         *)
LEMMA TaskRuns ==
  ASSUME UserInv, Running, current_task # INIT
  PROVE  /\ Busy(Now) /\ Settled(Now) /\ InitCalm(Now.tasks) /\ is_tasking_avaliable
         /\ current_task \in Pid \ {INIT} /\ at[INIT] = "probe 2"
         /\ at[current_task] \in InShell =>
              /\ IsShell(current_task)
              /\ IdsFit(tasks[current_task], at[current_task], login[current_task],
                        su[current_task])
  <1>1. /\ Busy(Now) /\ Settled(Now) /\ InitCalm(Now.tasks)
        /\ current_task \in Pid \ {INIT} /\ at[INIT] = "probe 2" /\ ~tasks[current_task].dead
    BY UserNow DEF UserInv, TasksInv
  <1>2. at[current_task] \in InShell => IsShell(current_task)
    BY <1>1 DEF UserInv, TasksInv, PlaceFits, IsShell
  <1> QED BY <1>1, <1>2 DEF UserInv, TasksInv, ShellsFit, Running

LEMMA StutterKeeps ==
  ASSUME UserInv, UNCHANGED <<vars, progVars>>
  PROVE  UserInv'
  <1>1. /\ UNCHANGED vars /\ UNCHANGED <<prog, tty, at, login, su>>
    BY DEF progVars
  <1>2. SchedInv'
    BY <1>1, NextInv DEF UserInv, TasksInv
  <1>3. /\ tasks' = tasks /\ current_task' = current_task /\ halt' = halt
        /\ prog' = prog /\ tty' = tty /\ at' = at /\ login' = login /\ su' = su
    BY <1>1 DEF vars
  <1> QED BY <1>2, <1>3
          DEF UserInv, TasksInv, GoesOn, ProgramsTyped, InitProbes, PlaceFits,
              ShellsFit, IsShell, ProbesLead, ProbesDone, TestBLives

(* The steps of the machine and of init that are not probes.               *)
LEMMA MachineKeeps ==
  ASSUME UserInv, Start0 \/ Tick \/ InitYields \/ TestBYields
  PROVE  UserInv'
  <1>1. /\ at \in [Pid -> Places] /\ prog[INIT] = "test_init" /\ tasks[INIT].yield_only
        /\ InitCalm(Now.tasks)
    BY UserNow DEF UserInv, TasksInv, ProgramsTyped, InitProbes, InitCalm
  <1>2. CASE Start0
    <2>1. /\ tasks' = tasks /\ current_task' = INIT /\ halt' = halt
          /\ prog' = prog /\ tty' = tty /\ at' = at /\ login' = login /\ su' = su
      BY <1>2, UserNow DEF Start0, Stay, progVars, Setup
    <2>2. SchedInv'
      BY <1>2, NextInv DEF UserInv, TasksInv, Start0, Next
    <2> QED BY <2>1, <2>2
            DEF UserInv, TasksInv, GoesOn, ProgramsTyped, InitProbes, PlaceFits,
                ShellsFit, IsShell, ProbesLead, ProbesDone, TestBLives
  <1>3. CASE Tick
    <2>1. /\ Running /\ current_task # INIT /\ Become(sched_next_task(Now))
          /\ UNCHANGED <<prog, tty, login, su>> /\ at' = at
      BY <1>1, <1>3 DEF Tick, Timer, Stay, progVars
    <2>2. Settled(sched_next_task(Now)) /\ Quiet(Now, sched_next_task(Now))
      BY <2>1, TaskRuns, SwitchSettles, SwitchIsQuiet
    <2> QED BY <1>1, <2>1, <2>2, TaskRuns, QuietStep
  <1>4. CASE InitYields
    <2>1. /\ Running /\ Become(sched_next_task(Now)) /\ prog[current_task] = "test_init"
          /\ UNCHANGED <<prog, tty, login, su>>
          /\ at' = [at EXCEPT ![current_task] = "probe 2"]
      BY <1>4 DEF InitYields, SysYield, GoTo, Me
    <2>2. current_task = INIT
      BY <2>1, UserNow DEF UserInv, TasksInv, PlaceFits
    <2>3. /\ at' \in [Pid -> Places] /\ at'[INIT] = "probe 2"
          /\ \A p \in Pid \ {INIT} : at'[p] = at[p]
      BY <1>1, <2>1, <2>2, InitIsPid DEF Places
    <2>4. Settled(sched_next_task(Now)) /\ Quiet(Now, sched_next_task(Now))
      BY <1>1, <2>1, UserNow, SwitchSettles, SwitchIsQuiet
    <2> QED BY <2>1, <2>3, <2>4, QuietStep DEF Running
  <1>5. CASE TestBYields
    <2>1. /\ Running /\ current_task # INIT /\ Become(sched_next_task(Now))
          /\ UNCHANGED <<prog, tty, login, su>> /\ at' = at
      BY <1>1, <1>5 DEF TestBYields, SysYield, Stay, progVars, Me
    <2>2. Settled(sched_next_task(Now)) /\ Quiet(Now, sched_next_task(Now))
      BY <2>1, TaskRuns, SwitchSettles, SwitchIsQuiet
    <2> QED BY <1>1, <2>1, <2>2, TaskRuns, QuietStep
  <1> QED BY <1>2, <1>3, <1>4, <1>5

(* The commands of a shell that go through the scheduler.                  *)
LEMMA CommandKeeps ==
  ASSUME UserInv,
         \/ \E sig \in {SIGKILL, SIGSTOP, SIGCONT} : ShellKill(sig)
         \/ ShellUd \/ ShellExit
  PROVE  UserInv'
  <1>1. at \in [Pid -> Places] /\ (Running /\ at[current_task] = "shell" => current_task # INIT)
    BY DEF UserInv, TasksInv, ProgramsTyped, InitProbes
  <1>2. {SIGKILL, SIGSTOP, SIGCONT, SIGILL} \subseteq Sig
    BY DEF Sig, SIG_COUNT, SIGKILL, SIGSTOP, SIGCONT, SIGILL
  <1>3. ASSUME NEW sig \in {SIGKILL, SIGSTOP, SIGCONT}, ShellKill(sig) PROVE UserInv'
    <2>1. /\ Running /\ current_task # INIT
          /\ UNCHANGED <<prog, tty, login, su>> /\ at' = at
          /\ SysKill(CommandPid - 1, sig) \/ UNCHANGED vars
      BY <1>1, <1>3 DEF ShellKill, At, Stay, progVars, Me
    <2>2. CASE UNCHANGED vars
      BY <2>1, <2>2, StutterKeeps DEF progVars
    <2>3. CASE SysKill(CommandPid - 1, sig)
      <3> DEFINE n == sched_kill_task(Now, CommandPid - 1, sig)
      <3>1. CommandPid - 1 \in Pid \ {INIT}
        BY BootSlots DEF CommandPid, INIT
      <3>2. Settled(n) /\ Quiet(Now, n)
        BY <1>2, <2>1, <3>1, TaskRuns, PostSettles, PostIsQuiet
      <3>3. Become(n)
        BY <2>3 DEF SysKill
      <3> QED BY <1>1, <2>1, <3>2, <3>3, TaskRuns, QuietStep
    <2> QED BY <2>1, <2>2, <2>3
  <1>4. CASE ShellUd
    <2> DEFINE b == sched_kill_task(Now, current_task, SIGILL)
    <2>1. /\ Running /\ current_task # INIT /\ Become(sched_next_task(b))
          /\ UNCHANGED <<prog, tty, login, su>> /\ at' = at
      BY <1>1, <1>4 DEF ShellUd, ErrorTrap, At, Stay, progVars, Me
    <2>2. Busy(b) /\ Quiet(Now, b)
      BY <1>2, <2>1, TaskRuns, PostKeepsBusy, PostIsQuiet
    <2> HIDE DEF b
    <2>3. Settled(sched_next_task(b)) /\ Quiet(b, sched_next_task(b))
      BY <2>2, SwitchSettles, SwitchIsQuiet DEF Quiet
    <2>4. Quiet(Now, sched_next_task(b))
      BY <2>2, <2>3, QuietTwice
    <2> QED BY <1>1, <2>1, <2>3, <2>4, TaskRuns, QuietStep
  <1>5. CASE ShellExit
    <2> DEFINE b == [Now EXCEPT !.tasks[current_task].dead = TRUE]
    <2>1. /\ Running /\ current_task # INIT /\ Become(sched_next_task(b))
          /\ UNCHANGED <<prog, tty, login, su>> /\ at' = at
      BY <1>1, <1>5 DEF ShellExit, SysExit, At, Stay, progVars, Me
    <2>2. Busy(b) /\ Quiet(Now, b)
      BY <2>1, ExitIsQuiet
    <2> HIDE DEF b
    <2>3. Settled(sched_next_task(b)) /\ Quiet(b, sched_next_task(b))
      BY <2>2, SwitchSettles, SwitchIsQuiet DEF Quiet
    <2>4. Quiet(Now, sched_next_task(b))
      BY <2>2, <2>3, QuietTwice
    <2> QED BY <1>1, <2>1, <2>3, <2>4, TaskRuns, QuietStep
  <1> QED BY <1>3, <1>4, <1>5

(* The first half of a login: the uid becomes the account's.               *)
LEMMA LoginKeeps ==
  ASSUME UserInv, NEW id \in Logins, Login(id)
  PROVE  UserInv'
  <1> DEFINE c == current_task
             t == [tasks[c] EXCEPT !.uid = id]
  <1>1. /\ Running /\ at[c] = "login" /\ tasks[c].uid = 0 /\ tasks[c].gid = 0
        /\ login' = [login EXCEPT ![c] = id] /\ UNCHANGED <<prog, tty, su>>
        /\ \/ id = 0 /\ at' = [at EXCEPT ![c] = "shell"] /\ UNCHANGED vars
           \/ id # 0 /\ at' = [at EXCEPT ![c] = "setgid"] /\ SysSetuid(id)
    BY DEF Login, At, GoTo, Me
  <1>2. c # INIT /\ c \in Pid /\ tasks \in [Pid -> Task] /\ tasks[c] \in Task /\ id \in Uids
    BY <1>1, UserNow, LoginAssumption DEF UserInv, TasksInv, InitProbes
  <1>3. /\ Settled(Now) /\ IsShell(c) /\ su[c] = <<>> /\ is_tasking_avaliable
    BY <1>1, <1>2, TaskRuns DEF IdsFit
  <1>4. ProgramsTyped
    BY DEF UserInv, TasksInv
  <1>5. /\ ProgramsTyped' /\ login'[c] = id /\ su'[c] = <<>>
        /\ at'[c] = IF id = 0 THEN "shell" ELSE "setgid"
        /\ \A p \in Pid \ {c} : at'[p] = at[p] /\ login'[p] = login[p] /\ su'[p] = su[p]
    BY <1>1, <1>2, <1>3, <1>4 DEF ProgramsTyped, Places
  <1>6. CASE id = 0
    <2>1. Become(Now) /\ Now.halt = halt /\ Now.tasks = tasks
      BY <1>1, <1>6 DEF Become, Now, vars
    <2>2. IdsFit(tasks[c], at'[c], login'[c], su'[c])
      BY <1>1, <1>5, <1>6 DEF IdsFit
    <2> QED BY <1>1, <1>2, <1>3, <1>5, <1>6, <2>1, <2>2, ShellStep
  <1>7. CASE id # 0
    <2> DEFINE n == WithOwn(t)
    <2>1. Become(n)
      BY <1>1, <1>7 DEF SysSetuid, Now, WithOwn
    <2>2. /\ t \in Task /\ t.uid = id /\ t.gid = tasks[c].gid
          /\ OnlyIdsDiffer(tasks[c], t)
      BY <1>2 DEF Task, OnlyIdsDiffer
    <2> HIDE DEF t
    <2>3. /\ Settled(n) /\ n.halt = halt /\ n.tasks[c] = t
          /\ \A p \in Pid : /\ n.tasks[p].dead = tasks[p].dead
                            /\ p # c => n.tasks[p] = tasks[p]
      BY <1>1, <2>2, OwnIdsSettle
    <2> HIDE DEF n
    <2>4. IdsFit(n.tasks[c], at'[c], login'[c], su'[c])
      BY <1>1, <1>5, <1>7, <2>2, <2>3 DEF IdsFit
    <2> QED BY <1>1, <1>2, <1>3, <1>5, <1>7, <2>1, <2>3, <2>4, ShellStep
  <1> QED BY <1>6, <1>7

(* The second half: the right to setgid is gone.                           *)
LEMMA LoginGroupKeeps ==
  ASSUME UserInv, LoginGroup
  PROVE  UserInv'
  <1> DEFINE c == current_task
  <1>1. /\ Running /\ at[c] = "setgid" /\ UNCHANGED <<prog, tty, login, su>>
        /\ at' = [at EXCEPT ![c] = "shell"] /\ (tasks[c].uid # 0 => UNCHANGED vars)
    BY DEF LoginGroup, At, GoTo, Me
  <1>2. c # INIT /\ c \in Pid
    BY <1>1, UserNow DEF UserInv, TasksInv, InitProbes
  <1>3. /\ Settled(Now) /\ IsShell(c) /\ is_tasking_avaliable
        /\ IdsFit(tasks[c], "setgid", login[c], su[c])
    BY <1>1, <1>2, TaskRuns
  <1>4. Become(Now) /\ Now.halt = halt /\ Now.tasks = tasks
    BY <1>1, <1>3 DEF IdsFit, Become, Now, vars
  <1>5. /\ ProgramsTyped' /\ at'[c] = "shell"
        /\ \A p \in Pid \ {c} : at'[p] = at[p]
    BY <1>1, <1>2 DEF UserInv, TasksInv, ProgramsTyped, Places
  <1>6. IdsFit(tasks[c], "shell", login'[c], su'[c])
    BY <1>1, <1>3 DEF IdsFit
  <1> QED BY <1>1, <1>2, <1>3, <1>4, <1>5, <1>6, ShellStep

(* A shell takes other ids, and what it put aside still fits them.         *)
LEMMA NewIdsKeep ==
  ASSUME UserInv, Running, at[current_task] = "shell",
         UNCHANGED <<prog, tty, at, login>>,
         NEW ids \in Ids,
         Become([Now EXCEPT !.tasks[current_task].uid = ids.uid,
                            !.tasks[current_task].gid = ids.gid]),
         su' \in [Pid -> Seq(Ids)],
         \A p \in Pid \ {current_task} : su'[p] = su[p],
         \A t \in Task : t.uid = ids.uid /\ t.gid = ids.gid =>
            IdsFit(t, "shell", login[current_task], su'[current_task])
  PROVE  UserInv'
  <1> DEFINE c == current_task
             t == [[tasks[c] EXCEPT !.uid = ids.uid] EXCEPT !.gid = ids.gid]
             n == WithOwn(t)
  <1>1. /\ c # INIT /\ c \in Pid /\ tasks \in [Pid -> Task] /\ tasks[c] \in Task
        /\ ProgramsTyped
    BY UserNow DEF UserInv, TasksInv, InitProbes
  <1>2. Settled(Now) /\ IsShell(c) /\ is_tasking_avaliable
    BY <1>1, TaskRuns
  <1>3. /\ t \in Task /\ t.uid = ids.uid /\ t.gid = ids.gid /\ OnlyIdsDiffer(tasks[c], t)
    BY <1>1 DEF Task, Ids, OnlyIdsDiffer
  <1>4. [Now EXCEPT !.tasks[c].uid = ids.uid, !.tasks[c].gid = ids.gid] = n
    BY <1>1 DEF Now, WithOwn
  <1> HIDE DEF t
  <1>5. /\ Settled(n) /\ n.halt = halt /\ n.tasks[c] = t
        /\ \A p \in Pid : /\ n.tasks[p].dead = tasks[p].dead
                          /\ p # c => n.tasks[p] = tasks[p]
    BY <1>3, OwnIdsSettle
  <1> HIDE DEF n
  <1>6. Become(n)
    BY <1>4
  <1>7. IdsFit(n.tasks[c], at'[c], login'[c], su'[c])
    BY <1>3, <1>5
  <1>8. ProgramsTyped'
    BY <1>1 DEF ProgramsTyped
  <1> QED BY <1>1, <1>2, <1>5, <1>6, <1>7, <1>8, ShellStep

(***************************************************************************)
(* su and the exit that ends it, for any depth: what a nested shell put    *)
(* aside is the login's uid at the bottom and root's above it.             *)
(***************************************************************************)
LEMMA SuKeeps ==
  ASSUME UserInv, Su
  PROVE  UserInv'
  <1> DEFINE c == current_task
             own == [uid |-> tasks[c].uid, gid |-> tasks[c].gid]
             root == [uid |-> 0, gid |-> 0]
             deeper == Append(su[c], own)
  <1>1. /\ Running /\ at[c] = "shell" /\ UNCHANGED <<prog, tty, at, login>>
        /\ su' = [su EXCEPT ![c] = deeper]
        /\ Become([Now EXCEPT !.tasks[c].uid = root.uid, !.tasks[c].gid = root.gid])
    BY DEF Su, At, Me
  <1>2. /\ c # INIT /\ c \in Pid /\ tasks[c] \in Task
        /\ su \in [Pid -> Seq(Ids)] /\ su[c] \in Seq(Ids) /\ Len(su[c]) \in Nat
    BY <1>1, UserNow, LenProperties DEF UserInv, TasksInv, InitProbes, ProgramsTyped
  <1>3. IdsFit(tasks[c], "shell", login[c], su[c])
    BY <1>1, <1>2, TaskRuns
  <1>4. own \in Ids /\ root \in Ids /\ own.uid = tasks[c].uid /\ own.gid = tasks[c].gid
    BY <1>2, IdAssumption DEF Task, Ids
  <1> HIDE DEF own
  <1>5. /\ deeper \in Seq(Ids) /\ Len(deeper) = Len(su[c]) + 1
        /\ deeper[Len(su[c]) + 1] = own
        /\ \A i \in 1 .. Len(su[c]) : deeper[i] = su[c][i]
    BY <1>2, <1>4, AppendProperties
  <1> HIDE DEF deeper
  <1>6. /\ su' \in [Pid -> Seq(Ids)] /\ su'[c] = deeper
        /\ \A p \in Pid \ {c} : su'[p] = su[p]
    BY <1>1, <1>2, <1>5
  <1>7. /\ deeper # <<>> /\ deeper[1].uid = login[c]
        /\ \A i \in 1 .. Len(deeper) : deeper[i].gid = 0 /\ (i > 1 => deeper[i].uid = 0)
    <2>1. CASE su[c] = <<>>
      <3>1. Len(su[c]) = 0 /\ own.uid = login[c] /\ own.gid = 0
        BY <1>3, <1>4, <2>1, EmptySeq DEF IdsFit
      <3>2. Len(deeper) = 1 /\ deeper[1] = own
        BY <1>5, <3>1
      <3> QED BY <1>5, <3>1, <3>2, EmptySeq
    <2>2. CASE su[c] # <<>>
      <3>1. /\ Len(su[c]) >= 1 /\ own.uid = 0 /\ own.gid = 0 /\ su[c][1].uid = login[c]
            /\ \A i \in 1 .. Len(su[c]) : su[c][i].gid = 0 /\ (i > 1 => su[c][i].uid = 0)
        BY <1>2, <1>3, <1>4, <2>2, EmptySeq DEF IdsFit
      <3>2. ASSUME NEW i \in 1 .. Len(deeper)
            PROVE  deeper[i].gid = 0 /\ (i > 1 => deeper[i].uid = 0)
        <4>1. i \in 1 .. Len(su[c]) \/ i = Len(su[c]) + 1
          BY <1>2, <1>5
        <4> QED BY <1>5, <3>1, <4>1
      <3>3. deeper[1] = su[c][1] /\ Len(deeper) # 0
        BY <1>2, <1>5, <3>1
      <3> QED BY <3>1, <3>2, <3>3, EmptySeq
    <2> QED BY <2>1, <2>2
  <1>8. \A t \in Task : t.uid = root.uid /\ t.gid = root.gid =>
           IdsFit(t, "shell", login[c], su'[c])
    BY <1>6, <1>7 DEF IdsFit
  <1> QED BY <1>1, <1>4, <1>6, <1>8, NewIdsKeep

LEMMA SuExitKeeps ==
  ASSUME UserInv, SuExit
  PROVE  UserInv'
  <1> DEFINE c == current_task
             k == Len(su[c])
             old == su[c][k]
             outer == SubSeq(su[c], 1, k - 1)
  <1>1. /\ Running /\ at[c] = "shell" /\ su[c] # <<>> /\ UNCHANGED <<prog, tty, at, login>>
        /\ su' = [su EXCEPT ![c] = outer]
        /\ Become([Now EXCEPT !.tasks[c].uid = old.uid, !.tasks[c].gid = old.gid])
    BY DEF SuExit, At, Me
  <1>2. /\ c # INIT /\ c \in Pid
        /\ su \in [Pid -> Seq(Ids)] /\ su[c] \in Seq(Ids) /\ k \in Nat \ {0}
    BY <1>1, UserNow, LenProperties, EmptySeq DEF UserInv, TasksInv, InitProbes, ProgramsTyped
  <1>3. /\ su[c][1].uid = login[c]
        /\ \A i \in 1 .. k : su[c][i].gid = 0 /\ (i > 1 => su[c][i].uid = 0)
    BY <1>1, <1>2, TaskRuns DEF IdsFit
  <1>4. old \in Ids
    BY <1>2, ElementOfSeq
  <1>5. outer \in Seq(Ids) /\ Len(outer) = k - 1
        /\ \A i \in 1 .. k - 1 : outer[i] = su[c][i]
    <2>1. \A i \in 1 .. k - 1 : su[c][i] \in Ids
      BY <1>2, ElementOfSeq
    <2>2. k - 1 \in Nat /\ k - 1 \in Int /\ 1 \in Int
      BY <1>2
    <2>3. /\ outer \in Seq(Ids) /\ Len(outer) = IF 1 <= k - 1 THEN k - 1 - 1 + 1 ELSE 0
          /\ \A i \in 1 .. k - 1 - 1 + 1 : outer[i] = su[c][1 + i - 1]
      BY <2>1, <2>2, SubSeqProperties
    <2> HIDE DEF outer, k
    <2>4. \A i \in 1 .. k - 1 : i \in 1 .. k - 1 - 1 + 1 /\ 1 + i - 1 = i
      BY <2>2
    <2> QED BY <2>2, <2>3, <2>4
  <1> HIDE DEF outer
  <1>6. /\ su' \in [Pid -> Seq(Ids)] /\ su'[c] = outer
        /\ \A p \in Pid \ {c} : su'[p] = su[p]
    BY <1>1, <1>2, <1>5
  <1>7. ASSUME NEW t \in Task, t.uid = old.uid, t.gid = old.gid
        PROVE  IdsFit(t, "shell", login[c], outer)
    <2>1. t.gid = 0 /\ (k = 1 => t.uid = login[c]) /\ (k > 1 => t.uid = 0)
      BY <1>2, <1>3, <1>7
    <2>2. outer = <<>> <=> k = 1
      BY <1>2, <1>5, EmptySeq
    <2>3. k > 1 => /\ outer[1].uid = login[c]
                   /\ \A i \in 1 .. Len(outer) :
                        outer[i].gid = 0 /\ (i > 1 => outer[i].uid = 0)
      BY <1>2, <1>3, <1>5
    <2> HIDE DEF k
    <2>4. CASE k = 1
      BY <2>1, <2>2, <2>4 DEF IdsFit
    <2>5. CASE k > 1
      <3>1. outer # <<>> /\ t.uid = 0 /\ t.gid = 0
        BY <2>1, <2>2, <2>5
      <3> QED BY <2>3, <2>5, <3>1 DEF IdsFit
    <2> QED BY <1>2, <2>4, <2>5
  <1> QED BY <1>1, <1>4, <1>6, <1>7, NewIdsKeep
-----------------------------------------------------------------------------
(* Into the debugger and back out of it: nothing but the place changes.    *)
LEMMA KdbgKeeps ==
  ASSUME UserInv, Kdbg \/ KdbgCont
  PROVE  UserInv'
  <1> DEFINE c == current_task
  <1>1. PICK here \in {"shell", "kdbg"}, there \in {"shell", "kdbg"} :
          /\ Running /\ at[c] = here /\ at' = [at EXCEPT ![c] = there]
          /\ UNCHANGED <<vars, prog, tty, login, su>>
    BY DEF Kdbg, KdbgCont, At, GoTo, Me
  <1>2. c # INIT /\ c \in Pid
    BY <1>1, UserNow DEF UserInv, TasksInv, InitProbes
  <1>3. /\ Settled(Now) /\ IsShell(c) /\ is_tasking_avaliable
        /\ IdsFit(tasks[c], here, login[c], su[c])
    BY <1>1, <1>2, TaskRuns
  <1>4. Become(Now) /\ Now.halt = halt /\ Now.tasks = tasks
    BY <1>1, <1>3 DEF Become, Now, vars
  <1>5. /\ ProgramsTyped' /\ at'[c] = there /\ there \in InShell
        /\ \A p \in Pid \ {c} : at'[p] = at[p]
    BY <1>1, <1>2 DEF UserInv, TasksInv, ProgramsTyped, Places
  <1>6. IdsFit(tasks[c], there, login'[c], su'[c])
    BY <1>1, <1>3 DEF IdsFit
  <1> QED BY <1>1, <1>2, <1>3, <1>4, <1>5, <1>6, ShellStep
-----------------------------------------------------------------------------
LEMMA ProgramStepKeeps == UserInv /\ ProgramStep => UserInv'
  <1> SUFFICES ASSUME UserInv, ProgramStep PROVE UserInv'
    OBVIOUS
  <1>1. CASE Start0 \/ Tick \/ InitYields \/ TestBYields
    BY <1>1, MachineKeeps
  <1>2. CASE Probe2 \/ Probe4 \/ Probe5
    BY <1>2, ProbeKeeps
  <1>3. ASSUME NEW id \in Logins, Login(id) PROVE UserInv'
    BY <1>3, LoginKeeps
  <1>4. CASE LoginGroup
    BY <1>4, LoginGroupKeeps
  <1>5. CASE \/ \E sig \in {SIGKILL, SIGSTOP, SIGCONT} : ShellKill(sig)
             \/ ShellUd \/ ShellExit
    BY <1>5, CommandKeeps
  <1>6. CASE Su
    BY <1>6, SuKeeps
  <1>7. CASE SuExit
    BY <1>7, SuExitKeeps
  <1>8. CASE Kdbg \/ KdbgCont
    BY <1>8, KdbgKeeps
  <1> QED BY <1>1, <1>2, <1>3, <1>4, <1>5, <1>6, <1>7, <1>8 DEF ProgramStep

LEMMA UserNextInv == UntilAdrift /\ [UserNext]_userVars => UntilAdrift'
  <1> SUFFICES ASSUME UntilAdrift, [UserNext]_userVars PROVE UntilAdrift'
    OBVIOUS
  <1>1. CASE ~adrift /\ ProgramStep /\ UNCHANGED adrift
    BY <1>1, ProgramStepKeeps DEF UntilAdrift
  <1>2. CASE KdbgSets
    BY <1>2 DEF KdbgSets, UntilAdrift
  <1>3. CASE Adrift
    BY <1>3 DEF Adrift, UntilAdrift
  <1>4. CASE UNCHANGED userVars
    <2>1. UNCHANGED adrift /\ (UserInv => UserInv')
      BY <1>4, StutterKeeps DEF userVars
    <2> QED BY <2>1 DEF UntilAdrift
  <1> QED BY <1>1, <1>2, <1>3, <1>4 DEF UserNext

(* The invariant with what makes it inductive, for every boot of kernel_start. *)
THEOREM UserInvHolds == UserSpec => []UntilAdrift
  <1>1. UserInit => UntilAdrift
    BY UserInitInv DEF UserInit, UntilAdrift
  <1> QED BY <1>1, UserNextInv, PTL DEF UserSpec

(***************************************************************************)
(* No command of any user, in any order, makes the kernel panic, short of  *)
(* a register set in the debugger: init has nothing pending and is never   *)
(* stopped, so a switch finds at least it.                                 *)
(***************************************************************************)
THEOREM ProgramsNeverHalt == UserSpec => []NeverHalts
  <1>1. UntilAdrift => NeverHalts
    BY DEF UntilAdrift, UserInv, TasksInv, GoesOn, NeverHalts
  <1> QED BY <1>1, UserInvHolds, PTL

(***************************************************************************)
(* init's pids lead where init thinks, for a table with any spare slots,   *)
(* until a register is set in the debugger.                                *)
(***************************************************************************)
THEOREM ProbesFindTheirShells == UserSpec => []SlotsAsInitThinks
  <1>1. UntilAdrift => SlotsAsInitThinks
    BY DEF UntilAdrift, UserInv, SlotsAsInitThinks
  <1> QED BY <1>1, UserInvHolds, PTL

(***************************************************************************)
(* A shell acts with the uid of its login, however often it nested su and  *)
(* entered the debugger without setting a register there.                  *)
(***************************************************************************)
THEOREM ShellsKeepTheirUid == UserSpec => []UidIsTheLogins
  <1>1. UntilAdrift => UidIsTheLogins
    BY DEF UntilAdrift, UserInv, TasksInv, ShellsFit, IdsFit, UidIsTheLogins
  <1> QED BY <1>1, UserInvHolds, PTL
=============================================================================
