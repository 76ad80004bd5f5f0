---------------------------- MODULE SchedProofs ----------------------------
(***************************************************************************)
(* For a process table of any size, rings of any size and any boot table:  *)
(* the safety invariants of Sched and its action properties.  The handlers *)
(* are functions on machines, so the argument goes function by function:   *)
(* what each asks of the machine it is given, and what it makes sure of.   *)
(***************************************************************************)
EXTENDS SchedLoops, SequenceTheorems, WellFoundedInduction, TLAPS

LEMMA NatMin ==
  ASSUME NEW S \in SUBSET Nat, S # {}
  PROVE  Min(S) \in S /\ \A y \in S : Min(S) <= y
  <1> DEFINE R == {ss \in Nat \X Nat : ss[1] < ss[2]}
  <1>1. IsWellFoundedOn(R, Nat)
    BY NatLessThanWellFounded DEF OpToRel
  <1>2. PICK x \in S : \A y \in S : ~ (<<y, x>> \in R)
    BY <1>1, WFMin
  <1>3. ASSUME NEW y \in S PROVE x <= y
    <2>1. <<y, x>> \in Nat \X Nat /\ ~ (<<y, x>> \in R)
      BY <1>2
    <2>2. ~ (y < x)
      BY <2>1, <<y, x>>[1] = y, <<y, x>>[2] = x
    <2> QED BY <2>2
  <1> QED BY <1>3 DEF Min
-----------------------------------------------------------------------------
(* What every handler may assume of the table, and must leave so. *)
TaskOK(t) == t \in Task /\ Len(t.pending) < TASK_SIG_CAP

TableOK(tab) ==
  /\ tab \in [Pid -> Task]
  /\ \A p \in Pid : Len(tab[p].pending) < TASK_SIG_CAP
  /\ ~tab[INIT].dead
  /\ \A p \in Pid : ~tab[p].dead => tab[p].regs \in {p, KERNEL}

(* A machine on which a handler may call sched_next_task. *)
Busy(m) ==
  /\ m \in Machine
  /\ TableOK(m.tasks)
  /\ m.cpu \in {m.current, KERNEL}
  /\ m.halt = "none"

(* A machine on which a handler may end. *)
Settled(m) ==
  /\ m \in Machine
  /\ TableOK(m.tasks)
  /\ m.halt = "none" => /\ Runnable(m.tasks[m.current])
                        /\ m.cpu \in {m.current, KERNEL}

LEMMA InitIsPid == INIT \in Pid
  BY TableAssumption DEF INIT, Pid

LEMMA TurnIsPid ==
  ASSUME NEW c \in Pid, NEW d \in 1 .. TASKS_CAP
  PROVE  Turn(c, d) \in Pid
  BY TableAssumption DEF Turn, Pid

(***************************************************************************)
(* Delivery keeps a task a task, with no more pending than before, and     *)
(* kills it exactly when a lethal signal was pending.                      *)
(***************************************************************************)
LEMMA FlushTask ==
  ASSUME NEW t, TaskOK(t)
  PROVE  /\ TaskOK(__flush_signals(t))
         /\ __flush_signals(t).regs = t.regs
         /\ __flush_signals(t).dead <=> t.dead \/ Dies(t)
  <1> DEFINE mild == IF Dies(t) THEN Min(LethalAt(t)) - 1 ELSE Len(t.pending)
             rest == SubSeq(t.pending, mild + 2, Len(t.pending))
  <1>1. t.pending \in Seq(Sig) /\ Len(t.pending) \in Nat
        /\ DOMAIN t.pending = 1 .. Len(t.pending)
    BY LenProperties DEF TaskOK, Task
  <1>2. mild \in 0 .. Len(t.pending)
    <2>1. CASE Dies(t)
      <3>1. LethalAt(t) \in SUBSET Nat /\ LethalAt(t) # {}
            /\ LethalAt(t) \subseteq 1 .. Len(t.pending)
        BY <2>1, <1>1 DEF Dies, LethalAt
      <3>2. Min(LethalAt(t)) \in 1 .. Len(t.pending)
        BY <3>1, NatMin
      <3> QED BY <2>1, <3>2, <1>1
    <2> QED BY <2>1, <1>1
  <1>3. rest \in Seq(Sig) /\ Len(rest) <= Len(t.pending)
    <2>1. \A i \in mild + 2 .. Len(t.pending) : t.pending[i] \in Sig
      BY <1>1, <1>2, ElementOfSeq
    <2>2. /\ rest \in Seq(Sig)
          /\ Len(rest) = IF mild + 2 <= Len(t.pending)
                         THEN Len(t.pending) - (mild + 2) + 1 ELSE 0
      BY <1>1, <1>2, <2>1, SubSeqProperties
    <2> QED BY <1>1, <1>2, <2>2
  <1>4. CASE t.dead
    BY <1>4 DEF __flush_signals, TaskOK
  <1>5. CASE ~t.dead
    <2> HIDE DEF rest, mild
    <2>1. __flush_signals(t) =
            [t EXCEPT !.dead = Dies(t),
                      !.paused = IF mild = 0 THEN @ ELSE t.pending[mild] = SIGSTOP,
                      !.pending = rest]
      BY <1>5 DEF __flush_signals, rest, mild
    <2>2. Dies(t) \in BOOLEAN /\ (IF mild = 0 THEN t.paused ELSE t.pending[mild] = SIGSTOP) \in BOOLEAN
      BY DEF Dies, TaskOK, Task
    <2>3. __flush_signals(t) \in Task /\ __flush_signals(t).pending = rest
          /\ __flush_signals(t).regs = t.regs /\ __flush_signals(t).dead = Dies(t)
      BY <2>1, <2>2, <1>3 DEF TaskOK, Task
    <2> QED BY <2>3, <1>1, <1>3, <1>5, TableAssumption DEF TaskOK
  <1> QED BY <1>4, <1>5 DEF TaskOK, Task

(* Delivering to several tasks, init only if nothing lethal waits for it. *)
LEMMA FlushTable ==
  ASSUME NEW tab, TableOK(tab), NEW S \in SUBSET Pid,
         INIT \in S => ~Dies(tab[INIT])
  PROVE  TableOK(FlushAll(tab, S))
  <1>1. ASSUME NEW p \in Pid
        PROVE  /\ TaskOK(FlushAll(tab, S)[p])
               /\ FlushAll(tab, S)[p].regs = tab[p].regs
               /\ tab[p].dead => FlushAll(tab, S)[p].dead
               /\ FlushAll(tab, S)[p].dead => tab[p].dead \/ (p \in S /\ Dies(tab[p]))
    <2>1. TaskOK(tab[p])
      BY DEF TableOK, TaskOK
    <2>2. FlushAll(tab, S)[p] = IF p \in S THEN __flush_signals(tab[p]) ELSE tab[p]
      BY DEF FlushAll
    <2> QED BY <2>1, <2>2, FlushTask
  <1>2. FlushAll(tab, S) \in [Pid -> Task]
    BY <1>1 DEF FlushAll, TaskOK
  <1> QED BY <1>1, <1>2, InitIsPid DEF TableOK, TaskOK

LEMMA PassedIsPid ==
  ASSUME NEW tab, NEW c \in Pid
  PROVE  /\ Passed(tab, c) \in SUBSET Pid
         /\ ReadyTurns(tab, c) # {} =>
              /\ Turn(c, Min(ReadyTurns(tab, c))) \in Pid
              /\ Runnable(tab[Turn(c, Min(ReadyTurns(tab, c)))])
              /\ Turn(c, Min(ReadyTurns(tab, c))) \notin Passed(tab, c)
  <1> DEFINE ready == ReadyTurns(tab, c)
             last == IF ready = {} THEN TASKS_CAP ELSE Min(ready) - 1
  <1>1. ready \subseteq 1 .. TASKS_CAP /\ \A d \in ready : Runnable(tab[Turn(c, d)])
    BY DEF ReadyTurns
  <1>2. ready # {} => Min(ready) \in ready /\ \A d \in ready : Min(ready) <= d
    BY <1>1, NatMin
  <1>3. 1 .. last \subseteq 1 .. TASKS_CAP
    BY <1>1, <1>2, TableAssumption
  <1>4. Passed(tab, c) = {Turn(c, d) : d \in 1 .. last}
    BY DEF Passed
  <1>5. Passed(tab, c) \in SUBSET Pid
    BY <1>3, <1>4, TurnIsPid
  <1>6. ASSUME ready # {}
        PROVE  /\ Turn(c, Min(ready)) \in Pid
               /\ Runnable(tab[Turn(c, Min(ready))])
               /\ Turn(c, Min(ready)) \notin Passed(tab, c)
    <2>1. \A d \in 1 .. last : d \in 1 .. TASKS_CAP /\ d \notin ready
      BY <1>1, <1>2, <1>3, <1>6
    <2>2. \A d \in 1 .. last : ~Runnable(tab[Turn(c, d)])
      BY <2>1 DEF ReadyTurns
    <2> QED BY <1>1, <1>2, <1>4, <1>6, <2>2, TurnIsPid
  <1> QED BY <1>5, <1>6
-----------------------------------------------------------------------------
LEMMA PickNextSettles ==
  ASSUME NEW m, m \in Machine, TableOK(m.tasks), m.cpu \in {m.current, KERNEL},
         m.halt = "none"
  PROVE  Settled(PickNext(m))
  <1> DEFINE t == m.tasks
             c == m.current
             swept == FlushAll(t, Passed(t, c))
             next == Turn(c, Min(ReadyTurns(t, c)))
  <1>1. c \in Pid /\ t \in [Pid -> Task]
    BY DEF Machine
  <1>2. CASE INIT \in Passed(t, c) /\ Dies(t[INIT])
    <2>1. PickNext(m) = [m EXCEPT !.halt = "kill init"]
      BY <1>2 DEF PickNext, Panic
    <2> QED BY <2>1 DEF Settled, Machine, Halts
  <1>3. CASE ~(INIT \in Passed(t, c) /\ Dies(t[INIT])) /\ ReadyTurns(t, c) = {}
    <2>1. PickNext(m) = [[m EXCEPT !.tasks = swept] EXCEPT !.halt = "no processes"]
      BY <1>3 DEF PickNext, Panic
    <2>2. TableOK(swept)
      BY <1>1, <1>3, FlushTable, PassedIsPid
    <2> HIDE DEF swept
    <2> QED BY <2>1, <2>2 DEF Settled, Machine, Halts, TableOK
  <1>4. CASE ~(INIT \in Passed(t, c) /\ Dies(t[INIT])) /\ ReadyTurns(t, c) # {}
    <2>1. PickNext(m) = [m EXCEPT !.tasks = swept, !.current = next, !.cpu = swept[next].regs]
      BY <1>4 DEF PickNext
    <2>2. TableOK(swept)
      BY <1>1, <1>4, FlushTable, PassedIsPid
    <2>3. next \in Pid /\ Runnable(t[next]) /\ next \notin Passed(t, c)
      BY <1>1, <1>4, PassedIsPid
    <2>4. swept[next] = t[next]
      BY <2>3 DEF FlushAll
    <2> HIDE DEF swept, next
    <2>5. swept[next].regs \in {next, KERNEL} /\ Runnable(swept[next])
      BY <2>2, <2>3, <2>4 DEF TableOK, Runnable
    <2> QED BY <2>1, <2>2, <2>3, <2>5 DEF Settled, Machine, Halts, TableOK, Context
  <1> QED BY <1>2, <1>3, <1>4

(***************************************************************************)
(* A switch from any busy machine ends settled: in a panic, or with a live *)
(* task that is not stopped and its own registers.                         *)
(***************************************************************************)
LEMMA SwitchSettles ==
  ASSUME NEW m, Busy(m)
  PROVE  Settled(sched_next_task(m))
  <1> DEFINE c == m.current
             saved == SaveRegs(m)
             flushed == [saved EXCEPT !.tasks[c] = __flush_signals(@)]
  <1>1. /\ c \in Pid /\ m.tasks \in [Pid -> Task] /\ m.cpu \in Context
        /\ m \in Machine
    BY DEF Busy, Machine
  <1>2. /\ saved \in Machine /\ saved.current = c /\ saved.cpu = m.cpu
        /\ saved.halt = "none"
        /\ saved.tasks = [m.tasks EXCEPT ![c] = [m.tasks[c] EXCEPT !.regs = m.cpu]]
    <2>1. saved = [m EXCEPT !.tasks =
                     [m.tasks EXCEPT ![c] = [m.tasks[c] EXCEPT !.regs = m.cpu]]]
      BY <1>1 DEF SaveRegs, Machine
    <2>2. [m.tasks[c] EXCEPT !.regs = m.cpu] \in Task
      BY <1>1 DEF Task
    <2> HIDE DEF saved
    <2> QED BY <1>1, <2>1, <2>2 DEF Machine, Busy
  <1>3. TableOK(saved.tasks)
    <2>1. saved.tasks \in [Pid -> Task]
      BY <1>2 DEF Machine
    <2>2. ASSUME NEW p \in Pid
          PROVE  /\ saved.tasks[p].pending = m.tasks[p].pending
                 /\ saved.tasks[p].dead = m.tasks[p].dead
                 /\ saved.tasks[p].regs = IF p = c THEN m.cpu ELSE m.tasks[p].regs
      BY <1>1, <1>2 DEF Task
    <2> QED BY <2>1, <2>2, InitIsPid DEF TableOK, Busy
  <1>4. CASE c = INIT /\ Dies(saved.tasks[c])
    <2>1. sched_next_task(m) = [saved EXCEPT !.halt = "kill init"]
      BY <1>4 DEF sched_next_task, Panic
    <2> HIDE DEF saved
    <2> QED BY <2>1, <1>2, <1>3 DEF Settled, Machine, Halts
  <1>5. CASE ~(c = INIT /\ Dies(saved.tasks[c]))
    <2>1. sched_next_task(m) = PickNext(flushed)
      BY <1>5 DEF sched_next_task
    <2> HIDE DEF saved
    <2>2. flushed.tasks = FlushAll(saved.tasks, {c})
      BY <1>1, <1>2 DEF FlushAll, Machine
    <2>3. TableOK(flushed.tasks)
      BY <1>1, <1>3, <1>5, <2>2, FlushTable
    <2>4. flushed \in Machine /\ flushed.current = c /\ flushed.cpu = m.cpu
          /\ flushed.halt = "none"
      <3>1. __flush_signals(saved.tasks[c]) \in Task
        BY <1>1, <1>3, FlushTask DEF TableOK, TaskOK
      <3> QED BY <3>1, <1>2 DEF Machine
    <2> HIDE DEF flushed
    <2>5. flushed.cpu \in {flushed.current, KERNEL}
      BY <2>4 DEF Busy
    <2> QED BY <2>1, <2>3, <2>4, <2>5, PickNextSettles
  <1> QED BY <1>4, <1>5

(* Posting a signal leaves the machine as busy as it was. *)
LEMMA PostKeepsBusy ==
  ASSUME NEW m, Busy(m), NEW p \in Pid, NEW sig \in Sig
  PROVE  /\ Busy(sched_kill_task(m, p, sig))
         /\ sched_kill_task(m, p, sig).current = m.current
         /\ sched_kill_task(m, p, sig).cpu = m.cpu
         /\ \A q \in Pid :
              /\ sched_kill_task(m, p, sig).tasks[q].dead = m.tasks[q].dead
              /\ sched_kill_task(m, p, sig).tasks[q].paused = m.tasks[q].paused
  <1>1. CASE Len(m.tasks[p].pending) >= TASK_SIG_CAP - 1
    BY <1>1 DEF sched_kill_task
  <1>2. CASE ~(Len(m.tasks[p].pending) >= TASK_SIG_CAP - 1)
    <2> DEFINE t == m.tasks[p]
               longer == Append(t.pending, sig)
               n == sched_kill_task(m, p, sig)
    <2>1. m \in Machine /\ m.tasks \in [Pid -> Task] /\ t \in Task
      BY DEF Busy, Machine
    <2>2. t.pending \in Seq(Sig) /\ Len(t.pending) \in Nat
      BY <2>1, LenProperties DEF Task
    <2>3. longer \in Seq(Sig) /\ Len(longer) = Len(t.pending) + 1
      BY <2>2, AppendProperties
    <2>4. n = [m EXCEPT !.tasks = [m.tasks EXCEPT ![p] = [t EXCEPT !.pending = longer]]]
      BY <1>2, <2>1 DEF sched_kill_task, Machine
    <2> HIDE DEF longer, n
    <2>5. [t EXCEPT !.pending = longer] \in Task
      BY <2>1, <2>3 DEF Task
    <2>6. n \in Machine /\ n.current = m.current /\ n.cpu = m.cpu /\ n.halt = m.halt
          /\ n.tasks = [m.tasks EXCEPT ![p] = [t EXCEPT !.pending = longer]]
      BY <2>1, <2>4, <2>5 DEF Machine
    <2>7. ASSUME NEW q \in Pid
          PROVE  /\ n.tasks[q].pending = IF q = p THEN longer ELSE m.tasks[q].pending
                 /\ n.tasks[q].dead = m.tasks[q].dead
                 /\ n.tasks[q].paused = m.tasks[q].paused
                 /\ n.tasks[q].regs = m.tasks[q].regs
      BY <2>1, <2>6 DEF Task
    <2>8. Len(longer) < TASK_SIG_CAP
      BY <1>2, <2>2, <2>3, TableAssumption
    <2>9. TableOK(n.tasks)
      BY <2>6, <2>7, <2>8, InitIsPid DEF TableOK, Busy, Machine
    <2> QED BY <2>6, <2>7, <2>9 DEF Busy, n
  <1> QED BY <1>1, <1>2

(* Making a task fills a dead slot: never init's, never the current one's. *)
LEMMA MakeTaskSettles ==
  ASSUME NEW m, Settled(m), m.halt = "none", NEW yield_only \in BOOLEAN
  PROVE  Settled(sched_make_task(m, yield_only))
  <1>1. CASE DeadSlots(m.tasks) = {}
    BY <1>1 DEF sched_make_task
  <1>2. CASE DeadSlots(m.tasks) # {}
    <2> DEFINE p == Min(DeadSlots(m.tasks))
               new == NewTask(p, yield_only)
               n == sched_make_task(m, yield_only)
    <2>1. DeadSlots(m.tasks) \in SUBSET Nat
      BY DEF DeadSlots, Pid
    <2>2. p \in Pid /\ m.tasks[p].dead
      BY <1>2, <2>1, NatMin DEF DeadSlots
    <2>3. new \in Task /\ new.regs = p /\ new.pending = <<>> /\ ~new.dead
      BY <2>2, IdAssumption, EmptySeq DEF NewTask, Task, Context
    <2>4. n = [m EXCEPT !.tasks = [m.tasks EXCEPT ![p] = new]]
      BY <1>2 DEF sched_make_task
    <2> HIDE DEF p, new, n
    <2>5. n \in Machine /\ n.current = m.current /\ n.cpu = m.cpu /\ n.halt = m.halt
          /\ n.tasks = [m.tasks EXCEPT ![p] = new]
      BY <2>2, <2>3, <2>4 DEF Settled, Machine
    <2>6. TableOK(n.tasks)
      BY <2>2, <2>3, <2>5, EmptySeq, TableAssumption, InitIsPid
         DEF TableOK, Settled, Machine
    <2>7. n.tasks[n.current] = m.tasks[m.current] /\ Runnable(m.tasks[m.current])
      BY <2>2, <2>5 DEF Settled, Runnable, Machine
    <2> QED BY <2>5, <2>6, <2>7 DEF Settled, n
  <1> QED BY <1>1, <1>2
-----------------------------------------------------------------------------
(***************************************************************************)
(* The inductive invariant.  The safety invariants speak of the table as a *)
(* whole (TableOK); what they leave out is that init is not stopped before *)
(* tasking begins, when nobody can signal it, so that the first system     *)
(* call 0 finds it runnable.                                               *)
(***************************************************************************)
SchedInv ==
  /\ TypeOK /\ InitImmortal /\ CurrentRunnable /\ OwnContext
  /\ ~is_tasking_avaliable => ~tasks[INIT].paused

LEMMA InvOfNow ==
  ASSUME SchedInv
  PROVE  /\ Now \in Machine /\ TableOK(tasks)
         /\ Running => Busy(Now) /\ Settled(Now)
         /\ is_tasking_avaliable /\ halt = "none" => Busy(Now)
  <1>1. Now \in Machine /\ Now.tasks = tasks /\ Now.current = current_task
        /\ Now.cpu = cpu /\ Now.halt = halt
    BY DEF Now, Machine, SchedInv, TypeOK
  <1>2. TableOK(tasks)
    BY DEF TableOK, SchedInv, TypeOK, InitImmortal, OwnContext
  <1>3. is_tasking_avaliable /\ halt = "none" => Busy(Now)
    BY <1>1, <1>2 DEF Busy, SchedInv, OwnContext
  <1>4. Running => Settled(Now)
    BY <1>1, <1>2 DEF Running, Settled, SchedInv, OwnContext, CurrentRunnable
  <1> QED BY <1>1, <1>2, <1>3, <1>4 DEF Running

(* A handler that ends on a settled machine keeps the invariant. *)
LEMMA SettledKeepsInv ==
  ASSUME SchedInv, NEW m, Settled(m), is_tasking_avaliable, Become(m)
  PROVE  SchedInv'
  <1>1. /\ tasks' = m.tasks /\ current_task' = m.current /\ cpu' = m.cpu /\ halt' = m.halt
        /\ is_tasking_avaliable' = is_tasking_avaliable
    BY DEF Become
  <1> QED BY <1>1 DEF SchedInv, TypeOK, InitImmortal, CurrentRunnable, OwnContext,
                      Settled, TableOK, Machine

LEMMA PanicSettles ==
  ASSUME NEW m, m \in Machine, TableOK(m.tasks), NEW why \in Halts \ {"none"}
  PROVE  Settled(Panic(m, why))
  BY DEF Panic, Settled, Machine

LEMMA InitInv == Init => SchedInv
  <1> SUFFICES ASSUME Init PROVE SchedInv
    OBVIOUS
  <1>1. ASSUME NEW p \in Pid
        PROVE  /\ tasks[p] \in Task /\ Len(tasks[p].pending) < TASK_SIG_CAP
               /\ tasks[p].dead \/ tasks[p].regs = p
               /\ ~tasks[p].paused
    <2>1. CASE p < Len(BootYieldOnly)
      <3>1. BootYieldOnly[p + 1] \in BOOLEAN
        BY <2>1, TableAssumption, ElementOfSeq DEF Pid
      <3> QED BY <2>1, <3>1, IdAssumption, TableAssumption, EmptySeq
              DEF Init, NewTask, Task, Context
    <2>2. CASE ~(p < Len(BootYieldOnly))
      <3>1. tasks[p] = [NewTask(KERNEL, FALSE) EXCEPT !.dead = TRUE]
        BY <2>2 DEF Init, NoTask
      <3>2. tasks[p] = [regs |-> KERNEL, dead |-> TRUE, paused |-> FALSE,
                        yield_only |-> FALSE, uid |-> 0, gid |-> 0, pending |-> <<>>]
        BY <3>1 DEF NewTask
      <3> QED BY <3>2, IdAssumption, TableAssumption, EmptySeq DEF Task, Context
    <2> QED BY <2>1, <2>2
  <1>2. ~tasks[INIT].dead /\ ~tasks[INIT].paused
    BY InitIsPid, TableAssumption DEF Init, NewTask, INIT
  <1>3. tasks \in [Pid -> Task]
    BY <1>1 DEF Init
  <1> QED BY <1>1, <1>2, <1>3, InitIsPid
          DEF Init, SchedInv, TypeOK, InitImmortal, CurrentRunnable, OwnContext,
              Context, Halts

LEMMA NextInv == SchedInv /\ [Next]_vars => SchedInv'
  <1> SUFFICES ASSUME SchedInv, [Next]_vars PROVE SchedInv'
    OBVIOUS
  <1> USE InvOfNow
  <1>1. CASE Setup
    <2>1. tasks[INIT].regs \in {INIT, KERNEL} /\ Runnable(tasks[INIT])
      BY <1>1, InitIsPid DEF Setup, SchedInv, InitImmortal, OwnContext, Runnable
    <2> QED BY <1>1, <2>1, InitIsPid
            DEF Setup, SchedInv, TypeOK, InitImmortal, CurrentRunnable, OwnContext, Context
  <1>2. CASE BootTrap
    BY <1>2 DEF BootTrap, Become, Panic, Now, SchedInv, TypeOK, InitImmortal,
                CurrentRunnable, OwnContext, Halts
  <1>3. CASE Timer
    BY <1>3, SwitchSettles, SettledKeepsInv DEF Timer, Running
  <1>4. CASE SysYield
    BY <1>4, SwitchSettles, SettledKeepsInv DEF SysYield, Running
  <1>5. CASE SysExit
    <2>1. CASE current_task = INIT
      <3>1. Settled(Panic(Now, "kill init"))
        BY <1>5, PanicSettles DEF SysExit, Busy, Halts
      <3> QED BY <1>5, <2>1, <3>1, SettledKeepsInv DEF SysExit, Running
    <2>2. CASE current_task # INIT
      <3> DEFINE n == [Now EXCEPT !.tasks[current_task].dead = TRUE]
      <3>1. Busy(Now) /\ current_task \in Pid
        BY <1>5 DEF SysExit, SchedInv, TypeOK
      <3>2. n = [Now EXCEPT !.tasks =
                   [tasks EXCEPT ![current_task] = [tasks[current_task] EXCEPT !.dead = TRUE]]]
        BY <3>1 DEF Now, SchedInv, TypeOK
      <3>3. [tasks[current_task] EXCEPT !.dead = TRUE] \in Task
        BY <3>1 DEF SchedInv, TypeOK, Task
      <3> HIDE DEF n
      <3>4. /\ n \in Machine /\ n.current = current_task /\ n.cpu = cpu /\ n.halt = halt
            /\ n.tasks = [tasks EXCEPT ![current_task] =
                            [tasks[current_task] EXCEPT !.dead = TRUE]]
        BY <3>1, <3>2, <3>3 DEF Busy, Machine, Now
      <3>5. ASSUME NEW q \in Pid
            PROVE  /\ n.tasks[q].pending = tasks[q].pending
                   /\ n.tasks[q].dead = IF q = current_task THEN TRUE ELSE tasks[q].dead
                   /\ n.tasks[q].regs = tasks[q].regs
        BY <3>1, <3>4 DEF SchedInv, TypeOK, Task
      <3>6. TableOK(n.tasks)
        BY <2>2, <3>4, <3>5, InitIsPid DEF TableOK, Machine
      <3>7. Busy(n)
        BY <3>1, <3>4, <3>6 DEF Busy, Now
      <3>8. Become(sched_next_task(n))
        BY <1>5, <2>2 DEF SysExit, n
      <3> QED BY <1>5, <3>7, <3>8, SwitchSettles, SettledKeepsInv DEF SysExit, Running
    <2> QED BY <2>1, <2>2
  <1>6. CASE SysSetupAgain
    <2>1. SIGSYS \in Sig /\ current_task \in Pid
      BY DEF SchedInv, TypeOK, Sig, SIG_COUNT, SIGSYS
    <2>2. Settled(sched_next_task(sched_kill_task(Now, current_task, SIGSYS)))
      BY <1>6, <2>1, PostKeepsBusy, SwitchSettles DEF SysSetupAgain
    <2> QED BY <1>6, <2>2, SettledKeepsInv DEF SysSetupAgain, Running
  <1>7. ASSUME NEW id \in Uids, SysSetuid(id) PROVE SchedInv'
    <2>1. /\ tasks' = [tasks EXCEPT ![current_task] = [tasks[current_task] EXCEPT !.uid = id]]
          /\ UNCHANGED <<current_task, cpu, is_tasking_avaliable, halt>>
      BY <1>7 DEF SysSetuid, Become, Now, SchedInv, TypeOK
    <2>2. [tasks[current_task] EXCEPT !.uid = id] \in Task
      BY DEF SchedInv, TypeOK, Task
    <2>3. tasks' \in [Pid -> Task]
      BY <2>1, <2>2 DEF SchedInv, TypeOK
    <2>4. ASSUME NEW q \in Pid
          PROVE  /\ tasks'[q].pending = tasks[q].pending /\ tasks'[q].dead = tasks[q].dead
                 /\ tasks'[q].regs = tasks[q].regs /\ tasks'[q].paused = tasks[q].paused
      BY <2>1 DEF SchedInv, TypeOK, Task
    <2> QED BY <2>1, <2>3, <2>4, InitIsPid
            DEF SchedInv, TypeOK, InitImmortal, CurrentRunnable, OwnContext, Runnable
  <1>8. ASSUME NEW id \in Gids, SysSetgid(id) PROVE SchedInv'
    <2>1. /\ tasks' = [tasks EXCEPT ![current_task] = [tasks[current_task] EXCEPT !.gid = id]]
          /\ UNCHANGED <<current_task, cpu, is_tasking_avaliable, halt>>
      BY <1>8 DEF SysSetgid, Become, Now, SchedInv, TypeOK
    <2>2. [tasks[current_task] EXCEPT !.gid = id] \in Task
      BY DEF SchedInv, TypeOK, Task
    <2>3. tasks' \in [Pid -> Task]
      BY <2>1, <2>2 DEF SchedInv, TypeOK
    <2>4. ASSUME NEW q \in Pid
          PROVE  /\ tasks'[q].pending = tasks[q].pending /\ tasks'[q].dead = tasks[q].dead
                 /\ tasks'[q].regs = tasks[q].regs /\ tasks'[q].paused = tasks[q].paused
      BY <2>1 DEF SchedInv, TypeOK, Task
    <2> QED BY <2>1, <2>3, <2>4, InitIsPid
            DEF SchedInv, TypeOK, InitImmortal, CurrentRunnable, OwnContext, Runnable
  <1>9. ASSUME NEW p \in Pid, NEW sig \in KillSigs, SysKill(p, sig) PROVE SchedInv'
    <2> DEFINE n == sched_kill_task(Now, p, sig)
    <2>1. Busy(Now) /\ Settled(Now) /\ sig \in Sig /\ current_task \in Pid
      BY <1>9, SigAssumption DEF SysKill, SchedInv, TypeOK
    <2>2. Busy(n) /\ n.current = current_task
          /\ n.tasks[current_task].dead = tasks[current_task].dead
          /\ n.tasks[current_task].paused = tasks[current_task].paused
      BY <2>1, PostKeepsBusy DEF Now
    <2> HIDE DEF n
    <2>3. Settled(n)
      BY <2>1, <2>2 DEF Busy, Settled, Runnable, Now
    <2> QED BY <1>9, <2>3, SettledKeepsInv DEF SysKill, Running, n
  <1>10. CASE SysUnknown
    BY <1>10, PanicSettles, SettledKeepsInv DEF SysUnknown, Running, Busy, Halts
  <1>11. ASSUME NEW sig \in TrapSigs, ErrorTrap(sig) PROVE SchedInv'
    BY <1>11, SigAssumption, PostKeepsBusy, SwitchSettles, SettledKeepsInv
       DEF ErrorTrap, Running, SchedInv, TypeOK
  <1>12. CASE DivideError
    <2> DEFINE m == sched_next_task(sched_kill_task(Now, current_task, SIGFPE))
    <2>1. Settled(m)
      <3>1. Busy(Now) /\ SIGFPE \in Sig /\ current_task \in Pid
        BY <1>12 DEF DivideError, SchedInv, TypeOK, Sig, SIG_COUNT, SIGFPE
      <3>2. Busy(sched_kill_task(Now, current_task, SIGFPE))
        BY <3>1, PostKeepsBusy
      <3> QED BY <3>2, SwitchSettles
    <2>2. /\ is_tasking_avaliable
          /\ \/ Become(IF m.halt = "none" THEN [m EXCEPT !.cpu = KERNEL] ELSE m)
             \/ Become(IF m.halt = "none" THEN Panic(m, "NMI") ELSE m)
      BY <1>12 DEF DivideError, Running
    <2> HIDE DEF m
    <2>3. Settled([m EXCEPT !.cpu = KERNEL])
      BY <2>1 DEF Settled, Machine, Context
    <2>4. Settled(Panic(m, "NMI"))
      BY <2>1, PanicSettles DEF Settled, Halts
    <2> QED BY <2>1, <2>2, <2>3, <2>4, SettledKeepsInv
  <1>13. CASE KernelUd2
    <2>1. SIGILL \in Sig /\ current_task \in Pid
      BY DEF SchedInv, TypeOK, Sig, SIG_COUNT, SIGILL
    <2>2. Settled(sched_next_task(sched_kill_task(Now, current_task, SIGILL)))
      BY <1>13, <2>1, PostKeepsBusy, SwitchSettles DEF KernelUd2
    <2> QED BY <1>13, <2>2, SettledKeepsInv DEF KernelUd2
  <1>14. CASE FatalTrap
    BY <1>14, PanicSettles, SettledKeepsInv DEF FatalTrap, Busy, Halts
  <1>15. CASE Spawn
    BY <1>15, MakeTaskSettles, SettledKeepsInv DEF Spawn, Running, Now
  <1>16. CASE UNCHANGED vars
    BY <1>16 DEF vars, SchedInv, TypeOK, InitImmortal, CurrentRunnable, OwnContext
  <1> QED BY <1>1, <1>2, <1>3, <1>4, <1>5, <1>6, <1>7, <1>8, <1>9, <1>10, <1>11,
             <1>12, <1>13, <1>14, <1>15, <1>16 DEF Next

THEOREM SchedInvHolds == Spec => []SchedInv
  BY InitInv, NextInv, PTL DEF Spec

(* Every value of the process table stays in its range, no ring overfills. *)
THEOREM SchedTypeOK == Spec => []TypeOK
  BY SchedInvHolds, PTL DEF SchedInv

(* No exit, signal or trap frees slot 0: the machine panics instead. *)
THEOREM InitIsImmortal == Spec => []InitImmortal
  BY SchedInvHolds, PTL DEF SchedInv

(***************************************************************************)
(* Whoever is current when a handler returns can run: alive, not stopped.  *)
(***************************************************************************)
THEOREM CurrentIsRunnable == Spec => []CurrentRunnable
  BY SchedInvHolds, PTL DEF SchedInv

(* No switch gives a task the registers of another task. *)
THEOREM ContextsAreOwn == Spec => []OwnContext
  BY SchedInvHolds, PTL DEF SchedInv
-----------------------------------------------------------------------------
(***************************************************************************)
(* The loop of __flush_signals.  Flushed says in closed form where it      *)
(* stands after k turns; a turn takes the closed form one further.         *)
(***************************************************************************)

(* A task of which delivery has changed the three fields it may. *)
With(t, d, p, s) ==
  [regs |-> t.regs, dead |-> d, paused |-> p, yield_only |-> t.yield_only,
   uid |-> t.uid, gid |-> t.gid, pending |-> s]

(* Two tasks that agree in every field are one. *)
LEMMA TaskEqual ==
  ASSUME NEW u \in Task, NEW v \in Task,
         u.regs = v.regs, u.dead = v.dead, u.paused = v.paused, u.yield_only = v.yield_only,
         u.uid = v.uid, u.gid = v.gid, u.pending = v.pending
  PROVE  u = v
  BY DEF Task

(* Each write of a field, as a task with that field changed. *)
LEMMA WithPending ==
  ASSUME NEW t \in Task, NEW s \in Seq(Sig)
  PROVE  [t EXCEPT !.pending = s] = With(t, t.dead, t.paused, s)
  BY DEF With, Task

(* The same, as __flush_signals writes it. *)
SetTask(t, d, p, s) == [t EXCEPT !.dead = d, !.paused = p, !.pending = s]

LEMMA SetTaskIs ==
  ASSUME NEW t \in Task, NEW d \in BOOLEAN, NEW p \in BOOLEAN, NEW s \in Seq(Sig)
  PROVE  SetTask(t, d, p, s) = With(t, d, p, s)
  <1> DEFINE w == SetTask(t, d, p, s)
             v == With(t, d, p, s)
  <1>1. /\ w \in Task /\ w.regs = t.regs /\ w.yield_only = t.yield_only
        /\ w.uid = t.uid /\ w.gid = t.gid
    BY DEF SetTask, Task
  <1>2. w.dead = d /\ w.paused = p /\ w.pending = s
    BY DEF SetTask, Task
  <1>3. /\ v.regs = t.regs /\ v.yield_only = t.yield_only /\ v.uid = t.uid /\ v.gid = t.gid
        /\ v.dead = d /\ v.paused = p /\ v.pending = s
    BY DEF With
  <1>4. v \in Task
    BY DEF With, Task
  <1> HIDE DEF w, v
  <1>5. w = v
    BY <1>1, <1>2, <1>3, <1>4, TaskEqual
  <1> QED BY <1>5 DEF w, v

LEMMA WithChanges ==
  ASSUME NEW t \in Task, NEW d \in BOOLEAN, NEW p \in BOOLEAN, NEW s \in Seq(Sig)
  PROVE  /\ With(t, d, p, s) \in Task
         /\ With(t, t.dead, t.paused, t.pending) = t
         /\ [t EXCEPT !.dead = d] = With(t, d, t.paused, t.pending)
         /\ [t EXCEPT !.paused = p] = With(t, t.dead, p, t.pending)
         /\ [t EXCEPT !.pending = s] = With(t, t.dead, t.paused, s)
  <1>1. With(t, d, p, s) \in Task
    BY DEF With, Task
  <1>2. With(t, t.dead, t.paused, t.pending) = t
    BY DEF With, Task
  <1>3. [t EXCEPT !.dead = d] = With(t, d, t.paused, t.pending)
    BY DEF With, Task
  <1>4. [t EXCEPT !.paused = p] = With(t, t.dead, p, t.pending)
    BY DEF With, Task
  <1>5. [t EXCEPT !.pending = s] = With(t, t.dead, t.paused, s)
    BY WithPending
  <1> QED BY <1>1, <1>2, <1>3, <1>4, <1>5

(* One delivery. *)
LEMMA DeliverIs ==
  ASSUME NEW t \in Task, NEW d \in BOOLEAN, NEW p \in BOOLEAN, NEW s \in Seq(Sig),
         s # <<>>
  PROVE  Deliver(With(t, d, p, s)) =
           IF Head(s) = SIGSTOP THEN With(t, d, TRUE, Tail(s))
           ELSE IF Head(s) = SIGCONT THEN With(t, d, FALSE, Tail(s))
           ELSE With(t, TRUE, p, Tail(s))
  <1> DEFINE v == With(t, d, p, s)
             rest == Tail(s)
             u == With(t, d, p, rest)
  <1> HIDE DEF rest
  <1>1. rest \in Seq(Sig)
    BY DEF rest
  <1>2. v.pending = s /\ v.dead = d /\ v.paused = p
        /\ u.pending = rest /\ u.dead = d /\ u.paused = p
    BY DEF With
  <1>3. v \in Task /\ u \in Task
    BY <1>1, WithChanges
  <1>4. ASSUME NEW e \in BOOLEAN, NEW q \in BOOLEAN, NEW z \in Seq(Sig)
        PROVE  With(v, e, q, z) = With(t, e, q, z) /\ With(u, e, q, z) = With(t, e, q, z)
    BY DEF With
  <1> HIDE DEF u, v
  <1>5. [v EXCEPT !.pending = Tail(v.pending)] = u
    <2>1. [v EXCEPT !.pending = rest] = With(v, v.dead, v.paused, rest)
      BY <1>1, <1>3, WithPending, Zenon
    <2>2. With(v, d, p, rest) = u
      BY <1>1, <1>4 DEF u
    <2> QED BY <2>1, <2>2, <1>2 DEF rest
  <1>6. /\ [u EXCEPT !.paused = TRUE] = With(t, d, TRUE, rest)
        /\ [u EXCEPT !.paused = FALSE] = With(t, d, FALSE, rest)
        /\ [u EXCEPT !.dead = TRUE] = With(t, TRUE, p, rest)
    <2>1. [u EXCEPT !.paused = TRUE] = With(u, d, TRUE, rest)
      BY <1>1, <1>2, <1>3, WithChanges
    <2>2. [u EXCEPT !.paused = FALSE] = With(u, d, FALSE, rest)
      BY <1>1, <1>2, <1>3, WithChanges
    <2>3. [u EXCEPT !.dead = TRUE] = With(u, TRUE, p, rest)
      BY <1>1, <1>2, <1>3, WithChanges
    <2> QED BY <1>1, <1>4, <2>1, <2>2, <2>3
  <1>7. Deliver(v) = IF Head(s) = SIGSTOP THEN [u EXCEPT !.paused = TRUE]
                     ELSE IF Head(s) = SIGCONT THEN [u EXCEPT !.paused = FALSE]
                     ELSE [u EXCEPT !.dead = TRUE]
    BY <1>2, <1>5 DEF Deliver
  <1> QED BY <1>6, <1>7 DEF v, rest

(* How many signals are obeyed before a lethal one, or before the ring is empty. *)
Mild(t) == IF Dies(t) THEN Min(LethalAt(t)) - 1 ELSE Len(t.pending)

(* What is obeyed only stops and continues; what ends it kills. *)
LEMMA MildIs ==
  ASSUME NEW t \in Task, ~t.dead
  PROVE  /\ t.pending \in Seq(Sig) /\ Len(t.pending) \in Nat
         /\ Mild(t) \in 0 .. Len(t.pending)
         /\ \A i \in 1 .. Mild(t) : t.pending[i] \in {SIGSTOP, SIGCONT}
         /\ Dies(t) => Mild(t) < Len(t.pending)
         /\ Dies(t) => t.pending[Mild(t) + 1] \notin {SIGSTOP, SIGCONT}
         /\ ~Dies(t) => Mild(t) = Len(t.pending)
  <1>1. t.pending \in Seq(Sig) /\ Len(t.pending) \in Nat
        /\ DOMAIN t.pending = 1 .. Len(t.pending)
    BY LenProperties DEF Task
  <1>2. /\ LethalAt(t) \in SUBSET Nat
        /\ \A i : i \in LethalAt(t) <=> i \in 1 .. Len(t.pending) /\ t.pending[i] \in Lethal
    BY <1>1 DEF LethalAt
  <1>3. \A i \in 1 .. Len(t.pending) : t.pending[i] \in Sig
    BY <1>1, ElementOfSeq
  <1>4. Dies(t) <=> LethalAt(t) # {}
    BY DEF Dies
  <1>5. CASE Dies(t)
    <2> DEFINE low == Min(LethalAt(t))
    <2>1. low \in LethalAt(t) /\ \A y \in LethalAt(t) : low <= y
      BY <1>2, <1>4, <1>5, NatMin
    <2>2. Mild(t) = low - 1
      BY <1>5 DEF Mild
    <2> HIDE DEF low
    <2>3. low \in 1 .. Len(t.pending) /\ t.pending[low] \in Lethal /\ Mild(t) + 1 = low
      BY <1>1, <1>2, <2>1, <2>2
    <2>4. ASSUME NEW i \in 1 .. Mild(t) PROVE t.pending[i] \in {SIGSTOP, SIGCONT}
      <3>1. i \in 1 .. Len(t.pending) /\ i < low
        BY <1>1, <2>2, <2>3
      <3>2. i \notin LethalAt(t)
        BY <1>2, <2>1, <2>3, <3>1
      <3> QED BY <1>2, <1>3, <3>1, <3>2 DEF Lethal
    <2>5. t.pending[low] \notin {SIGSTOP, SIGCONT}
      BY <2>3 DEF Lethal
    <2> QED BY <1>1, <1>5, <2>2, <2>3, <2>4, <2>5
  <1>6. CASE ~Dies(t)
    <2>1. Mild(t) = Len(t.pending)
      BY <1>6 DEF Mild
    <2>2. ASSUME NEW i \in 1 .. Mild(t) PROVE t.pending[i] \in {SIGSTOP, SIGCONT}
      BY <1>2, <1>3, <1>4, <1>6, <2>1, <2>2 DEF Lethal
    <2> QED BY <1>1, <1>6, <2>1, <2>2
  <1> QED BY <1>5, <1>6

(* A suffix of the ring, its head and its tail. *)
LEMMA SuffixIs ==
  ASSUME NEW S, NEW s \in Seq(S), NEW k \in 0 .. Len(s)
  PROVE  /\ SubSeq(s, k + 1, Len(s)) \in Seq(S)
         /\ Len(SubSeq(s, k + 1, Len(s))) = Len(s) - k
         /\ SubSeq(s, k + 1, Len(s)) = <<>> <=> k = Len(s)
         /\ k < Len(s) => /\ Head(SubSeq(s, k + 1, Len(s))) = s[k + 1]
                          /\ Tail(SubSeq(s, k + 1, Len(s))) = SubSeq(s, k + 2, Len(s))
         /\ k = 0 => SubSeq(s, k + 1, Len(s)) = s
         /\ k = Len(s) => SubSeq(s, k + 2, Len(s)) = <<>>
  <1> DEFINE n == Len(s)
             u == SubSeq(s, k + 1, n)
             v == SubSeq(s, k + 2, n)
  <1>1. n \in Nat /\ \A i \in 1 .. n : s[i] \in S
    BY ElementOfSeq
  <1>2. /\ u \in Seq(S) /\ Len(u) = n - k
        /\ \A i \in 1 .. n - k : u[i] = s[k + i]
    BY <1>1, SubSeqProperties
  <1>3. /\ v \in Seq(S) /\ Len(v) = IF k < n THEN n - k - 1 ELSE 0
        /\ k < n => \A i \in 1 .. n - k - 1 : v[i] = s[k + 1 + i]
    BY <1>1, SubSeqProperties
  <1> HIDE DEF u, v
  <1>4. u = <<>> <=> k = n
    BY <1>1, <1>2, EmptySeq
  <1>5. k = n => v = <<>>
    BY <1>1, <1>3, EmptySeq
  <1>6. ASSUME k < n PROVE Head(u) = s[k + 1] /\ Tail(u) = v
    <2>1. u # <<>> /\ Head(u) = u[1]
      BY <1>2, <1>4, <1>6
    <2>2. Tail(u) \in Seq(S) /\ Len(Tail(u)) = Len(u) - 1
          /\ \A i \in 1 .. Len(u) - 1 : Tail(u)[i] = u[i + 1]
      BY <1>2, <2>1, HeadTailProperties
    <2>3. \A i \in 1 .. n - k - 1 : u[i + 1] = s[k + 1 + i]
      BY <1>1, <1>2
    <2> DEFINE w == Tail(u)
    <2> HIDE DEF w
    <2>4. w \in Seq(S) /\ Len(w) = Len(v) /\ Len(v) = n - k - 1
      BY <1>1, <1>2, <1>3, <1>6, <2>2 DEF w
    <2>5. \A i \in 1 .. Len(w) : w[i] = v[i]
      BY <1>1, <1>2, <1>3, <1>6, <2>2, <2>3, <2>4 DEF w
    <2>6. w = v
      BY <1>3, <2>4, <2>5, SeqEqual
    <2> QED BY <1>1, <1>2, <1>6, <2>1, <2>6 DEF w
  <1>7. k = 0 => u = s
    BY <1>1, <1>2, SeqEqual
  <1> QED BY <1>2, <1>4, <1>5, <1>6, <1>7 DEF u, v

(* The task after k turns of the loop of __flush_signals. *)
Flushed(t, k) ==
  IF t.dead THEN t
  ELSE IF k <= Mild(t)
  THEN With(t, FALSE, IF k = 0 THEN t.paused ELSE t.pending[k] = SIGSTOP,
            SubSeq(t.pending, k + 1, Len(t.pending)))
  ELSE __flush_signals(t)

(* The closed form of delivery, as a task with three fields changed. *)
LEMMA FlushIsWith ==
  ASSUME NEW t \in Task, ~t.dead
  PROVE  __flush_signals(t) =
           With(t, Dies(t), IF Mild(t) = 0 THEN t.paused ELSE t.pending[Mild(t)] = SIGSTOP,
                SubSeq(t.pending, Mild(t) + 2, Len(t.pending)))
  <1> DEFINE k == Mild(t)
             n == Len(t.pending)
             stop == IF k = 0 THEN t.paused ELSE t.pending[k] = SIGSTOP
             rest == SubSeq(t.pending, k + 2, n)
  <1>1. n \in Nat /\ k \in 0 .. n /\ \A i \in 1 .. n : t.pending[i] \in Sig
    BY MildIs, ElementOfSeq
  <1>2. rest \in Seq(Sig)
    <2>1. \A i \in k + 2 .. n : t.pending[i] \in Sig
      BY <1>1
    <2> QED BY <1>1, <2>1, SubSeqProperties
  <1>3. stop \in BOOLEAN /\ Dies(t) \in BOOLEAN
    BY DEF Task, Dies
  <1>4. __flush_signals(t) = SetTask(t, Dies(t), stop, rest)
    BY DEF __flush_signals, Mild, SetTask
  <1> HIDE DEF stop, rest
  <1>5. SetTask(t, Dies(t), stop, rest) = With(t, Dies(t), stop, rest)
    BY <1>2, <1>3, SetTaskIs
  <1> QED BY <1>4, <1>5 DEF stop, rest

(* A turn takes the closed form one further, dead or alive. *)
LEMMA FlushedTurn ==
  ASSUME NEW t \in Task, NEW k \in 0 .. Len(t.pending) - 1
  PROVE  Flushed(t, k + 1) = FlushTurn(Flushed(t, k))
  <1>1. CASE t.dead
    BY <1>1 DEF Flushed, FlushTurn
  <1>2. CASE ~t.dead
    <2> DEFINE s == t.pending
               n == Len(s)
               mild == Mild(t)
               stop == IF k = 0 THEN t.paused ELSE s[k] = SIGSTOP
               rest == SubSeq(s, k + 1, n)
               u == With(t, FALSE, stop, rest)
    <2>1. s \in Seq(Sig) /\ n \in Nat /\ mild \in 0 .. n /\ k \in 0 .. n /\ k < n
      BY <1>2, MildIs
    <2>2. /\ rest \in Seq(Sig) /\ rest # <<>> /\ Head(rest) = s[k + 1]
          /\ Tail(rest) = SubSeq(s, k + 2, n)
      <3>1. /\ rest \in Seq(Sig) /\ (rest = <<>> <=> k = n)
            /\ k < n => Head(rest) = s[k + 1] /\ Tail(rest) = SubSeq(s, k + 2, n)
        <4> HIDE DEF s
        <4> QED BY <2>1, SuffixIs
      <3> HIDE DEF rest, n
      <3> QED BY <2>1, <3>1
    <2>3. stop \in BOOLEAN
      BY DEF Task
    <2> HIDE DEF mild, n, stop, rest
    <2>4. /\ u.dead = FALSE /\ u.pending = rest
          /\ Deliver(u) = IF Head(rest) = SIGSTOP THEN With(t, FALSE, TRUE, Tail(rest))
                          ELSE IF Head(rest) = SIGCONT THEN With(t, FALSE, FALSE, Tail(rest))
                          ELSE With(t, TRUE, stop, Tail(rest))
      <3>1. u.dead = FALSE /\ u.pending = rest
        BY DEF With
      <3> QED BY <2>2, <2>3, <3>1, DeliverIs
    <2>5. k <= mild => Flushed(t, k) = u /\ FlushTurn(u) = Deliver(u)
      BY <1>2, <2>2, <2>4 DEF Flushed, FlushTurn, mild, n, stop, rest
    <2>6. CASE k < mild
      <3>1. s[k + 1] \in {SIGSTOP, SIGCONT} /\ SIGSTOP # SIGCONT
        BY <1>2, <2>1, <2>6, MildIs DEF mild, SIGSTOP, SIGCONT
      <3>2. Deliver(u) = With(t, FALSE, s[k + 1] = SIGSTOP, SubSeq(s, k + 2, n))
        <4>1. CASE s[k + 1] = SIGSTOP
          <5>1. (s[k + 1] = SIGSTOP) = TRUE
            BY <4>1
          <5> QED BY <2>2, <2>4, <4>1, <5>1
        <4>2. CASE s[k + 1] # SIGSTOP
          <5>1. (s[k + 1] = SIGSTOP) = FALSE
            BY <4>2
          <5> QED BY <2>2, <2>4, <3>1, <4>2, <5>1
        <4> QED BY <4>1, <4>2
      <3>3. Flushed(t, k + 1) = With(t, FALSE, s[k + 1] = SIGSTOP, SubSeq(s, k + 2, n))
        <4>1. k + 1 <= mild /\ k + 1 # 0 /\ (k + 1) + 1 = k + 2
          BY <2>1, <2>6
        <4> QED BY <1>2, <4>1 DEF Flushed, mild, n
      <3>4. k <= mild
        BY <2>1, <2>6
      <3> QED BY <2>5, <3>2, <3>3, <3>4, Zenon
    <2>7. CASE k = mild
      <3>1. Dies(t) /\ s[k + 1] \notin {SIGSTOP, SIGCONT}
        BY <1>2, <2>1, <2>7, MildIs DEF mild, n
      <3>2. __flush_signals(t) = With(t, TRUE, stop, SubSeq(s, k + 2, n))
        <4>1. Dies(t) = TRUE
          BY <3>1 DEF Dies
        <4> QED BY <1>2, <2>7, <4>1, FlushIsWith DEF mild, n, stop
      <3>3. Flushed(t, k + 1) = __flush_signals(t)
        <4>1. ~(k + 1 <= mild)
          BY <2>1, <2>7
        <4> QED BY <1>2, <4>1 DEF Flushed, mild
      <3>4. Deliver(u) = With(t, TRUE, stop, Tail(rest))
        BY <2>2, <2>4, <3>1
      <3>5. k <= mild
        BY <2>1, <2>7
      <3> QED BY <2>2, <2>5, <3>2, <3>3, <3>4, <3>5, Zenon
    <2>8. CASE k > mild
      <3>1. Dies(t)
        BY <1>2, <2>1, <2>8, MildIs DEF mild, n
      <3>2. __flush_signals(t).dead = TRUE
        <4>1. Dies(t) = TRUE
          BY <3>1 DEF Dies
        <4> QED BY <1>2, <4>1, FlushIsWith DEF With
      <3>3. Flushed(t, k) = __flush_signals(t) /\ Flushed(t, k + 1) = __flush_signals(t)
        <4>1. ~(k <= mild) /\ ~(k + 1 <= mild)
          BY <2>1, <2>8
        <4> QED BY <1>2, <4>1 DEF Flushed, mild
      <3> QED BY <3>2, <3>3 DEF FlushTurn
    <2> QED BY <2>1, <2>6, <2>7, <2>8
  <1> QED BY <1>1, <1>2

(* Were the loop and the closed form apart, they would be at a least turn. *)
LEMMA FlushLoopIs ==
  ASSUME NEW t \in Task
  PROVE  FlushLoop(t) = __flush_signals(t)
  <1> DEFINE n == Len(t.pending)
             Loop(g) == [k \in 0 .. n |-> IF k = 0 THEN t ELSE FlushTurn(g[k - 1])]
             f == CHOOSE g : g = Loop(g)
             C(k) == Flushed(t, k)
             closed == [k \in 0 .. n |-> C(k)]
  <1>1. n \in Nat
    BY LenProperties DEF Task
  <1>2. C(0) = t
    <2>1. CASE t.dead
      BY <2>1 DEF Flushed
    <2>2. CASE ~t.dead
      <3>1. 0 <= Mild(t) /\ 0 \in 0 .. n /\ t.pending \in Seq(Sig)
        BY <1>1, <2>2, MildIs
      <3>2. SubSeq(t.pending, 0 + 1, n) = t.pending
        BY <3>1, SuffixIs
      <3>3. t.dead = FALSE /\ t.paused \in BOOLEAN
        BY <2>2 DEF Task
      <3>4. C(0) = With(t, t.dead, t.paused, t.pending)
        BY <2>2, <3>1, <3>2, <3>3 DEF Flushed
      <3> QED BY <3>1, <3>3, <3>4, WithChanges
    <2> QED BY <2>1, <2>2
  <1>3. C(n) = __flush_signals(t)
    <2>1. CASE t.dead
      BY <2>1 DEF Flushed, __flush_signals
    <2>2. CASE ~t.dead /\ n <= Mild(t)
      <3>1. n = Mild(t) /\ ~Dies(t) /\ t.pending \in Seq(Sig) /\ n \in 0 .. n
        BY <1>1, <2>2, MildIs
      <3>2. Dies(t) = FALSE
        BY <3>1 DEF Dies
      <3>3. SubSeq(t.pending, n + 1, n) = <<>> /\ SubSeq(t.pending, n + 2, n) = <<>>
        BY <3>1, SuffixIs
      <3> QED BY <2>2, <3>1, <3>2, <3>3, FlushIsWith DEF Flushed
    <2>3. CASE ~t.dead /\ ~(n <= Mild(t))
      BY <2>3 DEF Flushed
    <2> QED BY <2>1, <2>2, <2>3
  <1>4. ASSUME NEW k \in 0 .. n, k # 0 PROVE C(k) = FlushTurn(C(k - 1))
    <2> DEFINE j == k - 1
    <2>1. j \in 0 .. n - 1 /\ j + 1 = k
      BY <1>1, <1>4
    <2> HIDE DEF j
    <2>2. C(j + 1) = FlushTurn(C(j))
      BY <2>1, FlushedTurn
    <2> QED BY <2>1, <2>2 DEF j
  <1> HIDE DEF C
  <1>5. closed = Loop(closed)
    <2>1. ASSUME NEW k \in 0 .. n
          PROVE  C(k) = IF k = 0 THEN t ELSE FlushTurn(closed[k - 1])
      <3>1. k # 0 => k - 1 \in 0 .. n
        BY <1>1
      <3>2. k # 0 => closed[k - 1] = C(k - 1)
        BY <3>1
      <3> QED BY <1>2, <1>4, <3>2
    <2> QED BY <2>1
  <1>6. f = Loop(f)
    BY <1>5, Zenon
  <1>7. \A k \in 0 .. n : f[k] = C(k)
    <2> SUFFICES ASSUME \E k \in 0 .. n : f[k] # C(k) PROVE FALSE
      OBVIOUS
    <2> DEFINE Apart == {k \in 0 .. n : f[k] # C(k)}
    <2> HIDE DEF f
    <2>1. Apart \subseteq Nat /\ Apart # {}
      BY <1>1
    <2>2. PICK k \in Apart : \A y \in Apart : k <= y
      BY <2>1, NatMin
    <2>3. k \in 0 .. n /\ f[k] # C(k)
      BY <2>2
    <2>4. f[k] = IF k = 0 THEN t ELSE FlushTurn(f[k - 1])
      BY <1>6, <2>3
    <2>5. k # 0
      BY <1>2, <2>3, <2>4
    <2>6. k - 1 \in 0 .. n /\ k - 1 \notin Apart
      BY <1>1, <2>2, <2>3, <2>5
    <2> QED BY <1>4, <2>3, <2>4, <2>5, <2>6
  <1> HIDE DEF Loop
  <1>8. FlushLoop(t) = f[n]
    BY Zenon DEF FlushLoop, Loop
  <1> QED BY <1>1, <1>3, <1>7, <1>8
-----------------------------------------------------------------------------
(***************************************************************************)
(* The for loop of sched_next_task, in the same way: Tried says where it   *)
(* stands after n tries.  First the slots, which come round once each,     *)
(* then the ways a try writes the machine.                                 *)
(***************************************************************************)

(* The remainder of what is less than twice the divisor. *)
LEMMA ModIs ==
  ASSUME NEW b \in Nat \ {0}, NEW a \in 0 .. 2 * b - 1
  PROVE  a % b = IF a < b THEN a ELSE a - b
  OBVIOUS

(* The slot after d tries, without the remainder. *)
LEMMA TurnIs ==
  ASSUME NEW c \in Pid, NEW d \in 0 .. TASKS_CAP
  PROVE  /\ Turn(c, d) = IF c + d < TASKS_CAP THEN c + d ELSE c + d - TASKS_CAP
         /\ Turn(c, d) \in Pid
  <1> DEFINE a == c + d
             b == TASKS_CAP
  <1>1. b \in Nat \ {0} /\ a \in 0 .. 2 * b - 1 /\ c \in 0 .. b - 1
    BY TableAssumption DEF Pid
  <1> HIDE DEF a, b
  <1>2. a % b = IF a < b THEN a ELSE a - b
    BY <1>1, ModIs
  <1>3. Turn(c, d) = IF a < b THEN a ELSE a - b
    BY <1>2 DEF Turn, a, b
  <1> QED BY <1>1, <1>3 DEF a, b, Pid

(* Each try adds one to the slot. *)
LEMMA TurnNext ==
  ASSUME NEW c \in Pid, NEW d \in 0 .. TASKS_CAP - 1
  PROVE  (Turn(c, d) + 1) % TASKS_CAP = Turn(c, d + 1)
  <1> DEFINE x == Turn(c, d)
  <1>1. TASKS_CAP \in Nat \ {0} /\ c \in 0 .. TASKS_CAP - 1 /\ d \in 0 .. TASKS_CAP
        /\ d + 1 \in 0 .. TASKS_CAP
    BY TableAssumption DEF Pid
  <1>2. x \in Pid /\ x = IF c + d < TASKS_CAP THEN c + d ELSE c + d - TASKS_CAP
    BY <1>1, TurnIs
  <1> HIDE DEF x
  <1>3. (x + 1) % TASKS_CAP = Turn(x, 1)
    BY DEF Turn
  <1>4. Turn(x, 1) = IF x + 1 < TASKS_CAP THEN x + 1 ELSE x + 1 - TASKS_CAP
    BY <1>1, <1>2, TurnIs
  <1> DEFINE e == d + 1
  <1> HIDE DEF e
  <1>5. Turn(c, e) = IF c + e < TASKS_CAP THEN c + e ELSE c + e - TASKS_CAP
    BY <1>1, TurnIs DEF e
  <1> QED BY <1>1, <1>2, <1>3, <1>4, <1>5 DEF e, x

(* No slot is looked at twice. *)
LEMMA TurnOnce ==
  ASSUME NEW c \in Pid, NEW d \in 1 .. TASKS_CAP, NEW e \in 1 .. TASKS_CAP,
         Turn(c, d) = Turn(c, e)
  PROVE  d = e
  <1>1. TASKS_CAP \in Nat \ {0} /\ c \in 0 .. TASKS_CAP - 1 /\ d \in 0 .. TASKS_CAP
        /\ e \in 0 .. TASKS_CAP
    BY TableAssumption DEF Pid
  <1>2. Turn(c, d) = IF c + d < TASKS_CAP THEN c + d ELSE c + d - TASKS_CAP
    BY <1>1, TurnIs
  <1>3. Turn(c, e) = IF c + e < TASKS_CAP THEN c + e ELSE c + e - TASKS_CAP
    BY <1>1, TurnIs
  <1> DEFINE x == Turn(c, d)
             b == TASKS_CAP
  <1>4. /\ x = IF c + d < b THEN c + d ELSE c + d - b
        /\ x = IF c + e < b THEN c + e ELSE c + e - b
    BY <1>2, <1>3, Zenon
  <1>5. b \in Nat /\ c \in Int /\ d \in 1 .. b /\ e \in 1 .. b
    BY <1>1
  <1> HIDE DEF x, b
  <1> QED BY <1>4, <1>5

(* A machine, field by field, and the ways the loop writes one. *)
MachineOf(tab, c, x, why) == [tasks |-> tab, current |-> c, cpu |-> x, halt |-> why]
PassOver(m, c) == [m EXCEPT !.current = c]
FlushAt(m, c, t) == [m EXCEPT !.current = c, !.tasks[c] = t]
LoadAt(m, c, x) == [m EXCEPT !.current = c, !.cpu = x]
WithTable(m, tab) == [m EXCEPT !.tasks = tab]
SwitchTo(m, tab, c, x) == [m EXCEPT !.tasks = tab, !.current = c, !.cpu = x]

(* Two machines that agree in every field are one. *)
LEMMA MachineEqual ==
  ASSUME NEW u \in Machine, NEW v \in Machine,
         u.tasks = v.tasks, u.current = v.current, u.cpu = v.cpu, u.halt = v.halt
  PROVE  u = v
  BY DEF Machine

Put(tab, p, t) == [tab EXCEPT ![p] = t]

(* Each write, as the machine it makes. *)
LEMMA MachineWrites ==
  ASSUME NEW tab \in [Pid -> Task], NEW c \in Pid, NEW x \in Context, NEW why \in Halts,
         NEW b \in [Pid -> Task], NEW d \in Pid, NEW y \in Context, NEW z \in Halts
  PROVE  LET m == MachineOf(tab, c, x, why)
         IN /\ m \in Machine
            /\ m.tasks = tab /\ m.current = c /\ m.cpu = x /\ m.halt = why
            /\ Panic(m, z) = MachineOf(tab, c, x, z)
            /\ PassOver(m, d) = MachineOf(tab, d, x, why)
            /\ LoadAt(m, d, y) = MachineOf(tab, d, y, why)
            /\ WithTable(m, b) = MachineOf(b, c, x, why)
            /\ SwitchTo(m, b, d, y) = MachineOf(b, d, y, why)
  <1> DEFINE m == MachineOf(tab, c, x, why)
  <1>1. m \in Machine /\ m.tasks = tab /\ m.current = c /\ m.cpu = x /\ m.halt = why
    BY DEF MachineOf, Machine
  <1>2. Panic(m, z) = MachineOf(tab, c, x, z)
    BY DEF MachineOf, Panic
  <1>3. PassOver(m, d) = MachineOf(tab, d, x, why)
    BY DEF MachineOf, PassOver
  <1>5. LoadAt(m, d, y) = MachineOf(tab, d, y, why)
    <2> DEFINE w == LoadAt(m, d, y)
               v == MachineOf(tab, d, y, why)
    <2>2. /\ w \in Machine /\ w.tasks = tab /\ w.current = d
          /\ w.cpu = y /\ w.halt = why
      BY <1>1 DEF LoadAt, Machine
    <2>3. /\ v \in Machine /\ v.tasks = tab /\ v.current = d
          /\ v.cpu = y /\ v.halt = why
      BY DEF MachineOf, Machine
    <2> HIDE DEF w, v
    <2>4. w = v
      BY <2>2, <2>3, MachineEqual
    <2> QED BY <2>4 DEF w, v
  <1>6. WithTable(m, b) = MachineOf(b, c, x, why)
    BY DEF MachineOf, WithTable
  <1>7. SwitchTo(m, b, d, y) = MachineOf(b, d, y, why)
    <2> DEFINE w == SwitchTo(m, b, d, y)
               v == MachineOf(b, d, y, why)
    <2>2. /\ w \in Machine /\ w.tasks = b /\ w.current = d
          /\ w.cpu = y /\ w.halt = why
      BY <1>1 DEF SwitchTo, Machine
    <2>3. /\ v \in Machine /\ v.tasks = b /\ v.current = d
          /\ v.cpu = y /\ v.halt = why
      BY DEF MachineOf, Machine
    <2> HIDE DEF w, v
    <2>4. w = v
      BY <2>2, <2>3, MachineEqual
    <2> QED BY <2>4 DEF w, v
  <1> QED BY <1>1, <1>2, <1>3, <1>5, <1>6, <1>7

LEMMA FlushAtIs ==
  ASSUME NEW tab \in [Pid -> Task], NEW c \in Pid, NEW x \in Context, NEW why \in Halts,
         NEW d \in Pid, NEW t \in Task
  PROVE  FlushAt(MachineOf(tab, c, x, why), d, t) = MachineOf(Put(tab, d, t), d, x, why)
  <1> DEFINE m == MachineOf(tab, c, x, why)
  <1>0. m \in Machine /\ m.tasks = tab /\ m.current = c /\ m.cpu = x /\ m.halt = why
    BY MachineWrites
  <1>1. Put(tab, d, t) \in [Pid -> Task]
    BY DEF Put
  <1> DEFINE w == FlushAt(m, d, t)
             v == MachineOf(Put(tab, d, t), d, x, why)
  <1>2. /\ w \in Machine /\ w.tasks = Put(tab, d, t) /\ w.current = d
        /\ w.cpu = x /\ w.halt = why
    BY <1>0, <1>1 DEF FlushAt, Put, Machine
  <1>3. /\ v \in Machine /\ v.tasks = Put(tab, d, t) /\ v.current = d
        /\ v.cpu = x /\ v.halt = why
    BY <1>1, SMT DEF MachineOf, Machine
  <1> HIDE DEF w, v
  <1>4. w = v
    BY <1>2, <1>3, MachineEqual
  <1> QED BY <1>4 DEF w, v

LEMMA MachineParts ==
  ASSUME NEW m \in Machine
  PROVE  /\ m = MachineOf(m.tasks, m.current, m.cpu, m.halt)
         /\ m.tasks \in [Pid -> Task] /\ m.current \in Pid /\ m.cpu \in Context /\ m.halt \in Halts
  BY DEF MachineOf, Machine

(* What the try that looks at slot e makes of a machine with table tab. *)
Looks(m, tab, e, x, why) ==
  IF Runnable(tab[e])
  THEN [m |-> MachineOf(tab, e, tab[e].regs, why), done |-> TRUE]
  ELSE IF e = INIT /\ Dies(tab[e])
  THEN [m |-> Panic(m, "kill init"), done |-> TRUE]
  ELSE [m |-> MachineOf(FlushAll(tab, {e}), e, x, why), done |-> FALSE]

(* One try, on a machine the loop goes on with. *)
LEMMA PickTurnIs ==
  ASSUME NEW tab \in [Pid -> Task], NEW c \in Pid, NEW x \in Context, NEW why \in Halts,
         NEW m, NEW e \in Pid, e = (c + 1) % TASKS_CAP,
         __flush_signals(tab[e]) \in Task
  PROVE  PickTurn(m, [m |-> MachineOf(tab, c, x, why), done |-> FALSE]) =
           Looks(m, tab, e, x, why)
  <1> DEFINE w == MachineOf(tab, c, x, why)
             r == [m |-> w, done |-> FALSE]
             t == tab[e]
             u == __flush_signals(t)
  <1>1. t \in Task /\ t.regs \in Context
    BY DEF Task
  <1>2. FlushLoop(t) = u
    BY <1>1, FlushLoopIs
  <1>3. /\ w.tasks = tab /\ w.current = c
        /\ LoadAt(w, e, t.regs) = MachineOf(tab, e, t.regs, why)
        /\ FlushAt(w, e, u) = MachineOf(Put(tab, e, u), e, x, why)
        /\ PassOver(w, e) = MachineOf(tab, e, x, why)
    <2>1. w.tasks = tab /\ w.current = c
      BY DEF MachineOf
    <2>2. LoadAt(w, e, t.regs) = MachineOf(tab, e, t.regs, why)
      BY <1>1, MachineWrites
    <2>3. \A v \in Task : FlushAt(w, e, v) = MachineOf(Put(tab, e, v), e, x, why)
      BY FlushAtIs
    <2>4. PassOver(w, e) = MachineOf(tab, e, x, why)
      BY MachineWrites
    <2> QED BY <2>1, <2>2, <2>3, <2>4
  <1>4. r.m = w /\ r.done = FALSE
    OBVIOUS
  <1> HIDE DEF w, r
  <1>5. PickTurn(m, r) =
          IF Runnable(t) THEN [m |-> LoadAt(w, e, t.regs), done |-> TRUE]
          ELSE IF ~t.dead /\ e = INIT /\ u.dead
          THEN [m |-> Panic(m, "kill init"), done |-> TRUE]
          ELSE IF ~t.dead THEN [m |-> FlushAt(w, e, u), done |-> FALSE]
          ELSE [m |-> PassOver(w, e), done |-> FALSE]
    <2>1. (r.m.current + 1) % TASKS_CAP = e /\ r.m.tasks[e] = t
      BY <1>3, <1>4
    <2> QED BY <1>2, <1>4, <2>1 DEF PickTurn, LoadAt, FlushAt, PassOver
  <1>6. Put(tab, e, u) = FlushAll(tab, {e}) /\ (t.dead => FlushAll(tab, {e}) = tab)
    <2>1. Put(tab, e, u) = FlushAll(tab, {e})
      BY DEF Put, FlushAll
    <2>2. t.dead => u = t
      BY DEF __flush_signals
    <2>3. t.dead => FlushAll(tab, {e}) = tab
      BY <2>2 DEF FlushAll
    <2> QED BY <2>1, <2>3
  <1>7. ~t.dead => (u.dead <=> Dies(t))
    <2>1. ASSUME ~t.dead PROVE u.dead = Dies(t)
      BY <1>1, <2>1, FlushIsWith DEF With
    <2> QED BY <2>1
  <1>8. Dies(t) => ~t.dead
    BY DEF Dies
  <1> HIDE DEF t, u
  <1>9. CASE t.dead
    <2>1. ~Runnable(t)
      BY <1>9 DEF Runnable
    <2> QED BY <1>3, <1>5, <1>6, <1>8, <1>9, <2>1 DEF w, r, t, u, Looks
  <1>10. CASE ~t.dead
    BY <1>3, <1>5, <1>6, <1>7, <1>8, <1>10 DEF w, r, t, u, Looks
  <1> QED BY <1>9, <1>10

(* The slots the first n tries look at. *)
Looked(c, n) == {Turn(c, d) : d \in 1 .. n}

Last(tab, c) == IF ReadyTurns(tab, c) = {} THEN TASKS_CAP ELSE Min(ReadyTurns(tab, c)) - 1

(* The search passes over nobody who can run, and stops at who can. *)
LEMMA LastIs ==
  ASSUME NEW tab, NEW c \in Pid
  PROVE  /\ Last(tab, c) \in 0 .. TASKS_CAP
         /\ \A d \in 1 .. Last(tab, c) : ~Runnable(tab[Turn(c, d)])
         /\ Last(tab, c) < TASKS_CAP => Runnable(tab[Turn(c, Last(tab, c) + 1)])
         /\ ReadyTurns(tab, c) = {} <=> Last(tab, c) = TASKS_CAP
         /\ ReadyTurns(tab, c) # {} => Min(ReadyTurns(tab, c)) = Last(tab, c) + 1
         /\ Passed(tab, c) = Looked(c, Last(tab, c))
  <1> DEFINE R == ReadyTurns(tab, c)
             low == Min(R)
             l == Last(tab, c)
  <1>1. /\ R \in SUBSET Nat /\ TASKS_CAP \in Nat \ {0}
        /\ \A d : d \in R <=> d \in 1 .. TASKS_CAP /\ Runnable(tab[Turn(c, d)])
    BY TableAssumption DEF ReadyTurns
  <1>2. R # {} => low \in R /\ \A y \in R : low <= y
    BY <1>1, NatMin
  <1>3. l = IF R = {} THEN TASKS_CAP ELSE low - 1
    BY DEF Last
  <1>4. Passed(tab, c) = Looked(c, l)
    BY DEF Passed, Looked, Last
  <1> HIDE DEF R, low, l
  <1>5. CASE R = {}
    BY <1>1, <1>3, <1>4, <1>5 DEF R, l, low
  <1>6. CASE R # {}
    <2>1. low \in 1 .. TASKS_CAP /\ l = low - 1 /\ low = l + 1 /\ Runnable(tab[Turn(c, low)])
      BY <1>1, <1>2, <1>3, <1>6
    <2>2. \A d \in 1 .. l : ~Runnable(tab[Turn(c, d)])
      BY <1>1, <1>2, <1>6, <2>1
    <2> QED BY <1>1, <1>4, <1>6, <2>1, <2>2 DEF R, l, low
  <1> QED BY <1>5, <1>6

(* The next slot is a new one, still as the search found the table. *)
LEMMA LookedNext ==
  ASSUME NEW tab, TableOK(tab), NEW c \in Pid, NEW n \in 0 .. TASKS_CAP - 1
  PROVE  LET e == Turn(c, n + 1)
             swept == FlushAll(tab, Looked(c, n))
         IN /\ e \in Pid /\ e \notin Looked(c, n)
            /\ Looked(c, n + 1) = Looked(c, n) \cup {e}
            /\ swept \in [Pid -> Task] /\ swept[e] = tab[e]
            /\ __flush_signals(tab[e]) \in Task
            /\ FlushAll(swept, {e}) = FlushAll(tab, Looked(c, n + 1))
  <1> DEFINE e == Turn(c, n + 1)
             S == Looked(c, n)
             swept == FlushAll(tab, S)
  <1>1. TASKS_CAP \in Nat /\ n \in Nat /\ n + 1 \in 1 .. TASKS_CAP
        /\ 1 .. n \subseteq 1 .. TASKS_CAP /\ n + 1 \notin 1 .. n
        /\ 1 .. n + 1 = (1 .. n) \cup {n + 1}
    BY TableAssumption
  <1>2. e \in Pid
    BY <1>1, TurnIsPid
  <1>3. e \notin S
    BY <1>1, TurnOnce DEF Looked
  <1>4. Looked(c, n + 1) = S \cup {e}
    BY <1>1 DEF Looked
  <1>5. \A p \in Pid : tab[p] \in Task /\ __flush_signals(tab[p]) \in Task
    BY FlushTask DEF TableOK, TaskOK
  <1>6. swept \in [Pid -> Task] /\ swept[e] = tab[e]
    BY <1>2, <1>3, <1>5 DEF FlushAll
  <1> HIDE DEF e, S
  <1>7. FlushAll(swept, {e}) = FlushAll(tab, S \cup {e})
    BY <1>2, <1>3 DEF FlushAll
  <1> QED BY <1>2, <1>3, <1>4, <1>5, <1>6, <1>7 DEF e, S

(* Where the for loop of sched_next_task stands after n tries. *)
Tried(m, n) ==
  LET t == m.tasks
      c == m.current
      last == Last(t, c)
      next == Turn(c, last + 1)
      k == IF n <= last THEN n ELSE last
  IN IF INIT \in Looked(c, k) /\ Dies(t[INIT])
     THEN [m |-> Panic(m, "kill init"), done |-> TRUE]
     ELSE IF n <= last
     THEN [m |-> MachineOf(FlushAll(t, Looked(c, n)), Turn(c, n), m.cpu, m.halt), done |-> FALSE]
     ELSE [m |-> MachineOf(FlushAll(t, Looked(c, last)), next, t[next].regs, m.halt),
           done |-> TRUE]

(* No try yet: the machine is as it was. *)
LEMMA TriedStart ==
  ASSUME NEW m \in Machine
  PROVE  Tried(m, 0) = [m |-> m, done |-> FALSE]
  <1> DEFINE t == m.tasks
             c == m.current
             last == Last(t, c)
  <1>1. t \in [Pid -> Task] /\ c \in Pid /\ m = MachineOf(t, c, m.cpu, m.halt)
    BY MachineParts
  <1>2. Looked(c, 0) = {}
    BY DEF Looked
  <1>3. 0 <= last
    BY <1>1, LastIs, TableAssumption
  <1>4. FlushAll(t, {}) = t
    BY <1>1 DEF FlushAll
  <1>5. Turn(c, 0) = c
    BY <1>1, TurnIs, TableAssumption DEF Pid
  <1> HIDE DEF t, c, last
  <1>6. Tried(m, 0) = [m |-> MachineOf(FlushAll(t, {}), Turn(c, 0), m.cpu, m.halt), done |-> FALSE]
    BY <1>2, <1>3 DEF Tried, t, c, last
  <1> QED BY <1>1, <1>4, <1>5, <1>6

(* A try takes the closed form one further: it panics, finds, or goes on. *)
LEMMA TriedTurn ==
  ASSUME NEW m \in Machine, TableOK(m.tasks), NEW n \in 0 .. TASKS_CAP - 1
  PROVE  Tried(m, n + 1) = PickTurn(m, Tried(m, n))
  <1> DEFINE t == m.tasks
             c == m.current
             last == Last(t, c)
             next == Turn(c, last + 1)
             e == Turn(c, n + 1)
             swept == FlushAll(t, Looked(c, n))
             Dead(k) == INIT \in Looked(c, k) /\ Dies(t[INIT])
             killed == [m |-> Panic(m, "kill init"), done |-> TRUE]
             found == [m |-> MachineOf(FlushAll(t, Looked(c, last)), next, t[next].regs, m.halt),
                       done |-> TRUE]
             GoOn(k) == [m |-> MachineOf(FlushAll(t, Looked(c, k)), Turn(c, k), m.cpu, m.halt),
                         done |-> FALSE]
  <1>1. /\ t \in [Pid -> Task] /\ c \in Pid /\ m.cpu \in Context /\ m.halt \in Halts
        /\ TableOK(t)
    BY MachineParts
  <1>2. last \in 0 .. TASKS_CAP /\ TASKS_CAP \in Nat /\ n \in Nat /\ n < TASKS_CAP
    <2>1. last \in 0 .. TASKS_CAP
      BY <1>1, LastIs, Zenon
    <2> HIDE DEF last
    <2> QED BY <2>1, TableAssumption
  <1>3. /\ e \in Pid /\ e \notin Looked(c, n) /\ Looked(c, n + 1) = Looked(c, n) \cup {e}
        /\ swept \in [Pid -> Task] /\ swept[e] = t[e] /\ __flush_signals(t[e]) \in Task
        /\ FlushAll(swept, {e}) = FlushAll(t, Looked(c, n + 1))
    <2> HIDE DEF t, c
    <2> QED BY <1>1, LookedNext
  <1>4. /\ \A d \in 1 .. last : ~Runnable(t[Turn(c, d)])
        /\ last < TASKS_CAP => Runnable(t[next])
    BY <1>1, LastIs
  <1>5. Turn(c, n) \in Pid /\ e = (Turn(c, n) + 1) % TASKS_CAP
    BY <1>1, <1>2, TurnIs, TurnNext
  <1>6. \A k \in Nat :
          Tried(m, k) = IF Dead(IF k <= last THEN k ELSE last) THEN killed
                        ELSE IF k <= last THEN GoOn(k) ELSE found
    BY Zenon DEF Tried
  <1>7. killed.done /\ found.done
    OBVIOUS
  <1>8. \A r : r.done => PickTurn(m, r) = r
    BY DEF PickTurn
  <1>9. ASSUME ~Dead(n), n <= last
        PROVE  PickTurn(m, GoOn(n)) =
                 IF Runnable(t[e])
                 THEN [m |-> MachineOf(swept, e, t[e].regs, m.halt), done |-> TRUE]
                 ELSE IF e = INIT /\ Dies(t[e]) THEN killed ELSE GoOn(n + 1)
    <2> DEFINE here == Turn(c, n)
               x == m.cpu
               why == m.halt
               s == swept
               to == e
    <2>1. s \in [Pid -> Task] /\ s[to] = t[to] /\ __flush_signals(s[to]) \in Task
          /\ here \in Pid /\ to = (here + 1) % TASKS_CAP /\ x \in Context /\ why \in Halts
          /\ to \in Pid
      BY <1>1, <1>3, <1>5
    <2> HIDE DEF here, x, why, s, to
    <2>7. /\ s \in [Pid -> Task] /\ __flush_signals(s[to]) \in Task
          /\ here \in Pid /\ x \in Context /\ why \in Halts /\ to \in Pid
      BY <2>1
    <2>8. to = (here + 1) % TASKS_CAP
      BY <2>1
    <2>2. PickTurn(m, [m |-> MachineOf(s, here, x, why), done |-> FALSE]) =
            Looks(m, s, to, x, why)
      BY <2>7, <2>8, PickTurnIs
    <2>3. FlushAll(s, {to}) = FlushAll(t, Looked(c, n + 1))
      BY <1>3, <2>1 DEF s, to
    <2> QED BY <2>1, <2>2, <2>3 DEF here, x, why, s, to, Looks
  <1> HIDE DEF Dead, killed, found, GoOn, last, next, t
  <1>10. CASE Dead(IF n <= last THEN n ELSE last)
    <2>1. Dead(IF n + 1 <= last THEN n + 1 ELSE last)
      <3>1. CASE n + 1 <= last
        BY <1>2, <1>3, <1>10, <3>1 DEF Dead
      <3>2. CASE ~(n + 1 <= last)
        <4>1. (IF n <= last THEN n ELSE last) = last
          BY <1>2, <3>2
        <4> QED BY <1>10, <3>2, <4>1
      <3> QED BY <3>1, <3>2
    <2>2. Tried(m, n) = killed /\ Tried(m, n + 1) = killed
      BY <1>2, <1>6, <1>10, <2>1
    <2> QED BY <1>7, <1>8, <2>2
  <1>11. CASE ~Dead(IF n <= last THEN n ELSE last) /\ n > last
    <2>1. ~(n <= last) /\ ~(n + 1 <= last) /\ n + 1 \in Nat
      BY <1>2, <1>11
    <2>2. Tried(m, n) = found /\ Tried(m, n + 1) = found
      BY <1>2, <1>6, <1>11, <2>1
    <2> QED BY <1>7, <1>8, <2>2
  <1>12. CASE ~Dead(IF n <= last THEN n ELSE last) /\ n = last
    <2>1. n <= last /\ ~(n + 1 <= last) /\ n + 1 \in Nat /\ last < TASKS_CAP
      BY <1>2, <1>12
    <2>2. ~Dead(n) /\ ~Dead(last)
      BY <1>12, <2>1
    <2>3. Tried(m, n) = GoOn(n) /\ Tried(m, n + 1) = found
      BY <1>2, <1>6, <2>1, <2>2
    <2>4. e = next /\ Runnable(t[e])
      BY <1>4, <1>12, <2>1 DEF next
    <2>5. found = [m |-> MachineOf(swept, e, t[e].regs, m.halt), done |-> TRUE]
      BY <1>12, <2>4 DEF found
    <2> QED BY <1>9, <2>1, <2>2, <2>3, <2>4, <2>5
  <1>13. CASE ~Dead(IF n <= last THEN n ELSE last) /\ n < last
    <2>1. n <= last /\ n + 1 <= last /\ n + 1 \in Nat /\ n + 1 \in 1 .. last
      BY <1>2, <1>13
    <2>2. ~Dead(n) /\ Tried(m, n) = GoOn(n)
          /\ Tried(m, n + 1) = IF Dead(n + 1) THEN killed ELSE GoOn(n + 1)
      BY <1>2, <1>6, <1>13, <2>1
    <2>3. ~Runnable(t[e])
      BY <1>4, <2>1
    <2>4. Dead(n + 1) <=> e = INIT /\ Dies(t[e])
      BY <1>3, <2>2 DEF Dead
    <2> QED BY <1>9, <2>1, <2>2, <2>3, <2>4
  <1> QED BY <1>2, <1>10, <1>11, <1>12, <1>13

(* The closed form of the search is where its tries end. *)
LEMMA PickNextIsTried ==
  ASSUME NEW m \in Machine, TableOK(m.tasks)
  PROVE  LET end == Tried(m, TASKS_CAP)
         IN PickNext(m) = IF end.done THEN end.m ELSE Panic(end.m, "no processes")
  <1> DEFINE t == m.tasks
             c == m.current
             x == m.cpu
             why == m.halt
             last == Last(t, c)
             next == Turn(c, last + 1)
             swept == FlushAll(t, Looked(c, last))
             end == Tried(m, TASKS_CAP)
             Dead == INIT \in Looked(c, last) /\ Dies(t[INIT])
  <1>1. /\ t \in [Pid -> Task] /\ c \in Pid /\ x \in Context /\ why \in Halts
        /\ m = MachineOf(t, c, x, why)
    BY MachineParts
  <1>2. /\ last \in 0 .. TASKS_CAP /\ TASKS_CAP \in Nat
        /\ ReadyTurns(t, c) = {} <=> last = TASKS_CAP
        /\ ReadyTurns(t, c) # {} => Min(ReadyTurns(t, c)) = last + 1
        /\ Passed(t, c) = Looked(c, last)
    BY <1>1, LastIs, TableAssumption
  <1>3. Looked(c, last) \in SUBSET Pid
    BY <1>1, <1>2, PassedIsPid
  <1>4. swept \in [Pid -> Task]
    BY <1>1, <1>3, FlushTask DEF FlushAll, TableOK, TaskOK
  <1>5. end = IF Dead THEN [m |-> Panic(m, "kill init"), done |-> TRUE]
              ELSE IF last = TASKS_CAP
              THEN [m |-> MachineOf(swept, c, x, why), done |-> FALSE]
              ELSE [m |-> MachineOf(swept, next, t[next].regs, why), done |-> TRUE]
    <2>1. (IF TASKS_CAP <= last THEN TASKS_CAP ELSE last) = last
          /\ (TASKS_CAP <= last <=> last = TASKS_CAP)
      BY <1>2
    <2>2. Turn(c, TASKS_CAP) = c
      BY <1>1, <1>2, TurnIs DEF Pid
    <2> HIDE DEF last
    <2>3. end = IF Dead THEN [m |-> Panic(m, "kill init"), done |-> TRUE]
                ELSE IF TASKS_CAP <= last
                THEN [m |-> MachineOf(FlushAll(t, Looked(c, TASKS_CAP)), Turn(c, TASKS_CAP),
                                     x, why),
                      done |-> FALSE]
                ELSE [m |-> MachineOf(swept, next, t[next].regs, why), done |-> TRUE]
      BY <2>1 DEF Tried, last
    <2> QED BY <2>1, <2>2, <2>3
  <1>6. PickNext(m) =
          IF Dead THEN Panic(m, "kill init")
          ELSE IF last = TASKS_CAP THEN Panic(WithTable(m, swept), "no processes")
          ELSE SwitchTo(m, swept, next, swept[next].regs)
    BY <1>2 DEF PickNext, WithTable, SwitchTo
  <1>7. last # TASKS_CAP => next \in Pid /\ swept[next] = t[next]
    <2>1. last # TASKS_CAP => next \in Pid /\ next \notin Looked(c, last)
      BY <1>1, <1>2, PassedIsPid
    <2> QED BY <2>1 DEF FlushAll
  <1> HIDE DEF swept, next, last, end, Dead, t, c, x, why
  <1>8. CASE Dead
    <2>1. end.done = TRUE /\ end.m = Panic(m, "kill init")
      BY <1>5, <1>8
    <2>2. PickNext(m) = Panic(m, "kill init")
      BY <1>6, <1>8
    <2> QED BY <2>1, <2>2 DEF end
  <1>9. CASE ~Dead /\ last = TASKS_CAP
    <2>1. WithTable(m, swept) = MachineOf(swept, c, x, why)
      BY <1>1, <1>4, MachineWrites
    <2>2. end.done = FALSE /\ end.m = MachineOf(swept, c, x, why)
      BY <1>5, <1>9
    <2>3. PickNext(m) = Panic(MachineOf(swept, c, x, why), "no processes")
      BY <1>6, <1>9, <2>1
    <2> QED BY <2>2, <2>3 DEF end
  <1>10. CASE ~Dead /\ last # TASKS_CAP
    <2> DEFINE y == t[next].regs
    <2>1. y \in Context /\ next \in Pid
      BY <1>1, <1>7, <1>10 DEF Task
    <2> HIDE DEF y
    <2>2. SwitchTo(m, swept, next, y) = MachineOf(swept, next, y, why)
      BY <1>1, <1>4, <2>1, MachineWrites
    <2> QED BY <1>5, <1>6, <1>7, <1>10, <2>2 DEF end, y
  <1> QED BY <1>8, <1>9, <1>10

(* The loop of sched_next_task is the closed form, by the least turn again. *)
LEMMA PickLoopIs ==
  ASSUME NEW m \in Machine, TableOK(m.tasks)
  PROVE  PickLoop(m) = PickNext(m)
  <1> DEFINE n == TASKS_CAP
             start == [m |-> m, done |-> FALSE]
             Loop(g) == [k \in 0 .. n |-> IF k = 0 THEN start ELSE PickTurn(m, g[k - 1])]
             f == CHOOSE g : g = Loop(g)
             C(k) == Tried(m, k)
             closed == [k \in 0 .. n |-> C(k)]
  <1>1. n \in Nat
    BY TableAssumption
  <1>2. C(0) = start
    BY TriedStart
  <1>3. ASSUME NEW k \in 0 .. n, k # 0 PROVE C(k) = PickTurn(m, C(k - 1))
    <2> DEFINE j == k - 1
    <2>1. j \in 0 .. n - 1 /\ j + 1 = k
      BY <1>1, <1>3
    <2> HIDE DEF j
    <2>2. C(j + 1) = PickTurn(m, C(j))
      BY <2>1, TriedTurn
    <2> QED BY <2>1, <2>2 DEF j
  <1> HIDE DEF C, start
  <1>4. closed = Loop(closed)
    <2>1. ASSUME NEW k \in 0 .. n
          PROVE  C(k) = IF k = 0 THEN start ELSE PickTurn(m, closed[k - 1])
      <3>1. k # 0 => k - 1 \in 0 .. n
        BY <1>1
      <3>2. k # 0 => closed[k - 1] = C(k - 1)
        BY <3>1
      <3> QED BY <1>2, <1>3, <3>2
    <2> QED BY <2>1
  <1>5. f = Loop(f)
    BY <1>4, Zenon
  <1>6. \A k \in 0 .. n : f[k] = C(k)
    <2> SUFFICES ASSUME \E k \in 0 .. n : f[k] # C(k) PROVE FALSE
      OBVIOUS
    <2> DEFINE Apart == {k \in 0 .. n : f[k] # C(k)}
    <2> HIDE DEF f
    <2>1. Apart \subseteq Nat /\ Apart # {}
      BY <1>1
    <2>2. PICK k \in Apart : \A y \in Apart : k <= y
      BY <2>1, NatMin
    <2>3. k \in 0 .. n /\ f[k] # C(k)
      BY <2>2
    <2>4. f[k] = IF k = 0 THEN start ELSE PickTurn(m, f[k - 1])
      BY <1>5, <2>3
    <2>5. k # 0
      BY <1>2, <2>3, <2>4
    <2>6. k - 1 \in 0 .. n /\ k - 1 \notin Apart
      BY <1>1, <2>2, <2>3, <2>5
    <2> QED BY <1>3, <2>3, <2>4, <2>5, <2>6
  <1>7. f[n] = Tried(m, n)
    BY <1>1, <1>6 DEF C
  <1> HIDE DEF Loop
  <1>8. PickLoop(m) = IF f[n].done THEN f[n].m ELSE Panic(f[n].m, "no processes")
    BY Zenon DEF PickLoop, Loop, start
  <1> HIDE DEF f
  <1> QED BY <1>7, <1>8, PickNextIsTried

(***************************************************************************)
(* The closed forms of Sched are the loops of sched.c, whatever the sizes  *)
(* of the table and of the rings: turn by turn, __flush_signals and        *)
(* sched_next_task come to what the other properties are proved of.        *)
(***************************************************************************)
THEOREM LoopsAreTheClosedForms == Spec => []ClosedFormsAreTheLoops
  <1>1. SchedInv => ClosedFormsAreTheLoops
    <2> SUFFICES ASSUME SchedInv PROVE ClosedFormsAreTheLoops
      OBVIOUS
    <2>1. Now \in Machine /\ TableOK(tasks)
      BY InvOfNow
    <2>2. \A p \in Pid : __flush_signals(tasks[p]) = FlushLoop(tasks[p])
      BY <2>1, FlushLoopIs DEF TableOK
    <2>3. PickLoop(Now) = PickNext(Now)
      <3>1. Now.tasks = tasks
        BY DEF Now
      <3> DEFINE m == Now
      <3>2. m \in Machine /\ TableOK(m.tasks)
        BY <2>1, <3>1
      <3> HIDE DEF m
      <3> QED BY <3>2, PickLoopIs DEF m
    <2> QED BY <2>2, <2>3 DEF ClosedFormsAreTheLoops
  <1> QED BY <1>1, SchedInvHolds, PTL
-----------------------------------------------------------------------------
(***************************************************************************)
(* What a step of Sched may never do: the four action properties.          *)
(* SchedInv gives the machine a handler starts on; Lawful relates it to    *)
(* the one it leaves.                                                      *)
(***************************************************************************)
Waits(t, sig) == sig \in {t.pending[i] : i \in DOMAIN t.pending}

(* From machine m a handler came to machine n. *)
LawfulFor(p, m, n) ==
  ~m.tasks[p].dead =>
    /\ m.tasks[p].uid # 0 => n.tasks[p].uid = m.tasks[p].uid
    /\ n.tasks[p].dead => Dies(m.tasks[p]) \/ p = m.current
    /\ m.tasks[p].paused /\ p # m.current /\ n.halt = "none" =>
         n.current # p /\ (n.tasks[p].paused \/ Waits(m.tasks[p], SIGCONT))

InitStopped(m) == m.tasks[INIT].paused \/ Waits(m.tasks[INIT], SIGSTOP)

Lawful(m, n) ==
  /\ \A p \in Pid : LawfulFor(p, m, n)
  /\ n.halt = "no processes" => InitStopped(m)

(***************************************************************************)
(* Delivery keeps the ids, stops only on a SIGSTOP that waited and wakes   *)
(* only on a SIGCONT that did: the last signal before the first lethal one *)
(* decides, and it is one of the two.                                      *)
(***************************************************************************)
LEMMA FlushStops ==
  ASSUME NEW t, TaskOK(t)
  PROVE  /\ __flush_signals(t).uid = t.uid
         /\ __flush_signals(t).paused => t.paused \/ Waits(t, SIGSTOP)
         /\ t.paused => __flush_signals(t).paused \/ Waits(t, SIGCONT)
  <1> DEFINE mild == IF Dies(t) THEN Min(LethalAt(t)) - 1 ELSE Len(t.pending)
             rest == SubSeq(t.pending, mild + 2, Len(t.pending))
             stop == IF mild = 0 THEN t.paused ELSE t.pending[mild] = SIGSTOP
  <1>1. CASE t.dead
    BY <1>1 DEF __flush_signals
  <1>2. CASE ~t.dead
    <2>1. t.pending \in Seq(Sig) /\ Len(t.pending) \in Nat
          /\ DOMAIN t.pending = 1 .. Len(t.pending)
      BY LenProperties DEF TaskOK, Task
    <2>2. LethalAt(t) \in SUBSET Nat /\ LethalAt(t) \subseteq 1 .. Len(t.pending)
      BY <2>1 DEF LethalAt
    <2>3. mild \in 0 .. Len(t.pending) /\ mild \notin LethalAt(t)
      <3>1. CASE Dies(t)
        <4>1. Min(LethalAt(t)) \in LethalAt(t) /\ \A y \in LethalAt(t) : Min(LethalAt(t)) <= y
          BY <3>1, <2>2, NatMin DEF Dies
        <4> QED BY <3>1, <4>1, <2>1, <2>2
      <3>2. CASE ~Dies(t)
        BY <3>2, <1>2, <2>1 DEF Dies
      <3> QED BY <3>1, <3>2
    <2> HIDE DEF mild, rest
    <2>4. mild # 0 => t.pending[mild] \in {SIGSTOP, SIGCONT} /\ mild \in DOMAIN t.pending
      <3>1. mild # 0 => mild \in 1 .. Len(t.pending)
        BY <2>1, <2>3
      <3>2. mild # 0 => t.pending[mild] \in Sig
        BY <2>1, <3>1, ElementOfSeq
      <3>3. mild # 0 => t.pending[mild] \notin Lethal
        BY <2>1, <2>3, <3>1 DEF LethalAt
      <3> QED BY <2>1, <3>1, <3>2, <3>3 DEF Lethal
    <2>5. __flush_signals(t) = [t EXCEPT !.dead = Dies(t), !.paused = stop, !.pending = rest]
      BY <1>2 DEF __flush_signals, mild, rest
    <2>6. __flush_signals(t).uid = t.uid /\ __flush_signals(t).paused = stop
      BY <2>5 DEF TaskOK, Task
    <2> QED BY <2>4, <2>6 DEF Waits
  <1> QED BY <1>1, <1>2

(* Delivery to any set of slots, said for one slot. *)
LEMMA FlushAllOne ==
  ASSUME NEW tab, TableOK(tab), NEW S \in SUBSET Pid, NEW p \in Pid
  PROVE  /\ FlushAll(tab, S)[p].uid = tab[p].uid
         /\ FlushAll(tab, S)[p].dead => tab[p].dead \/ Dies(tab[p])
         /\ FlushAll(tab, S)[p].paused => tab[p].paused \/ Waits(tab[p], SIGSTOP)
         /\ tab[p].paused => FlushAll(tab, S)[p].paused \/ Waits(tab[p], SIGCONT)
  <1>1. TaskOK(tab[p])
    BY DEF TableOK, TaskOK
  <1>2. FlushAll(tab, S)[p] = IF p \in S THEN __flush_signals(tab[p]) ELSE tab[p]
    BY DEF FlushAll
  <1> QED BY <1>1, <1>2, FlushTask, FlushStops

(* The search comes round to init, whichever slot is current. *)
LEMMA SearchReachesInit ==
  ASSUME NEW tab, NEW c \in Pid, ReadyTurns(tab, c) = {}
  PROVE  ~Runnable(tab[INIT])
  <1>1. TASKS_CAP - c \in 1 .. TASKS_CAP /\ Turn(c, TASKS_CAP - c) = INIT
    <2>1. c + (TASKS_CAP - c) = TASKS_CAP /\ TASKS_CAP % TASKS_CAP = 0
      BY TableAssumption DEF Pid
    <2> QED BY <2>1, TableAssumption DEF Turn, INIT, Pid
  <1> QED BY <1>1 DEF ReadyTurns

(* What the search for the next task makes of a table of live and dead. *)
PickLawful(m, n) ==
  /\ \A p \in Pid :
       /\ n.tasks[p].uid = m.tasks[p].uid
       /\ n.tasks[p].dead => m.tasks[p].dead \/ Dies(m.tasks[p])
       /\ m.tasks[p].paused /\ n.halt = "none" =>
            n.current # p /\ (n.tasks[p].paused \/ Waits(m.tasks[p], SIGCONT))
  /\ n.halt = "no processes" => m.tasks[INIT].paused

LEMMA PickIsLawful ==
  ASSUME NEW m, m \in Machine, TableOK(m.tasks), m.halt = "none"
  PROVE  PickLawful(m, PickNext(m))
  <1> DEFINE t == m.tasks
             c == m.current
             swept == FlushAll(t, Passed(t, c))
             next == Turn(c, Min(ReadyTurns(t, c)))
             n == PickNext(m)
  <1>1. c \in Pid /\ t \in [Pid -> Task] /\ Passed(t, c) \in SUBSET Pid
    BY PassedIsPid DEF Machine
  <1>2. \A p \in Pid :
          /\ swept[p].uid = t[p].uid
          /\ swept[p].dead => t[p].dead \/ Dies(t[p])
          /\ t[p].paused => swept[p].paused \/ Waits(t[p], SIGCONT)
    BY <1>1, FlushAllOne
  <1>3. CASE INIT \in Passed(t, c) /\ Dies(t[INIT])
    <2>1. n = [m EXCEPT !.halt = "kill init"]
      BY <1>3 DEF PickNext, Panic
    <2> HIDE DEF n
    <2>2. n.tasks = t /\ n.halt = "kill init"
      BY <2>1 DEF Machine
    <2> QED BY <2>2 DEF PickLawful, n
  <1>4. CASE ~(INIT \in Passed(t, c) /\ Dies(t[INIT])) /\ ReadyTurns(t, c) = {}
    <2>1. n = [[m EXCEPT !.tasks = swept] EXCEPT !.halt = "no processes"]
      BY <1>4 DEF PickNext, Panic
    <2> HIDE DEF swept, n
    <2>2. n.tasks = swept /\ n.halt = "no processes"
      BY <2>1 DEF Machine
    <2>3. t[INIT].paused
      BY <1>1, <1>4, SearchReachesInit DEF TableOK, Runnable
    <2> QED BY <1>2, <2>2, <2>3 DEF PickLawful, n
  <1>5. CASE ~(INIT \in Passed(t, c) /\ Dies(t[INIT])) /\ ReadyTurns(t, c) # {}
    <2>1. n = [m EXCEPT !.tasks = swept, !.current = next, !.cpu = swept[next].regs]
      BY <1>5 DEF PickNext
    <2>2. Runnable(t[next])
      BY <1>1, <1>5, PassedIsPid
    <2> HIDE DEF swept, next, n
    <2>3. n.tasks = swept /\ n.current = next /\ n.halt = "none"
      BY <2>1 DEF Machine
    <2> QED BY <1>2, <2>2, <2>3 DEF PickLawful, Runnable, n
  <1> QED BY <1>3, <1>4, <1>5

(***************************************************************************)
(* A handler works on m, changes at most what hangs on the current task (a *)
(* signal posted to it, its death) to make b, and switches.                *)
(***************************************************************************)
LEMMA SwitchIsLawful ==
  ASSUME NEW m, Busy(m), NEW b, Busy(b), b.current = m.current,
         \A p \in Pid \ {m.current} : b.tasks[p] = m.tasks[p],
         b.tasks[m.current].uid = m.tasks[m.current].uid,
         m.current = INIT => (InitStopped(b) => InitStopped(m))
  PROVE  Lawful(m, sched_next_task(b))
  <1> DEFINE c == b.current
             saved == SaveRegs(b)
             flushed == [saved EXCEPT !.tasks[c] = __flush_signals(@)]
             n == sched_next_task(b)
  <1>1. c \in Pid /\ b.tasks \in [Pid -> Task] /\ b.cpu \in Context /\ b \in Machine
    BY DEF Busy, Machine
  <1>2. /\ saved \in Machine /\ saved.current = c /\ saved.halt = "none"
        /\ saved.tasks = [b.tasks EXCEPT ![c] = [b.tasks[c] EXCEPT !.regs = b.cpu]]
    <2>1. saved = [b EXCEPT !.tasks =
                     [b.tasks EXCEPT ![c] = [b.tasks[c] EXCEPT !.regs = b.cpu]]]
      BY <1>1 DEF SaveRegs, Machine
    <2>2. [b.tasks[c] EXCEPT !.regs = b.cpu] \in Task
      BY <1>1 DEF Task
    <2> HIDE DEF saved
    <2> QED BY <1>1, <2>1, <2>2 DEF Machine, Busy
  <1>3. \A p \in Pid :
          /\ saved.tasks[p].pending = b.tasks[p].pending
          /\ saved.tasks[p].dead = b.tasks[p].dead
          /\ saved.tasks[p].paused = b.tasks[p].paused
          /\ saved.tasks[p].uid = b.tasks[p].uid
          /\ saved.tasks[p].regs = IF p = c THEN b.cpu ELSE b.tasks[p].regs
    BY <1>1, <1>2 DEF Task
  <1>4. TableOK(saved.tasks)
    BY <1>2, <1>3, InitIsPid DEF TableOK, Busy, Machine
  <1>5. CASE c = INIT /\ Dies(saved.tasks[c])
    <2>1. n = [saved EXCEPT !.halt = "kill init"]
      BY <1>5 DEF sched_next_task, Panic
    <2> HIDE DEF saved, n
    <2>2. n.tasks = saved.tasks /\ n.halt = "kill init"
      BY <1>2, <2>1 DEF Machine
    <2>3. ASSUME NEW p \in Pid PROVE LawfulFor(p, m, n)
      <3>1. n.tasks[p].uid = b.tasks[p].uid /\ n.tasks[p].dead = b.tasks[p].dead
        BY <1>3, <2>2
      <3>2. CASE p = c
        BY <1>1, <2>2, <3>1, <3>2 DEF LawfulFor
      <3>3. CASE p # c
        <4>1. b.tasks[p] = m.tasks[p]
          BY <3>3
        <4>2. n.halt # "none"
          BY <2>2
        <4> QED BY <3>1, <4>1, <4>2 DEF LawfulFor
      <3> QED BY <3>2, <3>3
    <2>4. n.halt # "no processes"
      BY <2>2
    <2> QED BY <2>3, <2>4 DEF Lawful, n
  <1>6. CASE ~(c = INIT /\ Dies(saved.tasks[c]))
    <2>1. n = PickNext(flushed)
      BY <1>6 DEF sched_next_task
    <2> HIDE DEF saved, n
    <2>2. __flush_signals(saved.tasks[c]) \in Task
      BY <1>1, <1>4, FlushTask DEF TableOK, TaskOK
    <2>3. flushed \in Machine /\ flushed.current = c /\ flushed.halt = "none"
          /\ flushed.tasks = FlushAll(saved.tasks, {c})
      BY <1>1, <1>2, <2>2 DEF Machine, FlushAll
    <2>4. TableOK(flushed.tasks)
      BY <1>1, <1>4, <1>6, <2>3, FlushTable
    <2> HIDE DEF flushed
    <2>5. /\ flushed.tasks[c].uid = b.tasks[c].uid
          /\ flushed.tasks[c].paused => b.tasks[c].paused \/ Waits(b.tasks[c], SIGSTOP)
      <3>1. /\ FlushAll(saved.tasks, {c})[c].uid = saved.tasks[c].uid
            /\ FlushAll(saved.tasks, {c})[c].paused =>
                 saved.tasks[c].paused \/ Waits(saved.tasks[c], SIGSTOP)
        <4>1. {c} \in SUBSET Pid
          BY <1>1
        <4> HIDE DEF c
        <4> QED BY <1>1, <1>4, <4>1, FlushAllOne
      <3>2. Waits(saved.tasks[c], SIGSTOP) <=> Waits(b.tasks[c], SIGSTOP)
        BY <1>1, <1>3 DEF Waits
      <3> QED BY <1>1, <1>3, <2>3, <3>1, <3>2
    <2>6. \A p \in Pid \ {c} : flushed.tasks[p] = m.tasks[p]
      BY <1>1, <1>2, <2>3 DEF FlushAll
    <2>7. \A p \in Pid : LawfulFor(p, m, n)
      <3>1. PickLawful(flushed, n)
        BY <2>1, <2>3, <2>4, PickIsLawful
      <3>2. LawfulFor(c, m, n)
        BY <1>1, <2>5, <3>1 DEF LawfulFor, PickLawful
      <3>3. ASSUME NEW p \in Pid \ {c} PROVE LawfulFor(p, m, n)
        <4>1. /\ n.tasks[p].uid = m.tasks[p].uid
              /\ n.tasks[p].dead => m.tasks[p].dead \/ Dies(m.tasks[p])
              /\ m.tasks[p].paused /\ n.halt = "none" =>
                   n.current # p /\ (n.tasks[p].paused \/ Waits(m.tasks[p], SIGCONT))
          BY <2>6, <3>1, <3>3 DEF PickLawful
        <4> QED BY <4>1 DEF LawfulFor
      <3> QED BY <3>2, <3>3
    <2>8. n.halt = "no processes" => InitStopped(m)
      <3>1. n.halt = "no processes" => flushed.tasks[INIT].paused
        BY <2>1, <2>3, <2>4, PickIsLawful DEF PickLawful
      <3>2. CASE c = INIT
        BY <3>1, <3>2, <2>5 DEF InitStopped
      <3>3. CASE c # INIT
        BY <3>1, <3>3, <2>6, InitIsPid DEF InitStopped
      <3> QED BY <3>2, <3>3
    <2> QED BY <2>7, <2>8 DEF Lawful, n
  <1> QED BY <1>5, <1>6
-----------------------------------------------------------------------------
(* The handler took the machine to n: the step is as lawful as n. *)
LEMMA StepToLawful ==
  ASSUME NEW n, Lawful(Now, n), Become(n)
  PROVE  Lawful(Now, Now')
  <1>1. /\ Now'.tasks = n.tasks /\ Now'.current = n.current /\ Now'.halt = n.halt
    BY DEF Become, Now
  <1> QED BY <1>1 DEF Lawful, LawfulFor

(* Posting a signal other than SIGSTOP to the current task, and a switch. *)
LEMMA TrapIsLawful ==
  ASSUME SchedInv, Busy(Now), NEW sig \in Sig \ {SIGSTOP}
  PROVE  Lawful(Now, sched_next_task(sched_kill_task(Now, current_task, sig)))
  <1> DEFINE c == current_task
             b == sched_kill_task(Now, c, sig)
  <1>1. /\ c \in Pid /\ tasks \in [Pid -> Task] /\ Now.current = c /\ Now.tasks = tasks
        /\ tasks[c].pending \in Seq(Sig)
    BY DEF Now, SchedInv, TypeOK, Task
  <1>2. Busy(b) /\ b.current = c
        /\ \A q \in Pid : b.tasks[q].paused = tasks[q].paused
    BY <1>1, PostKeepsBusy
  <1>3. b.tasks = tasks \/ b.tasks = [tasks EXCEPT ![c] =
                               [tasks[c] EXCEPT !.pending = Append(tasks[c].pending, sig)]]
    BY <1>1 DEF sched_kill_task, Now
  <1> HIDE DEF b
  <1>4. /\ \A p \in Pid \ {c} : b.tasks[p] = tasks[p]
        /\ b.tasks[c].uid = tasks[c].uid
        /\ b.tasks[c].pending \in {tasks[c].pending, Append(tasks[c].pending, sig)}
    <2> DEFINE u == [tasks[c] EXCEPT !.pending = Append(tasks[c].pending, sig)]
    <2>1. /\ tasks[c] \in Task /\ u.uid = tasks[c].uid
          /\ u.pending = Append(tasks[c].pending, sig)
      BY <1>1 DEF Task
    <2> HIDE DEF u
    <2>2. b.tasks = tasks \/ b.tasks = [tasks EXCEPT ![c] = u]
      BY <1>3 DEF u
    <2>3. CASE b.tasks = tasks
      BY <2>3
    <2>4. CASE b.tasks = [tasks EXCEPT ![c] = u]
      <3>1. b.tasks[c] = u /\ \A p \in Pid \ {c} : b.tasks[p] = tasks[p]
        BY <1>1, <2>4
      <3> QED BY <2>1, <3>1
    <2> QED BY <2>2, <2>3, <2>4
  <1>5. Waits(b.tasks[c], SIGSTOP) => Waits(tasks[c], SIGSTOP)
    <2>1. CASE b.tasks[c].pending = tasks[c].pending
      BY <2>1 DEF Waits
    <2>2. CASE b.tasks[c].pending = Append(tasks[c].pending, sig)
      <3> DEFINE s == tasks[c].pending
                 longer == Append(s, sig)
      <3>1. /\ Len(s) \in Nat /\ DOMAIN s = 1 .. Len(s)
            /\ DOMAIN longer = 1 .. Len(s) + 1 /\ longer[Len(s) + 1] = sig
            /\ \A i \in 1 .. Len(s) : longer[i] = s[i]
        BY <1>1, LenProperties, AppendProperties
      <3> HIDE DEF longer, s
      <3>2. ASSUME NEW i \in DOMAIN longer, longer[i] = SIGSTOP
            PROVE  i \in DOMAIN s /\ s[i] = SIGSTOP
        BY <3>1, <3>2
      <3> QED BY <2>2, <3>2 DEF Waits, longer, s
    <2> QED BY <1>4, <2>1, <2>2
  <1>6. c = INIT => (InitStopped(b) => InitStopped(Now))
    BY <1>1, <1>2, <1>5 DEF InitStopped
  <1> QED BY <1>1, <1>2, <1>4, <1>6, SwitchIsLawful DEF b

(* A change of one field that none of this is about, in the current slot. *)
LEMMA SameTableIsLawful ==
  ASSUME SchedInv, NEW n, n.halt # "no processes",
         \A p \in Pid : /\ n.tasks[p].dead = tasks[p].dead
                        /\ n.tasks[p].paused = tasks[p].paused
                        /\ tasks[p].uid # 0 => n.tasks[p].uid = tasks[p].uid,
         n.current = current_task
  PROVE  Lawful(Now, n)
  BY DEF Lawful, LawfulFor, Now

LEMMA NextIsLawful == SchedInv /\ Next => Lawful(Now, Now')
  <1> SUFFICES ASSUME SchedInv, Next PROVE Lawful(Now, Now')
    OBVIOUS
  <1> USE InvOfNow
  <1> DEFINE c == current_task
  <1>1. /\ c \in Pid /\ tasks \in [Pid -> Task]
        /\ Now.tasks = tasks /\ Now.current = c /\ Now.halt = halt
    BY DEF Now, SchedInv, TypeOK
  <1>2. CASE Setup
    <2>1. /\ Now'.tasks = tasks /\ Now'.current = INIT /\ Now'.halt \in {"none", "no init"}
          /\ ~tasks[INIT].paused
      BY <1>2 DEF Setup, Now, SchedInv
    <2> QED BY <1>1, <2>1 DEF Lawful, LawfulFor
  <1>3. CASE BootTrap \/ SysUnknown \/ FatalTrap
    <2>1. PICK why \in Halts \ {"no processes"} : Become(Panic(Now, why))
      BY <1>3 DEF BootTrap, SysUnknown, FatalTrap, Halts
    <2>2. /\ Panic(Now, why).tasks = tasks /\ Panic(Now, why).current = c
          /\ Panic(Now, why).halt = why
      BY DEF Panic, Now
    <2> QED BY <2>1, <2>2, SameTableIsLawful, StepToLawful
  <1>4. CASE Timer \/ SysYield
    <2>1. Busy(Now) /\ Become(sched_next_task(Now))
      BY <1>4 DEF Timer, SysYield
    <2> QED BY <1>1, <2>1, SwitchIsLawful, StepToLawful
  <1>5. CASE SysExit
    <2>1. CASE c = INIT
      <3>1. /\ Panic(Now, "kill init").tasks = tasks /\ Panic(Now, "kill init").current = c
            /\ Panic(Now, "kill init").halt = "kill init"
        BY DEF Panic, Now
      <3>2. Become(Panic(Now, "kill init"))
        BY <1>5, <2>1 DEF SysExit
      <3> QED BY <3>1, <3>2, SameTableIsLawful, StepToLawful
    <2>2. CASE c # INIT
      <3> DEFINE b == [Now EXCEPT !.tasks[c].dead = TRUE]
      <3>1. Busy(Now) /\ Become(sched_next_task(b))
        BY <1>5, <2>2 DEF SysExit
      <3>2. [tasks[c] EXCEPT !.dead = TRUE] \in Task
        <4>1. tasks[c] \in Task
          BY <1>1
        <4> QED BY <4>1 DEF Task
      <3>3. b = [Now EXCEPT !.tasks = [tasks EXCEPT ![c] = [tasks[c] EXCEPT !.dead = TRUE]]]
        BY <1>1 DEF Now
      <3> HIDE DEF b
      <3>4. /\ b \in Machine /\ b.current = c /\ b.cpu = cpu /\ b.halt = halt
            /\ b.tasks = [tasks EXCEPT ![c] = [tasks[c] EXCEPT !.dead = TRUE]]
        BY <1>1, <3>1, <3>2, <3>3 DEF Busy, Machine, Now
      <3>5. ASSUME NEW q \in Pid
            PROVE  /\ b.tasks[q].pending = tasks[q].pending
                   /\ b.tasks[q].dead = IF q = c THEN TRUE ELSE tasks[q].dead
                   /\ b.tasks[q].regs = tasks[q].regs
                   /\ b.tasks[q].uid = tasks[q].uid
                   /\ q # c => b.tasks[q] = tasks[q]
        BY <1>1, <3>4 DEF Task
      <3>6. TableOK(b.tasks)
        BY <1>1, <2>2, <3>4, <3>5, InitIsPid DEF TableOK, Machine
      <3>7. Busy(b)
        BY <3>1, <3>4, <3>6 DEF Busy, Now
      <3>8. Lawful(Now, sched_next_task(b))
        <4>1. /\ Now.current = c /\ Now.tasks = tasks /\ b.current = Now.current
              /\ \A q \in Pid \ {c} : b.tasks[q] = tasks[q]
              /\ b.tasks[c].uid = tasks[c].uid
          BY <1>1, <3>4, <3>5
        <4> QED BY <2>2, <3>1, <3>7, <4>1, SwitchIsLawful
      <3> QED BY <3>1, <3>8, StepToLawful
    <2> QED BY <2>1, <2>2
  <1>6. ASSUME NEW id \in Uids, SysSetuid(id) PROVE Lawful(Now, Now')
    <2> DEFINE n == [Now EXCEPT !.tasks[c].uid = id]
    <2>1. Become(n) /\ tasks[c].uid = 0 /\ halt = "none"
      BY <1>6 DEF SysSetuid, Running
    <2>2. /\ n.tasks = [tasks EXCEPT ![c] = [tasks[c] EXCEPT !.uid = id]]
          /\ n.current = c /\ n.halt = halt
      BY <1>1 DEF Now
    <2> HIDE DEF n
    <2>3. \A p \in Pid : /\ n.tasks[p].dead = tasks[p].dead
                         /\ n.tasks[p].paused = tasks[p].paused
                         /\ tasks[p].uid # 0 => n.tasks[p].uid = tasks[p].uid
      BY <1>1, <2>1, <2>2 DEF Task
    <2> QED BY <2>1, <2>2, <2>3, SameTableIsLawful, StepToLawful
  <1>7. ASSUME NEW id \in Gids, SysSetgid(id) PROVE Lawful(Now, Now')
    <2> DEFINE n == [Now EXCEPT !.tasks[c].gid = id]
    <2>1. Become(n) /\ halt = "none"
      BY <1>7 DEF SysSetgid, Running
    <2>2. /\ n.tasks = [tasks EXCEPT ![c] = [tasks[c] EXCEPT !.gid = id]]
          /\ n.current = c /\ n.halt = halt
      BY <1>1 DEF Now
    <2> HIDE DEF n
    <2>3. \A p \in Pid : /\ n.tasks[p].dead = tasks[p].dead
                         /\ n.tasks[p].paused = tasks[p].paused
                         /\ tasks[p].uid # 0 => n.tasks[p].uid = tasks[p].uid
      BY <1>1, <2>2 DEF Task
    <2> QED BY <2>1, <2>2, <2>3, SameTableIsLawful, StepToLawful
  <1>8. ASSUME NEW p \in Pid, NEW sig \in KillSigs, SysKill(p, sig)
        PROVE  Lawful(Now, Now')
    <2> DEFINE n == sched_kill_task(Now, p, sig)
    <2>1. Become(n) /\ Busy(Now) /\ sig \in Sig
      BY <1>8, SigAssumption DEF SysKill
    <2>2. /\ Busy(n) /\ n.current = c
          /\ \A q \in Pid : /\ n.tasks[q].dead = tasks[q].dead
                            /\ n.tasks[q].paused = tasks[q].paused
      BY <1>1, <2>1, PostKeepsBusy
    <2>3. n.tasks = tasks \/ n.tasks = [tasks EXCEPT ![p] =
                               [tasks[p] EXCEPT !.pending = Append(tasks[p].pending, sig)]]
      BY <1>1 DEF sched_kill_task, Now
    <2> HIDE DEF n
    <2>4. \A q \in Pid : n.tasks[q].uid = tasks[q].uid
      <3> DEFINE u == [tasks[p] EXCEPT !.pending = Append(tasks[p].pending, sig)]
      <3>1. u.uid = tasks[p].uid
        BY <1>1 DEF Task
      <3> HIDE DEF u
      <3>2. n.tasks = tasks \/ n.tasks = [tasks EXCEPT ![p] = u]
        BY <2>3 DEF u
      <3> QED BY <1>1, <3>1, <3>2
    <2> QED BY <2>1, <2>2, <2>4, SameTableIsLawful, StepToLawful DEF Busy
  <1>9. CASE SysSetupAgain \/ KernelUd2 \/ \E sig \in TrapSigs : ErrorTrap(sig)
    <2>1. PICK sig \in Sig \ {SIGSTOP} :
            Busy(Now) /\ Become(sched_next_task(sched_kill_task(Now, c, sig)))
      BY <1>9, SigAssumption DEF SysSetupAgain, KernelUd2, ErrorTrap, Sig, SIG_COUNT,
         SIGSYS, SIGILL, SIGSTOP
    <2> QED BY <2>1, TrapIsLawful, StepToLawful
  <1>10. CASE DivideError
    <2> DEFINE m == sched_next_task(sched_kill_task(Now, c, SIGFPE))
    <2>1. Lawful(Now, m) /\ Settled(m)
      <3>1. Busy(Now) /\ SIGFPE \in Sig \ {SIGSTOP} /\ c \in Pid
        BY <1>1, <1>10 DEF DivideError, Sig, SIG_COUNT, SIGFPE, SIGSTOP
      <3>2. Lawful(Now, m)
        BY <3>1, TrapIsLawful
      <3>3. Busy(sched_kill_task(Now, c, SIGFPE))
        BY <3>1, PostKeepsBusy
      <3> QED BY <3>2, <3>3, SwitchSettles
    <2>2. \/ Become(IF m.halt = "none" THEN [m EXCEPT !.cpu = KERNEL] ELSE m)
          \/ Become(IF m.halt = "none" THEN Panic(m, "NMI") ELSE m)
      BY <1>10 DEF DivideError
    <2> HIDE DEF m
    <2>3. /\ [m EXCEPT !.cpu = KERNEL].tasks = m.tasks
          /\ [m EXCEPT !.cpu = KERNEL].current = m.current
          /\ [m EXCEPT !.cpu = KERNEL].halt = m.halt
          /\ Panic(m, "NMI").tasks = m.tasks /\ Panic(m, "NMI").halt = "NMI"
      BY <2>1 DEF Settled, Machine, Panic
    <2>4. Lawful(Now, [m EXCEPT !.cpu = KERNEL]) /\ Lawful(Now, Panic(m, "NMI"))
      BY <2>1, <2>3 DEF Lawful, LawfulFor
    <2> QED BY <2>1, <2>2, <2>4, StepToLawful
  <1>11. CASE Spawn
    <2> DEFINE n == sched_make_task(Now, FALSE)
    <2>1. Become(n) /\ halt = "none"
      BY <1>11 DEF Spawn, Running
    <2>2. CASE DeadSlots(tasks) = {}
      BY <1>1, <2>1, <2>2, SameTableIsLawful, StepToLawful DEF sched_make_task
    <2>3. CASE DeadSlots(tasks) # {}
      <3> DEFINE q == Min(DeadSlots(tasks))
      <3>1. q \in Pid /\ tasks[q].dead
        BY <2>3, NatMin DEF DeadSlots, Pid
      <3>2. n = [Now EXCEPT !.tasks = [tasks EXCEPT ![q] = NewTask(q, FALSE)]]
        BY <1>1, <2>3 DEF sched_make_task, Now
      <3> HIDE DEF n, q
      <3>3. /\ n.tasks = [tasks EXCEPT ![q] = NewTask(q, FALSE)]
            /\ n.current = c /\ n.halt = halt
        BY <3>2 DEF Now
      <3>4. \A p \in Pid : ~tasks[p].dead => n.tasks[p] = tasks[p]
        BY <1>1, <3>1, <3>3
      <3> QED BY <1>1, <2>1, <3>3, <3>4, StepToLawful DEF Lawful, LawfulFor
    <2> QED BY <2>2, <2>3
  <1> QED BY <1>2, <1>3, <1>4, <1>5, <1>6, <1>7, <1>8, <1>9, <1>10, <1>11 DEF Next

(***************************************************************************)
(* Root, once given up, comes back by no system call, switch or trap.      *)
(***************************************************************************)
THEOREM RootIsNotRegained == Spec => RootStaysGivenUp
  <1>1. SchedInv /\ [Next]_vars =>
          [\A p \in Pid : ~tasks[p].dead /\ tasks[p].uid # 0 => tasks'[p].uid = tasks[p].uid]_vars
    BY NextIsLawful DEF Lawful, LawfulFor, Now
  <1> QED BY <1>1, SchedInvHolds, PTL DEF Spec, RootStaysGivenUp

(***************************************************************************)
(* Nobody but the current task dies without a lethal signal of its own,    *)
(* even in the steps of the missing INT_END.                               *)
(***************************************************************************)
THEOREM EveryDeathHasCause == Spec => DeathHasCause
  <1>1. SchedInv /\ [Next]_vars =>
          [\A p \in Pid : ~tasks[p].dead /\ tasks'[p].dead =>
             Dies(tasks[p]) \/ p = current_task]_vars
    BY NextIsLawful DEF Lawful, LawfulFor, Now
  <1> QED BY <1>1, SchedInvHolds, PTL DEF Spec, DeathHasCause

(***************************************************************************)
(* A stopped task is not switched to and is woken only by its own SIGCONT. *)
(***************************************************************************)
THEOREM StopHoldsUntilCont == Spec => StopHolds
  <1>1. SchedInv /\ [Next]_vars =>
          [\A p \in Pid :
             ~tasks[p].dead /\ tasks[p].paused /\ p # current_task /\ halt' = "none" =>
               /\ current_task' # p
               /\ tasks'[p].paused \/ SIGCONT \in {tasks[p].pending[i] : i \in DOMAIN tasks[p].pending}
          ]_vars
    <2> SUFFICES ASSUME SchedInv, Next, NEW p \in Pid, ~tasks[p].dead, tasks[p].paused,
                        p # current_task, halt' = "none"
                 PROVE  current_task' # p /\ (tasks'[p].paused \/ Waits(tasks[p], SIGCONT))
      BY DEF Waits
    <2>1. LawfulFor(p, Now, Now')
      BY NextIsLawful DEF Lawful
    <2> QED BY <2>1 DEF LawfulFor, Now
  <1> QED BY <1>1, SchedInvHolds, PTL DEF Spec, StopHolds

(***************************************************************************)
(* The search for a task finds none only when init is stopped, or is by    *)
(* the SIGSTOP that waits for it.                                          *)
(***************************************************************************)
THEOREM EmptySearchNeedsStoppedInit == Spec => NoProcessesNeedsStoppedInit
  <1>1. SchedInv /\ [Next]_vars =>
          [halt = "none" /\ halt' = "no processes" =>
             \/ tasks[INIT].paused
             \/ SIGSTOP \in {tasks[INIT].pending[i] : i \in DOMAIN tasks[INIT].pending}]_vars
    BY NextIsLawful DEF Lawful, InitStopped, Waits, Now
  <1> QED BY <1>1, SchedInvHolds, PTL DEF Spec, NoProcessesNeedsStoppedInit
-----------------------------------------------------------------------------
(***************************************************************************)
(* Sched implements Procs.  Delivery to a task is the process obeying the  *)
(* signals up to the first lethal one, and a switch delivers to each slot  *)
(* or does not; so a handler is one of the actions of Procs with a table   *)
(* in which at most one slot was changed before.                           *)
(***************************************************************************)
StateOf(t) == IF t.dead THEN "dead" ELSE IF t.paused THEN "stopped" ELSE "runs"

LEMMA ObeyingIs ==
  ASSUME NEW t \in Task, NEW u \in Task, NEW n \in 0 .. Len(t.pending), u.uid = t.uid,
         u.pending = SubSeq(t.pending, n + 1, Len(t.pending)),
         StateOf(u) = IF n = 0 THEN StateOf(t) ELSE Promise!Effect(t.pending[n]),
         n > 0 => ~t.dead,
         \A i \in 1 .. n - 1 : t.pending[i] \in {SIGSTOP, SIGCONT}
  PROVE  AsProcess(u) \in Promise!Obeyed(AsProcess(t))
  <1> DEFINE P == AsProcess(t)
             Q == AsProcess(u)
  <1>1. /\ P = [state |-> StateOf(t), queue |-> t.pending, uid |-> t.uid]
        /\ Q = [state |-> StateOf(u), queue |-> u.pending, uid |-> u.uid]
    BY Zenon DEF AsProcess, StateOf
  <1> HIDE DEF P, Q
  <1>2. \A i \in 1 .. n - 1 : Promise!Effect(P.queue[i]) # "dead"
    <2>1. SIGSTOP # SIGCONT
      BY DEF SIGSTOP, SIGCONT
    <2> QED BY <1>1, <2>1 DEF Promise!Effect
  <1>3. n > 0 => P.state # "dead"
    BY <1>1 DEF StateOf
  <1>4. n \in Promise!Obeyable(P)
    BY <1>1, <1>2, <1>3 DEF Promise!Obeyable
  <1>5. Q = Promise!Obeying(P, n)
    <2>1. StateOf(u) = IF n = 0 THEN P.state ELSE Promise!Effect(P.queue[n])
      BY <1>1
    <2>2. u.pending = SubSeq(P.queue, n + 1, Len(P.queue)) /\ u.uid = P.uid
      BY <1>1
    <2> QED BY <1>1, <2>1, <2>2, Zenon DEF Promise!Obeying
  <1> QED BY <1>4, <1>5, Zenon DEF Promise!Obeyed, P, Q

(* A task that obeys nothing is as it was, whoever has its registers. *)
LEMMA StandsObeyed ==
  ASSUME NEW t \in Task
  PROVE  AsProcess(t) \in Promise!Obeyed(AsProcess(t))
  <1>1. Len(t.pending) \in Nat /\ t.pending = SubSeq(t.pending, 1, Len(t.pending))
    <2>1. t.pending \in Seq(Sig)
      BY DEF Task
    <2> QED BY <2>1, LenProperties
  <1>2. 0 \in 0 .. Len(t.pending) /\ 0 + 1 = 1
    BY <1>1
  <1> QED BY <1>1, <1>2, ObeyingIs

LEMMA FlushObeys ==
  ASSUME NEW t, TaskOK(t)
  PROVE  AsProcess(__flush_signals(t)) \in Promise!Obeyed(AsProcess(t))
  <1> DEFINE mild == IF Dies(t) THEN Min(LethalAt(t)) - 1 ELSE Len(t.pending)
             rest == SubSeq(t.pending, mild + 2, Len(t.pending))
             stop == IF mild = 0 THEN t.paused ELSE t.pending[mild] = SIGSTOP
             u == __flush_signals(t)
  <1>0. t \in Task /\ u \in Task /\ t.pending \in Seq(Sig) /\ Len(t.pending) \in Nat
        /\ DOMAIN t.pending = 1 .. Len(t.pending)
    BY FlushTask, LenProperties DEF TaskOK, Task
  <1>1. CASE t.dead
    <2>1. u = t
      BY <1>1 DEF __flush_signals
    <2> QED BY <1>0, <2>1, StandsObeyed
  <1>2. CASE ~t.dead
    <2>1. LethalAt(t) \in SUBSET Nat /\ LethalAt(t) \subseteq 1 .. Len(t.pending)
      BY <1>0 DEF LethalAt
    <2>2. /\ mild \in 0 .. Len(t.pending)
          /\ \A i \in 1 .. mild : i \notin LethalAt(t)
          /\ Dies(t) => mild + 1 \in LethalAt(t)
          /\ ~Dies(t) => mild = Len(t.pending)
      <3>1. CASE Dies(t)
        <4>1. Min(LethalAt(t)) \in LethalAt(t) /\ \A y \in LethalAt(t) : Min(LethalAt(t)) <= y
          BY <3>1, <2>1, NatMin DEF Dies
        <4> QED BY <3>1, <4>1, <1>0, <2>1
      <3>2. CASE ~Dies(t)
        BY <3>2, <1>2, <1>0 DEF Dies
      <3> QED BY <3>1, <3>2
    <2> HIDE DEF mild, rest
    <2>3. \A i \in 1 .. mild : t.pending[i] \in {SIGSTOP, SIGCONT}
      <3>1. ASSUME NEW i \in 1 .. mild PROVE t.pending[i] \in {SIGSTOP, SIGCONT}
        <4>1. i \in 1 .. Len(t.pending) /\ i \notin LethalAt(t)
          BY <1>0, <2>2
        <4>2. t.pending[i] \in Sig
          BY <1>0, <4>1, ElementOfSeq
        <4> QED BY <1>0, <4>1, <4>2 DEF LethalAt, Lethal
      <3> QED BY <3>1
    <2>4. u = [t EXCEPT !.dead = Dies(t), !.paused = stop, !.pending = rest]
      BY <1>2 DEF __flush_signals, mild, rest
    <2>5. u.dead = Dies(t) /\ u.paused = stop /\ u.pending = rest /\ u.uid = t.uid
      BY <1>0, <2>4 DEF Task
    <2> HIDE DEF u
    <2>6. CASE Dies(t)
      <3> DEFINE n == mild + 1
      <3>1. n \in LethalAt(t) /\ n \in 0 .. Len(t.pending) /\ n # 0 /\ n - 1 = mild /\ n + 1 = mild + 2
        BY <1>0, <2>1, <2>2, <2>6
      <3>2. u.pending = SubSeq(t.pending, n + 1, Len(t.pending))
        BY <2>5, <3>1 DEF rest
      <3>3. StateOf(u) = Promise!Effect(t.pending[n])
        <4>1. t.pending[n] \notin {SIGSTOP, SIGCONT}
          BY <3>1 DEF LethalAt, Lethal
        <4> QED BY <2>5, <2>6, <4>1 DEF StateOf, Promise!Effect
      <3> HIDE DEF n
      <3>4. \A i \in 1 .. n - 1 : t.pending[i] \in {SIGSTOP, SIGCONT}
        BY <2>3, <3>1
      <3> QED BY <1>0, <1>2, <2>5, <3>1, <3>2, <3>3, <3>4, ObeyingIs DEF u
    <2>7. CASE ~Dies(t)
      <3>1. mild = Len(t.pending)
        BY <2>2, <2>7
      <3>2. u.pending = SubSeq(t.pending, mild + 1, Len(t.pending))
        <4>1. rest = <<>> /\ SubSeq(t.pending, mild + 1, Len(t.pending)) = <<>>
          BY <1>0, <3>1, SubSeqEmpty DEF rest
        <4> QED BY <2>5, <4>1
      <3>3. StateOf(u) = IF mild = 0 THEN StateOf(t) ELSE Promise!Effect(t.pending[mild])
        <4>1. CASE mild = 0
          BY <1>2, <2>5, <2>7, <4>1 DEF StateOf
        <4>2. CASE mild # 0
          <5>1. t.pending[mild] \in {SIGSTOP, SIGCONT}
            BY <2>2, <2>3, <4>2
          <5>2. CASE t.pending[mild] = SIGSTOP
            <6>1. Promise!Effect(SIGSTOP) = "stopped"
              BY DEF Promise!Effect, SIGSTOP, SIGCONT
            <6>2. u.paused /\ ~u.dead
              BY <2>5, <2>7, <4>2, <5>2
            <6> QED BY <4>2, <5>2, <6>1, <6>2 DEF StateOf
          <5>3. CASE t.pending[mild] = SIGCONT
            <6>1. Promise!Effect(SIGCONT) = "runs" /\ SIGCONT # SIGSTOP
              BY DEF Promise!Effect, SIGSTOP, SIGCONT
            <6>2. ~u.paused /\ ~u.dead
              BY <2>5, <2>7, <4>2, <5>3, <6>1
            <6> QED BY <4>2, <5>3, <6>1, <6>2 DEF StateOf
          <5> QED BY <5>1, <5>2, <5>3
        <4> QED BY <4>1, <4>2
      <3>4. \A i \in 1 .. mild - 1 : t.pending[i] \in {SIGSTOP, SIGCONT}
        BY <2>2, <2>3
      <3> QED BY <1>0, <1>2, <2>2, <2>5, <3>2, <3>3, <3>4, ObeyingIs DEF u
    <2> QED BY <2>6, <2>7
  <1> QED BY <1>1, <1>2

(* A second delivery finds nothing to deliver. *)
LEMMA FlushTwice ==
  ASSUME NEW t, TaskOK(t)
  PROVE  AsProcess(__flush_signals(__flush_signals(t))) = AsProcess(__flush_signals(t))
  <1> DEFINE mild == IF Dies(t) THEN Min(LethalAt(t)) - 1 ELSE Len(t.pending)
             rest == SubSeq(t.pending, mild + 2, Len(t.pending))
             stop == IF mild = 0 THEN t.paused ELSE t.pending[mild] = SIGSTOP
  <1>1. PICK u : u = __flush_signals(t)
    OBVIOUS
  <1>2. TaskOK(u) /\ t.pending \in Seq(Sig) /\ Len(t.pending) \in Nat
    BY <1>1, FlushTask, LenProperties DEF TaskOK, Task
  <1>3. CASE u.dead
    <2>1. __flush_signals(u) = u
      BY <1>3 DEF __flush_signals
    <2> QED BY <1>1, <2>1
  <1>4. CASE ~u.dead
    <2>1. ~t.dead /\ ~Dies(t)
      BY <1>1, <1>4, FlushTask
    <2>2. mild = Len(t.pending) /\ rest = <<>>
      <3>1. mild = Len(t.pending)
        BY <2>1
      <3> HIDE DEF mild
      <3> QED BY <1>2, <3>1, SubSeqEmpty
    <2>3. u = [t EXCEPT !.dead = Dies(t), !.paused = stop, !.pending = rest]
      BY <1>1, <2>1 DEF __flush_signals
    <2> HIDE DEF mild, rest, stop
    <2>4. u.pending = <<>>
      BY <2>2, <2>3 DEF TaskOK, Task
    <2>5. LethalAt(u) = {} /\ ~Dies(u) /\ Len(u.pending) = 0
      BY <2>4 DEF LethalAt, Dies
    <2> DEFINE none == IF Dies(u) THEN Min(LethalAt(u)) - 1 ELSE Len(u.pending)
               empty == SubSeq(u.pending, none + 2, Len(u.pending))
               still == IF none = 0 THEN u.paused ELSE u.pending[none] = SIGSTOP
               v == __flush_signals(u)
    <2>6. none = 0 /\ still = u.paused
      BY <2>5
    <2>7. empty = <<>>
      <3> HIDE DEF none
      <3>1. none + 2 \in Int /\ Len(u.pending) \in Int /\ Len(u.pending) < none + 2
        BY <2>5, <2>6
      <3> QED BY <3>1, SubSeqEmpty
    <2>8. v = [u EXCEPT !.dead = Dies(u), !.paused = still, !.pending = empty]
      BY <1>4, Zenon DEF __flush_signals
    <2> HIDE DEF none, empty, still, v
    <2>9. v.dead = u.dead /\ v.paused = u.paused /\ v.pending = u.pending /\ v.uid = u.uid
      <3>1. u \in Task /\ v.dead = Dies(u)
        BY <1>2, <2>8 DEF TaskOK, Task
      <3>2. Dies(u) = u.dead
        BY <1>2, <1>4, <2>5, <3>1 DEF Dies, Task
      <3> QED BY <2>4, <2>6, <2>7, <2>8, <3>1, <3>2 DEF Task
    <2>10. AsProcess(v) = AsProcess(u)
      BY <2>9, Zenon DEF AsProcess
    <2> QED BY <1>1, <2>10 DEF v
  <1> QED BY <1>3, <1>4

(* The search delivers to a slot, or leaves it as it is. *)
LEMMA PickDelivers ==
  ASSUME NEW m, m \in Machine, NEW p \in Pid
  PROVE  PickNext(m).tasks[p] \in {m.tasks[p], __flush_signals(m.tasks[p])}
  <1> DEFINE t == m.tasks
             c == m.current
             swept == FlushAll(t, Passed(t, c))
             next == Turn(c, Min(ReadyTurns(t, c)))
             n == PickNext(m)
  <1>1. swept[p] \in {t[p], __flush_signals(t[p])}
    BY DEF FlushAll
  <1>2. n.tasks \in {t, swept}
    <2>1. CASE INIT \in Passed(t, c) /\ Dies(t[INIT])
      <3>1. n = [m EXCEPT !.halt = "kill init"]
        BY <2>1 DEF PickNext, Panic
      <3> HIDE DEF n
      <3> QED BY <3>1 DEF Machine
    <2>2. CASE ~(INIT \in Passed(t, c) /\ Dies(t[INIT])) /\ ReadyTurns(t, c) = {}
      <3>1. n = [[m EXCEPT !.tasks = swept] EXCEPT !.halt = "no processes"]
        BY <2>2 DEF PickNext, Panic
      <3> HIDE DEF swept, n
      <3> QED BY <3>1 DEF Machine
    <2>3. CASE ~(INIT \in Passed(t, c) /\ Dies(t[INIT])) /\ ReadyTurns(t, c) # {}
      <3>1. n = [m EXCEPT !.tasks = swept, !.current = next, !.cpu = swept[next].regs]
        BY <2>3 DEF PickNext
      <3> HIDE DEF swept, next, n
      <3> QED BY <3>1 DEF Machine
    <2> QED BY <2>1, <2>2, <2>3
  <1> QED BY <1>1, <1>2

(* A switch is every process obeying as much as it does. *)
LEMMA SwitchObeys ==
  ASSUME NEW b, Busy(b), NEW p \in Pid
  PROVE  AsProcess(sched_next_task(b).tasks[p]) \in Promise!Obeyed(AsProcess(b.tasks[p]))
  <1> DEFINE c == b.current
             saved == SaveRegs(b)
             flushed == [saved EXCEPT !.tasks[c] = __flush_signals(@)]
             n == sched_next_task(b)
  <1>1. c \in Pid /\ b.tasks \in [Pid -> Task] /\ b.cpu \in Context /\ b \in Machine
    BY DEF Busy, Machine
  <1>2. /\ saved \in Machine
        /\ saved.tasks = [b.tasks EXCEPT ![c] = [b.tasks[c] EXCEPT !.regs = b.cpu]]
    <2>1. saved = [b EXCEPT !.tasks =
                     [b.tasks EXCEPT ![c] = [b.tasks[c] EXCEPT !.regs = b.cpu]]]
      BY <1>1 DEF SaveRegs, Machine
    <2>2. [b.tasks[c] EXCEPT !.regs = b.cpu] \in Task
      BY <1>1 DEF Task
    <2> HIDE DEF saved
    <2> QED BY <1>1, <2>1, <2>2 DEF Machine
  <1>3. \A q \in Pid : TaskOK(saved.tasks[q]) /\ AsProcess(saved.tasks[q]) = AsProcess(b.tasks[q])
    <2>1. \A q \in Pid :
            /\ saved.tasks[q].pending = b.tasks[q].pending
            /\ saved.tasks[q].dead = b.tasks[q].dead
            /\ saved.tasks[q].paused = b.tasks[q].paused
            /\ saved.tasks[q].uid = b.tasks[q].uid
            /\ saved.tasks[q] \in Task
      BY <1>1, <1>2 DEF Task
    <2> QED BY <2>1 DEF AsProcess, TaskOK, Busy, TableOK
  <1>4. CASE c = INIT /\ Dies(saved.tasks[c])
    <2>1. n = [saved EXCEPT !.halt = "kill init"]
      BY <1>4 DEF sched_next_task, Panic
    <2> HIDE DEF saved, n
    <2>2. n.tasks = saved.tasks
      BY <1>2, <2>1 DEF Machine
    <2>3. AsProcess(n.tasks[p]) = AsProcess(b.tasks[p])
      BY <1>3, <2>2
    <2> QED BY <1>1, <2>3, StandsObeyed DEF n
  <1>5. CASE ~(c = INIT /\ Dies(saved.tasks[c]))
    <2>1. n = PickNext(flushed)
      BY <1>5 DEF sched_next_task
    <2> HIDE DEF saved, n
    <2>2. __flush_signals(saved.tasks[c]) \in Task
      BY <1>1, <1>3, FlushTask DEF TaskOK
    <2>3. flushed \in Machine
          /\ flushed.tasks = [saved.tasks EXCEPT ![c] = __flush_signals(saved.tasks[c])]
      BY <1>1, <1>2, <2>2 DEF Machine
    <2> HIDE DEF flushed
    <2>4. n.tasks[p] \in {flushed.tasks[p], __flush_signals(flushed.tasks[p])}
      BY <2>1, <2>3, PickDelivers
    <2> DEFINE s == saved.tasks[p]
    <2>5. TaskOK(s) /\ s \in Task /\ AsProcess(s) = AsProcess(b.tasks[p])
      BY <1>3 DEF TaskOK
    <2>6. n.tasks[p] \in {s, __flush_signals(s), __flush_signals(__flush_signals(s))}
      BY <1>1, <1>2, <2>3, <2>4 DEF Machine
    <2> HIDE DEF s
    <2>7. AsProcess(n.tasks[p]) \in {AsProcess(s), AsProcess(__flush_signals(s))}
      BY <2>5, <2>6, FlushTwice
    <2>8. /\ AsProcess(s) \in Promise!Obeyed(AsProcess(s))
          /\ AsProcess(__flush_signals(s)) \in Promise!Obeyed(AsProcess(s))
      BY <2>5, StandsObeyed, FlushObeys
    <2> QED BY <2>5, <2>7, <2>8 DEF n
  <1> QED BY <1>4, <1>5

LEMMA AsProcessIs ==
  ASSUME NEW t \in Task
  PROVE  /\ AsProcess(t) = [state |-> StateOf(t), queue |-> t.pending, uid |-> t.uid]
         /\ AsProcess(t).state = "runs" <=> Runnable(t)
  <1>1. AsProcess(t) = [state |-> StateOf(t), queue |-> t.pending, uid |-> t.uid]
    BY Zenon DEF AsProcess, StateOf
  <1>2. StateOf(t) = "runs" <=> Runnable(t)
    BY DEF StateOf, Runnable
  <1> QED BY <1>1, <1>2

LEMMA SettlesAs ==
  ASSUME SchedInv', NEW table,
         \A p \in Pid : AsProcess(tasks'[p]) \in Promise!Obeyed(table[p])
  PROVE  Promise!Settles(table)
  <1>1. tasks' \in [Pid -> Task] /\ current_task' \in Pid
        /\ (is_tasking_avaliable' /\ halt' = "none" => Runnable(tasks'[current_task']))
    BY DEF SchedInv, TypeOK, CurrentRunnable
  <1>2. \A p \in Pid : AsProcess(tasks'[p]).state = "runs" <=> Runnable(tasks'[p])
    BY <1>1, AsProcessIs
  <1>3. OnProcessor' \in {KERNEL} \union {p \in Pid : AsProcess(tasks'[p]).state = "runs"}
    BY <1>1, <1>2 DEF OnProcessor
  <1> QED BY <1>3 DEF Promise!Settles

(* Nothing posted, nobody exits, starts or changes its user. *)
LEMMA ObeyStep ==
  ASSUME SchedInv',
         \A p \in Pid : AsProcess(tasks'[p]) \in Promise!Obeyed(AsProcess(tasks[p]))
  PROVE  Promise!Next
  <1> DEFINE procs == [p \in Pid |-> AsProcess(tasks[p])]
  <1>1. \A p \in Pid : AsProcess(tasks'[p]) \in Promise!Obeyed(procs[p])
    OBVIOUS
  <1>2. Promise!Settles(procs)
    BY <1>1, SettlesAs
  <1> QED BY <1>2 DEF Promise!Next, Promise!Obey

LEMMA SameTableObeys ==
  ASSUME SchedInv, SchedInv',
         \A p \in Pid : AsProcess(tasks'[p]) = AsProcess(tasks[p])
  PROVE  Promise!Next
  <1>1. tasks \in [Pid -> Task]
    BY DEF SchedInv, TypeOK
  <1>2. \A p \in Pid : AsProcess(tasks[p]) \in Promise!Obeyed(AsProcess(tasks[p]))
    BY <1>1, StandsObeyed
  <1> QED BY <1>2, ObeyStep

LEMMA PostedIsSig == Posted \subseteq Sig
  BY SigAssumption DEF Posted, Sig, SIG_COUNT, SIGSYS, SIGFPE, SIGILL

(* A signal is posted, or finds the ring full; then processes obey. *)
LEMMA SignalStep ==
  ASSUME SchedInv, SchedInv', is_tasking_avaliable, halt = "none",
         NEW p \in Pid, NEW sig \in Posted,
         ~tasks[p].dead, tasks[current_task].uid \in {0, tasks[p].uid},
         \A q \in Pid : AsProcess(tasks'[q]) \in
                          Promise!Obeyed(AsProcess(sched_kill_task(Now, p, sig).tasks[q]))
  PROVE  Promise!Next
  <1> DEFINE b == sched_kill_task(Now, p, sig)
             longer == Append(tasks[p].pending, sig)
             u == [tasks[p] EXCEPT !.pending = longer]
             procs == [q \in Pid |-> AsProcess(tasks[q])]
             P == procs[p]
             table == [procs EXCEPT ![p].queue = Append(@, sig)]
  <1>1. /\ tasks \in [Pid -> Task] /\ current_task \in Pid /\ tasks[p] \in Task
        /\ Now.tasks = tasks
    BY DEF SchedInv, TypeOK, Now
  <1>2. CASE Len(tasks[p].pending) >= TASK_SIG_CAP - 1
    <2>1. b.tasks = tasks
      BY <1>1, <1>2 DEF sched_kill_task
    <2> QED BY <2>1, ObeyStep
  <1>3. CASE ~(Len(tasks[p].pending) >= TASK_SIG_CAP - 1)
    <2>1. b.tasks = [tasks EXCEPT ![p] = u]
      BY <1>1, <1>3 DEF sched_kill_task, Now
    <2>2. P = [state |-> StateOf(tasks[p]), queue |-> tasks[p].pending, uid |-> tasks[p].uid]
      BY <1>1, AsProcessIs
    <2>3. u.dead = tasks[p].dead /\ u.paused = tasks[p].paused /\ u.uid = tasks[p].uid
          /\ u.pending = longer
      BY <1>1 DEF Task
    <2> HIDE DEF P, b, u, longer
    <2>4. AsProcess(u) = [state |-> StateOf(tasks[p]), queue |-> longer, uid |-> tasks[p].uid]
      BY <2>3, Zenon DEF AsProcess, StateOf
    <2>5. AsProcess(u) = [P EXCEPT !.queue = longer]
      BY <2>2, <2>4
    <2>6. P.queue = tasks[p].pending
      BY <2>2
    <2>7. table = [procs EXCEPT ![p] = [P EXCEPT !.queue = longer]]
      BY <2>6 DEF P, longer
    <2> HIDE DEF table
    <2>8. \A q \in Pid : table[q] = AsProcess(b.tasks[q])
      BY <1>1, <2>1, <2>5, <2>7
    <2>9. Promise!Settles(table)
      BY <2>8, SettlesAs DEF b
    <2>10. /\ OnProcessor = current_task /\ OnProcessor # KERNEL
           /\ procs[OnProcessor].uid \in {0, procs[p].uid}
           /\ procs[p].state # "dead" /\ Len(procs[p].queue) < TASK_SIG_CAP - 1
      <3>1. OnProcessor = current_task /\ OnProcessor # KERNEL
        BY <1>1 DEF OnProcessor, Pid, KERNEL
      <3>2. P.state # "dead" /\ P.uid = tasks[p].uid /\ P.queue = tasks[p].pending
        BY <2>2 DEF StateOf
      <3>3. procs[current_task].uid = tasks[current_task].uid
        BY <1>1, AsProcessIs
      <3>4. Len(tasks[p].pending) < TASK_SIG_CAP - 1
        <4>1. tasks[p].pending \in Seq(Sig)
          BY <1>1 DEF Task
        <4>2. Len(tasks[p].pending) \in Nat
          BY <4>1, LenProperties
        <4> QED BY <4>2, <1>3, TableAssumption
      <3> QED BY <3>1, <3>2, <3>3, <3>4 DEF P
    <2>11. Promise!Signal(p, sig)
      BY <2>9, <2>10 DEF Promise!Signal, table
    <2> QED BY <2>11 DEF Promise!Next
  <1> QED BY <1>2, <1>3

(* A trap posts to the current task, and it is switched out. *)
LEMMA TrapStep ==
  ASSUME SchedInv, SchedInv', is_tasking_avaliable, halt = "none", NEW sig \in Posted,
         tasks' = sched_next_task(sched_kill_task(Now, current_task, sig)).tasks
  PROVE  Promise!Next
  <1> DEFINE b == sched_kill_task(Now, current_task, sig)
  <1>1. current_task \in Pid /\ ~tasks[current_task].dead /\ Busy(Now)
    BY InvOfNow DEF SchedInv, TypeOK, CurrentRunnable, Runnable
  <1>2. Busy(b)
    BY <1>1, PostedIsSig, PostKeepsBusy
  <1> HIDE DEF b
  <1>3. \A q \in Pid : AsProcess(tasks'[q]) \in Promise!Obeyed(AsProcess(b.tasks[q]))
    BY <1>2, SwitchObeys DEF b
  <1> QED BY <1>1, <1>3, SignalStep DEF b

LEMMA ExitStep ==
  ASSUME SchedInv, SchedInv', SysExit
  PROVE  Promise!Next
  <1> DEFINE c == current_task
             b == [Now EXCEPT !.tasks[c].dead = TRUE]
             u == [tasks[c] EXCEPT !.dead = TRUE]
             procs == [q \in Pid |-> AsProcess(tasks[q])]
             P == procs[c]
             table == [procs EXCEPT ![c].state = "dead"]
  <1>1. /\ c \in Pid /\ tasks \in [Pid -> Task] /\ tasks[c] \in Task /\ Now.tasks = tasks
        /\ Now.current = c /\ Busy(Now) /\ OnProcessor = c /\ c # KERNEL
    <2>1. Running /\ Busy(Now)
      BY InvOfNow DEF SysExit
    <2>2. c \in Pid /\ tasks \in [Pid -> Task]
      BY DEF SchedInv, TypeOK
    <2>3. OnProcessor = c /\ c # KERNEL
      BY <2>1, <2>2 DEF Running, OnProcessor, Pid, KERNEL
    <2>4. Now.tasks = tasks /\ Now.current = c
      BY DEF Now
    <2> QED BY <2>1, <2>2, <2>3, <2>4
  <1>2. CASE c = INIT
    <2>1. tasks' = tasks
      BY <1>2 DEF SysExit, Become, Panic, Now
    <2> QED BY <2>1, SameTableObeys
  <1>3. CASE c # INIT
    <2>1. tasks' = sched_next_task(b).tasks
      BY <1>3 DEF SysExit, Become
    <2>2. u \in Task /\ u.dead /\ u.pending = tasks[c].pending /\ u.uid = tasks[c].uid
          /\ u.regs = tasks[c].regs
      BY <1>1 DEF Task
    <2>3. b = [Now EXCEPT !.tasks = [tasks EXCEPT ![c] = u]]
      BY <1>1 DEF Now
    <2>4. AsProcess(u) = [state |-> "dead", queue |-> tasks[c].pending, uid |-> tasks[c].uid]
      <3> HIDE DEF u
      <3>1. StateOf(u) = "dead"
        BY <2>2 DEF StateOf
      <3> QED BY <2>2, <3>1, AsProcessIs
    <2>5. P = [state |-> StateOf(tasks[c]), queue |-> tasks[c].pending, uid |-> tasks[c].uid]
      BY <1>1, AsProcessIs
    <2> HIDE DEF b, u, P
    <2>6. AsProcess(u) = [P EXCEPT !.state = "dead"]
      BY <2>4, <2>5
    <2>7. /\ b \in Machine /\ b.current = c /\ b.cpu = cpu /\ b.halt = halt
          /\ b.tasks = [tasks EXCEPT ![c] = u]
      BY <1>1, <2>2, <2>3 DEF Busy, Machine, Now
    <2>8. TableOK(b.tasks)
      <3>1. \A q \in Pid : Len(b.tasks[q].pending) < TASK_SIG_CAP
        BY <1>1, <2>2, <2>7 DEF Busy, TableOK
      <3>2. ~b.tasks[INIT].dead
        BY <1>1, <1>3, <2>7, InitIsPid DEF Busy, TableOK
      <3>3. \A q \in Pid : ~b.tasks[q].dead => b.tasks[q].regs \in {q, KERNEL}
        BY <1>1, <2>2, <2>7 DEF Busy, TableOK
      <3> QED BY <2>7, <3>1, <3>2, <3>3 DEF TableOK, Machine
    <2>9. Busy(b)
      BY <1>1, <2>7, <2>8 DEF Busy, Now
    <2>10. table = [procs EXCEPT ![c] = [P EXCEPT !.state = "dead"]]
      BY DEF P
    <2> HIDE DEF table
    <2>11. \A q \in Pid : table[q] = AsProcess(b.tasks[q])
      BY <1>1, <2>6, <2>7, <2>10
    <2>12. \A q \in Pid : AsProcess(tasks'[q]) \in Promise!Obeyed(table[q])
      BY <2>1, <2>9, <2>11, SwitchObeys
    <2>13. Promise!Settles(table)
      BY <2>12, SettlesAs
    <2>14. Promise!Exit
      BY <1>1, <2>13 DEF Promise!Exit, table
    <2> QED BY <2>14 DEF Promise!Next
  <1> QED BY <1>2, <1>3

LEMMA SetuidStep ==
  ASSUME SchedInv, SchedInv', NEW id \in Uids, SysSetuid(id)
  PROVE  Promise!Next
  <1> DEFINE c == current_task
             u == [tasks[c] EXCEPT !.uid = id]
             procs == [q \in Pid |-> AsProcess(tasks[q])]
             P == procs[c]
             table == [procs EXCEPT ![c].uid = id]
  <1>1. /\ c \in Pid /\ tasks \in [Pid -> Task] /\ tasks[c] \in Task
        /\ OnProcessor = c /\ c # KERNEL /\ tasks[c].uid = 0
    BY DEF SchedInv, TypeOK, SysSetuid, Running, OnProcessor, Pid, KERNEL
  <1>2. tasks' = [tasks EXCEPT ![c] = u]
    BY DEF SysSetuid, Become, Now
  <1>3. u \in Task /\ u.dead = tasks[c].dead /\ u.paused = tasks[c].paused /\ u.uid = id
        /\ u.pending = tasks[c].pending
    BY <1>1 DEF Task
  <1>4. P = [state |-> StateOf(tasks[c]), queue |-> tasks[c].pending, uid |-> tasks[c].uid]
    BY <1>1, AsProcessIs
  <1> HIDE DEF u, P
  <1>5. AsProcess(u) = [state |-> StateOf(tasks[c]), queue |-> tasks[c].pending, uid |-> id]
    BY <1>3, Zenon DEF AsProcess, StateOf
  <1>6. AsProcess(u) = [P EXCEPT !.uid = id] /\ P.uid = 0
    BY <1>1, <1>4, <1>5
  <1>7. table = [procs EXCEPT ![c] = [P EXCEPT !.uid = id]]
    BY DEF P
  <1> HIDE DEF table
  <1>8. \A q \in Pid : table[q] = AsProcess(tasks'[q]) /\ tasks'[q] \in Task
    BY <1>1, <1>2, <1>3, <1>6, <1>7
  <1>9. \A q \in Pid : AsProcess(tasks'[q]) \in Promise!Obeyed(table[q])
    BY <1>8, StandsObeyed
  <1>10. Promise!SetUid(id)
    <2>1. Promise!Settles(table)
      BY <1>9, SettlesAs
    <2> QED BY <1>1, <1>6, <2>1 DEF Promise!SetUid, table, P
  <1> QED BY <1>10 DEF Promise!Next

LEMMA SpawnStep ==
  ASSUME SchedInv, SchedInv', Spawn
  PROVE  Promise!Next
  <1> DEFINE n == sched_make_task(Now, FALSE)
             procs == [q \in Pid |-> AsProcess(tasks[q])]
  <1>1. /\ tasks \in [Pid -> Task] /\ Now.tasks = tasks
        /\ OnProcessor # KERNEL /\ tasks' = n.tasks
    BY DEF Now, SchedInv, TypeOK, Spawn, Running, OnProcessor, Become, Pid, KERNEL
  <1>2. CASE DeadSlots(tasks) = {}
    BY <1>1, <1>2, SameTableObeys DEF sched_make_task
  <1>3. CASE DeadSlots(tasks) # {}
    <2> DEFINE q == Min(DeadSlots(tasks))
               table == [procs EXCEPT ![q] = Promise!Fresh]
    <2>1. q \in Pid /\ tasks[q].dead
      BY <1>3, NatMin DEF DeadSlots, Pid
    <2>2. n = [Now EXCEPT !.tasks = [tasks EXCEPT ![q] = NewTask(q, FALSE)]]
      BY <1>1, <1>3 DEF sched_make_task, Now
    <2> HIDE DEF n, q
    <2>3. tasks' = [tasks EXCEPT ![q] = NewTask(q, FALSE)]
      BY <1>1, <2>2 DEF Now
    <2>4. AsProcess(NewTask(q, FALSE)) = Promise!Fresh
      BY DEF AsProcess, NewTask, Promise!Fresh
    <2>5. tasks' \in [Pid -> Task]
      BY DEF SchedInv, TypeOK
    <2>6. \A p \in Pid : table[p] = AsProcess(tasks'[p])
      BY <1>1, <2>1, <2>3, <2>4
    <2>7. \A p \in Pid : AsProcess(tasks'[p]) \in Promise!Obeyed(table[p])
      BY <2>5, <2>6, StandsObeyed
    <2>8. procs[q].state = "dead"
      BY <2>1 DEF AsProcess
    <2>9. Promise!Settles(table)
      BY <2>7, SettlesAs
    <2>10. Promise!Start(q)
      BY <1>1, <2>8, <2>9 DEF Promise!Start
    <2> QED BY <2>1, <2>10 DEF Promise!Next
  <1> QED BY <1>2, <1>3

LEMMA InitPromised == Init => Promise!Init
  <1> SUFFICES ASSUME Init PROVE Promise!Init
    OBVIOUS
  <1>1. \A p \in Pid : AsProcess(tasks[p]) \in {Promise!Fresh, Promise!Unused}
    <2> SUFFICES ASSUME NEW p \in Pid
                 PROVE  AsProcess(tasks[p]) \in {Promise!Fresh, Promise!Unused}
      OBVIOUS
    <2>1. CASE p < Len(BootYieldOnly)
      <3>1. tasks[p] = NewTask(p, BootYieldOnly[p + 1])
        BY <2>1 DEF Init
      <3> QED BY <3>1 DEF AsProcess, NewTask, Promise!Fresh
    <2>2. CASE ~(p < Len(BootYieldOnly))
      <3>1. tasks[p] = NoTask
        BY <2>2 DEF Init
      <3>2. NoTask.dead /\ NoTask.pending = <<>> /\ NoTask.uid = 0
        BY DEF NoTask, NewTask
      <3> QED BY <3>1, <3>2 DEF AsProcess, Promise!Unused
    <2> QED BY <2>1, <2>2
  <1>2. OnProcessor = KERNEL
    BY DEF Init, OnProcessor
  <1> QED BY <1>1, <1>2 DEF Promise!Init

LEMMA NextPromised ==
  SchedInv /\ SchedInv' /\ [Next]_vars =>
    [Promise!Next]_<<[p \in Pid |-> AsProcess(tasks[p])], OnProcessor>>
  <1> SUFFICES ASSUME SchedInv, SchedInv', [Next]_vars
               PROVE  [Promise!Next]_<<[p \in Pid |-> AsProcess(tasks[p])], OnProcessor>>
    OBVIOUS
  <1>1. CASE Setup
    BY <1>1, SameTableObeys DEF Setup
  <1>2. CASE BootTrap \/ SysUnknown \/ FatalTrap
    <2>1. PICK why : Become(Panic(Now, why))
      BY <1>2 DEF BootTrap, SysUnknown, FatalTrap
    <2>2. Panic(Now, why).tasks = tasks
      BY DEF Panic, Now
    <2>3. tasks' = tasks
      BY <2>1, <2>2 DEF Become
    <2> QED BY <2>3, SameTableObeys
  <1>3. CASE Timer \/ SysYield
    <2>1. Busy(Now) /\ tasks' = sched_next_task(Now).tasks /\ Now.tasks = tasks
      BY <1>3, InvOfNow DEF Timer, SysYield, Become, Now
    <2>2. \A p \in Pid : AsProcess(tasks'[p]) \in Promise!Obeyed(AsProcess(tasks[p]))
      BY <2>1, SwitchObeys
    <2> QED BY <2>2, ObeyStep
  <1>4. CASE SysExit
    BY <1>4, ExitStep
  <1>5. ASSUME NEW id \in Uids, SysSetuid(id) PROVE Promise!Next
    BY <1>5, SetuidStep
  <1>6. ASSUME NEW id \in Gids, SysSetgid(id) PROVE Promise!Next
    <2> DEFINE c == current_task
               u == [tasks[c] EXCEPT !.gid = id]
    <2>1. c \in Pid /\ tasks \in [Pid -> Task] /\ tasks' = [tasks EXCEPT ![c] = u]
      BY <1>6 DEF SysSetgid, Become, Now, SchedInv, TypeOK
    <2>2. u.dead = tasks[c].dead /\ u.paused = tasks[c].paused /\ u.uid = tasks[c].uid
          /\ u.pending = tasks[c].pending
      BY <2>1 DEF Task
    <2> HIDE DEF u
    <2>3. AsProcess(u) = AsProcess(tasks[c])
      BY <2>2, Zenon DEF AsProcess
    <2>4. \A p \in Pid : AsProcess(tasks'[p]) = AsProcess(tasks[p])
      BY <2>1, <2>3
    <2> QED BY <2>4, SameTableObeys
  <1>7. ASSUME NEW p \in Pid, NEW sig \in KillSigs, SysKill(p, sig) PROVE Promise!Next
    <2>1. /\ is_tasking_avaliable /\ halt = "none" /\ sig \in Posted
          /\ ~tasks[p].dead /\ tasks[current_task].uid \in {0, tasks[p].uid}
          /\ tasks' = sched_kill_task(Now, p, sig).tasks
      BY <1>7 DEF SysKill, Running, Become, Posted
    <2>2. tasks' \in [Pid -> Task]
      BY DEF SchedInv, TypeOK
    <2>3. \A q \in Pid : AsProcess(tasks'[q]) \in
                           Promise!Obeyed(AsProcess(sched_kill_task(Now, p, sig).tasks[q]))
      BY <2>1, <2>2, StandsObeyed
    <2> QED BY <2>1, <2>3, SignalStep
  <1>8. CASE SysSetupAgain \/ KernelUd2 \/ \E sig \in TrapSigs : ErrorTrap(sig)
    <2>1. PICK sig \in Posted :
            /\ is_tasking_avaliable /\ halt = "none"
            /\ Become(sched_next_task(sched_kill_task(Now, current_task, sig)))
      BY <1>8 DEF SysSetupAgain, KernelUd2, ErrorTrap, Running, Posted
    <2> QED BY <2>1, TrapStep DEF Become
  <1>9. CASE DivideError
    <2> DEFINE b == sched_kill_task(Now, current_task, SIGFPE)
               m == sched_next_task(b)
    <2>1. SIGFPE \in Posted /\ is_tasking_avaliable /\ halt = "none"
      BY <1>9 DEF DivideError, Running, Posted
    <2>2. m \in Machine
      <3>1. Busy(b)
        BY <2>1, InvOfNow, PostedIsSig, PostKeepsBusy DEF SchedInv, TypeOK
      <3> QED BY <3>1, SwitchSettles DEF Settled
    <2>3. \/ Become(IF m.halt = "none" THEN [m EXCEPT !.cpu = KERNEL] ELSE m)
          \/ Become(IF m.halt = "none" THEN Panic(m, "NMI") ELSE m)
      BY <1>9 DEF DivideError
    <2> HIDE DEF m
    <2>4. [m EXCEPT !.cpu = KERNEL].tasks = m.tasks /\ Panic(m, "NMI").tasks = m.tasks
      BY <2>2 DEF Machine, Panic
    <2>5. tasks' = m.tasks
      BY <2>3, <2>4 DEF Become
    <2> QED BY <2>1, <2>5, TrapStep DEF m
  <1>10. CASE Spawn
    BY <1>10, SpawnStep
  <1>11. CASE UNCHANGED vars
    BY <1>11 DEF vars, OnProcessor
  <1> QED BY <1>1, <1>2, <1>3, <1>4, <1>5, <1>6, <1>7, <1>8, <1>9, <1>10, <1>11 DEF Next

(***************************************************************************)
(* Whatever the table's size, the rings' and the ids, every handler of the *)
(* kernel is a step of Procs: a process obeys its signals in the order in  *)
(* which they were posted, each once, and is stopped, woken or killed by   *)
(* nothing else; a stopped or dead one never has the processor.            *)
(***************************************************************************)
THEOREM SchedImplementsProcs == Spec => ImplementsProcs
  <1> QED BY InitPromised, NextPromised, SchedInvHolds, PTL DEF Spec, ImplementsProcs,
             Promise!Spec
=============================================================================
