--------------------------- MODULE IntFrameProofs ---------------------------
(***************************************************************************)
(* For any number of tasks, stacks that hold two frames and handlers with  *)
(* locals of any size: the invariants of IntFrame.  All but the borders of *)
(* the stacks is arithmetic; Standing says which words of each are a frame *)
(* somebody still needs.                                                   *)
(***************************************************************************)
EXTENDS IntFrame, TLAPS

(* The words a task and its handlers use. *)
High(p) == StackTop(p) + IRET
Low(p) == High(p) - 2 * FRAME - LOCALS - 1

(* The frame of a handler entered from the program. *)
HandlerFrame(p) == High(p) - FRAME

USE FrameAssumption DEF FRAME, IRET

LEMMA StackTopIsInt ==
  ASSUME NEW p \in Pid
  PROVE  /\ StackTop(p) \in Int /\ StackTop(p) >= TASK_STACK_CAP
         /\ High(p) \in Int /\ Low(p) \in Int /\ HandlerFrame(p) \in Int
         /\ Low(p) > 0
  <1>1. p \in Nat
    BY DEF Pid
  <1>2. TASK_STACK_CAP * (p + 1) = TASK_STACK_CAP * p + TASK_STACK_CAP
        /\ TASK_STACK_CAP * p \in Nat
    BY <1>1
  <1> QED BY <1>1, <1>2 DEF StackTop, High, Low, HandlerFrame

(* The stacks of two slots do not meet. *)
LEMMA StacksApart ==
  ASSUME NEW p \in Pid, NEW q \in Pid, p # q
  PROVE  High(p) <= Low(q) \/ High(q) <= Low(p)
  <1>1. ASSUME NEW a \in Pid, NEW b \in Pid, a < b PROVE High(a) <= Low(b)
    <2>1. PICK k \in Nat : b = a + 1 + k
      BY <1>1, b = a + 1 + (b - a - 1) DEF Pid
    <2>2. /\ TASK_STACK_CAP * (b + 1) = TASK_STACK_CAP * (a + 1) + TASK_STACK_CAP + TASK_STACK_CAP * k
          /\ TASK_STACK_CAP * k \in Nat /\ TASK_STACK_CAP * (a + 1) \in Nat
      BY <2>1 DEF Pid
    <2> QED BY <2>2 DEF High, Low, StackTop
  <1> QED BY <1>1 DEF Pid

(* A frame outside the words that are written stands. *)
LEMMA SpillKeeps ==
  ASSUME NEW m, NEW a, NEW b, NEW g \in DOMAIN m, g + FRAME <= a \/ b <= g
  PROVE  g \in DOMAIN Spill(m, a, b) /\ Spill(m, a, b)[g] = m[g]
  BY DEF Spill

LEMMA StoreKeeps ==
  ASSUME NEW m, NEW f \in Int, NEW r
  PROVE  /\ f \in DOMAIN Store(m, f, r) /\ Store(m, f, r)[f] = r
         /\ Store(m, f, r) = [g \in DOMAIN Store(m, f, r) |-> Store(m, f, r)[g]]
         /\ \A g \in DOMAIN m \cap Int : g + FRAME <= f \/ f + FRAME <= g =>
              g \in DOMAIN Store(m, f, r) /\ Store(m, f, r)[g] = m[g]
  BY DEF Store, Spill
-----------------------------------------------------------------------------
Placenames == {"user", "body", "back", "ud2", "stuck", "wild"}
RegisterSet == [who : Int, esp : Int, at : Placenames, frame : Int]

(* The program of p as a handler's frame keeps it, and as the debugger may *)
(* have made it.                                                           *)
Program(p) == Registers(p, StackTop(p), "user", NoFrame)
Strayed(p) == Registers(p, StackTop(p), "wild", NoFrame)

(***************************************************************************)
(* What registers on the stack of p are when its program would go on at    *)
(* depth top: its program's, or a handler's one frame and its locals       *)
(* below, or one frame below at the ud2.  Of a task led astray only the    *)
(* depth is known.                                                         *)
(***************************************************************************)
Level(r, p, top) ==
  /\ r \in RegisterSet /\ r.who = p
  /\ r.at = "user" => r.esp = top /\ r.frame = NoFrame
  /\ InHandler(r) => r.esp = top - FRAME - LOCALS /\ r.frame = HandlerFrame(p)
  /\ r.at \in {"ud2", "stuck"} => r.esp = top - FRAME
  /\ top - FRAME - LOCALS - 1 <= r.esp /\ r.esp <= top

(* A task that is in a handler finds its program in the frame there. *)
Standing(p, r, m, led) ==
  InHandler(r) => /\ HandlerFrame(p) \in DOMAIN m
                  /\ \/ m[HandlerFrame(p)] = Program(p)
                     \/ m[HandlerFrame(p)] = Strayed(p) /\ p \in led

(* What the table says of a task that waits for the processor. *)
Settled(p, r, struck, outlived, led) ==
  /\ r.who \in Pid /\ Level(r, r.who, StackTop(r.who))
  /\ r.who = p \/ (r.at = "stuck" /\ p \in outlived)
  /\ r.at # "ud2"
  /\ r.at = "stuck" => p \in outlived
  /\ r.at = "back" => p \in struck
  /\ p \in struck => r.at \in {"back", "wild", "stuck"}
  /\ r.at = "wild" => p \in outlived \union led

Waits(p, r, struck, outlived, led, m) ==
  Settled(p, r, struck, outlived, led) /\ Standing(p, r, m, led)

Waiting(p) == Waits(p, regs[p], hit, spared, diverted, mem)

(* The task on the processor. *)
OnProcessor ==
  /\ cpu \in RegisterSet /\ cpu.who \in Pid
  /\ cpu.who = current \/ cpu.at \in {"ud2", "stuck"}
  /\ cpu.at # "wild" => /\ Level(cpu, cpu.who, High(cpu.who))
                       /\ Standing(current, cpu, mem, diverted)
  /\ cpu.at = "back" => (esp_stack_ptr = cpu.frame <=> current \notin hit)
  /\ cpu.at = "stuck" => current \in spared
  /\ cpu.at = "wild" => current \in hit \union spared \union diverted
  /\ current \in hit => cpu.at \notin {"user", "body"}

(* kernel_start, before tasking. *)
BeforeTasking ==
  /\ cpu \in RegisterSet /\ cpu.who = KERNEL /\ cpu.esp = -TASK_STACK_CAP /\ cpu.at = "user"
  /\ current = INIT /\ hit = {} /\ spared = {}
  /\ \A p \in alive : regs[p] = Fresh(p)

FrameInv ==
  /\ alive \subseteq Pid /\ current \in alive
  /\ regs = [p \in Pid |-> regs[p]]
  /\ \A p \in alive \ {current} : Waiting(p)
  /\ IF cpu.who = KERNEL THEN BeforeTasking ELSE OnProcessor
-----------------------------------------------------------------------------
(* What INT_START saves of a task at depth esp, and where. *)
SavedAt(code) ==
  IF code # 0 THEN "wild" ELSE IF cpu.at = "ud2" THEN "stuck" ELSE cpu.at
Saved(code) == [who |-> cpu.who, esp |-> cpu.esp - code - IRET,
                at |-> SavedAt(code), frame |-> cpu.frame]
FrameAt(code) == cpu.esp - code - FRAME

(* The machines with these fields: one. *)
MachineOf(c, k, l, r, m, p, f) ==
  [cpu : {c}, current : {k}, alive : {l}, regs : {r}, mem : {m}, ptr : {p}, frame : {f}]

LEMMA SavedIsRegisters ==
  ASSUME cpu \in RegisterSet, NEW code \in {0, 1}
  PROVE  /\ Saved(code) \in RegisterSet /\ FrameAt(code) \in Int
         /\ [cpu EXCEPT !.esp = @ - code - IRET,
                        !.at = IF code # 0 THEN "wild" ELSE IF @ = "ud2" THEN "stuck" ELSE @]
              = Saved(code)
  <1>1. /\ cpu.esp - code - IRET \in Int /\ FrameAt(code) \in Int
        /\ SavedAt(code) \in Placenames
    BY DEF RegisterSet, FrameAt, SavedAt, Placenames
  <1>2. Saved(code) \in RegisterSet
    BY <1>1 DEF Saved, RegisterSet
  <1> DEFINE x == [cpu EXCEPT !.esp = @ - code - IRET, !.at = SavedAt(code)]
  <1>3. x \in RegisterSet
    BY <1>1 DEF RegisterSet
  <1>4. x.who = Saved(code).who /\ x.esp = Saved(code).esp /\ x.at = Saved(code).at
        /\ x.frame = Saved(code).frame
    BY DEF RegisterSet, Saved
  <1>5. x = [cpu EXCEPT !.esp = @ - code - IRET,
                        !.at = IF code # 0 THEN "wild" ELSE IF @ = "ud2" THEN "stuck" ELSE @]
    BY DEF SavedAt, RegisterSet
  <1> HIDE DEF x
  <1>6. x = Saved(code)
    BY <1>2, <1>3, <1>4 DEF RegisterSet
  <1> QED BY <1>1, <1>2, <1>5, <1>6

LEMMA IntStart ==
  ASSUME cpu \in RegisterSet, NEW code \in {0, 1}
  PROVE  INT_START(Now, code) \in
           MachineOf(cpu, current, alive, regs, Store(mem, FrameAt(code), Saved(code)),
                     FrameAt(code), FrameAt(code))
  <1> DEFINE f == FrameAt(code)
             m0 == Store(mem, f, Saved(code))
  <1>1. INT_START(Now, code) = [Now EXCEPT !.mem = m0, !.ptr = f, !.frame = f]
    BY SavedIsRegisters DEF INT_START, Now, FrameAt
  <1> HIDE DEF m0, f
  <1>2. Now \in [cpu : {cpu}, current : {current}, alive : {alive}, regs : {regs},
                 mem : {mem}, ptr : {esp_stack_ptr}, frame : {NoFrame}]
    BY DEF Now
  <1>3. INT_START(Now, code) \in MachineOf(cpu, current, alive, regs, m0, f, f)
    BY <1>1, <1>2 DEF MachineOf
  <1> QED BY <1>3 DEF m0, f

(* The frame is in memory, and so is every frame outside it. *)
LEMMA IntEnd ==
  ASSUME NEW c, NEW k, NEW l, NEW r, NEW m, NEW f, f \in DOMAIN m, m[f] \in RegisterSet,
         NEW x \in MachineOf(c, k, l, r, m, f, f)
  PROVE  LET sp == m[f].esp + IRET
         IN INT_END(x) \in MachineOf([m[f] EXCEPT !.esp = sp], k, l, r,
                             Spill(Spill(m, f, f + FRAME), sp - IRET, sp), sp, f)
  <1> DEFINE sp == m[f].esp + IRET
  <1>1. x.mem = m /\ x.frame = f /\ x.ptr = f
    BY DEF MachineOf
  <1>2. INT_END(x) = [x EXCEPT !.cpu = [m[f] EXCEPT !.esp = sp], !.ptr = sp,
                        !.mem = Spill(Spill(m, f, f + FRAME), sp - IRET, sp)]
    BY <1>1 DEF INT_END, MachineOf
  <1> HIDE DEF sp
  <1>3. INT_END(x) \in MachineOf([m[f] EXCEPT !.esp = sp], k, l, r,
                         Spill(Spill(m, f, f + FRAME), sp - IRET, sp), sp, f)
    BY <1>2 DEF MachineOf
  <1> QED BY <1>3 DEF sp

LEMMA BecomeOf ==
  ASSUME NEW c, NEW k, NEW l, NEW r, NEW m, NEW p, NEW f,
         NEW x \in MachineOf(c, k, l, r, m, p, f), Become(x)
  PROVE  cpu' = c /\ current' = k /\ alive' = l /\ regs' = r /\ mem' = m /\ esp_stack_ptr' = p
  BY DEF Become, MachineOf

(* An interrupt that does not switch leaves the registers as they were,    *)
(* the global at their depth, and every frame but its own.                 *)
LEMMA InterruptOutcome ==
  ASSUME cpu \in RegisterSet, cpu.at # "ud2", Become(INT_END(INT_START(Now, 0)))
  PROVE  /\ cpu' = cpu /\ esp_stack_ptr' = cpu.esp
         /\ current' = current /\ alive' = alive /\ regs' = regs
         /\ \A g \in DOMAIN mem \cap Int :
              g + FRAME <= cpu.esp - FRAME \/ cpu.esp <= g =>
                g \in DOMAIN mem' /\ mem'[g] = mem[g]
  <1> DEFINE f == FrameAt(0)
             m0 == Store(mem, f, Saved(0))
             x == INT_START(Now, 0)
             sp == Saved(0).esp + IRET
  <1>1. x \in MachineOf(cpu, current, alive, regs, m0, f, f)
    BY IntStart
  <1>2. f \in DOMAIN m0 /\ m0[f] = Saved(0) /\ f \in Int /\ Saved(0) \in RegisterSet
    <2>1. f \in Int /\ Saved(0) \in RegisterSet
      BY SavedIsRegisters
    <2> HIDE DEF f
    <2> QED BY <2>1, StoreKeeps
  <1>3. sp = cpu.esp /\ [Saved(0) EXCEPT !.esp = sp] = cpu
    <2> DEFINE y == [Saved(0) EXCEPT !.esp = sp]
    <2>1. sp = cpu.esp /\ Saved(0).who = cpu.who /\ Saved(0).at = cpu.at
          /\ Saved(0).frame = cpu.frame
      BY DEF Saved, SavedAt, RegisterSet
    <2>2. y \in RegisterSet /\ y.who = cpu.who /\ y.esp = cpu.esp /\ y.at = cpu.at
          /\ y.frame = cpu.frame
      BY <1>2, <2>1 DEF RegisterSet
    <2> HIDE DEF y
    <2>3. y = cpu
      BY <2>2 DEF RegisterSet
    <2> QED BY <2>1, <2>3 DEF y
  <1> HIDE DEF x, m0, f, sp
  <1>4. INT_END(x) \in MachineOf(cpu, current, alive, regs,
                         Spill(Spill(m0, f, f + FRAME), sp - IRET, sp), sp, f)
    BY <1>1, <1>2, <1>3, IntEnd DEF sp
  <1>5. /\ cpu' = cpu /\ current' = current /\ alive' = alive /\ regs' = regs
        /\ esp_stack_ptr' = sp
        /\ mem' = Spill(Spill(m0, f, f + FRAME), sp - IRET, sp)
    BY <1>4, BecomeOf DEF x
  <1>6. ASSUME NEW g \in DOMAIN mem \cap Int, g + FRAME <= cpu.esp - FRAME \/ cpu.esp <= g
        PROVE  g \in DOMAIN mem' /\ mem'[g] = mem[g]
    <2>1. /\ g + FRAME <= f \/ f + FRAME <= g
          /\ g + FRAME <= sp - IRET \/ sp <= g
      BY <1>3, <1>6 DEF f, FrameAt, RegisterSet
    <2>2. g \in DOMAIN m0 /\ m0[g] = mem[g]
      BY <1>2, <2>1, StoreKeeps DEF m0
    <2>3. g \in DOMAIN Spill(m0, f, f + FRAME) /\ Spill(m0, f, f + FRAME)[g] = mem[g]
      BY <2>1, <2>2, SpillKeeps
    <2> QED BY <1>5, <2>1, <2>3, SpillKeeps
  <1> QED BY <1>3, <1>5, <1>6

(* A switch with the table t: the interrupted registers go there, and the  *)
(* frame gets those of the next task.                                      *)
LEMMA SwitchedMachine ==
  ASSUME cpu \in RegisterSet, current \in Pid, NEW t, t = [p \in Pid |-> t[p]],
         NEW code \in {0, 1}, NEW living, NEW next \in Pid,
         NEW n, n = IF next = current THEN Saved(code) ELSE t[next]
  PROVE  LET f == FrameAt(code)
         IN SwitchTo([INT_START(Now, code) EXCEPT !.regs = t], living, next) \in
              MachineOf(cpu, next, living, [t EXCEPT ![current] = Saved(code)],
                        [Store(mem, f, Saved(code)) EXCEPT ![f] = n], f, f)
  <1> DEFINE table == [t EXCEPT ![current] = Saved(code)]
             f == FrameAt(code)
             m0 == Store(mem, f, Saved(code))
             m1 == [m0 EXCEPT ![f] = n]
             s == INT_START(Now, code)
             x == [s EXCEPT !.regs = t]
             y == SwitchTo(x, living, next)
  <1>1. s \in MachineOf(cpu, current, alive, regs, m0, f, f)
    BY IntStart
  <1>2. f \in DOMAIN m0 /\ m0[f] = Saved(code)
    <2>1. f \in Int
      BY SavedIsRegisters
    <2>2. PICK r : r = Saved(code)
      OBVIOUS
    <2> HIDE DEF f
    <2>3. f \in DOMAIN Store(mem, f, r) /\ Store(mem, f, r)[f] = r
      BY <2>1, StoreKeeps
    <2> QED BY <2>2, <2>3
  <1>3. table[next] = n
    OBVIOUS
  <1> HIDE DEF s, m0, f, table
  <1>4. x \in MachineOf(cpu, current, alive, t, m0, f, f)
    BY <1>1 DEF MachineOf
  <1> HIDE DEF x
  <1>5. x.mem = m0 /\ x.frame = f /\ x.regs = t /\ x.current = current
    BY <1>4 DEF MachineOf
  <1>6. [x.regs EXCEPT ![x.current] = x.mem[x.frame]] = table
    BY <1>2, <1>5 DEF table
  <1>7. y = [x EXCEPT !.regs = table, !.alive = living, !.current = next, !.mem = m1]
    BY <1>3, <1>4, <1>5, <1>6 DEF SwitchTo, MachineOf
  <1> HIDE DEF y, m1
  <1>8. y \in MachineOf(cpu, next, living, table, m1, f, f)
    BY <1>4, <1>7 DEF MachineOf
  <1> QED BY <1>8 DEF y, x, s, m1, m0, f, table

(* The words of a frame are written with other registers. *)
Rewritten(f, r, n) == [Store(mem, f, r) EXCEPT ![f] = n]

LEMMA FrameRewritten ==
  ASSUME NEW f \in Int, NEW r, NEW n, NEW m, m = Rewritten(f, r, n)
  PROVE  /\ f \in DOMAIN m /\ m[f] = n
         /\ \A g \in DOMAIN mem \cap Int : g + FRAME <= f \/ f + FRAME <= g =>
              g \in DOMAIN m /\ m[g] = mem[g]
  <1> DEFINE m0 == Store(mem, f, r)
             m1 == [m0 EXCEPT ![f] = n]
  <1>1. f \in DOMAIN m0
    BY StoreKeeps
  <1>0. m0 = [g \in DOMAIN m0 |-> m0[g]]
    BY Zenon DEF Store
  <1>2. \A g \in DOMAIN mem \cap Int : g + FRAME <= f \/ f + FRAME <= g =>
          g \in DOMAIN m0 /\ m0[g] = mem[g] /\ g # f
    BY StoreKeeps
  <1> HIDE DEF m0
  <1>3. f \in DOMAIN m1 /\ m1[f] = n
        /\ \A g \in DOMAIN m0 : g # f => g \in DOMAIN m1 /\ m1[g] = m0[g]
    BY <1>0, <1>1
  <1> HIDE DEF m1
  <1>4. \A g \in DOMAIN mem \cap Int : g + FRAME <= f \/ f + FRAME <= g =>
          g \in DOMAIN m1 /\ m1[g] = mem[g]
    BY <1>2, <1>3
  <1> QED BY <1>3, <1>4 DEF m1, m0, Rewritten

(***************************************************************************)
(* With the INT_END the next task goes on with its own registers, and only *)
(* the frame of the handler and the 12 bytes below the next task's depth   *)
(* are written.                                                            *)
(***************************************************************************)
(* The terms of its statement, each under one name. *)
IsTable(t) == t = [p \in Pid |-> t[p]]
Started(code, t) == [INT_START(Now, code) EXCEPT !.regs = t]
Stored(code, t) == [t EXCEPT ![current] = Saved(code)]
AtDepth(n, sp) == [n EXCEPT !.esp = sp]

LEMMA SwitchOutcome ==
  ASSUME cpu \in RegisterSet, current \in Pid, NEW t, IsTable(t),
         NEW code \in {0, 1}, NEW living, NEW next \in Pid,
         NEW n \in RegisterSet, n = IF next = current THEN Saved(code) ELSE t[next],
         NEW f, f = FrameAt(code), NEW sp, sp = n.esp + IRET,
         Become(INT_END(SwitchTo(Started(code, t), living, next)))
  PROVE  /\ cpu' = AtDepth(n, sp) /\ esp_stack_ptr' = sp
         /\ current' = next /\ alive' = living /\ regs' = Stored(code, t)
         /\ \A g \in DOMAIN mem \cap Int :
              /\ g + FRAME <= f \/ f + FRAME <= g
              /\ g + FRAME <= sp - IRET \/ sp <= g
              => g \in DOMAIN mem' /\ mem'[g] = mem[g]
  <1> DEFINE table == [t EXCEPT ![current] = Saved(code)]
             m1 == [Store(mem, f, Saved(code)) EXCEPT ![f] = n]
             x == [INT_START(Now, code) EXCEPT !.regs = t]
             y == SwitchTo(x, living, next)
  <1>1. y \in MachineOf(cpu, next, living, table, m1, f, f)
    BY SwitchedMachine DEF IsTable
  <1>2. f \in DOMAIN m1 /\ m1[f] = n
        /\ \A g \in DOMAIN mem \cap Int : g + FRAME <= f \/ f + FRAME <= g =>
             g \in DOMAIN m1 /\ m1[g] = mem[g]
    <2>1. f \in Int
      BY SavedIsRegisters
    <2>2. PICK r : r = Saved(code)
      OBVIOUS
    <2>3. m1 = Rewritten(f, r, n)
      BY <2>2 DEF m1, Rewritten
    <2> HIDE DEF m1
    <2> QED BY <2>1, <2>3, FrameRewritten
  <1> HIDE DEF y, m1, table
  <1>3. INT_END(y) \in MachineOf([n EXCEPT !.esp = sp], next, living, table,
                         Spill(Spill(m1, f, f + FRAME), sp - IRET, sp), sp, f)
    BY <1>1, <1>2, IntEnd
  <1>4. /\ cpu' = [n EXCEPT !.esp = sp] /\ esp_stack_ptr' = sp
        /\ current' = next /\ alive' = living /\ regs' = table
        /\ mem' = Spill(Spill(m1, f, f + FRAME), sp - IRET, sp)
    BY <1>3, BecomeOf DEF y, Started
  <1>5. ASSUME NEW g \in DOMAIN mem \cap Int,
               g + FRAME <= f \/ f + FRAME <= g, g + FRAME <= sp - IRET \/ sp <= g
        PROVE  g \in DOMAIN mem' /\ mem'[g] = mem[g]
    <2>1. g \in DOMAIN m1 /\ m1[g] = mem[g]
      BY <1>2, <1>5
    <2>2. g \in DOMAIN Spill(m1, f, f + FRAME) /\ Spill(m1, f, f + FRAME)[g] = mem[g]
      BY <1>5, <2>1, SpillKeeps
    <2> QED BY <1>4, <1>5, <2>2, SpillKeeps
  <1> QED BY <1>4, <1>5 DEF table, Stored, AtDepth
-----------------------------------------------------------------------------
LEMMA SavedIsLevel ==
  ASSUME NEW p \in Pid, Level(cpu, p, High(p)), cpu.at # "wild", NEW code \in {0, 1},
         code = 1 => cpu.at \in {"user", "body"}
  PROVE  Level(Saved(code), p, StackTop(p))
  <1>1. cpu \in RegisterSet /\ Saved(code) \in RegisterSet
    BY SavedIsRegisters DEF Level
  <1>2. /\ Saved(code).who = p /\ Saved(code).frame = cpu.frame
        /\ Saved(code).esp = cpu.esp - code - IRET
        /\ Saved(code).at = SavedAt(code)
    BY DEF Saved, Level
  <1>3. High(p) = StackTop(p) + IRET /\ StackTop(p) \in Int /\ cpu.esp \in Int
    BY <1>1, StackTopIsInt DEF High, RegisterSet
  <1>4. CASE code = 0
    <2>1. /\ Saved(code).at = IF cpu.at = "ud2" THEN "stuck" ELSE cpu.at
          /\ Saved(code).esp = cpu.esp - IRET
      BY <1>2, <1>3, <1>4 DEF SavedAt
    <2> QED BY <1>1, <1>2, <1>3, <2>1 DEF Level, InHandler
  <1>5. CASE code = 1
    <2>1. High(p) - FRAME - LOCALS <= cpu.esp /\ cpu.esp <= High(p)
      BY <1>3, <1>5 DEF Level, InHandler
    <2>2. Saved(code).at = "wild"
      BY <1>2, <1>5 DEF SavedAt
    <2> QED BY <1>1, <1>2, <1>3, <1>5, <2>1, <2>2 DEF Level, InHandler
  <1> QED BY <1>4, <1>5

(* A frame on the stack of p stands through what is written on others', or *)
(* below it on its own.                                                    *)
LEMMA FrameApart ==
  ASSUME NEW p \in Pid, NEW q \in Pid, NEW a \in Int, NEW b \in Int,
         Low(q) <= a, b <= High(q), q = p => b <= HandlerFrame(p)
  PROVE  HandlerFrame(p) + FRAME <= a \/ b <= HandlerFrame(p)
  <1>1. CASE q = p
    BY <1>1
  <1>2. CASE q # p
    <2>1. High(p) <= Low(q) \/ High(q) <= Low(p)
      BY <1>2, StacksApart
    <2>2. /\ High(p) \in Int /\ Low(p) \in Int /\ High(q) \in Int /\ Low(q) \in Int
          /\ HandlerFrame(p) \in Int
      BY StackTopIsInt
    <2>3. HandlerFrame(p) + FRAME = High(p) /\ Low(p) <= HandlerFrame(p)
      BY <2>2 DEF HandlerFrame, Low
    <2> QED BY <2>1, <2>2, <2>3
  <1> QED BY <1>1, <1>2

(* A task whose stack was written on. *)
LEMMA HurtSettled ==
  ASSUME NEW p \in Pid, NEW r, NEW struck, NEW outlived, NEW led,
         Settled(p, r, struck, outlived, led), r.who = p, p \in led
  PROVE  LET h == [r EXCEPT !.at = "wild"]
         IN Settled(p, h, struck, outlived, led) /\ ~InHandler(h)
  <1> DEFINE h == [r EXCEPT !.at = "wild"]
  <1>1. r \in RegisterSet
    BY DEF Settled, Level
  <1>2. h \in RegisterSet /\ h.who = p /\ h.esp = r.esp /\ h.at = "wild"
    BY <1>1 DEF RegisterSet, Placenames
  <1> HIDE DEF h
  <1>3. Level(h, h.who, StackTop(h.who))
    BY <1>2 DEF Settled, Level, InHandler
  <1>4. Settled(p, h, struck, outlived, led) /\ ~InHandler(h)
    BY <1>2, <1>3 DEF Settled, InHandler
  <1> QED BY <1>4 DEF h

(* The table may have lost tasks whose stacks were written on. *)
Hurt(t) ==
  \A p \in alive \ {current} :
    \/ t[p] = regs[p]
    \/ t[p] = [regs[p] EXCEPT !.at = "wild"] /\ regs[p].who = p /\ p \in diverted'

(***************************************************************************)
(* Of a handler that switches: what it records, and that the interrupted   *)
(* task, if it lives, has a place in the table.                            *)
(***************************************************************************)
Recorded(code, living) ==
  /\ cpu.who # KERNEL /\ cpu.at # "wild"
  /\ code = 1 => cpu.at \in {"user", "body"}
  /\ hit' = IF cpu.at = "back" THEN hit \union {current} ELSE hit
  /\ spared \subseteq spared' /\ diverted \subseteq diverted'
  /\ (code = 1 \/ cpu.at \in {"ud2", "stuck"}) /\ current \in living => current \in spared'

LEMMA InterruptedSettled ==
  ASSUME FrameInv, NEW code \in {0, 1}, NEW living \in SUBSET alive, Recorded(code, living),
         current \in living
  PROVE  /\ Settled(current, Saved(code), hit', spared', diverted')
         /\ Standing(current, Saved(code), mem, diverted')
  <1>1. /\ cpu.who \in Pid /\ Level(cpu, cpu.who, High(cpu.who))
        /\ Standing(current, cpu, mem, diverted) /\ cpu \in RegisterSet
        /\ cpu.who = current \/ cpu.at \in {"ud2", "stuck"}
        /\ current \in hit => cpu.at \notin {"user", "body"}
    BY DEF FrameInv, OnProcessor, Recorded
  <1>2. Saved(code).who = cpu.who /\ Saved(code).at = SavedAt(code)
    BY DEF Saved
  <1>3. code = 1 => cpu.at \in {"user", "body"}
    BY DEF Recorded
  <1>4. Level(Saved(code), cpu.who, StackTop(cpu.who))
    BY <1>1, <1>3, SavedIsLevel DEF Recorded
  <1>5. /\ SavedAt(code) # "ud2"
        /\ SavedAt(code) = "stuck" <=> cpu.at \in {"ud2", "stuck"}
        /\ SavedAt(code) = "back" <=> cpu.at = "back"
        /\ SavedAt(code) = "wild" <=> code = 1
        /\ SavedAt(code) \in {"body", "back"} => SavedAt(code) = cpu.at
    BY <1>3 DEF SavedAt, Recorded
  <1>6. Settled(current, Saved(code), hit', spared', diverted')
    <2>1. current \in hit' => cpu.at \notin {"user", "body"}
      BY <1>1 DEF Recorded
    <2>2. SavedAt(code) = "back" => current \in hit'
      BY <1>5 DEF Recorded
    <2>3. current \in hit' => SavedAt(code) \in {"back", "wild", "stuck"}
      BY <1>1, <1>5, <2>1 DEF RegisterSet, Placenames, SavedAt
    <2>4. SavedAt(code) \in {"stuck", "wild"} => current \in spared'
      BY <1>5 DEF Recorded
    <2>5. cpu.who = current \/ (SavedAt(code) = "stuck" /\ current \in spared')
      BY <1>1, <1>5, <2>4
    <2> QED BY <1>1, <1>2, <1>4, <1>5, <2>2, <2>3, <2>4, <2>5 DEF Settled
  <1>7. Standing(current, Saved(code), mem, diverted')
    <2>1. InHandler(Saved(code)) => InHandler(cpu)
      BY <1>2, <1>5 DEF InHandler
    <2> QED BY <1>1, <2>1 DEF Standing, Recorded
  <1> QED BY <1>6, <1>7

LEMMA OthersSettled ==
  ASSUME FrameInv, NEW code \in {0, 1}, NEW living \in SUBSET alive, Recorded(code, living),
         NEW t, Hurt(t), NEW p \in living \ {current}
  PROVE  Settled(p, t[p], hit', spared', diverted') /\ Standing(p, t[p], mem, diverted')
  <1>1. p \in alive \ {current} /\ p \in Pid
    BY DEF FrameInv
  <1>2. Settled(p, regs[p], hit, spared, diverted) /\ Standing(p, regs[p], mem, diverted)
    BY <1>1 DEF FrameInv, Waiting, Waits
  <1>3. (p \in hit <=> p \in hit') /\ spared \subseteq spared' /\ diverted \subseteq diverted'
    BY <1>1 DEF Recorded
  <1>4. Settled(p, regs[p], hit', spared', diverted')
    BY <1>2, <1>3 DEF Settled
  <1>5. Standing(p, regs[p], mem, diverted')
    BY <1>2, <1>3 DEF Standing
  <1>6. CASE t[p] = regs[p]
    BY <1>4, <1>5, <1>6
  <1>7. CASE t[p] = [regs[p] EXCEPT !.at = "wild"] /\ regs[p].who = p /\ p \in diverted'
    <2> DEFINE h == [regs[p] EXCEPT !.at = "wild"]
    <2>1. Settled(p, h, hit', spared', diverted') /\ ~InHandler(h)
      BY <1>1, <1>4, <1>7, HurtSettled
    <2> HIDE DEF h
    <2>2. Standing(p, h, mem, diverted')
      BY <2>1 DEF Standing
    <2> QED BY <1>7, <2>1, <2>2 DEF h
  <1> QED BY <1>1, <1>6, <1>7 DEF Hurt

(* Where the handler of a switch writes its frame. *)
LEMMA FrameOfHandler ==
  ASSUME FrameInv, cpu.who # KERNEL, cpu.at # "wild", NEW code \in {0, 1},
         code = 1 => cpu.at \in {"user", "body"}
  PROVE  LET f == FrameAt(code)
         IN /\ f \in Int /\ f + FRAME = cpu.esp - code
            /\ Low(cpu.who) <= f /\ f + FRAME <= High(cpu.who)
            /\ InHandler(cpu) \/ cpu.who # current => f + FRAME <= HandlerFrame(cpu.who)
  <1> DEFINE f == FrameAt(code)
  <1>1. /\ cpu.who \in Pid /\ Level(cpu, cpu.who, High(cpu.who)) /\ cpu \in RegisterSet
        /\ cpu.who = current \/ cpu.at \in {"ud2", "stuck"}
    BY DEF FrameInv, OnProcessor
  <1>2. /\ StackTop(cpu.who) \in Int /\ High(cpu.who) = StackTop(cpu.who) + IRET
        /\ HandlerFrame(cpu.who) = High(cpu.who) - FRAME
    BY <1>1, StackTopIsInt DEF High, HandlerFrame
  <1>3. cpu.esp \in Int /\ f \in Int /\ f + FRAME = cpu.esp - code
    BY <1>1 DEF RegisterSet, FrameAt
  <1>4. \/ cpu.at = "user" /\ cpu.esp = High(cpu.who)
        \/ InHandler(cpu) /\ cpu.esp = High(cpu.who) - FRAME - LOCALS
        \/ cpu.at \in {"ud2", "stuck"} /\ code = 0 /\ cpu.esp = High(cpu.who) - FRAME
    BY <1>1 DEF Level, InHandler, RegisterSet, Placenames
  <1> HIDE DEF f
  <1>5. Low(cpu.who) <= f /\ f + FRAME <= High(cpu.who)
    BY <1>2, <1>3, <1>4 DEF Low
  <1>6. InHandler(cpu) \/ cpu.who # current => f + FRAME <= HandlerFrame(cpu.who)
    BY <1>1, <1>2, <1>3, <1>4 DEF InHandler
  <1> QED BY <1>3, <1>5, <1>6 DEF f

LEMMA SwitchKeeps ==
  ASSUME FrameInv, NEW t, t = [p \in Pid |-> t[p]],
         NEW code \in {0, 1}, NEW living \in SUBSET alive, NEW next \in living,
         Become(INT_END(SwitchTo([INT_START(Now, code) EXCEPT !.regs = t], living, next))),
         Recorded(code, living), Hurt(t)
  PROVE  FrameInv'
  <1> DEFINE R(p) == IF p = current THEN Saved(code) ELSE t[p]
             f == FrameAt(code)
             n == R(next)
             sp == n.esp + IRET
             end == [n EXCEPT !.esp = sp]
  <1>1. /\ current \in alive /\ alive \subseteq Pid /\ current \in Pid /\ next \in Pid
        /\ cpu \in RegisterSet /\ cpu.who \in Pid /\ Level(cpu, cpu.who, High(cpu.who))
        /\ cpu.who # KERNEL /\ cpu.at # "wild"
        /\ code = 1 => cpu.at \in {"user", "body"}
        /\ cpu.who = current \/ cpu.at \in {"ud2", "stuck"}
    BY DEF FrameInv, OnProcessor, Recorded
  <1>2. ASSUME NEW p \in living
        PROVE  Settled(p, R(p), hit', spared', diverted') /\ Standing(p, R(p), mem, diverted')
    BY <1>2, InterruptedSettled, OthersSettled
  <1>3. n \in RegisterSet /\ Level(n, n.who, StackTop(n.who)) /\ n.who \in Pid
        /\ (n.who = next \/ n.at = "stuck")
    BY <1>2 DEF Settled, Level
  <1>4. /\ f \in Int /\ f + FRAME = cpu.esp - code
        /\ Low(cpu.who) <= f /\ f + FRAME <= High(cpu.who)
        /\ InHandler(cpu) \/ cpu.who # current => f + FRAME <= HandlerFrame(cpu.who)
    BY <1>1, FrameOfHandler
  <1>5. InHandler(Saved(code)) => InHandler(cpu)
    BY DEF Saved, SavedAt, InHandler
  <1>6. n = IF next = current THEN Saved(code) ELSE t[next]
    OBVIOUS
  <1> HIDE DEF R, f, n, sp, end
  <1>7. /\ cpu' = end /\ esp_stack_ptr' = sp /\ current' = next /\ alive' = living
        /\ regs' = [t EXCEPT ![current] = Saved(code)]
        /\ \A g \in DOMAIN mem \cap Int :
             /\ g + FRAME <= f \/ f + FRAME <= g
             /\ g + FRAME <= sp - IRET \/ sp <= g
             => g \in DOMAIN mem' /\ mem'[g] = mem[g]
    <2>1. IsTable(t) /\ Become(INT_END(SwitchTo(Started(code, t), living, next)))
      BY DEF IsTable, Started
    <2>2. f = FrameAt(code) /\ sp = n.esp + IRET
      BY DEF f, sp
    <2>3. /\ cpu' = AtDepth(n, sp) /\ esp_stack_ptr' = sp /\ current' = next
          /\ alive' = living /\ regs' = Stored(code, t)
          /\ \A g \in DOMAIN mem \cap Int :
               /\ g + FRAME <= f \/ f + FRAME <= g
               /\ g + FRAME <= sp - IRET \/ sp <= g
               => g \in DOMAIN mem' /\ mem'[g] = mem[g]
      BY <1>1, <1>3, <1>6, <2>1, <2>2, SwitchOutcome
    <2> QED BY <2>3 DEF AtDepth, Stored, end
  <1>8. n.esp \in Int /\ sp = n.esp + IRET /\ StackTop(n.who) \in Int
        /\ High(n.who) = StackTop(n.who) + IRET
        /\ HandlerFrame(n.who) = High(n.who) - FRAME
    BY <1>3, StackTopIsInt DEF RegisterSet, sp, High, HandlerFrame
  <1>9. Low(n.who) <= sp - IRET /\ sp <= High(n.who)
        /\ (InHandler(n) \/ n.at = "stuck" => sp <= HandlerFrame(n.who))
    <2>1. StackTop(n.who) - FRAME - LOCALS - 1 <= n.esp /\ n.esp <= StackTop(n.who)
          /\ (InHandler(n) => n.esp = StackTop(n.who) - FRAME - LOCALS)
          /\ (n.at = "stuck" => n.esp = StackTop(n.who) - FRAME)
      BY <1>3 DEF Level
    <2> QED BY <1>8, <2>1 DEF Low
  <1>10. ASSUME NEW p \in living PROVE Standing(p, R(p), mem', diverted')
    <2> SUFFICES ASSUME InHandler(R(p))
                 PROVE  /\ HandlerFrame(p) \in DOMAIN mem'
                        /\ mem'[HandlerFrame(p)] = mem[HandlerFrame(p)]
      BY <1>2 DEF Standing
    <2>1. p \in Pid /\ HandlerFrame(p) \in Int
      BY <1>1, <1>10, StackTopIsInt
    <2>2. HandlerFrame(p) \in DOMAIN mem
      BY <1>2 DEF Standing
    <2>3. HandlerFrame(p) + FRAME <= f \/ f + FRAME <= HandlerFrame(p)
      <3>1. cpu.who = p => f + FRAME <= HandlerFrame(p)
        <4>1. current = p => InHandler(cpu)
          BY <1>5 DEF R
        <4> QED BY <1>4, <4>1
      <3>2. f + FRAME \in Int
        BY <1>4
      <3> QED BY <1>1, <1>4, <2>1, <3>1, <3>2, FrameApart
    <2>4. HandlerFrame(p) + FRAME <= sp - IRET \/ sp <= HandlerFrame(p)
      <3>1. n.who = p => sp <= HandlerFrame(p)
        <4>1. CASE p = next
          BY <1>9, <4>1 DEF n
        <4>2. CASE p # next
          BY <1>3, <1>9, <4>2
        <4> QED BY <4>1, <4>2
      <3>2. sp \in Int /\ sp - IRET \in Int
        BY <1>8
      <3> QED BY <1>3, <1>9, <2>1, <3>1, <3>2, FrameApart
    <2> QED BY <1>7, <2>1, <2>2, <2>3, <2>4
  <1>11. ASSUME NEW p \in living \ {next} PROVE Waiting(p)'
    <2>1. regs'[p] = R(p)
      BY <1>1, <1>7, <1>11 DEF R
    <2>2. Settled(p, R(p), hit', spared', diverted') /\ Standing(p, R(p), mem', diverted')
      BY <1>2, <1>10, <1>11
    <2> QED BY <2>1, <2>2 DEF Waiting, Waits, Settled, Level, Standing
  <1>12. OnProcessor' /\ cpu'.who # KERNEL
    <2>1. /\ end \in RegisterSet /\ end.who = n.who /\ end.esp = sp
          /\ end.at = n.at /\ end.frame = n.frame
      BY <1>3, <1>8 DEF RegisterSet, end
    <2>2. Level(end, end.who, High(end.who))
      <3>1. end.esp = n.esp + IRET
        BY <1>8, <2>1
      <3>2. Level(end, n.who, High(n.who))
        BY <1>3, <1>8, <2>1, <3>1 DEF Level, InHandler
      <3> QED BY <2>1, <3>2
    <2>3. Standing(next, end, mem', diverted')
      BY <1>10, <2>1 DEF Standing, InHandler, n
    <2>4. Settled(next, n, hit', spared', diverted')
      BY <1>2 DEF n
    <2>5. n.at = "back" => sp # n.frame
      BY <1>3, <1>8 DEF Level, InHandler
    <2>6. end.who # KERNEL
      BY <1>3, <2>1 DEF Pid, KERNEL
    <2> QED BY <1>3, <1>7, <2>1, <2>2, <2>3, <2>4, <2>5, <2>6
            DEF OnProcessor, Level, Standing, InHandler, Settled
  <1>13. /\ alive' \subseteq Pid /\ current' \in alive' /\ regs' = [p \in Pid |-> regs'[p]]
    BY <1>1, <1>7
  <1> QED BY <1>7, <1>11, <1>12, <1>13 DEF FrameInv

(* Of the handlers that leave the table to SwitchTo alone. *)
LEMMA PlainSwitchKeeps ==
  ASSUME FrameInv, NEW code \in {0, 1}, NEW living \in SUBSET alive, NEW next \in living,
         Become(INT_END(SwitchTo(INT_START(Now, code), living, next))),
         Recorded(code, living)
  PROVE  FrameInv'
  <1>1. cpu \in RegisterSet /\ regs = [p \in Pid |-> regs[p]] /\ Hurt(regs)
    BY DEF FrameInv, OnProcessor, Recorded, Hurt
  <1> DEFINE x == INT_START(Now, code)
  <1>2. x \in MachineOf(cpu, current, alive, regs, Store(mem, FrameAt(code), Saved(code)),
                        FrameAt(code), FrameAt(code))
    BY <1>1, IntStart
  <1> HIDE DEF x
  <1>3. x = [x EXCEPT !.regs = regs]
    BY <1>2 DEF MachineOf
  <1>4. Become(INT_END(SwitchTo([x EXCEPT !.regs = regs], living, next)))
    BY <1>3 DEF x
  <1> QED BY <1>1, <1>4, SwitchKeeps DEF x
-----------------------------------------------------------------------------
LEMMA FreshRegisters ==
  ASSUME NEW p
  PROVE  Fresh(p) = [who |-> p, esp |-> StackTop(p), at |-> "user", frame |-> NoFrame]
  BY DEF Fresh, Registers

LEMMA FreshIsSettled ==
  ASSUME NEW p \in Pid, NEW struck, p \notin struck, NEW outlived, NEW led
  PROVE  Settled(p, Fresh(p), struck, outlived, led) /\ ~InHandler(Fresh(p))
  <1>1. Fresh(p) = [who |-> p, esp |-> StackTop(p), at |-> "user", frame |-> NoFrame]
    BY FreshRegisters
  <1>2. StackTop(p) \in Int /\ p \in Int /\ NoFrame \in Int
    BY StackTopIsInt DEF Pid, NoFrame
  <1>3. Fresh(p) \in RegisterSet
    BY <1>1, <1>2 DEF RegisterSet, Placenames
  <1> QED BY <1>1, <1>2, <1>3 DEF Settled, Level, InHandler

LEMMA FreshWaits ==
  ASSUME NEW p \in Pid, regs'[p] = Fresh(p), p \notin hit'
  PROVE  Waiting(p)'
  <1>1. Settled(p, Fresh(p), hit', spared', diverted') /\ ~InHandler(Fresh(p))
    BY FreshIsSettled
  <1> QED BY <1>1 DEF Waiting, Waits, Settled, Level, Standing, InHandler

(***************************************************************************)
(* A step that leaves the table, and writes to one stack at most, not over *)
(* the frame of a handler there.                                           *)
(***************************************************************************)
LEMMA OthersWait ==
  ASSUME FrameInv, NEW a \in Int, NEW b \in Int, NEW q \in Pid, Low(q) <= a, b <= High(q),
         q # current => b <= HandlerFrame(q),
         \A g \in DOMAIN mem \cap Int : g + FRAME <= a \/ b <= g =>
           g \in DOMAIN mem' /\ mem'[g] = mem[g],
         regs' = regs, spared \subseteq spared', diverted \subseteq diverted',
         NEW p \in alive \ {current}, p \in hit <=> p \in hit'
  PROVE  Waiting(p)'
  <1>1. p \in Pid /\ Settled(p, regs[p], hit, spared, diverted)
        /\ Standing(p, regs[p], mem, diverted) /\ HandlerFrame(p) \in Int
    BY StackTopIsInt DEF FrameInv, Waiting, Waits
  <1>2. HandlerFrame(p) + FRAME <= a \/ b <= HandlerFrame(p)
    BY <1>1, FrameApart
  <1>3. Settled(p, regs[p], hit', spared', diverted')
    BY <1>1 DEF Settled
  <1>4. Standing(p, regs[p], mem', diverted')
    BY <1>1, <1>2 DEF Standing
  <1> QED BY <1>3, <1>4 DEF Waiting, Waits, Settled, Level, Standing

LEMMA InterruptKeeps ==
  ASSUME FrameInv, Interrupt
  PROVE  FrameInv'
  <1>1. cpu \in RegisterSet /\ cpu.at \in {"user", "body", "back"}
    BY DEF FrameInv, BeforeTasking, OnProcessor, Interrupt, Interruptible
  <1>2. /\ cpu' = cpu /\ esp_stack_ptr' = cpu.esp
        /\ current' = current /\ alive' = alive /\ regs' = regs
        /\ spared' = spared /\ diverted' = diverted
        /\ hit' = IF cpu.at = "back" THEN hit \union {current} ELSE hit
        /\ \A g \in DOMAIN mem \cap Int :
             g + FRAME <= cpu.esp - FRAME \/ cpu.esp <= g =>
               g \in DOMAIN mem' /\ mem'[g] = mem[g]
    BY <1>1, InterruptOutcome DEF Interrupt, Interrupted
  <1>3. CASE cpu.who = KERNEL
    <2>1. BeforeTasking /\ hit' = {} /\ alive \subseteq Pid
      BY <1>2, <1>3 DEF FrameInv, BeforeTasking
    <2>2. ASSUME NEW p \in alive \ {current} PROVE Waiting(p)'
      BY <1>2, <2>1, <2>2, FreshWaits DEF BeforeTasking
    <2> QED BY <1>2, <1>3, <2>1, <2>2 DEF FrameInv, BeforeTasking
  <1>4. CASE cpu.who # KERNEL
    <2>1. /\ current \in Pid /\ alive \subseteq Pid /\ Level(cpu, current, High(current))
          /\ Standing(current, cpu, mem, diverted) /\ OnProcessor /\ cpu.who = current
      BY <1>1, <1>4 DEF FrameInv, OnProcessor
    <2>2. /\ High(current) \in Int /\ cpu.esp \in Int
          /\ HandlerFrame(current) = High(current) - FRAME /\ HandlerFrame(current) \in Int
      BY <1>1, <2>1, StackTopIsInt DEF RegisterSet, HandlerFrame
    <2>3. Low(current) <= cpu.esp - FRAME /\ cpu.esp <= High(current)
          /\ (InHandler(cpu) => cpu.esp <= HandlerFrame(current))
      BY <1>1, <2>1, <2>2 DEF Level, Low, InHandler
    <2>4. cpu.esp - FRAME \in Int
      BY <2>2
    <2>5. ASSUME NEW p \in alive \ {current} PROVE Waiting(p)'
      <3>1. p \in hit' <=> p \in hit
        BY <1>2, <2>5
      <3> QED BY <1>2, <2>1, <2>2, <2>3, <2>4, <3>1, OthersWait
    <2>6. Standing(current, cpu, mem', diverted')
      <3>1. InHandler(cpu) => cpu.esp <= HandlerFrame(current)
        BY <2>3
      <3> QED BY <1>2, <2>1, <2>2, <3>1 DEF Standing
    <2>7. cpu.at = "back" => cpu.esp # cpu.frame
      BY <2>1, <2>2 DEF Level, InHandler
    <2>8. OnProcessor'
      BY <1>1, <1>2, <2>1, <2>6, <2>7 DEF OnProcessor, Level, Standing
    <2> QED BY <1>2, <1>4, <2>5, <2>8 DEF FrameInv
  <1> QED BY <1>3, <1>4

LEMMA StartKeeps ==
  ASSUME FrameInv, StartTasking
  PROVE  FrameInv'
  <1> DEFINE x == INT_START(Now, 0)
             f == FrameAt(0)
             m0 == Store(mem, f, Saved(0))
             n == Fresh(INIT)
             m1 == [m0 EXCEPT ![f] = n]
             y == [x EXCEPT !.current = INIT, !.mem[x.frame] = regs[INIT]]
             sp == n.esp + IRET
             end == [n EXCEPT !.esp = sp]
  <1>1. /\ cpu \in RegisterSet /\ current = INIT /\ hit = {} /\ spared = {}
        /\ \A p \in alive : regs[p] = Fresh(p)
        /\ INIT \in Pid /\ INIT \in alive /\ alive \subseteq Pid
        /\ regs = [p \in Pid |-> regs[p]]
    BY DEF StartTasking, FrameInv, BeforeTasking
  <1>2. x \in MachineOf(cpu, current, alive, regs, m0, f, f)
    BY <1>1, IntStart
  <1>3. f \in DOMAIN m0 /\ m0 = [g \in DOMAIN m0 |-> m0[g]]
    <2>1. f \in Int
      BY <1>1, SavedIsRegisters
    <2> HIDE DEF f
    <2>2. f \in DOMAIN m0 /\ m0[f] = Saved(0) /\ m0 = [g \in DOMAIN m0 |-> m0[g]]
      BY <2>1, StoreKeeps
    <2> QED BY <2>2
  <1>4. n \in RegisterSet /\ n.at = "user" /\ n.who = INIT /\ n.esp = StackTop(INIT)
        /\ n.frame = NoFrame
    <2>1. n = [who |-> INIT, esp |-> StackTop(INIT), at |-> "user", frame |-> NoFrame]
      BY FreshRegisters DEF n
    <2>2. StackTop(INIT) \in Int
      BY <1>1, StackTopIsInt
    <2> HIDE DEF n
    <2>3. INIT \in Int /\ NoFrame \in Int
      BY DEF INIT, NoFrame
    <2> QED BY <2>1, <2>2, <2>3 DEF RegisterSet, Placenames
  <1> HIDE DEF x, f, m0, n
  <1>5. y \in MachineOf(cpu, INIT, alive, regs, m1, f, f)
    <2>1. x.mem = m0 /\ x.frame = f
      BY <1>2 DEF MachineOf
    <2>2. y = [x EXCEPT !.current = INIT, !.mem = m1]
      BY <1>1, <1>2, <2>1 DEF MachineOf, n
    <2> HIDE DEF y, m1
    <2> QED BY <1>2, <2>2 DEF MachineOf
  <1>6. f \in DOMAIN m1 /\ m1[f] = n
    BY <1>3
  <1> HIDE DEF y, m1, sp, end
  <1>7. INT_END(y) \in MachineOf(end, INIT, alive, regs,
                         Spill(Spill(m1, f, f + FRAME), sp - IRET, sp), sp, f)
    BY <1>4, <1>5, <1>6, IntEnd DEF sp, end
  <1>8. cpu' = end /\ current' = INIT /\ alive' = alive /\ regs' = regs
        /\ UNCHANGED history
    <2>1. Become(INT_END(y)) /\ UNCHANGED history
      BY DEF StartTasking, y, x
    <2>2. cpu' = end /\ current' = INIT /\ alive' = alive /\ regs' = regs
      BY <1>7, <2>1, BecomeOf
    <2> QED BY <2>1, <2>2
  <1>9. ASSUME NEW p \in alive \ {INIT} PROVE Waiting(p)'
    BY <1>1, <1>8, <1>9, FreshWaits DEF history
  <1>10. OnProcessor' /\ cpu'.who # KERNEL
    <2>1. High(INIT) = StackTop(INIT) + IRET /\ StackTop(INIT) \in Int
      BY <1>1, StackTopIsInt DEF High
    <2>3. end \in RegisterSet /\ end.who = INIT /\ end.esp = High(INIT) /\ end.at = "user"
          /\ end.frame = NoFrame
      BY <1>4, <2>1 DEF RegisterSet, sp, end
    <2>4. Level(end, INIT, High(INIT)) /\ Standing(INIT, end, mem', diverted')
      BY <2>1, <2>3 DEF Level, Standing, InHandler
    <2> QED BY <1>1, <1>8, <2>3, <2>4
            DEF OnProcessor, Level, Standing, InHandler, INIT, KERNEL, history
  <1> QED BY <1>1, <1>8, <1>9, <1>10 DEF FrameInv
-----------------------------------------------------------------------------
(* The registers of a program, as a handler's frame keeps them. *)
LEMMA ProgramRegisters ==
  ASSUME NEW p \in Pid, NEW at \in {"user", "wild"}
  PROVE  LET r == Registers(p, StackTop(p), at, NoFrame)
         IN /\ r \in RegisterSet
            /\ r.who = p /\ r.esp = StackTop(p) /\ r.at = at /\ r.frame = NoFrame
  <1>1. StackTop(p) \in Int /\ p \in Int /\ NoFrame \in Int
    BY StackTopIsInt DEF Pid, NoFrame
  <1>2. [who |-> p, esp |-> StackTop(p), at |-> at, frame |-> NoFrame] \in RegisterSet
    BY <1>1 DEF RegisterSet, Placenames
  <1> QED BY <1>2 DEF Registers

LEMMA BecameAsyncKeeps ==
  ASSUME FrameInv, BecameAsync
  PROVE  FrameInv'
  <1> DEFINE x == INT_START(Now, 0)
             f == FrameAt(0)
             m0 == Store(mem, f, Saved(0))
             body == Registers(current, f - LOCALS, "body", f)
  <1>1. /\ cpu \in RegisterSet /\ cpu.who = current /\ cpu.who # KERNEL /\ cpu.at = "user"
        /\ current \in Pid /\ current \in alive /\ alive \subseteq Pid /\ current \notin hit
        /\ Level(cpu, current, High(current)) /\ regs = [p \in Pid |-> regs[p]]
    BY DEF FrameInv, OnProcessor, BecameAsync, Running
  <1>2. /\ High(current) \in Int /\ High(current) = StackTop(current) + IRET
        /\ StackTop(current) \in Int
        /\ f = HandlerFrame(current) /\ f + FRAME = High(current) /\ f \in Int
        /\ cpu.esp = High(current) /\ cpu.frame = NoFrame
    BY <1>1, StackTopIsInt DEF High, HandlerFrame, FrameAt, Level
  <1>3. x \in MachineOf(cpu, current, alive, regs, m0, f, f)
    BY <1>1, IntStart
  <1>4. Saved(0) = Program(current)
    BY <1>1, <1>2 DEF Saved, SavedAt, Registers, Program
  <1> HIDE DEF x, f, m0
  <1>5. /\ cpu' = body /\ current' = current /\ alive' = alive /\ regs' = regs
        /\ mem' = m0 /\ esp_stack_ptr' = f /\ UNCHANGED history
    <2> DEFINE y == [x EXCEPT !.cpu = body]
    <2>1. Become(y) /\ UNCHANGED history
      <3>1. Become([x EXCEPT !.cpu = Registers(current, x.frame - LOCALS, "body", x.frame)])
            /\ UNCHANGED history
        BY DEF BecameAsync, x
      <3>2. x.frame = f
        BY <1>3 DEF MachineOf
      <3> QED BY <3>1, <3>2
    <2>2. y \in MachineOf(body, current, alive, regs, m0, f, f)
      <3> HIDE DEF body
      <3> QED BY <1>3 DEF MachineOf
    <2> HIDE DEF y, body
    <2> QED BY <2>1, <2>2, BecomeOf
  <1>6. f \in DOMAIN m0 /\ m0[f] = Saved(0)
        /\ \A g \in DOMAIN mem \cap Int : g + FRAME <= f \/ f + FRAME <= g =>
             g \in DOMAIN m0 /\ m0[g] = mem[g]
    BY <1>2, StoreKeeps DEF m0
  <1>7. ASSUME NEW p \in alive \ {current} PROVE Waiting(p)'
    <2>1. Low(current) <= f /\ f + FRAME <= High(current) /\ f + FRAME \in Int
      BY <1>2 DEF Low
    <2>2. \A g \in DOMAIN mem \cap Int : g + FRAME <= f \/ f + FRAME <= g =>
            g \in DOMAIN mem' /\ mem'[g] = mem[g]
      BY <1>5, <1>6
    <2>3. spared' = spared /\ diverted' = diverted /\ hit' = hit
      BY <1>5 DEF history
    <2> QED BY <1>1, <1>2, <1>5, <2>1, <2>2, <2>3, OthersWait
  <1>8. OnProcessor' /\ cpu'.who # KERNEL
    <2>1. body = [who |-> current, esp |-> f - LOCALS, at |-> "body", frame |-> f]
      BY DEF Registers
    <2>2. body \in RegisterSet
      BY <1>1, <1>2, <2>1 DEF RegisterSet, Placenames, Pid
    <2>3. body.who = current /\ body.esp = f - LOCALS /\ body.at = "body" /\ body.frame = f
      BY <2>1
    <2> HIDE DEF body
    <2>4. Level(body, current, High(current))
      BY <1>2, <2>2, <2>3 DEF Level, InHandler
    <2>5. Standing(current, body, m0, diverted)
      BY <1>2, <1>4, <1>6 DEF Standing
    <2> QED BY <1>1, <1>5, <2>2, <2>3, <2>4, <2>5 DEF OnProcessor, Level, Standing, history
  <1> QED BY <1>1, <1>5, <1>7, <1>8 DEF FrameInv

LEMMA BecameSyncKeeps ==
  ASSUME FrameInv, BecameSync
  PROVE  FrameInv'
  <1>1. /\ cpu \in RegisterSet /\ cpu.who = current /\ cpu.who # KERNEL /\ cpu.at = "body"
        /\ current \notin hit /\ OnProcessor
        /\ Level(cpu, current, High(current)) /\ Standing(current, cpu, mem, diverted)
    BY DEF FrameInv, OnProcessor, BecameSync, Running
  <1>2. /\ cpu' \in RegisterSet /\ cpu'.who = cpu.who /\ cpu'.esp = cpu.esp
        /\ cpu'.at = "back" /\ cpu'.frame = cpu.frame
    BY <1>1 DEF BecameSync, RegisterSet, Placenames
  <1>3. /\ esp_stack_ptr' = cpu.frame /\ current' = current /\ alive' = alive /\ regs' = regs
        /\ mem' = mem /\ UNCHANGED history
    BY DEF BecameSync
  <1>4. Level(cpu', current, High(current)) /\ Standing(current, cpu', mem, diverted)
    BY <1>1, <1>2 DEF Level, Standing, InHandler
  <1>5. OnProcessor'
    BY <1>1, <1>2, <1>3, <1>4 DEF OnProcessor, Level, Standing, history
  <1>6. ASSUME NEW p \in alive \ {current} PROVE Waiting(p)'
    BY <1>3, <1>6 DEF FrameInv, Waiting, Waits, Settled, Level, Standing, history
  <1> QED BY <1>1, <1>2, <1>3, <1>5, <1>6 DEF FrameInv

LEMMA DebuggerKeeps ==
  ASSUME FrameInv, DebuggerSets
  PROVE  FrameInv'
  <1> DEFINE f == cpu.frame
  <1>1. /\ cpu \in RegisterSet /\ cpu.who = current /\ cpu.who # KERNEL /\ cpu.at = "body"
        /\ current \in Pid /\ OnProcessor /\ InHandler(cpu)
        /\ Level(cpu, current, High(current)) /\ Standing(current, cpu, mem, diverted)
    BY DEF FrameInv, OnProcessor, DebuggerSets, Running, InHandler
  <1>2. /\ High(current) \in Int /\ f = HandlerFrame(current) /\ f \in DOMAIN mem
        /\ f = High(current) - FRAME /\ f \in Int
    BY <1>1, StackTopIsInt DEF HandlerFrame, Level, Standing
  <1>3. /\ mem' = [mem EXCEPT ![f].at = "wild"] /\ diverted' = diverted \union {current}
        /\ UNCHANGED <<cpu, current, alive, regs, esp_stack_ptr, hit, spared>>
    BY DEF DebuggerSets
  <1>4. /\ f \in DOMAIN mem' /\ mem'[f] = [mem[f] EXCEPT !.at = "wild"]
        /\ \A g \in DOMAIN mem : g # f => g \in DOMAIN mem' /\ mem'[g] = mem[g]
    BY <1>2, <1>3
  <1>5. mem'[f] = Strayed(current)
    <2>1. mem[f] = Program(current) \/ mem[f] = Strayed(current)
      BY <1>1, <1>2 DEF Standing
    <2>2. [Program(current) EXCEPT !.at = "wild"] = Strayed(current)
      BY DEF Program, Strayed, Registers
    <2>3. [Strayed(current) EXCEPT !.at = "wild"] = Strayed(current)
      BY DEF Strayed, Registers
    <2> QED BY <1>4, <2>1, <2>2, <2>3
  <1> HIDE DEF f
  <1>6. OnProcessor'
    <2>1. Standing(current, cpu, mem', diverted')
      BY <1>2, <1>3, <1>4, <1>5 DEF Standing
    <2> QED BY <1>1, <1>3, <2>1 DEF OnProcessor, Level, Standing
  <1>7. ASSUME NEW p \in alive \ {current} PROVE Waiting(p)'
    <2>1. Low(current) <= f /\ f + FRAME <= High(current) /\ f + FRAME \in Int
      BY <1>2 DEF Low
    <2>2. \A g \in DOMAIN mem \cap Int : g + FRAME <= f \/ f + FRAME <= g =>
            g \in DOMAIN mem' /\ mem'[g] = mem[g]
      BY <1>2, <1>4
    <2>3. spared' = spared /\ diverted \subseteq diverted' /\ hit' = hit /\ regs' = regs
      BY <1>3
    <2> QED BY <1>1, <1>2, <1>7, <2>1, <2>2, <2>3, OthersWait
  <1> QED BY <1>1, <1>3, <1>6, <1>7 DEF FrameInv

LEMMA LeaveKeeps ==
  ASSUME FrameInv, LeaveHandler
  PROVE  FrameInv'
  <1> DEFINE f == cpu.frame
             x == [Now EXCEPT !.frame = cpu.frame]
             n == mem[f]
             sp == n.esp + IRET
             end == [n EXCEPT !.esp = sp]
  <1>1. /\ cpu \in RegisterSet /\ cpu.who = current /\ cpu.who # KERNEL /\ cpu.at = "back"
        /\ current \in Pid /\ current \in alive /\ alive \subseteq Pid /\ current # KERNEL
        /\ Level(cpu, current, High(current)) /\ Standing(current, cpu, mem, diverted)
        /\ regs = [p \in Pid |-> regs[p]] /\ InHandler(cpu)
        /\ esp_stack_ptr = f <=> current \notin hit
    BY DEF FrameInv, OnProcessor, LeaveHandler, Running, Pid, KERNEL, InHandler
  <1>2. /\ High(current) \in Int /\ High(current) = StackTop(current) + IRET
        /\ StackTop(current) \in Int /\ f \in Int
        /\ f = HandlerFrame(current) /\ f = High(current) - FRAME
        /\ f \in DOMAIN mem
        /\ n = Program(current) \/ (n = Strayed(current) /\ current \in diverted)
    BY <1>1, StackTopIsInt DEF High, HandlerFrame, Level, Standing
  <1>3. n \in RegisterSet /\ n.who = current /\ n.esp = StackTop(current)
        /\ n.frame = NoFrame /\ (n.at = "user" \/ (n.at = "wild" /\ current \in diverted))
    <2>1. /\ Program(current) \in RegisterSet /\ Program(current).who = current
          /\ Program(current).esp = StackTop(current) /\ Program(current).at = "user"
          /\ Program(current).frame = NoFrame
      BY <1>1, ProgramRegisters DEF Program
    <2>2. /\ Strayed(current) \in RegisterSet /\ Strayed(current).who = current
          /\ Strayed(current).esp = StackTop(current) /\ Strayed(current).at = "wild"
          /\ Strayed(current).frame = NoFrame
      BY <1>1, ProgramRegisters DEF Strayed
    <2> QED BY <1>2, <2>1, <2>2
  <1>4. Become(INT_END(x)) /\ UNCHANGED history
    BY DEF LeaveHandler
  <1>5. x \in MachineOf(cpu, current, alive, regs, mem, esp_stack_ptr, f)
    BY DEF Now, MachineOf
  <1> HIDE DEF x, n, f
  <1>6. CASE current \in hit
    <2> DEFINE y == [x EXCEPT !.cpu = Wild(current)]
    <2>1. INT_END(x) = y
      <3>1. x.ptr # x.frame /\ x.current = current
        BY <1>1, <1>5, <1>6 DEF MachineOf
      <3> QED BY <3>1 DEF INT_END
    <2>2. y \in MachineOf(Wild(current), current, alive, regs, mem, esp_stack_ptr, f)
      BY <1>5 DEF MachineOf
    <2> HIDE DEF y
    <2>3. /\ cpu' = Wild(current) /\ current' = current /\ alive' = alive /\ regs' = regs
          /\ mem' = mem
      BY <1>4, <2>1, <2>2, BecomeOf
    <2>4. Wild(current) \in RegisterSet /\ Wild(current).who = current
          /\ Wild(current).at = "wild"
      <3>1. [who |-> current, esp |-> NoFrame, at |-> "wild", frame |-> NoFrame] \in RegisterSet
        BY <1>1 DEF RegisterSet, Placenames, NoFrame, Pid
      <3> QED BY <3>1 DEF Wild, Registers
    <2>5. OnProcessor'
      BY <1>1, <1>4, <1>6, <2>3, <2>4 DEF OnProcessor, history
    <2>6. ASSUME NEW p \in alive \ {current} PROVE Waiting(p)'
      BY <1>4, <2>3, <2>6 DEF FrameInv, Waiting, Waits, Settled, Level, Standing, history
    <2> QED BY <1>1, <2>3, <2>4, <2>5, <2>6 DEF FrameInv
  <1>7. CASE current \notin hit
    <2> HIDE DEF sp, end
    <2>1. x \in MachineOf(cpu, current, alive, regs, mem, f, f)
      BY <1>1, <1>5, <1>7
    <2>2. sp = High(current) /\ sp \in Int
      BY <1>2, <1>3 DEF sp
    <2>3. INT_END(x) \in MachineOf(end, current, alive, regs,
                           Spill(Spill(mem, f, f + FRAME), sp - IRET, sp), sp, f)
      BY <1>2, <1>3, <2>1, IntEnd DEF sp, end, n
    <2>4. /\ cpu' = end /\ current' = current /\ alive' = alive /\ regs' = regs
          /\ mem' = Spill(Spill(mem, f, f + FRAME), sp - IRET, sp)
      BY <1>4, <2>3, BecomeOf
    <2>5. end \in RegisterSet /\ end.who = current /\ end.esp = High(current)
          /\ end.at = n.at /\ end.frame = NoFrame
      BY <1>3, <2>2 DEF RegisterSet, end
    <2>6. OnProcessor'
      <3>1. end.at = "user" => Level(end, current, High(current))
        BY <1>2, <2>5 DEF Level, InHandler
      <3>2. ~InHandler(end)
        BY <1>3, <2>5 DEF InHandler
      <3> QED BY <1>1, <1>3, <1>4, <1>7, <2>4, <2>5, <3>1, <3>2
              DEF OnProcessor, Level, Standing, history, InHandler
    <2>7. ASSUME NEW p \in alive \ {current} PROVE Waiting(p)'
      <3>1. Low(current) <= f /\ f + FRAME <= High(current) /\ f + FRAME \in Int
        BY <1>2 DEF Low
      <3>2. ASSUME NEW g \in DOMAIN mem \cap Int, g + FRAME <= f \/ f + FRAME <= g
            PROVE  g \in DOMAIN mem' /\ mem'[g] = mem[g]
        <4>1. g + FRAME <= sp - IRET \/ sp <= g
          BY <1>2, <2>2, <3>2
        <4>2. /\ g \in DOMAIN Spill(mem, f, f + FRAME)
              /\ Spill(mem, f, f + FRAME)[g] = mem[g]
          BY <3>2, SpillKeeps
        <4> QED BY <2>4, <4>1, <4>2, SpillKeeps
      <3>3. spared' = spared /\ diverted' = diverted /\ hit' = hit
        BY <1>4 DEF history
      <3> QED BY <1>1, <1>2, <2>4, <2>7, <3>1, <3>2, <3>3, OthersWait
    <2> QED BY <1>1, <2>4, <2>5, <2>6, <2>7 DEF FrameInv
  <1> QED BY <1>6, <1>7

LEMMA MakeTaskKeeps ==
  ASSUME FrameInv, MakeTask
  PROVE  FrameInv'
  <1>1. PICK p \in Pid \ alive :
          /\ alive' = alive \union {p} /\ regs' = [regs EXCEPT ![p] = Fresh(p)]
          /\ hit' = hit \ {p} /\ spared' = spared \ {p} /\ diverted' = diverted \ {p}
    BY DEF MakeTask
  <1>2. /\ cpu' = cpu /\ current' = current /\ mem' = mem /\ esp_stack_ptr' = esp_stack_ptr
        /\ cpu.who # KERNEL /\ current \in alive /\ current # p /\ alive \subseteq Pid
        /\ OnProcessor /\ regs = [q \in Pid |-> regs[q]] /\ cpu.at = "user"
    BY <1>1 DEF MakeTask, Running, FrameInv
  <1>3. (current \in hit' <=> current \in hit) /\ ~InHandler(cpu)
    BY <1>1, <1>2 DEF InHandler
  <1>4. OnProcessor'
    BY <1>2, <1>3 DEF OnProcessor, Level, Standing, InHandler
  <1>5. ASSUME NEW q \in alive' \ {current} PROVE Waiting(q)'
    <2>1. CASE q = p
      <3>1. regs'[q] = Fresh(q) /\ q \notin hit' /\ q \in Pid
        BY <1>1, <1>2, <2>1
      <3> QED BY <3>1, FreshWaits
    <2>2. CASE q # p
      <3>1. q \in alive \ {current} /\ regs'[q] = regs[q]
        BY <1>1, <1>2, <1>5, <2>2
      <3>2. Settled(q, regs[q], hit, spared, diverted) /\ Standing(q, regs[q], mem, diverted)
        BY <3>1 DEF FrameInv, Waiting, Waits
      <3>3. (q \in hit' <=> q \in hit) /\ (q \in spared' <=> q \in spared)
            /\ (q \in diverted' <=> q \in diverted)
        BY <1>1, <2>2
      <3>4. Settled(q, regs[q], hit', spared', diverted')
        BY <3>2, <3>3 DEF Settled
      <3>5. Standing(q, regs[q], mem, diverted')
        BY <3>2, <3>3 DEF Standing
      <3> QED BY <1>2, <3>1, <3>4, <3>5 DEF Waiting, Waits, Settled, Level, Standing
    <2> QED BY <2>1, <2>2
  <1> QED BY <1>1, <1>2, <1>4, <1>5 DEF FrameInv

(* The divide handler after its switch: on the stack of the divider, one   *)
(* frame down, and current_task is who was to run next.                    *)
LEMMA DivideKeeps ==
  ASSUME FrameInv, NEW living \in SUBSET alive, NEW next \in living, cpu.at = "user",
         Become([SwitchTo(INT_START(Now, 0), living, next) EXCEPT
                   !.cpu = Registers(cpu.who, SwitchTo(INT_START(Now, 0), living, next).frame,
                                     "ud2", NoFrame)]),
         Recorded(0, living)
  PROVE  FrameInv'
  <1> DEFINE R(p) == IF p = current THEN Saved(0) ELSE regs[p]
             f == FrameAt(0)
             m1 == [Store(mem, f, Saved(0)) EXCEPT ![f] = R(next)]
             table == [regs EXCEPT ![current] = Saved(0)]
             s == INT_START(Now, 0)
             y == SwitchTo(s, living, next)
             ud2 == Registers(cpu.who, f, "ud2", NoFrame)
             z == [y EXCEPT !.cpu = ud2]
  <1>1. /\ current \in alive /\ alive \subseteq Pid /\ current \in Pid /\ next \in Pid
        /\ cpu \in RegisterSet /\ cpu.who = current /\ cpu.who # KERNEL
        /\ Level(cpu, current, High(current)) /\ regs = [p \in Pid |-> regs[p]]
        /\ Hurt(regs)
    BY DEF FrameInv, OnProcessor, Recorded, Hurt
  <1>2. ASSUME NEW p \in living
        PROVE  Settled(p, R(p), hit', spared', diverted') /\ Standing(p, R(p), mem, diverted')
    BY <1>1, <1>2, InterruptedSettled, OthersSettled
  <1>3. /\ High(current) \in Int /\ High(current) = StackTop(current) + IRET
        /\ StackTop(current) \in Int /\ HandlerFrame(current) \in Int
        /\ f = HandlerFrame(current) /\ f + FRAME = High(current) /\ f \in Int
        /\ Low(current) <= f /\ f + FRAME \in Int
    BY <1>1, StackTopIsInt DEF High, HandlerFrame, FrameAt, Level, Low
  <1>4. y \in MachineOf(cpu, next, living, table, m1, f, f)
    <2>1. s \in MachineOf(cpu, current, alive, regs, Store(mem, f, Saved(0)), f, f)
      BY <1>1, IntStart
    <2> HIDE DEF s
    <2>2. s = [s EXCEPT !.regs = regs]
      BY <2>1 DEF MachineOf
    <2>3. R(next) = IF next = current THEN Saved(0) ELSE regs[next]
      OBVIOUS
    <2> HIDE DEF R
    <2>4. SwitchTo([INT_START(Now, 0) EXCEPT !.regs = regs], living, next)
            \in MachineOf(cpu, next, living, table, m1, f, f)
      BY <1>1, <2>3, SwitchedMachine
    <2> QED BY <2>2, <2>4 DEF s
  <1>5. /\ \A g \in DOMAIN mem \cap Int : g + FRAME <= f \/ f + FRAME <= g =>
             g \in DOMAIN m1 /\ m1[g] = mem[g]
    <2>1. PICK a, r, n : a = f /\ r = Saved(0) /\ n = R(next)
      OBVIOUS
    <2>2. m1 = Rewritten(a, r, n)
      BY <2>1 DEF Rewritten
    <2> HIDE DEF R, f, m1
    <2> QED BY <1>3, <2>1, <2>2, FrameRewritten
  <1> HIDE DEF R, f, m1, s
  <1>6. y.frame = f
    BY <1>4 DEF MachineOf
  <1>7. Become(z)
    BY <1>6 DEF s
  <1> HIDE DEF y, table, ud2
  <1>8. z \in MachineOf(ud2, next, living, table, m1, f, f)
    BY <1>4 DEF MachineOf
  <1> HIDE DEF z
  <1>9. /\ cpu' = ud2 /\ current' = next /\ alive' = living /\ regs' = table
        /\ mem' = m1 /\ esp_stack_ptr' = f
    BY <1>7, <1>8, BecomeOf
  <1>10. ASSUME NEW p \in living \ {next} PROVE Waiting(p)'
    <2>1. regs'[p] = R(p) /\ p \in Pid /\ HandlerFrame(p) \in Int
      BY <1>1, <1>9, <1>10, StackTopIsInt DEF R, table
    <2>2. Settled(p, R(p), hit', spared', diverted') /\ Standing(p, R(p), mem, diverted')
      BY <1>2, <1>10
    <2>3. Standing(p, R(p), mem', diverted')
      <3>1. CASE p = current
        <4>1. ~InHandler(R(p))
          BY <3>1 DEF R, Saved, SavedAt, InHandler
        <4> QED BY <4>1 DEF Standing
      <3>2. CASE p # current
        <4>1. HandlerFrame(p) + FRAME <= f \/ f + FRAME <= HandlerFrame(p)
          BY <1>1, <1>3, <2>1, <3>2, FrameApart
        <4> QED BY <1>5, <1>9, <2>1, <2>2, <4>1 DEF Standing
      <3> QED BY <3>1, <3>2
    <2> QED BY <2>1, <2>2, <2>3 DEF Waiting, Waits, Settled, Level, Standing
  <1>11. OnProcessor' /\ cpu'.who # KERNEL
    <2>1. ud2 = [who |-> current, esp |-> f, at |-> "ud2", frame |-> NoFrame]
      BY <1>1 DEF Registers, ud2
    <2>2. ud2 \in RegisterSet
      BY <1>1, <1>3, <2>1 DEF RegisterSet, Placenames, NoFrame, Pid
    <2>3. ud2.who = current /\ ud2.esp = f /\ ud2.at = "ud2"
      BY <2>1
    <2>4. Level(ud2, current, High(current)) /\ ~InHandler(ud2)
      BY <1>3, <2>2, <2>3 DEF Level, InHandler
    <2> QED BY <1>1, <1>9, <2>2, <2>3, <2>4 DEF OnProcessor, Level, Standing, InHandler
  <1>12. /\ alive' \subseteq Pid /\ current' \in alive' /\ regs' = [p \in Pid |-> regs'[p]]
    BY <1>1, <1>9 DEF table
  <1> QED BY <1>9, <1>10, <1>11, <1>12 DEF FrameInv
-----------------------------------------------------------------------------
LEMMA InitFrame ==
  ASSUME FrameInit
  PROVE  FrameInv
  <1>1. /\ cpu = [who |-> KERNEL, esp |-> -TASK_STACK_CAP, at |-> "user", frame |-> NoFrame]
        /\ cpu.who = KERNEL /\ cpu.esp = -TASK_STACK_CAP /\ cpu.at = "user"
    BY DEF FrameInit, Registers
  <1>2. cpu \in RegisterSet
    BY <1>1 DEF RegisterSet, Placenames, KERNEL, NoFrame
  <1>3. INIT \in Pid /\ INIT \in alive /\ alive \subseteq Pid
    BY DEF FrameInit, INIT, Pid
  <1>4. regs = [p \in Pid |-> regs[p]] /\ \A p \in Pid : regs[p] = Fresh(p)
    BY DEF FrameInit
  <1>5. BeforeTasking
    BY <1>1, <1>2, <1>3, <1>4 DEF BeforeTasking, FrameInit
  <1>6. ASSUME NEW p \in alive \ {current} PROVE Waiting(p)
    <2>1. p \in Pid /\ regs[p] = Fresh(p) /\ hit = {}
      BY <1>3, <1>4, <1>6 DEF FrameInit
    <2>2. Settled(p, Fresh(p), hit, spared, diverted) /\ ~InHandler(Fresh(p))
      BY <2>1, FreshIsSettled
    <2> QED BY <2>1, <2>2 DEF Waiting, Waits, Standing
  <1> QED BY <1>1, <1>3, <1>4, <1>5, <1>6 DEF FrameInv, FrameInit

LEMMA NextFrame ==
  ASSUME FrameInv, [FrameNext]_frameVars
  PROVE  FrameInv'
  <1>1. CASE StartTasking
    BY <1>1, StartKeeps
  <1>2. CASE Interrupt
    BY <1>2, InterruptKeeps
  <1>3. CASE TimerSwitch
    <2>1. PICK living \in Outcomes :
            \E next \in living : Become(INT_END(SwitchTo(INT_START(Now, 0), living, next)))
      BY <1>3 DEF TimerSwitch
    <2>2. PICK next \in living : Become(INT_END(SwitchTo(INT_START(Now, 0), living, next)))
      BY <2>1
    <2>3. living \in SUBSET alive /\ Recorded(0, living)
      BY <1>3 DEF TimerSwitch, Running, Interruptible, Interrupted, Outcomes, Recorded
    <2> QED BY <2>2, <2>3, PlainSwitchKeeps
  <1>4. CASE SwitchCall
    <2>1. PICK living \in Outcomes :
            \E next \in living : Become(INT_END(SwitchTo(INT_START(Now, 0), living, next)))
      BY <1>4 DEF SwitchCall
    <2>2. PICK next \in living : Become(INT_END(SwitchTo(INT_START(Now, 0), living, next)))
      BY <2>1
    <2>3. living \in SUBSET alive /\ Recorded(0, living)
      BY <1>4 DEF SwitchCall, Running, Outcomes, Recorded, history
    <2> QED BY <2>2, <2>3, PlainSwitchKeeps
  <1>5. ASSUME NEW code \in {0, 1}, ErrorTrap(code)
        PROVE  FrameInv'
    <2>1. PICK living \in Outcomes :
            /\ \E next \in living :
                 Become(INT_END(SwitchTo(INT_START(Now, code), living, next)))
            /\ Outlives(living)
      BY <1>5 DEF ErrorTrap
    <2>2. PICK next \in living :
            Become(INT_END(SwitchTo(INT_START(Now, code), living, next)))
      BY <2>1
    <2>3. living \in SUBSET alive /\ Recorded(code, living)
      BY <1>5, <2>1 DEF ErrorTrap, Running, Outcomes, Outlives, Recorded
    <2> QED BY <2>2, <2>3, PlainSwitchKeeps
  <1>6. CASE DivideError
    <2>1. PICK living \in Outcomes :
            /\ \E next \in living :
                 LET m == SwitchTo(INT_START(Now, 0), living, next)
                 IN Become([m EXCEPT !.cpu = Registers(cpu.who, m.frame, "ud2", NoFrame)])
            /\ Outlives(living)
      BY <1>6 DEF DivideError
    <2>2. PICK next \in living :
            LET m == SwitchTo(INT_START(Now, 0), living, next)
            IN Become([m EXCEPT !.cpu = Registers(cpu.who, m.frame, "ud2", NoFrame)])
      BY <2>1
    <2>3. living \in SUBSET alive /\ Recorded(0, living) /\ cpu.at = "user"
      BY <1>6, <2>1 DEF DivideError, Running, Outcomes, Outlives, Recorded
    <2> QED BY <2>2, <2>3, DivideKeeps
  <1>7. CASE KernelUd2
    <2> DEFINE T(hurt) == [p \in Pid |-> IF p \in hurt THEN [regs[p] EXCEPT !.at = "wild"]
                                        ELSE regs[p]]
    <2>1. PICK living \in Outcomes, hurt \in SUBSET StackUsers :
            /\ \E next \in living :
                 Become(INT_END(SwitchTo([INT_START(Now, 0) EXCEPT !.regs = T(hurt)],
                                         living, next)))
            /\ Outlives(living) /\ diverted' = diverted \union hurt
      BY <1>7 DEF KernelUd2
    <2>2. PICK next \in living :
            Become(INT_END(SwitchTo([INT_START(Now, 0) EXCEPT !.regs = T(hurt)],
                                    living, next)))
      BY <2>1
    <2>3. living \in SUBSET alive /\ Recorded(0, living)
      BY <1>7, <2>1 DEF KernelUd2, Running, Outcomes, Outlives, Recorded
    <2>4. Hurt(T(hurt))
      <3>1. alive \subseteq Pid
        BY DEF FrameInv
      <3> QED BY <2>1, <3>1 DEF Hurt, StackUsers
    <2>5. PICK t : t = T(hurt)
      OBVIOUS
    <2>6. t = [p \in Pid |-> t[p]]
      BY <2>5
    <2> HIDE DEF T
    <2> QED BY <2>2, <2>3, <2>4, <2>5, <2>6, SwitchKeeps
  <1>8. CASE BecameAsync
    BY <1>8, BecameAsyncKeeps
  <1>9. CASE DebuggerSets
    BY <1>9, DebuggerKeeps
  <1>10. CASE BecameSync
    BY <1>10, BecameSyncKeeps
  <1>11. CASE LeaveHandler
    BY <1>11, LeaveKeeps
  <1>12. CASE MakeTask
    BY <1>12, MakeTaskKeeps
  <1>13. CASE UNCHANGED frameVars
    BY <1>13 DEF frameVars, FrameInv, Waiting, Waits, Settled, Level, Standing, OnProcessor,
                 BeforeTasking
  <1> QED BY <1>1, <1>2, <1>3, <1>4, <1>5, <1>6, <1>7, <1>8, <1>9, <1>10, <1>11, <1>12, <1>13
          DEF FrameNext

(* FrameInv holds in every state: INT_START and INT_END keep it. *)
THEOREM FramesHold == FrameSpec => []FrameInv
  <1>1. FrameInit => FrameInv
    BY InitFrame
  <1>2. FrameInv /\ [FrameNext]_frameVars => FrameInv'
    BY NextFrame
  <1> QED BY <1>1, <1>2, PTL DEF FrameSpec
-----------------------------------------------------------------------------
(* No step of any task or interrupt touches the frame a handler that runs  *)
(* with interrupts on (INT_BECAME_ASYNC) will leave through.               *)
THEOREM HandlersKeepTheirFrames == FrameSpec => []FramesStand
  <1>1. ASSUME FrameInv PROVE FramesStand
    <2> SUFFICES ASSUME NEW p \in alive, cpu.who # KERNEL, InHandler(Context(p))
                 PROVE  /\ Context(p).frame \in DOMAIN mem
                        /\ p \notin diverted => mem[Context(p).frame] = Program(p)
      BY DEF FramesStand, Program
    <2>1. CASE p = current
      <3>1. /\ Level(cpu, cpu.who, High(cpu.who)) /\ Standing(p, cpu, mem, diverted)
            /\ cpu.who = p /\ InHandler(cpu) /\ Context(p) = cpu
        BY <1>1, <2>1 DEF FrameInv, OnProcessor, Context, InHandler
      <3> QED BY <3>1 DEF Level, Standing
    <2>2. CASE p # current
      <3>1. /\ Level(regs[p], regs[p].who, StackTop(regs[p].who))
            /\ Standing(p, regs[p], mem, diverted)
            /\ regs[p].who = p /\ InHandler(regs[p]) /\ Context(p) = regs[p]
        BY <1>1, <2>2 DEF FrameInv, Waiting, Waits, Settled, Context, InHandler
      <3> QED BY <3>1 DEF Level, Standing
    <2> QED BY <2>1, <2>2
  <1> QED BY <1>1, FramesHold, PTL

(* With the divide handler, the ud2 behind it, the debugger and every      *)
(* fault among the steps: a handler leaves through its own frame unless it *)
(* was interrupted between INT_BECAME_SYNC and its cli, and a task that    *)
(* goes astray is one of those, or one LeavesThroughOwnFrame names.        *)
THEOREM OnlyTheWindowLeadsAstray == FrameSpec => []LeavesThroughOwnFrame
  <1>1. ASSUME FrameInv PROVE LeavesThroughOwnFrame
    BY <1>1 DEF FrameInv, BeforeTasking, OnProcessor, LeavesThroughOwnFrame
  <1> QED BY <1>1, FramesHold, PTL

(* INT_START takes from the stack what INT_END gives back, on every path   *)
(* that has both; the handler that has no INT_END leaves the processor, or *)
(* a task that outlives its trap, exactly one frame down another's stack.  *)
THEOREM StacksDoNotDrift == FrameSpec => []StacksLevel
  <1>1. ASSUME FrameInv PROVE StacksLevel
    <2>1. /\ alive \subseteq Pid /\ current \in Pid
          /\ cpu.who # KERNEL => OnProcessor
          /\ \A p \in alive \ {current} : Settled(p, regs[p], hit, spared, diverted)
      BY <1>1 DEF FrameInv, Waiting, Waits
    <2>2. ASSUME NEW p \in Pid
          PROVE  HandlerFrame(p) = StackTop(p) + IRET - FRAME /\ High(p) = StackTop(p) + IRET
      BY StackTopIsInt DEF HandlerFrame, High
    <2> QED BY <2>1, <2>2 DEF StacksLevel, OnProcessor, Settled, Level, InHandler
  <1> QED BY <1>1, FramesHold, PTL
=============================================================================
