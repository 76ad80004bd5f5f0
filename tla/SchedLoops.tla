----------------------------- MODULE SchedLoops -----------------------------
(***************************************************************************)
(* The two loops of sched.c as the source runs them, one turn after        *)
(* another, to compare with the closed forms of Sched.                     *)
(***************************************************************************)
EXTENDS Sched

(* One turn of the loop of __flush_signals: a signal is taken and obeyed. *)
Deliver(t) ==
  LET sig == Head(t.pending)
      u == [t EXCEPT !.pending = Tail(@)]
  IN IF sig = SIGSTOP THEN [u EXCEPT !.paused = TRUE]
     ELSE IF sig = SIGCONT THEN [u EXCEPT !.paused = FALSE]
     ELSE [u EXCEPT !.dead = TRUE]

FlushTurn(t) == IF t.dead \/ t.pending = <<>> THEN t ELSE Deliver(t)

(* At most as many turns as signals are pending. *)
FlushLoop(t) ==
  LET turn[n \in 0 .. Len(t.pending)] == IF n = 0 THEN t ELSE FlushTurn(turn[n - 1])
  IN turn[Len(t.pending)]

(* One try of the for loop of sched_next_task: it finds a task, panics, or *)
(* goes on; a panic leaves the table as the loop found it.                 *)
PickTurn(m, r) ==
  LET c == (r.m.current + 1) % TASKS_CAP
      t == r.m.tasks[c]
  IN IF r.done THEN r
     ELSE IF Runnable(t)
     THEN [m |-> [r.m EXCEPT !.current = c, !.cpu = t.regs], done |-> TRUE]
     ELSE IF ~t.dead /\ c = INIT /\ FlushLoop(t).dead
     THEN [m |-> Panic(m, "kill init"), done |-> TRUE]
     ELSE IF ~t.dead
     THEN [m |-> [r.m EXCEPT !.current = c, !.tasks[c] = FlushLoop(t)], done |-> FALSE]
     ELSE [m |-> [r.m EXCEPT !.current = c], done |-> FALSE]

PickLoop(m) ==
  LET try[n \in 0 .. TASKS_CAP] ==
        IF n = 0 THEN [m |-> m, done |-> FALSE] ELSE PickTurn(m, try[n - 1])
      end == try[TASKS_CAP]
  IN IF end.done THEN end.m ELSE Panic(end.m, "no processes")

(***************************************************************************)
(* The closed forms of Sched are the loops of sched.c, on every table the  *)
(* system reaches: who dies, who stops, what stays pending, who is next.   *)
(***************************************************************************)
ClosedFormsAreTheLoops ==
  /\ \A p \in Pid : __flush_signals(tasks[p]) = FlushLoop(tasks[p])
  /\ PickNext(Now) = PickLoop(Now)
=============================================================================
