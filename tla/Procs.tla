------------------------------- MODULE Procs -------------------------------
(***************************************************************************)
(* What the process table promises.  Each process has a queue of signals   *)
(* and obeys them in the order in which they came, some of them or all in  *)
(* a step: one stops it, one lets it go on, any other kills it.  Nothing   *)
(* else stops it, wakes it or, but for its own exit, kills it.  Only a     *)
(* process that is alive and not stopped has the processor, and only one   *)
(* that has it acts.  Sched implements this; in which order and when the   *)
(* signals of different processes are obeyed is its own affair.            *)
(***************************************************************************)
EXTENDS Integers, Sequences

CONSTANTS Pid,
          Sig,        \* the signals that somebody may send
          Stop, Continue,
          Uids,
          Limit,      \* how many signals may wait for a process
          Nobody      \* has the processor while there are no processes yet or no more

VARIABLES procs,      \* of each pid its state, the queue of its signals and its user
          on          \* the process that has the processor

Fresh == [state |-> "runs", queue |-> <<>>, uid |-> 0]
Unused == [state |-> "dead", queue |-> <<>>, uid |-> 0]

Effect(sig) == CASE sig = Stop -> "stopped" [] sig = Continue -> "runs" [] OTHER -> "dead"

(* P may obey so many of its signals: it is alive until the last of them. *)
Obeyable(P) ==
  {n \in 0 .. Len(P.queue) :
     n > 0 => P.state # "dead" /\ \A i \in 1 .. n - 1 : Effect(P.queue[i]) # "dead"}

Obeying(P, n) ==
  [state |-> IF n = 0 THEN P.state ELSE Effect(P.queue[n]),
   queue |-> SubSeq(P.queue, n + 1, Len(P.queue)), uid |-> P.uid]

Obeyed(P) == {Obeying(P, n) : n \in Obeyable(P)}

(* The processes become table; then they obey, and one gets the processor. *)
Settles(table) ==
  /\ procs' = [p \in Pid |-> procs'[p]]
  /\ \A p \in Pid : procs'[p] \in Obeyed(table[p])
  /\ on' \in {Nobody} \union {p \in Pid : procs'[p].state = "runs"}

Init == procs \in [Pid -> {Fresh, Unused}] /\ on = Nobody

Obey == Settles(procs)

Signal(p, sig) ==
  /\ on # Nobody /\ procs[on].uid \in {0, procs[p].uid}
  /\ procs[p].state # "dead" /\ Len(procs[p].queue) < Limit
  /\ Settles([procs EXCEPT ![p].queue = Append(@, sig)])

Exit == on # Nobody /\ Settles([procs EXCEPT ![on].state = "dead"])

SetUid(id) ==
  on # Nobody /\ procs[on].uid = 0 /\ Settles([procs EXCEPT ![on].uid = id])

Start(p) ==
  on # Nobody /\ procs[p].state = "dead" /\ Settles([procs EXCEPT ![p] = Fresh])

Next ==
  \/ Obey \/ Exit
  \/ \E p \in Pid : Start(p) \/ \E sig \in Sig : Signal(p, sig)
  \/ \E id \in Uids : SetUid(id)

Spec == Init /\ [][Next]_<<procs, on>>
=============================================================================
