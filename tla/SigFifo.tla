------------------------------ MODULE SigFifo ------------------------------
(***************************************************************************)
(* What the pending-signal queue of one task promises: signals come out in *)
(* the order they were posted, a signal posted to a full queue is lost     *)
(* without a trace, and a task that takes over a dead slot starts with an  *)
(* empty queue.  SigRing is the ring buffer of kernel/sched.c that         *)
(* implements it, and Sched uses this view of a queue as a sequence.       *)
(***************************************************************************)
EXTENDS Naturals, Sequences

CONSTANTS Sig,      \* the signals that may be posted
          NoSig,    \* "nothing delivered yet"
          Limit     \* how many signals may be pending at once

VARIABLES queue,    \* the pending signals, oldest first
          taken     \* the signal the last delivery handed to the task

Init == queue = <<>> /\ taken = NoSig

Accept(s) == Len(queue) < Limit /\ queue' = Append(queue, s) /\ UNCHANGED taken

Deliver == queue # <<>> /\ taken' = Head(queue) /\ queue' = Tail(queue)

Reuse == queue' = <<>> /\ taken' = NoSig

Next == (\E s \in Sig : Accept(s)) \/ Deliver \/ Reuse

Spec == Init /\ [][Next]_<<queue, taken>>
=============================================================================
