------------------------------ MODULE SigRing ------------------------------
(***************************************************************************)
(* The pending-signal ring of one task_t: signals, signals_write_head,     *)
(* signals_read_head and signals_size.  sched_kill_task posts, one turn of *)
(* the loop of __flush_signals delivers, and the memset of sched_make_task *)
(* empties the ring of a slot that gets a new owner.                       *)
(***************************************************************************)
EXTENDS Integers, Sequences

CONSTANTS TASK_SIG_CAP,  \* cells of the ring, 64 in the code
          Sig            \* the signals a caller may post: 1 .. SIG_COUNT-1

SIGNOPE == 0             \* what memset leaves in a cell

ASSUME CapAssumption == TASK_SIG_CAP \in Nat \ {0, 1}
ASSUME SigAssumption == Sig \subseteq Nat \ {SIGNOPE}

VARIABLES signals, signals_write_head, signals_read_head, signals_size,
          taken          \* the signal the switch of __flush_signals saw last

ring == <<signals, signals_write_head, signals_read_head, signals_size>>
vars == <<ring, taken>>

Cells == 0 .. TASK_SIG_CAP - 1

Step(head) == (head + 1) % TASK_SIG_CAP

Init ==
  /\ signals = [c \in Cells |-> SIGNOPE]
  /\ signals_write_head = 0 /\ signals_read_head = 0 /\ signals_size = 0
  /\ taken = SIGNOPE
-----------------------------------------------------------------------------
(* Mutants of the two operations, used only to test the properties. *)
PostOneTooMany(sig) ==
  /\ signals_size <= TASK_SIG_CAP - 1
  /\ signals_size' = signals_size + 1
  /\ signals' = [signals EXCEPT ![signals_write_head] = sig]
  /\ signals_write_head' = Step(signals_write_head)
  /\ UNCHANGED <<signals_read_head, taken>>

ReuseKeepsWriteHead ==
  /\ signals' = [c \in Cells |-> SIGNOPE]
  /\ signals_read_head' = 0 /\ signals_size' = 0
  /\ taken' = SIGNOPE
  /\ UNCHANGED signals_write_head
-----------------------------------------------------------------------------
(* A full ring drops the signal: that call changes nothing and is a stutter. *)
sched_kill_task(sig) ==
  /\ signals_size < TASK_SIG_CAP - 1
  /\ signals_size' = signals_size + 1
  /\ signals' = [signals EXCEPT ![signals_write_head] = sig]
  /\ signals_write_head' = Step(signals_write_head)
  /\ UNCHANGED <<signals_read_head, taken>>

(* One turn of the loop: the size goes first, the read head last. *)
FlushOne ==
  /\ signals_size # 0
  /\ signals_size' = signals_size - 1
  /\ taken' = signals[signals_read_head]
  /\ signals_read_head' = Step(signals_read_head)
  /\ UNCHANGED <<signals, signals_write_head>>

(* The memset of a slot that is given to a new task, whatever it still held. *)
ReuseSlot ==
  /\ signals' = [c \in Cells |-> SIGNOPE]
  /\ signals_write_head' = 0 /\ signals_read_head' = 0 /\ signals_size' = 0
  /\ taken' = SIGNOPE

Next == (\E sig \in Sig : sched_kill_task(sig)) \/ FlushOne \/ ReuseSlot

Spec == Init /\ [][Next]_vars
-----------------------------------------------------------------------------
TypeOK ==
  /\ signals \in [Cells -> Sig \cup {SIGNOPE}]
  /\ signals_write_head \in Cells
  /\ signals_read_head \in Cells
  /\ signals_size \in Cells
  /\ taken \in Sig \cup {SIGNOPE}

(* The cell that holds the i-th oldest pending signal. *)
CellOf(i) == (signals_read_head + i - 1) % TASK_SIG_CAP

(* What the ring holds, oldest first. *)
contents == [i \in 1 .. signals_size |-> signals[CellOf(i)]]

(***************************************************************************)
(* The three counters of sched.c agree: size is the distance from the read *)
(* head to the write head, never fills the last cell, and no pending cell  *)
(* is one the memset zeroed (SIGNOPE would fall through the switch).       *)
(***************************************************************************)
HeadsAgree ==
  /\ signals_write_head = (signals_read_head + signals_size) % TASK_SIG_CAP
  /\ \A i \in 1 .. signals_size : signals[CellOf(i)] \in Sig

RingInv == TypeOK /\ HeadsAgree

Fifo == INSTANCE SigFifo WITH queue <- contents, NoSig <- SIGNOPE,
                              Limit <- TASK_SIG_CAP - 1

(* The ring of sched.c behaves as a bounded queue that drops when full. *)
ImplementsFifo == Fifo!Spec
=============================================================================
