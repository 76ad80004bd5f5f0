--------------------------- MODULE SigRingProofs ---------------------------
(***************************************************************************)
(* For every capacity: the ring invariant of SigRing, and that the ring    *)
(* implements the bounded queue of SigFifo.                                *)
(***************************************************************************)
EXTENDS SigRing, SequenceTheorems, TLAPS

(* A head or a position that may have run past the last cell, once. *)
Wrap(n) == IF n < TASK_SIG_CAP THEN n ELSE n - TASK_SIG_CAP

LEMMA WrapMod ==
  ASSUME NEW n \in 0 .. 2 * TASK_SIG_CAP - 1
  PROVE  n % TASK_SIG_CAP = Wrap(n)
  <1>1. CASE n < TASK_SIG_CAP
    BY <1>1, CapAssumption DEF Wrap
  <1>2. CASE ~(n < TASK_SIG_CAP)
    BY <1>2, CapAssumption DEF Wrap
  <1> QED BY <1>1, <1>2

LEMMA StepWrap ==
  ASSUME NEW h \in Cells
  PROVE  Step(h) = Wrap(h + 1)
  <1>1. h + 1 \in 0 .. 2 * TASK_SIG_CAP - 1
    BY CapAssumption DEF Cells
  <1> QED BY <1>1, WrapMod DEF Step

(* The invariant without the remainder: r, w, n are the heads and the size. *)
Linear(sigs, w, r, n) ==
  /\ w = Wrap(r + n)
  /\ \A i \in 1 .. n : sigs[Wrap(r + i - 1)] \in Sig

LEMMA PositionWrap ==
  ASSUME NEW r \in Cells, NEW i \in 1 .. TASK_SIG_CAP
  PROVE  (r + i - 1) % TASK_SIG_CAP = Wrap(r + i - 1)
  <1>1. r + i - 1 \in 0 .. 2 * TASK_SIG_CAP - 1
    BY CapAssumption DEF Cells
  <1> QED BY <1>1, WrapMod

LEMMA SizeWrap ==
  ASSUME NEW r \in Cells, NEW n \in Cells
  PROVE  (r + n) % TASK_SIG_CAP = Wrap(r + n)
  <1>1. r + n \in 0 .. 2 * TASK_SIG_CAP - 1
    BY CapAssumption DEF Cells
  <1> QED BY <1>1, WrapMod

LEMMA LinearNow ==
  TypeOK => /\ \A i \in 1 .. TASK_SIG_CAP :
                  CellOf(i) = Wrap(signals_read_head + i - 1)
            /\ HeadsAgree <=> Linear(signals, signals_write_head,
                                     signals_read_head, signals_size)
  <1> SUFFICES ASSUME TypeOK
               PROVE  /\ \A i \in 1 .. TASK_SIG_CAP :
                           CellOf(i) = Wrap(signals_read_head + i - 1)
                      /\ HeadsAgree <=> Linear(signals, signals_write_head,
                                               signals_read_head, signals_size)
    OBVIOUS
  <1>1. \A i \in 1 .. TASK_SIG_CAP : CellOf(i) = Wrap(signals_read_head + i - 1)
    BY PositionWrap DEF TypeOK, CellOf
  <1>2. (signals_read_head + signals_size) % TASK_SIG_CAP
           = Wrap(signals_read_head + signals_size)
    BY SizeWrap DEF TypeOK
  <1>3. 1 .. signals_size \subseteq 1 .. TASK_SIG_CAP
    BY CapAssumption DEF TypeOK, Cells
  <1> QED BY <1>1, <1>2, <1>3 DEF HeadsAgree, Linear

LEMMA LinearNext ==
  TypeOK' => /\ \A i \in 1 .. TASK_SIG_CAP :
                  CellOf(i)' = Wrap(signals_read_head' + i - 1)
             /\ HeadsAgree' <=> Linear(signals', signals_write_head',
                                       signals_read_head', signals_size')
  <1> SUFFICES ASSUME TypeOK'
               PROVE  /\ \A i \in 1 .. TASK_SIG_CAP :
                           CellOf(i)' = Wrap(signals_read_head' + i - 1)
                      /\ HeadsAgree' <=> Linear(signals', signals_write_head',
                                                signals_read_head', signals_size')
    OBVIOUS
  <1>1. \A i \in 1 .. TASK_SIG_CAP : CellOf(i)' = Wrap(signals_read_head' + i - 1)
    BY PositionWrap DEF TypeOK, CellOf
  <1>2. (signals_read_head' + signals_size') % TASK_SIG_CAP
           = Wrap(signals_read_head' + signals_size')
    BY SizeWrap DEF TypeOK
  <1>3. 1 .. signals_size' \subseteq 1 .. TASK_SIG_CAP
    BY CapAssumption DEF TypeOK, Cells
  <1> QED BY <1>1, <1>2, <1>3 DEF HeadsAgree, Linear
-----------------------------------------------------------------------------
LEMMA InitRing == Init => RingInv
  <1> SUFFICES ASSUME Init PROVE RingInv
    OBVIOUS
  <1>1. TypeOK
    BY CapAssumption DEF Init, TypeOK, Cells
  <1>2. Linear(signals, signals_write_head, signals_read_head, signals_size)
    BY CapAssumption DEF Init, Linear, Wrap
  <1> QED BY <1>1, <1>2, LinearNow DEF RingInv

(* A post writes the one cell behind the pending ones. *)
LEMMA PostRing ==
  ASSUME RingInv, NEW sig \in Sig, sched_kill_task(sig)
  PROVE  /\ RingInv'
         /\ signals_write_head = Wrap(signals_read_head + signals_size)
         /\ \A i \in 1 .. signals_size :
               Wrap(signals_read_head + i - 1) # signals_write_head
  <1>1. TypeOK'
    <2>1. signals_write_head' \in Cells
      BY StepWrap, CapAssumption DEF sched_kill_task, RingInv, TypeOK, Cells, Wrap
    <2> QED BY <2>1, CapAssumption DEF sched_kill_task, RingInv, TypeOK, Cells
  <1>2. Linear(signals, signals_write_head, signals_read_head, signals_size)
    BY LinearNow DEF RingInv
  <1>3. \A i \in 1 .. signals_size :
          Wrap(signals_read_head + i - 1) # signals_write_head
    BY <1>2, CapAssumption DEF Linear, Wrap, sched_kill_task, RingInv, TypeOK, Cells
  <1>4. signals_write_head' = Wrap(signals_read_head + (signals_size + 1))
    BY <1>2, StepWrap, CapAssumption
       DEF Linear, Wrap, sched_kill_task, RingInv, TypeOK, Cells
  <1>5. ASSUME NEW i \in 1 .. signals_size + 1
        PROVE  signals'[Wrap(signals_read_head + i - 1)] \in Sig
    <2>1. CASE i = signals_size + 1
      BY <2>1, <1>2, CapAssumption DEF Linear, sched_kill_task, RingInv, TypeOK, Cells
    <2>2. CASE i \in 1 .. signals_size
      BY <2>2, <1>2, <1>3 DEF Linear, sched_kill_task, RingInv, TypeOK
    <2> QED BY <2>1, <2>2 DEF RingInv, TypeOK, Cells
  <1>6. Linear(signals', signals_write_head', signals_read_head', signals_size')
    BY <1>4, <1>5 DEF Linear, sched_kill_task
  <1> QED BY <1>1, <1>2, <1>3, <1>6, LinearNext DEF RingInv, Linear

(* A delivery moves every other pending signal one place forward. *)
LEMMA FlushRing ==
  ASSUME RingInv, FlushOne
  PROVE  /\ RingInv'
         /\ signals_read_head = Wrap(signals_read_head)
         /\ \A i \in 1 .. signals_size' :
              Wrap(signals_read_head' + i - 1) = Wrap(signals_read_head + (i + 1) - 1)
  <1>1. TypeOK'
    <2>1. signals_read_head' \in Cells
      BY StepWrap, CapAssumption DEF FlushOne, RingInv, TypeOK, Cells, Wrap
    <2> QED BY <2>1, CapAssumption DEF FlushOne, RingInv, TypeOK, Cells
  <1>2. Linear(signals, signals_write_head, signals_read_head, signals_size)
    BY LinearNow DEF RingInv
  <1>3. signals_read_head' = Wrap(signals_read_head + 1)
    BY StepWrap DEF FlushOne, RingInv, TypeOK
  <1>4. \A i \in 1 .. signals_size' :
          Wrap(signals_read_head' + i - 1) = Wrap(signals_read_head + (i + 1) - 1)
    BY <1>3, CapAssumption DEF Wrap, FlushOne, RingInv, TypeOK, Cells
  <1>5. signals_write_head' = Wrap(signals_read_head' + signals_size')
    BY <1>2, <1>3, CapAssumption DEF Linear, Wrap, FlushOne, RingInv, TypeOK, Cells
  <1>6. ASSUME NEW i \in 1 .. signals_size'
        PROVE  signals'[Wrap(signals_read_head' + i - 1)] \in Sig
    <2>1. i + 1 \in 1 .. signals_size
      BY DEF FlushOne, RingInv, TypeOK, Cells
    <2> QED BY <2>1, <1>2, <1>4 DEF Linear, FlushOne
  <1>7. Linear(signals', signals_write_head', signals_read_head', signals_size')
    BY <1>5, <1>6 DEF Linear
  <1>8. signals_read_head = Wrap(signals_read_head)
    BY CapAssumption DEF Wrap, RingInv, TypeOK, Cells
  <1> QED BY <1>1, <1>4, <1>7, <1>8, LinearNext DEF RingInv

LEMMA ReuseRing ==
  ASSUME ReuseSlot
  PROVE  RingInv'
  <1>1. TypeOK'
    BY CapAssumption DEF ReuseSlot, TypeOK, Cells
  <1>2. Linear(signals', signals_write_head', signals_read_head', signals_size')
    BY CapAssumption DEF ReuseSlot, Linear, Wrap
  <1> QED BY <1>1, <1>2, LinearNext DEF RingInv

(***************************************************************************)
(* The counters of the ring agree and every pending cell holds a posted    *)
(* signal, whatever the capacity and whatever signals are posted.          *)
(***************************************************************************)
THEOREM RingCorrect == Spec => []RingInv
  <1>1. RingInv /\ [Next]_vars => RingInv'
    <2> SUFFICES ASSUME RingInv, [Next]_vars PROVE RingInv'
      OBVIOUS
    <2>1. ASSUME NEW sig \in Sig, sched_kill_task(sig) PROVE RingInv'
      BY <2>1, PostRing
    <2>2. CASE FlushOne
      BY <2>2, FlushRing
    <2>3. CASE ReuseSlot
      BY <2>3, ReuseRing
    <2>4. CASE UNCHANGED vars
      BY <2>4 DEF vars, ring, RingInv, TypeOK, HeadsAgree, CellOf
    <2> QED BY <2>1, <2>2, <2>3, <2>4 DEF Next
  <1> QED BY InitRing, <1>1, PTL DEF Spec
-----------------------------------------------------------------------------
(* contents is a sequence of posted signals, one per pending cell. *)
LEMMA ContentsNow ==
  RingInv => /\ contents \in Seq(Sig)
             /\ Len(contents) = signals_size
             /\ \A i \in 1 .. signals_size :
                  contents[i] = signals[Wrap(signals_read_head + i - 1)]
  <1> SUFFICES ASSUME RingInv
               PROVE  /\ contents \in Seq(Sig)
                      /\ Len(contents) = signals_size
                      /\ \A i \in 1 .. signals_size :
                           contents[i] = signals[Wrap(signals_read_head + i - 1)]
    OBVIOUS
  <1>1. signals_size \in Nat /\ 1 .. signals_size \subseteq 1 .. TASK_SIG_CAP
    BY CapAssumption DEF RingInv, TypeOK, Cells
  <1>2. \A i \in 1 .. signals_size :
          /\ CellOf(i) = Wrap(signals_read_head + i - 1)
          /\ signals[CellOf(i)] \in Sig
    BY <1>1, LinearNow DEF RingInv, HeadsAgree
  <1> QED BY <1>1, <1>2 DEF contents

LEMMA ContentsNext ==
  RingInv' => /\ contents' \in Seq(Sig)
              /\ Len(contents') = signals_size'
              /\ \A i \in 1 .. signals_size' :
                   contents'[i] = signals'[Wrap(signals_read_head' + i - 1)]
  <1> SUFFICES ASSUME RingInv'
               PROVE  /\ contents' \in Seq(Sig)
                      /\ Len(contents') = signals_size'
                      /\ \A i \in 1 .. signals_size' :
                           contents'[i] = signals'[Wrap(signals_read_head' + i - 1)]
    OBVIOUS
  <1>1. signals_size' \in Nat /\ 1 .. signals_size' \subseteq 1 .. TASK_SIG_CAP
    BY CapAssumption DEF RingInv, TypeOK, Cells
  <1>2. \A i \in 1 .. signals_size' :
          /\ CellOf(i)' = Wrap(signals_read_head' + i - 1)
          /\ (signals[CellOf(i)])' \in Sig
    BY <1>1, LinearNext DEF RingInv, HeadsAgree
  <1> QED BY <1>1, <1>2 DEF contents

LEMMA PostAppends ==
  ASSUME RingInv, NEW sig \in Sig, sched_kill_task(sig)
  PROVE  Fifo!Accept(sig)
  <1>1. /\ contents \in Seq(Sig) /\ contents' \in Seq(Sig)
        /\ Len(contents) = signals_size /\ Len(contents') = signals_size + 1
    BY PostRing, ContentsNow, ContentsNext DEF sched_kill_task
  <1>2. ASSUME NEW i \in 1 .. signals_size + 1
        PROVE  contents'[i] = Append(contents, sig)[i]
    <2>1. contents'[i] = signals'[Wrap(signals_read_head + i - 1)]
      BY PostRing, ContentsNext DEF sched_kill_task
    <2>2. CASE i = signals_size + 1
      <3>1. Wrap(signals_read_head + i - 1) = signals_write_head
        BY <2>2, PostRing, CapAssumption DEF RingInv, TypeOK, Cells
      <3> QED BY <1>1, <2>1, <2>2, <3>1, AppendProperties
              DEF sched_kill_task, RingInv, TypeOK
    <2>3. CASE i \in 1 .. signals_size
      <3>1. signals'[Wrap(signals_read_head + i - 1)]
              = signals[Wrap(signals_read_head + i - 1)]
        <4>1. Wrap(signals_read_head + i - 1) \in Cells
          BY <2>3, CapAssumption DEF Wrap, RingInv, TypeOK, Cells
        <4>2. Wrap(signals_read_head + i - 1) # signals_write_head
          BY <2>3, PostRing
        <4> QED BY <4>1, <4>2 DEF sched_kill_task, RingInv, TypeOK
      <3> QED BY <1>1, <2>1, <2>3, <3>1, ContentsNow, AppendProperties
    <2>4. signals_size \in Nat
      BY CapAssumption DEF RingInv, TypeOK, Cells
    <2>5. i = signals_size + 1 \/ i \in 1 .. signals_size
      BY <2>4
    <2> QED BY <2>2, <2>3, <2>5
  <1>3. contents' = Append(contents, sig)
    <2>1. Append(contents, sig) \in Seq(Sig)
          /\ Len(Append(contents, sig)) = signals_size + 1
      BY <1>1, AppendProperties
    <2> QED BY <1>1, <1>2, <2>1, SeqEqual
  <1> QED BY <1>1, <1>3 DEF Fifo!Accept, sched_kill_task

LEMMA FlushDelivers ==
  ASSUME RingInv, FlushOne
  PROVE  Fifo!Deliver
  <1>1. /\ contents \in Seq(Sig) /\ contents' \in Seq(Sig)
        /\ Len(contents) = signals_size /\ Len(contents') = signals_size - 1
        /\ contents # <<>>
    BY FlushRing, ContentsNow, ContentsNext, EmptySeq DEF FlushOne
  <1>2. taken' = Head(contents)
    <2>1. 1 \in 1 .. signals_size
      BY DEF FlushOne, RingInv, TypeOK, Cells
    <2>2. Wrap(signals_read_head + 1 - 1) = signals_read_head
      BY FlushRing, CapAssumption DEF RingInv, TypeOK, Cells
    <2> QED BY <1>1, <2>1, <2>2, ContentsNow DEF FlushOne
  <1>3. Tail(contents) \in Seq(Sig) /\ Len(Tail(contents)) = signals_size - 1
    BY <1>1, HeadTailProperties
  <1>4. ASSUME NEW i \in 1 .. signals_size - 1
        PROVE  contents'[i] = Tail(contents)[i]
    <2>1. i \in 1 .. signals_size' /\ i + 1 \in 1 .. signals_size
      BY DEF FlushOne, RingInv, TypeOK, Cells
    <2>2. contents'[i] = signals[Wrap(signals_read_head + (i + 1) - 1)]
      BY <2>1, FlushRing, ContentsNext DEF FlushOne
    <2>3. contents[i + 1] = signals[Wrap(signals_read_head + (i + 1) - 1)]
      BY <2>1, ContentsNow
    <2>4. Tail(contents)[i] = contents[i + 1]
      BY <1>1, <1>3, HeadTailProperties
    <2> QED BY <2>2, <2>3, <2>4
  <1>5. contents' = Tail(contents)
    BY <1>1, <1>3, <1>4, SeqEqual
  <1> QED BY <1>1, <1>2, <1>5 DEF Fifo!Deliver

(***************************************************************************)
(* The ring implements the bounded queue: signals are delivered in the     *)
(* order they were posted, none is invented, and the only loss is a post   *)
(* to a queue that already holds TASK_SIG_CAP - 1 signals.                 *)
(***************************************************************************)
THEOREM RingImplementsFifo == Spec => ImplementsFifo
  <1>1. Init => Fifo!Init
    <2> SUFFICES ASSUME Init PROVE Fifo!Init
      OBVIOUS
    <2>1. contents = <<>>
      BY InitRing, ContentsNow, EmptySeq DEF Init
    <2> QED BY <2>1 DEF Init, Fifo!Init
  <1>2. RingInv /\ [Next]_vars => [Fifo!Next]_<<contents, taken>>
    <2> SUFFICES ASSUME RingInv, [Next]_vars
                 PROVE  [Fifo!Next]_<<contents, taken>>
      OBVIOUS
    <2>1. ASSUME NEW sig \in Sig, sched_kill_task(sig) PROVE Fifo!Next
      BY <2>1, PostAppends DEF Fifo!Next
    <2>2. CASE FlushOne
      BY <2>2, FlushDelivers DEF Fifo!Next
    <2>3. CASE ReuseSlot
      <3>1. contents' = <<>>
        BY <2>3, ReuseRing, ContentsNext, EmptySeq DEF ReuseSlot
      <3> QED BY <2>3, <3>1 DEF ReuseSlot, Fifo!Reuse, Fifo!Next
    <2>4. CASE UNCHANGED vars
      BY <2>4 DEF vars, ring, contents, CellOf
    <2> QED BY <2>1, <2>2, <2>3, <2>4 DEF Next
  <1> QED BY <1>1, <1>2, RingCorrect, PTL DEF Spec, ImplementsFifo, Fifo!Spec
=============================================================================
