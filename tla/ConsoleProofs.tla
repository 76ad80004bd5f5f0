---------------------------- MODULE ConsoleProofs ----------------------------
(***************************************************************************)
(* The keys of every terminal, for rings of any size and any number of     *)
(* terminals, readers and keys: while nothing disturbed a reader in        *)
(* mid-pop, they are read once and in order.  The order of a ring is       *)
(* argued on plain values (Kept), the races on the places of the readers.  *)
(***************************************************************************)
EXTENDS Console, SequenceTheorems, TLAPS

(* The index i or the one a lap before it. *)
Wrap(i) == IF i < INPUT_BUF_CAP THEN i ELSE i - INPUT_BUF_CAP

(* The keys u: h of them, at most one, in the reader's hand, which holds g, *)
(* and the rest in the cells c from the read index f up to the write one w. *)
Kept(u, h, g, c, f, w) ==
  /\ h \in {0, 1}
  /\ Len(u) - h \in 0 .. INPUT_BUF_CAP
  /\ h = 1 => u[1] = g
  /\ \A i \in 1 .. Len(u) - h : u[h + i] = c[Wrap(f + i - 1)]
  /\ w = Wrap(f + (Len(u) - h))

Hand(r) == IF pc[r] \in {"head", "check"} /\ got[r] # "nul" THEN 1 ELSE 0

First(r) == IF pc[r] = "head" THEN Wrap(rd[r] + 1) ELSE rd[r]

(* Where a reader is says what it loaded; its ring and its hand have the   *)
(* unread keys, and the counter promises no other.                         *)
ReaderInv(r) ==
  /\ InPop(r) => current_tty_displ = r /\ errno = "ENO"
  /\ pc[r] \in {"store", "empty", "take", "head"} => d[r] = r
  /\ pc[r] = "store" => n[r] <= Len(unread[r])
  /\ pc[r] = "head" => got[r] # "nul" /\ n[r] = rd[r]
  /\ Kept(unread[r], Hand(r), got[r], cell[r], First(r), wr[r])
  /\ size[r] <= Len(unread[r]) - Hand(r) - (IF pc[r] = "take" THEN 1 ELSE 0)

LocalsFit ==
  \A r \in Readers : /\ pc[r] = "store" => n[r] >= 1
                     /\ pc[r] \notin {"head", "check"} => got[r] = "nul"

ConsoleInv ==
  /\ TypeOK /\ LocalsFit
  /\ ~rough => \A r \in Readers : ReaderInv(r)
-----------------------------------------------------------------------------
(* The indices of a ring.                                                  *)
LEMMA WrapMod ==
  ASSUME NEW i \in 0 .. 2 * INPUT_BUF_CAP - 1
  PROVE  i % INPUT_BUF_CAP = Wrap(i) /\ Wrap(i) \in Index
  <1>1. CASE i < INPUT_BUF_CAP
    BY <1>1, ConsoleAssumption DEF Wrap, Index
  <1>2. CASE ~(i < INPUT_BUF_CAP)
    BY <1>2, ConsoleAssumption DEF Wrap, Index
  <1> QED BY <1>1, <1>2

LEMMA NextIndex ==
  ASSUME NEW i \in Index
  PROVE  (i + 1) % INPUT_BUF_CAP = Wrap(i + 1) /\ Wrap(i + 1) \in Index /\ Wrap(i) = i
  <1>1. i + 1 \in 0 .. 2 * INPUT_BUF_CAP - 1
    BY ConsoleAssumption DEF Index
  <1>2. Wrap(i) = i
    BY ConsoleAssumption DEF Index, Wrap
  <1> QED BY <1>1, <1>2, WrapMod

LEMMA NulIsNoKey == "nul" \notin Code
  BY ConsoleAssumption DEF Code

(***************************************************************************)
(* push_scancode on a ring that does not hold a lap of keys.               *)
(***************************************************************************)
LEMMA PushKept ==
  ASSUME NEW u \in Seq(Code), NEW h, NEW g, NEW c \in [Index -> Code \cup {"nul"}],
         NEW f \in Index, NEW w \in Index, NEW k \in Code,
         Kept(u, h, g, c, f, w), Len(u) - h # INPUT_BUF_CAP
  PROVE  Kept(Append(u, k), h, g, [c EXCEPT ![w] = k], f, Wrap(w + 1))
  <1> DEFINE m == Len(u) - h
             longer == Append(u, k)
             cells == [c EXCEPT ![w] = k]
  <1>1. /\ h \in {0, 1} /\ Len(u) \in Nat /\ m \in 0 .. INPUT_BUF_CAP - 1
        /\ Len(u) = m + h
        /\ w = Wrap(f + m) /\ (h = 1 => u[1] = g)
        /\ \A i \in 1 .. m : u[h + i] = c[Wrap(f + i - 1)]
    BY LenProperties, ConsoleAssumption DEF Kept
  <1>2. /\ Len(longer) = Len(u) + 1 /\ longer[Len(u) + 1] = k
        /\ \A i \in 1 .. Len(u) : longer[i] = u[i]
    BY AppendProperties
  <1> HIDE DEF m, longer, cells
  <1>3. Wrap(w + 1) = Wrap(f + (m + 1))
    BY <1>1, ConsoleAssumption DEF Wrap, Index
  <1>4. \A i \in 1 .. m : Wrap(f + i - 1) # w /\ Wrap(f + i - 1) \in Index
    BY <1>1, ConsoleAssumption DEF Wrap, Index
  <1>5. \A i \in Index : cells[i] = IF i = w THEN k ELSE c[i]
    BY DEF cells
  <1>6. ASSUME NEW i \in 1 .. m + 1 PROVE longer[h + i] = cells[Wrap(f + i - 1)]
    <2>1. CASE i = m + 1
      <3>1. f + i - 1 = f + m /\ h + i = Len(u) + 1
        BY <1>1, <2>1 DEF Index
      <3> QED BY <1>1, <1>2, <1>5, <3>1
    <2>2. CASE i # m + 1
      <3>1. i \in 1 .. m /\ h + i \in 1 .. Len(u)
        BY <1>1, <2>2
      <3> QED BY <1>1, <1>2, <1>4, <1>5, <3>1
    <2> QED BY <2>1, <2>2
  <1>7. Len(longer) - h = m + 1 /\ m + 1 \in 0 .. INPUT_BUF_CAP
    BY <1>1, <1>2, ConsoleAssumption
  <1>8. h = 1 => longer[1] = g
    BY <1>1, <1>2
  <1> QED BY <1>1, <1>3, <1>6, <1>7, <1>8 DEF Kept, longer, cells

(* pop_scancode takes the oldest key from the read index.                  *)
LEMMA TakeKept ==
  ASSUME NEW u \in Seq(Code), NEW g, NEW c, NEW f \in Index, NEW w,
         Kept(u, 0, g, c, f, w), Len(u) >= 1
  PROVE  c[f] \in Code /\ Kept(u, 1, c[f], c, Wrap(f + 1), w)
  <1> DEFINE m == Len(u)
  <1>1. /\ m \in 1 .. INPUT_BUF_CAP /\ w = Wrap(f + m)
        /\ \A i \in 1 .. m : u[i] = c[Wrap(f + i - 1)]
    BY LenProperties, ConsoleAssumption DEF Kept
  <1>2. \A i \in 1 .. m : u[i] \in Code
    BY ElementOfSeq
  <1> HIDE DEF m
  <1>3. u[1] = c[f] /\ u[1] \in Code
    <2>1. Wrap(f + 1 - 1) = f /\ 1 \in 1 .. m
      BY <1>1, ConsoleAssumption DEF Wrap, Index
    <2> QED BY <1>1, <1>2, <2>1
  <1>4. ASSUME NEW i \in 1 .. m - 1 PROVE u[1 + i] = c[Wrap(Wrap(f + 1) + i - 1)]
    <2>1. Wrap(Wrap(f + 1) + i - 1) = Wrap(f + (1 + i) - 1) /\ 1 + i \in 1 .. m
      BY <1>1, ConsoleAssumption DEF Wrap, Index
    <2> QED BY <1>1, <2>1
  <1>5. w = Wrap(Wrap(f + 1) + (m - 1)) /\ m - 1 \in 0 .. INPUT_BUF_CAP
    BY <1>1, ConsoleAssumption DEF Wrap, Index
  <1> QED BY <1>3, <1>4, <1>5 DEF Kept, m

(* tty_read has acted on the key in hand.                                  *)
LEMMA DropKept ==
  ASSUME NEW u \in Seq(Code), NEW g, NEW g2, NEW c, NEW f, NEW w, Kept(u, 1, g, c, f, w)
  PROVE  u # <<>> /\ Tail(u) \in Seq(Code) /\ Kept(Tail(u), 0, g2, c, f, w)
         /\ Len(Tail(u)) = Len(u) - 1
  <1>1. /\ Len(u) \in Nat /\ Len(u) - 1 \in 0 .. INPUT_BUF_CAP
        /\ w = Wrap(f + (Len(u) - 1))
        /\ \A i \in 1 .. Len(u) - 1 : u[1 + i] = c[Wrap(f + i - 1)]
    BY LenProperties DEF Kept
  <1>2. u # <<>>
    BY <1>1, EmptySeq
  <1>3. /\ Tail(u) \in Seq(Code) /\ Len(Tail(u)) = Len(u) - 1
        /\ \A i \in 1 .. Len(Tail(u)) : Tail(u)[i] = u[i + 1]
    BY <1>2, HeadTailProperties
  <1> QED BY <1>1, <1>2, <1>3 DEF Kept

(* Held so, the keys are the ones ReadsInOrder lists, one after the other. *)
InOrder(u, held, c, f, w) ==
  LET rest == Len(u) - Len(held)
  IN /\ rest \in 0 .. INPUT_BUF_CAP
     /\ u = held \o [i \in 1 .. rest |-> c[(f + i - 1) % INPUT_BUF_CAP]]
     /\ w = (f + rest) % INPUT_BUF_CAP

LEMMA KeptReads ==
  ASSUME NEW u \in Seq(Code), NEW h, NEW g \in Code \cup {"nul"},
         NEW c \in [Index -> Code \cup {"nul"}], NEW f \in Index, NEW w,
         Kept(u, h, g, c, f, w)
  PROVE  InOrder(u, IF h = 1 THEN <<g>> ELSE <<>>, c, f, w)
  <1> DEFINE held == IF h = 1 THEN <<g>> ELSE <<>>
  <1> DEFINE rest == Len(u) - Len(held)
             tail == [i \in 1 .. rest |-> c[(f + i - 1) % INPUT_BUF_CAP]]
  <1>1. /\ h \in {0, 1} /\ Len(u) \in Nat /\ Len(u) - h \in 0 .. INPUT_BUF_CAP
        /\ (h = 1 => u[1] = g)
        /\ \A i \in 1 .. Len(u) - h : u[h + i] = c[Wrap(f + i - 1)]
        /\ w = Wrap(f + (Len(u) - h))
    BY LenProperties DEF Kept
  <1>2. /\ held \in Seq(Code \cup {"nul"}) /\ Len(held) = h
        /\ (h = 1 => held[1] = g)
    <2> DEFINE S == Code \cup {"nul"}
    <2>1. <<g>> \in Seq(S) /\ Len(<<g>>) = 1 /\ <<g>>[1] = g
      <3>1. g \in S
        OBVIOUS
      <3> HIDE DEF S
      <3> QED BY <3>1
    <2>2. <<>> \in Seq(S) /\ Len(<<>>) = 0
      BY EmptySeq
    <2> HIDE DEF S
    <2>3. CASE h = 1
      BY <2>1, <2>3
    <2>4. CASE h # 1
      BY <1>1, <2>2, <2>4
    <2> QED BY <2>3, <2>4 DEF S
  <1>3. rest = Len(u) - h /\ rest \in 0 .. INPUT_BUF_CAP /\ Len(u) = h + rest
    BY <1>1, <1>2
  <1> HIDE DEF rest, held
  <1>4. ASSUME NEW i \in 1 .. rest
        PROVE  /\ (f + i - 1) % INPUT_BUF_CAP = Wrap(f + i - 1)
               /\ Wrap(f + i - 1) \in Index
    <2>1. f + i - 1 \in 0 .. 2 * INPUT_BUF_CAP - 1
      BY <1>3, ConsoleAssumption DEF Index
    <2> QED BY <2>1, WrapMod
  <1>5. (f + rest) % INPUT_BUF_CAP = Wrap(f + rest)
    <2>1. f + rest \in 0 .. 2 * INPUT_BUF_CAP - 1
      BY <1>3, ConsoleAssumption DEF Index
    <2> QED BY <2>1, WrapMod
  <1>6. \A i \in 1 .. rest : tail[i] = u[h + i] /\ tail[i] \in Code \cup {"nul"}
    BY <1>1, <1>3, <1>4
  <1>7. tail \in Seq(Code \cup {"nul"}) /\ Len(tail) = rest
    <2>1. tail \in [1 .. rest -> Code \cup {"nul"}] /\ rest \in Nat
      BY <1>3, <1>6
    <2> HIDE DEF tail
    <2> QED BY <2>1, IsASeq, LenProperties
  <1> HIDE DEF tail
  <1>8. held \o tail \in Seq(Code \cup {"nul"}) /\ Len(held \o tail) = h + rest
        /\ \A i \in 1 .. h + rest :
             (held \o tail)[i] = IF i <= h THEN held[i] ELSE tail[i - h]
    BY <1>2, <1>7, ConcatProperties
  <1>9. ASSUME NEW i \in 1 .. h + rest PROVE (held \o tail)[i] = u[i]
    <2>1. CASE i <= h
      <3>1. i = 1 /\ h = 1
        BY <1>1, <2>1
      <3> QED BY <1>1, <1>2, <1>8, <3>1
    <2>2. CASE ~(i <= h)
      <3>1. i - h \in 1 .. rest /\ h + (i - h) = i
        BY <1>1, <1>3, <2>2
      <3> QED BY <1>6, <1>8, <2>2, <3>1
    <2> QED BY <2>1, <2>2
  <1>10. u = held \o tail
    <2>1. u \in Seq(Code \cup {"nul"})
      BY <1>1, IsASeq, LenProperties, ElementOfSeq
    <2> QED BY <1>3, <1>8, <1>9, <2>1, SeqEqual
  <1> QED BY <1>1, <1>3, <1>5, <1>10 DEF InOrder, rest, tail, held
-----------------------------------------------------------------------------
LEMMA DisturbTyped ==
  ASSUME TypeOK, NEW now \in BOOLEAN, NEW keys \in [Tty -> Seq(Code)], Disturb(now, keys)
  PROVE  /\ rough' \in BOOLEAN /\ unread' \in [Tty -> Seq(Code)]
         /\ ~rough' => ~rough /\ ~now /\ unread' = keys
  <1>1. [t \in Tty |-> <<>>] \in [Tty -> Seq(Code)]
    BY EmptySeq
  <1>2. rough' = (rough \/ now) /\ unread' = IF rough' THEN [t \in Tty |-> <<>>] ELSE keys
    BY DEF Disturb
  <1>3. rough' \in BOOLEAN /\ (~rough' => ~rough /\ ~now)
    BY <1>2 DEF TypeOK
  <1> QED BY <1>1, <1>2, <1>3

(* The keyboard interrupt leaves every value in its range.                 *)
LEMMA KeyTyped ==
  ASSUME TypeOK, LocalsFit,
         \/ \E k \in keys_state : Release(k)
         \/ \E k \in Code : Type(k)
         \/ \E t \in Tty : SwitchTty(t)
         \/ Escape
  PROVE  TypeOK' /\ LocalsFit'
  <1>1. ASSUME NEW k \in keys_state, Release(k) PROVE TypeOK' /\ LocalsFit'
    BY <1>1 DEF Release, TypeOK, LocalsFit, ring, reader
  <1>2. ASSUME NEW k \in Code, Type(k) PROVE TypeOK' /\ LocalsFit'
    <2> DEFINE t == current_tty_displ
    <2>1. /\ keys_state' = keys_state \cup ({k} \cap Held)
          /\ UNCHANGED <<current_tty_displ, errno, pc, d, n, got, text_cur>>
          /\ \/ UNCHANGED <<size, rd, wr, cell, unread, rough>>
             \/ /\ size[t] # INPUT_BUF_CAP - 1
                /\ size' = [size EXCEPT ![t] = @ + 1]
                /\ cell' = [cell EXCEPT ![t][wr[t]] = k]
                /\ wr' = [wr EXCEPT ![t] = (@ + 1) % INPUT_BUF_CAP]
                /\ Disturb(Len(unread[t]) - Len(InHand(t)) = INPUT_BUF_CAP,
                           [unread EXCEPT ![t] = Append(@, k)])
                /\ UNCHANGED rd
      BY <1>2 DEF Type, Strike, ring, reader
    <2>2. t \in Tty /\ keys_state' \subseteq Key /\ k \in Code
      BY <2>1 DEF TypeOK, Key
    <2>3. CASE UNCHANGED <<size, rd, wr, cell, unread, rough>>
      BY <2>1, <2>2, <2>3 DEF TypeOK, LocalsFit
    <2>4. CASE ~UNCHANGED <<size, rd, wr, cell, unread, rough>>
      <3>1. size' \in [Tty -> Index]
        <4>1. size \in [Tty -> Index] /\ size[t] \in Index
          BY <2>2 DEF TypeOK
        <4>2. size[t] + 1 \in Index
          BY <2>1, <2>4, <4>1, ConsoleAssumption DEF Index
        <4> QED BY <2>1, <2>2, <2>4, <4>1, <4>2
      <3>2. wr' \in [Tty -> Index]
        <4>1. wr \in [Tty -> Index] /\ wr[t] \in Index
          BY <2>2 DEF TypeOK
        <4>2. (wr[t] + 1) % INPUT_BUF_CAP \in Index
          BY <4>1, NextIndex
        <4> QED BY <2>1, <2>2, <2>4, <4>1, <4>2
      <3>3. cell' \in [Tty -> [Index -> Code \cup {"nul"}]]
        <4>1. cell \in [Tty -> [Index -> Code \cup {"nul"}]] /\ cell[t] \in [Index -> Code \cup {"nul"}]
          BY <2>2 DEF TypeOK
        <4>2. [cell[t] EXCEPT ![wr[t]] = k] \in [Index -> Code \cup {"nul"}]
          BY <2>2, <4>1
        <4>3. cell' = [cell EXCEPT ![t] = [cell[t] EXCEPT ![wr[t]] = k]]
          BY <2>1, <2>4
        <4> QED BY <2>2, <4>1, <4>2, <4>3
      <3>4. [unread EXCEPT ![t] = Append(@, k)] \in [Tty -> Seq(Code)]
        BY <2>2, AppendProperties DEF TypeOK
      <3>5. rough' \in BOOLEAN /\ unread' \in [Tty -> Seq(Code)]
        BY <2>1, <2>4, <3>4, DisturbTyped
      <3> QED BY <2>1, <2>2, <2>4, <3>1, <3>2, <3>3, <3>5 DEF TypeOK, LocalsFit
    <2> QED BY <2>3, <2>4
  <1>3. ASSUME NEW t \in Tty, SwitchTty(t) PROVE TypeOK' /\ LocalsFit'
    <2>1. /\ keys_state' = keys_state \cup ({FKey[t + 1]} \cap Held)
          /\ current_tty_displ' = t
          /\ Disturb(t # current_tty_displ /\ \E r \in Readers : InPop(r), unread)
          /\ UNCHANGED <<size, rd, wr, cell, errno, pc, d, n, got, text_cur>>
      BY <1>3 DEF SwitchTty, Strike, ring, reader
    <2>2. keys_state' \subseteq Key
      BY <2>1 DEF TypeOK, Key
    <2>3. rough' \in BOOLEAN /\ unread' \in [Tty -> Seq(Code)]
      BY <2>1, DisturbTyped DEF TypeOK
    <2> QED BY <2>1, <2>2, <2>3 DEF TypeOK, LocalsFit
  <1>4. CASE Escape
    BY <1>4 DEF Escape, Strike, TypeOK, LocalsFit, Key, ring, reader
  <1> QED BY <1>1, <1>2, <1>3, <1>4

LEMMA StorePlace == ASSUME NEW r, StoreSize(r) PROVE pc[r] = "store"
  BY DEF StoreSize, Go

LEMMA LocalsAt ==
  ASSUME LocalsFit, NEW r \in Readers
  PROVE  /\ pc[r] = "store" => n[r] >= 1
         /\ pc[r] \notin {"head", "check"} => got[r] = "nul"
  BY Zenon DEF LocalsFit

(* So does each step of a reader; at StoreSize its n is at least 1.        *)
LEMMA ReaderTyped ==
  ASSUME TypeOK, LocalsFit, NEW r \in Readers, ReaderStep(r) \/ Restart(r)
  PROVE  TypeOK' /\ LocalsFit'
  <1>0. r \in Tty /\ 0 \in Tty /\ 0 \in Index
    BY ConsoleAssumption DEF Tty, Index
  <1> USE DEF Go, Console, ring, reader
  <1>1. CASE Call(r)
    BY <1>1 DEF Call, TypeOK, LocalsFit
  <1>2. CASE Poll(r)
    BY <1>2 DEF Poll, TypeOK, LocalsFit
  <1>3. CASE LoadSize(r)
    <2>1. size[current_tty_displ] \in Index /\ current_tty_displ \in Tty
      BY DEF TypeOK
    <2>2. pc' = [pc EXCEPT ![r] = IF size[current_tty_displ] = 0 THEN "empty" ELSE "store"]
      BY <1>3 DEF LoadSize
    <2>3. pc' \in [Readers -> {"shell", "poll", "size", "empty", "store", "take", "head", "check"}]
      BY <2>2 DEF TypeOK
    <2>4. TypeOK'
      BY <1>3, <2>1, <2>3 DEF LoadSize, TypeOK
    <2>5. pc'[r] = "store" => n'[r] >= 1
      <3>1. CASE size[current_tty_displ] = 0
        BY <2>2, <3>1 DEF TypeOK
      <3>2. CASE size[current_tty_displ] # 0
        <4>1. size[current_tty_displ] >= 1
          BY <2>1, <3>2, ConsoleAssumption DEF Index
        <4> QED BY <1>3, <4>1 DEF LoadSize, TypeOK
      <3> QED BY <3>1, <3>2
    <2>6. pc[r] = "size" /\ got' = got /\ (pc'[r] = "store" \/ pc'[r] = "empty")
      BY <1>3, <2>2 DEF LoadSize, TypeOK
    <2>7. \A q \in Readers : q # r => pc'[q] = pc[q] /\ n'[q] = n[q]
      BY <1>3, <2>2 DEF LoadSize, TypeOK
    <2>8. LocalsFit'
      BY <2>5, <2>6, <2>7 DEF LocalsFit
    <2> QED BY <2>4, <2>8
  <1>4. CASE Empty(r)
    BY <1>0, <1>4 DEF Empty, TypeOK, LocalsFit
  <1>5. CASE StoreSize(r)
    <2>0. n[r] >= 1
      <3>1. pc[r] = "store"
        BY <1>5, StorePlace
      <3> QED BY <3>1, LocalsAt
    <2>1. n[r] \in Index /\ n[r] >= 1 /\ d[r] \in Tty
      BY <2>0 DEF TypeOK
    <2>2. n[r] - 1 \in Index
      BY <2>1, ConsoleAssumption DEF Index
    <2> QED BY <1>5, <2>1, <2>2 DEF StoreSize, TypeOK, LocalsFit
  <1>6. CASE Take(r)
    BY <1>6 DEF Take, TypeOK, LocalsFit
  <1>7. CASE StoreHead(r)
    <2>1. n[r] \in Index /\ d[r] \in Tty
      BY DEF TypeOK
    <2>2. (n[r] + 1) % INPUT_BUF_CAP \in Index
      BY <2>1, NextIndex
    <2> QED BY <1>0, <1>7, <2>1, <2>2 DEF StoreHead, TypeOK, LocalsFit
  <1>8. CASE Check(r)
    <2>1. /\ got' = [got EXCEPT ![r] = "nul"]
          /\ pc' = [pc EXCEPT ![r] = IF errno = "EAGAIN" THEN "poll" ELSE NextPlace(got[r])]
          /\ \/ text_cur' = text_cur /\ unread' = unread
             \/ /\ text_cur' = [text_cur EXCEPT ![r] = NewLength(@, got[r])]
                /\ unread' = [unread EXCEPT ![r] = IF @ = <<>> THEN @ ELSE Tail(@)]
          /\ UNCHANGED <<current_tty_displ, keys_state, size, rd, wr, cell, errno, d, n, rough>>
      BY <1>8 DEF Check
    <2>2. text_cur[r] \in 0 .. COUNT /\ unread[r] \in Seq(Code)
      BY <1>0 DEF TypeOK
    <2>3. NewLength(text_cur[r], got[r]) \in 0 .. COUNT
      BY <2>2, ConsoleAssumption DEF NewLength
    <2>4. unread[r] # <<>> => Tail(unread[r]) \in Seq(Code)
      BY <2>2, HeadTailProperties
    <2>5. text_cur' \in [Readers -> 0 .. COUNT]
      BY <2>1, <2>3 DEF TypeOK
    <2>6. unread' \in [Tty -> Seq(Code)]
      BY <1>0, <2>1, <2>2, <2>4 DEF TypeOK
    <2>7. NextPlace(got[r]) = "shell" \/ NextPlace(got[r]) = "poll"
      BY DEF NextPlace
    <2>8. /\ pc' \in [Readers -> {"shell", "poll", "size", "empty", "store", "take", "head", "check"}]
          /\ pc'[r] = "shell" \/ pc'[r] = "poll"
          /\ \A q \in Readers : q # r => pc'[q] = pc[q]
      BY <2>1, <2>7 DEF TypeOK
    <2>9. /\ got' \in [Readers -> Code \cup {"nul"}] /\ got'[r] = "nul"
          /\ \A q \in Readers : q # r => got'[q] = got[q]
      BY <2>1 DEF TypeOK
    <2>10. TypeOK'
      BY <2>1, <2>5, <2>6, <2>8, <2>9 DEF TypeOK
    <2>11. LocalsFit'
      BY <2>1, <2>8, <2>9 DEF LocalsFit
    <2> QED BY <2>10, <2>11
  <1>9. CASE Restart(r)
    <2>1. unread \in [Tty -> Seq(Code)] /\ (pc[r] \in {"take", "head"} \/ got[r] # "nul") \in BOOLEAN
      BY DEF TypeOK
    <2>2. rough' \in BOOLEAN /\ unread' \in [Tty -> Seq(Code)]
      BY <1>9, <2>1, DisturbTyped DEF Restart
    <2>3. 0 \in 0 .. COUNT
      BY ConsoleAssumption
    <2>4. TypeOK'
      BY <1>0, <1>9, <2>2, <2>3 DEF Restart, TypeOK
    <2>5. LocalsFit'
      BY <1>9 DEF Restart, TypeOK, LocalsFit
    <2> QED BY <2>4, <2>5
  <1> QED BY <1>1, <1>2, <1>3, <1>4, <1>5, <1>6, <1>7, <1>8, <1>9 DEF ReaderStep
-----------------------------------------------------------------------------
LEMMA InitConsole == Init => ConsoleInv
  <1> SUFFICES ASSUME Init PROVE ConsoleInv
    OBVIOUS
  <1>1. 0 \in Tty /\ 0 \in Index /\ 0 \in 0 .. COUNT /\ Wrap(0) = 0
        /\ 0 \in 0 .. INPUT_BUF_CAP
    BY ConsoleAssumption DEF Tty, Index, Wrap
  <1>2. <<>> \in Seq(Code) /\ Len(<<>>) = 0
    BY EmptySeq
  <1>3. TypeOK
    BY <1>1, <1>2 DEF Init, TypeOK
  <1>4. LocalsFit
    BY DEF Init, LocalsFit
  <1>5. ASSUME NEW r \in Readers PROVE ReaderInv(r)
    <2>1. r \in Tty
      BY ConsoleAssumption DEF Tty
    <2>2. /\ pc[r] = "shell" /\ size[r] = 0 /\ rd[r] = 0 /\ wr[r] = 0
          /\ unread[r] = <<>> /\ got[r] = "nul"
      BY <2>1 DEF Init
    <2>3. Hand(r) = 0 /\ First(r) = 0 /\ ~InPop(r)
      BY <2>2 DEF Hand, First, InPop
    <2>4. Kept(unread[r], 0, got[r], cell[r], 0, wr[r])
      BY <1>1, <1>2, <2>2 DEF Kept
    <2> QED BY <1>2, <2>2, <2>3, <2>4 DEF ReaderInv
  <1> QED BY <1>3, <1>4, <1>5 DEF ConsoleInv

(* A step that leaves a reader, its ring and, if it is in pop_scancode, the *)
(* screen and errno alone keeps what is known of it.                        *)
LEMMA OtherReader ==
  ASSUME NEW r \in Readers, ReaderInv(r),
         pc'[r] = pc[r], got'[r] = got[r], d'[r] = d[r], n'[r] = n[r],
         unread'[r] = unread[r], size'[r] = size[r], rd'[r] = rd[r],
         wr'[r] = wr[r], cell'[r] = cell[r],
         InPop(r) => current_tty_displ' = r /\ errno' = "ENO"
  PROVE  ReaderInv(r)'
  <1>1. Hand(r)' = Hand(r) /\ First(r)' = First(r) /\ InPop(r)' = InPop(r)
    BY DEF Hand, First, InPop
  <1> QED BY <1>1 DEF ReaderInv

LEMMA EmptyHand ==
  ASSUME NEW u, NEW g, NEW g2, NEW c, NEW f, NEW w, Kept(u, 0, g, c, f, w)
  PROVE  Kept(u, 0, g2, c, f, w)
  BY DEF Kept

(* What TypeOK says of one reader and its ring.                            *)
LEMMA ReaderValues ==
  ASSUME TypeOK, NEW r \in Readers
  PROVE  /\ r \in Tty /\ size[r] \in Nat /\ rd[r] \in Index /\ wr[r] \in Index
         /\ cell[r] \in [Index -> Code \cup {"nul"}]
         /\ unread[r] \in Seq(Code) /\ Len(unread[r]) \in Nat
         /\ got[r] \in Code \cup {"nul"} /\ n[r] \in Index
         /\ First(r) \in Index /\ Hand(r) \in {0, 1}
  <1>1. r \in Tty
    BY ConsoleAssumption DEF Tty
  <1>2. /\ size[r] \in Index /\ rd[r] \in Index /\ wr[r] \in Index
        /\ cell[r] \in [Index -> Code \cup {"nul"}] /\ unread[r] \in Seq(Code)
        /\ got[r] \in Code \cup {"nul"} /\ n[r] \in Index
    BY <1>1 DEF TypeOK
  <1>3. size[r] \in Nat
    BY <1>2 DEF Index
  <1>4. Len(unread[r]) \in Nat
    BY <1>2, LenProperties
  <1>5. First(r) \in Index
    BY <1>2, NextIndex DEF First
  <1>6. Hand(r) \in {0, 1}
    BY DEF Hand
  <1> QED BY <1>1, <1>2, <1>3, <1>4, <1>5, <1>6

LEMMA HandIsInHand ==
  ASSUME NEW r \in Readers
  PROVE  InHand(r) = (IF Hand(r) = 1 THEN <<got[r]>> ELSE <<>>) /\ Len(InHand(r)) = Hand(r)
  <1>1. Len(<<got[r]>>) = 1 /\ Len(<<>>) = 0
    OBVIOUS
  <1> QED BY <1>1 DEF Hand, InHand

(* The keyboard interrupt, in a run nothing disturbed.                     *)
LEMMA KeyKeeps ==
  ASSUME ConsoleInv, ~rough',
         \/ \E k \in keys_state : Release(k)
         \/ \E k \in Code : Type(k)
         \/ \E t \in Tty : SwitchTty(t)
         \/ Escape,
         NEW r \in Readers
  PROVE  ReaderInv(r)'
  <1>1. ASSUME NEW k \in keys_state, Release(k) PROVE ReaderInv(r)'
    <2>1. UNCHANGED <<current_tty_displ, errno, pc, got, d, n, unread, size, rd, wr, cell, rough>>
      BY <1>1 DEF Release, ring, reader
    <2>2. ReaderInv(r)
      BY <2>1 DEF ConsoleInv
    <2>3. InPop(r) => current_tty_displ' = r /\ errno' = "ENO"
      BY <2>1, <2>2 DEF ReaderInv
    <2> QED BY <2>1, <2>2, <2>3, OtherReader
  <1>2. ASSUME NEW k \in Code, Type(k) PROVE ReaderInv(r)'
    <2> DEFINE t == current_tty_displ
    <2>1. /\ UNCHANGED <<current_tty_displ, errno, pc, d, n, got>>
          /\ \/ UNCHANGED <<size, rd, wr, cell, unread, rough>>
             \/ /\ size' = [size EXCEPT ![t] = @ + 1]
                /\ cell' = [cell EXCEPT ![t][wr[t]] = k]
                /\ wr' = [wr EXCEPT ![t] = (@ + 1) % INPUT_BUF_CAP]
                /\ Disturb(Len(unread[t]) - Len(InHand(t)) = INPUT_BUF_CAP,
                           [unread EXCEPT ![t] = Append(@, k)])
                /\ UNCHANGED rd
      BY <1>2 DEF Type, ring, reader
    <2>2. TypeOK /\ t \in Tty /\ r \in Tty
      BY ConsoleAssumption DEF ConsoleInv, TypeOK, Tty
    <2>3. CASE UNCHANGED <<size, rd, wr, cell, unread, rough>>
      <3>1. ReaderInv(r)
        BY <2>3 DEF ConsoleInv
      <3>2. InPop(r) => current_tty_displ' = r /\ errno' = "ENO"
        BY <2>1, <3>1 DEF ReaderInv
      <3> QED BY <2>1, <2>3, <3>1, <3>2, OtherReader
    <2>4. CASE ~UNCHANGED <<size, rd, wr, cell, unread, rough>>
      <3> DEFINE full == Len(unread[t]) - Len(InHand(t)) = INPUT_BUF_CAP
                 keys == [unread EXCEPT ![t] = Append(@, k)]
      <3>1. full \in BOOLEAN /\ keys \in [Tty -> Seq(Code)]
        BY <2>2, AppendProperties DEF TypeOK
      <3>2. ~rough /\ ~full /\ unread' = keys
        <4>1. Disturb(full, keys)
          BY <2>1, <2>4
        <4> HIDE DEF full, keys
        <4> QED BY <2>2, <3>1, <4>1, DisturbTyped
      <3>3. ReaderInv(r)
        BY <3>2 DEF ConsoleInv
      <3>4. InPop(r) => current_tty_displ' = r /\ errno' = "ENO"
        BY <2>1, <3>3 DEF ReaderInv
      <3>5. CASE r # t
        <4>1. /\ unread'[r] = unread[r] /\ size'[r] = size[r] /\ rd'[r] = rd[r]
              /\ wr'[r] = wr[r] /\ cell'[r] = cell[r]
          BY <2>1, <2>2, <2>4, <3>2, <3>5 DEF TypeOK
        <4> QED BY <2>1, <3>3, <3>4, <4>1, OtherReader
      <3>6. CASE r = t
        <4>1. /\ unread'[r] = Append(unread[r], k) /\ size'[r] = size[r] + 1
              /\ rd'[r] = rd[r] /\ wr'[r] = (wr[r] + 1) % INPUT_BUF_CAP
              /\ cell'[r] = [cell[r] EXCEPT ![wr[r]] = k]
          BY <2>1, <2>2, <2>4, <3>2, <3>6 DEF TypeOK
        <4>2. Len(unread[r]) - Hand(r) # INPUT_BUF_CAP
          BY <3>2, <3>6, HandIsInHand
        <4>3. Kept(unread[r], Hand(r), got[r], cell[r], First(r), wr[r])
          BY <3>3 DEF ReaderInv
        <4>4. Kept(unread'[r], Hand(r), got[r], cell'[r], First(r), wr'[r])
          BY <2>2, <4>1, <4>2, <4>3, ReaderValues, NextIndex, PushKept
        <4>5. pc'[r] = pc[r] /\ got'[r] = got[r] /\ d'[r] = d[r] /\ n'[r] = n[r]
          BY <2>1
        <4>6. Hand(r)' = Hand(r) /\ First(r)' = First(r) /\ InPop(r)' = InPop(r)
          BY <4>1, <4>5 DEF Hand, First, InPop
        <4>7. /\ Len(unread[r]) \in Nat /\ size[r] \in Nat /\ Hand(r) \in {0, 1}
              /\ n[r] \in Nat /\ Len(unread'[r]) = Len(unread[r]) + 1
          BY <2>2, <4>1, ReaderValues, AppendProperties DEF Index
        <4>8. pc'[r] = "store" => n'[r] <= Len(unread'[r])
          BY <3>3, <4>5, <4>7 DEF ReaderInv
        <4>9. size'[r] <= Len(unread'[r]) - Hand(r) - (IF pc'[r] = "take" THEN 1 ELSE 0)
          BY <3>3, <4>1, <4>5, <4>7 DEF ReaderInv
        <4> QED BY <3>3, <3>4, <4>1, <4>4, <4>5, <4>6, <4>8, <4>9 DEF ReaderInv
      <3> QED BY <3>5, <3>6
    <2> QED BY <2>3, <2>4
  <1>3. ASSUME NEW t \in Tty, SwitchTty(t) PROVE ReaderInv(r)'
    <2> DEFINE hit == t # current_tty_displ /\ \E q \in Readers : InPop(q)
    <2>1. /\ current_tty_displ' = t /\ Disturb(hit, unread)
          /\ UNCHANGED <<size, rd, wr, cell, errno, pc, d, n, got>>
      BY <1>3 DEF SwitchTty, ring, reader
    <2>2. ~rough /\ ~hit /\ unread' = unread
      <3>1. hit \in BOOLEAN
        OBVIOUS
      <3> HIDE DEF hit
      <3> QED BY <2>1, <3>1, DisturbTyped DEF ConsoleInv, TypeOK
    <2>3. ReaderInv(r)
      BY <2>2 DEF ConsoleInv
    <2>4. InPop(r) => current_tty_displ' = r /\ errno' = "ENO"
      BY <2>1, <2>2, <2>3 DEF ReaderInv
    <2> QED BY <2>1, <2>2, <2>3, <2>4, OtherReader
  <1>4. CASE Escape
    <2>1. UNCHANGED <<current_tty_displ, errno, pc, got, d, n, unread, size, rd, wr, cell, rough>>
      BY <1>4 DEF Escape, ring, reader
    <2>2. ReaderInv(r)
      BY <2>1 DEF ConsoleInv
    <2>3. InPop(r) => current_tty_displ' = r /\ errno' = "ENO"
      BY <2>1, <2>2 DEF ReaderInv
    <2> QED BY <2>1, <2>2, <2>3, OtherReader
  <1> QED BY <1>1, <1>2, <1>3, <1>4

(* A reader that is not in pop_scancode, its hand empty.                   *)
LEMMA AtRest ==
  ASSUME NEW r \in Readers,
         pc'[r] \in {"shell", "poll", "check"}, got'[r] = "nul",
         Kept(unread'[r], 0, got'[r], cell'[r], rd'[r], wr'[r]),
         Len(unread'[r]) \in Nat, size'[r] <= Len(unread'[r])
  PROVE  ReaderInv(r)'
  <1>1. Hand(r)' = 0 /\ First(r)' = rd'[r] /\ InPop(r)' = FALSE
    BY DEF Hand, First, InPop
  <1>2. size'[r] <= Len(unread'[r]) - 0 - 0
    <2> DEFINE m == Len(unread'[r])
    <2>1. m \in Nat /\ size'[r] <= m /\ m - 0 - 0 = m
      OBVIOUS
    <2> HIDE DEF m
    <2>2. size'[r] <= m - 0 - 0
      BY <2>1
    <2> QED BY <2>2 DEF m
  <1> QED BY <1>1, <1>2 DEF ReaderInv

(* The step of one reader, as the others see it.                           *)
LEMMA OthersKeep ==
  ASSUME ConsoleInv, ~rough, ~rough', NEW r \in Readers, ReaderStep(r) \/ Restart(r),
         NEW q \in Readers \ {r}
  PROVE  ReaderInv(q)'
  <1>1. /\ TypeOK /\ LocalsFit /\ ReaderInv(r) /\ ReaderInv(q) /\ r \in Tty /\ q \in Tty
        /\ q \in Readers /\ q # r
    BY ConsoleAssumption DEF ConsoleInv, Tty
  <1>2. /\ pc'[q] = pc[q] /\ got'[q] = got[q] /\ d'[q] = d[q] /\ n'[q] = n[q]
        /\ current_tty_displ' = current_tty_displ /\ wr' = wr /\ cell' = cell
    BY <1>1 DEF ReaderStep, Go, Console, ring, reader, TypeOK,
       Call, Poll, LoadSize, Empty, StoreSize, Take, StoreHead, Check, Restart
  <1>3. unread'[q] = unread[q]
    <2>1. CASE Check(r)
      BY <1>1, <2>1 DEF Check, TypeOK
    <2>2. CASE Restart(r)
      <3>1. Disturb(pc[r] \in {"take", "head"} \/ got[r] # "nul", unread)
        BY <2>2 DEF Restart
      <3>2. (pc[r] \in {"take", "head"} \/ got[r] # "nul") \in BOOLEAN
        OBVIOUS
      <3>3. unread' = unread
        BY <1>1, <3>1, <3>2, DisturbTyped DEF TypeOK
      <3> QED BY <3>3
    <2>3. CASE ~Check(r) /\ ~Restart(r)
      BY <2>3 DEF ReaderStep, Call, Poll, LoadSize, Empty, StoreSize, Take, StoreHead
    <2> QED BY <2>1, <2>2, <2>3
  <1>4. size'[q] = size[q]
    <2>1. CASE StoreSize(r)
      <3>1. pc[r] = "store" /\ size' = [size EXCEPT ![d[r]] = n[r] - 1]
        BY <2>1 DEF StoreSize, Go
      <3>2. d[r] = r
        BY <1>1, <3>1 DEF ReaderInv
      <3> QED BY <1>1, <3>1, <3>2 DEF TypeOK
    <2>2. CASE ~StoreSize(r)
      BY <2>2 DEF ReaderStep, Call, Poll, LoadSize, Empty, Take, StoreHead, Check, Restart, ring
    <2> QED BY <2>1, <2>2
  <1>5. rd'[q] = rd[q]
    <2>1. CASE StoreHead(r)
      <3>1. pc[r] = "head" /\ rd' = [rd EXCEPT ![d[r]] = (n[r] + 1) % INPUT_BUF_CAP]
        BY <2>1 DEF StoreHead, Go
      <3>2. d[r] = r
        BY <1>1, <3>1 DEF ReaderInv
      <3> QED BY <1>1, <3>1, <3>2 DEF TypeOK
    <2>2. CASE ~StoreHead(r)
      BY <2>2 DEF ReaderStep, Call, Poll, LoadSize, Empty, Take, StoreSize, Check, Restart, ring
    <2> QED BY <2>1, <2>2
  <1>6. ASSUME InPop(q) PROVE current_tty_displ' = q /\ errno' = "ENO"
    <2>1. current_tty_displ = q /\ errno = "ENO"
      BY <1>1, <1>6 DEF ReaderInv
    <2>2. errno' = "ENO"
      <3>1. CASE Empty(r)
        <4>1. pc[r] = "empty"
          BY <3>1 DEF Empty, Go
        <4> QED BY <1>1, <2>1, <4>1 DEF ReaderInv, InPop
      <3>2. CASE ~Empty(r)
        BY <2>1, <3>2 DEF ReaderStep, Call, Poll, LoadSize, Take, StoreSize, StoreHead, Check, Restart
      <3> QED BY <3>1, <3>2
    <2> QED BY <1>2, <2>1, <2>2
  <1> QED BY <1>1, <1>2, <1>3, <1>4, <1>5, <1>6, OtherReader

(* ... and as it sees it itself.                                           *)
LEMMA StepKeeps ==
  ASSUME ConsoleInv, ~rough, ~rough', NEW r \in Readers, ReaderStep(r) \/ Restart(r)
  PROVE  ReaderInv(r)'
  <1>1. /\ TypeOK /\ LocalsFit /\ ReaderInv(r) /\ r \in Tty
    BY ConsoleAssumption DEF ConsoleInv, Tty
  <1>2. /\ size[r] \in Nat /\ rd[r] \in Index /\ wr[r] \in Index
        /\ unread[r] \in Seq(Code) /\ Len(unread[r]) \in Nat /\ Hand(r) \in {0, 1}
        /\ got[r] \in Code \cup {"nul"} /\ n[r] \in Nat
        /\ cell[r] \in [Index -> Code \cup {"nul"}]
    BY <1>1, ReaderValues DEF Index
  <1>3. /\ Kept(unread[r], Hand(r), got[r], cell[r], First(r), wr[r])
        /\ size[r] <= Len(unread[r]) - Hand(r) - (IF pc[r] = "take" THEN 1 ELSE 0)
    BY <1>1 DEF ReaderInv
  <1>4. ASSUME Hand(r) = 0, pc[r] \notin {"take", "head"}
        PROVE  /\ Kept(unread[r], 0, "nul", cell[r], rd[r], wr[r])
               /\ size[r] <= Len(unread[r])
    <2>1. First(r) = rd[r]
      BY <1>4 DEF First
    <2>2. Kept(unread[r], 0, "nul", cell[r], rd[r], wr[r])
      BY <1>3, <1>4, <2>1, EmptyHand
    <2>3. size[r] <= Len(unread[r]) - 0 - 0
      BY <1>3, <1>4
    <2> QED BY <1>2, <2>2, <2>3
  <1>5. CASE Call(r)
    <2>1. /\ pc[r] = "shell" /\ pc'[r] = "poll"
          /\ UNCHANGED <<size, rd, wr, cell, unread, got>>
      BY <1>1, <1>5 DEF Call, Go, ring, reader, TypeOK
    <2>2. got'[r] = "nul" /\ Hand(r) = 0
      BY <1>1, <2>1 DEF LocalsFit, Hand
    <2> QED BY <1>2, <1>4, <2>1, <2>2, AtRest
  <1>6. CASE Poll(r)
    <2>1. /\ pc[r] = "poll" /\ got'[r] = "nul" /\ errno' = "ENO"
          /\ pc'[r] = (IF r = current_tty_displ THEN "size" ELSE "check")
          /\ UNCHANGED <<current_tty_displ, size, rd, wr, cell, unread, d, n>>
      BY <1>1, <1>6 DEF Poll, Go, Console, ring, TypeOK
    <2>2. Hand(r) = 0 /\ Hand(r)' = 0 /\ First(r)' = rd[r] /\ (InPop(r)' => r = current_tty_displ)
      BY <2>1 DEF Hand, First, InPop
    <2>3. Kept(unread[r], 0, "nul", cell[r], rd[r], wr[r]) /\ size[r] <= Len(unread[r])
      BY <1>4, <2>1, <2>2
    <2>4. size'[r] <= Len(unread'[r]) - 0 - 0
      BY <1>2, <2>1, <2>3
    <2> QED BY <2>1, <2>2, <2>3, <2>4 DEF ReaderInv
  <1>7. CASE LoadSize(r)
    <2>1. /\ pc[r] = "size" /\ d'[r] = current_tty_displ
          /\ n'[r] = size[current_tty_displ]
          /\ pc'[r] \in {"store", "empty"}
          /\ UNCHANGED <<current_tty_displ, size, rd, wr, cell, unread, errno, got>>
      BY <1>1, <1>7 DEF LoadSize, Go, Console, ring, TypeOK
    <2>2. Hand(r) = 0 /\ Hand(r)' = 0 /\ First(r)' = rd[r] /\ InPop(r)
      BY <2>1 DEF Hand, First, InPop
    <2>3. Kept(unread[r], 0, "nul", cell[r], rd[r], wr[r]) /\ size[r] <= Len(unread[r])
      BY <1>4, <2>1, <2>2
    <2>4. current_tty_displ = r /\ errno = "ENO"
      BY <1>1, <2>2 DEF ReaderInv
    <2>5. got[r] = "nul"
      BY <1>1, <2>1 DEF LocalsFit
    <2>6. size'[r] <= Len(unread'[r]) - 0 - 0
      BY <1>2, <2>1, <2>3
    <2> QED BY <2>1, <2>2, <2>3, <2>4, <2>5, <2>6 DEF ReaderInv
  <1>8. CASE Empty(r)
    <2>1. /\ pc[r] = "empty" /\ pc'[r] = "check"
          /\ UNCHANGED <<size, rd, wr, cell, unread, got>>
      BY <1>1, <1>8 DEF Empty, Go, ring, TypeOK
    <2>2. got'[r] = "nul" /\ Hand(r) = 0
      BY <1>1, <2>1 DEF LocalsFit, Hand
    <2> QED BY <1>2, <1>4, <2>1, <2>2, AtRest
  <1>9. CASE StoreSize(r)
    <2>1. /\ pc[r] = "store" /\ pc'[r] = "take"
          /\ size' = [size EXCEPT ![d[r]] = n[r] - 1]
          /\ UNCHANGED <<current_tty_displ, rd, wr, cell, unread, errno, d, n, got>>
      BY <1>1, <1>9 DEF StoreSize, Go, Console, reader, TypeOK
    <2>2. Hand(r) = 0 /\ Hand(r)' = 0 /\ First(r)' = rd[r] /\ InPop(r)
      BY <2>1 DEF Hand, First, InPop
    <2>3. Kept(unread[r], 0, "nul", cell[r], rd[r], wr[r])
      BY <1>4, <2>1, <2>2
    <2>4. /\ current_tty_displ = r /\ errno = "ENO" /\ d[r] = r
          /\ n[r] <= Len(unread[r])
      BY <1>1, <2>1, <2>2 DEF ReaderInv
    <2>5. got[r] = "nul"
      BY <1>1, <2>1, LocalsAt
    <2>6. size'[r] = n[r] - 1
      BY <1>1, <2>1, <2>4 DEF TypeOK
    <2>7. size'[r] <= Len(unread'[r]) - 0 - 1
      BY <1>2, <2>1, <2>4, <2>6
    <2> QED BY <2>1, <2>2, <2>3, <2>4, <2>5, <2>7 DEF ReaderInv
  <1>10. CASE Take(r)
    <2>1. /\ pc[r] = "take" /\ pc'[r] = "head"
          /\ n'[r] = rd[d[r]] /\ got'[r] = cell[d[r]][rd[d[r]]]
          /\ UNCHANGED <<current_tty_displ, size, rd, wr, cell, unread, errno, d>>
      BY <1>1, <1>10 DEF Take, Go, Console, ring, TypeOK
    <2>2. Hand(r) = 0 /\ First(r) = rd[r] /\ InPop(r)
      BY <2>1 DEF Hand, First, InPop
    <2>3. current_tty_displ = r /\ errno = "ENO" /\ d[r] = r
      BY <1>1, <2>1, <2>2 DEF ReaderInv
    <2>4. size[r] <= Len(unread[r]) - 1 /\ Len(unread[r]) >= 1
      BY <1>2, <1>3, <2>1, <2>2
    <2>5. Kept(unread[r], 0, got[r], cell[r], rd[r], wr[r])
      BY <1>3, <2>2
    <2>6. /\ cell[r][rd[r]] \in Code
          /\ Kept(unread[r], 1, cell[r][rd[r]], cell[r], Wrap(rd[r] + 1), wr[r])
      BY <1>2, <2>4, <2>5, TakeKept
    <2>7. got'[r] = cell[r][rd[r]] /\ n'[r] = rd[r] /\ got'[r] # "nul"
      BY <2>1, <2>3, <2>6, NulIsNoKey
    <2>8. Hand(r)' = 1 /\ First(r)' = Wrap(rd[r] + 1)
      BY <2>1, <2>7 DEF Hand, First
    <2>9. size'[r] <= Len(unread'[r]) - 1 - 0
      BY <1>2, <2>1, <2>4
    <2> QED BY <2>1, <2>3, <2>6, <2>7, <2>8, <2>9 DEF ReaderInv
  <1>11. CASE StoreHead(r)
    <2>1. /\ pc[r] = "head" /\ pc'[r] = "check"
          /\ rd' = [rd EXCEPT ![d[r]] = (n[r] + 1) % INPUT_BUF_CAP]
          /\ UNCHANGED <<current_tty_displ, size, wr, cell, unread, errno, got>>
      BY <1>1, <1>11 DEF StoreHead, Go, Console, TypeOK
    <2>2. InPop(r)
      BY <2>1 DEF InPop
    <2>3. /\ current_tty_displ = r /\ errno = "ENO" /\ d[r] = r
          /\ got[r] # "nul" /\ n[r] = rd[r]
      BY <1>1, <2>1, <2>2 DEF ReaderInv
    <2>4. rd'[r] = Wrap(rd[r] + 1)
      <3>1. (rd[r] + 1) % INPUT_BUF_CAP = Wrap(rd[r] + 1)
        BY <1>2, NextIndex
      <3>2. rd'[r] = (n[r] + 1) % INPUT_BUF_CAP
        BY <1>1, <2>1, <2>3 DEF TypeOK
      <3> QED BY <2>3, <3>1, <3>2
    <2>5. Hand(r) = 1 /\ First(r) = Wrap(rd[r] + 1)
      BY <2>1, <2>3 DEF Hand, First
    <2>6. Hand(r)' = 1 /\ First(r)' = Wrap(rd[r] + 1)
      BY <2>1, <2>3, <2>4 DEF Hand, First
    <2>7. Kept(unread[r], 1, got[r], cell[r], Wrap(rd[r] + 1), wr[r])
      BY <1>3, <2>5
    <2>8. size'[r] <= Len(unread'[r]) - 1 - 0
      BY <1>2, <1>3, <2>1, <2>5
    <2> QED BY <2>1, <2>3, <2>6, <2>7, <2>8 DEF ReaderInv
  <1>12. CASE Check(r)
    <2>1. /\ pc[r] = "check" /\ pc'[r] \in {"shell", "poll"} /\ got'[r] = "nul"
          /\ UNCHANGED <<size, rd, wr, cell>>
      BY <1>1, <1>12 DEF Check, Go, NextPlace, ring, TypeOK
    <2>2. CASE got[r] = "nul"
      <3>1. unread' = unread
        BY <1>12, <2>2 DEF Check
      <3>2. Hand(r) = 0
        BY <2>2 DEF Hand
      <3> QED BY <1>2, <1>4, <2>1, <3>1, <3>2, AtRest
    <2>3. CASE got[r] # "nul"
      <3>1. InPop(r) /\ Hand(r) = 1 /\ First(r) = rd[r]
        BY <2>1, <2>3 DEF InPop, Hand, First
      <3>2. errno = "ENO"
        BY <1>1, <3>1 DEF ReaderInv
      <3>3. Kept(unread[r], 1, got[r], cell[r], rd[r], wr[r])
        BY <1>3, <3>1
      <3>4. /\ unread[r] # <<>> /\ Tail(unread[r]) \in Seq(Code)
            /\ Kept(Tail(unread[r]), 0, "nul", cell[r], rd[r], wr[r])
            /\ Len(Tail(unread[r])) = Len(unread[r]) - 1
        BY <1>2, <3>3, DropKept
      <3>5. unread'[r] = Tail(unread[r])
        <4>1. unread' = [unread EXCEPT ![r] = IF @ = <<>> THEN @ ELSE Tail(@)]
          BY <1>12, <2>3, <3>2 DEF Check
        <4> QED BY <1>1, <3>4, <4>1 DEF TypeOK
      <3>6. Len(Tail(unread[r])) \in Nat
        BY <3>4, LenProperties
      <3>7. size[r] <= Len(Tail(unread[r]))
        BY <1>2, <1>3, <2>1, <3>1, <3>4
      <3> QED BY <2>1, <3>4, <3>5, <3>6, <3>7, AtRest
    <2> QED BY <2>2, <2>3
  <1>13. CASE Restart(r)
    <2> DEFINE hit == pc[r] \in {"take", "head"} \/ got[r] # "nul"
    <2>1. /\ Disturb(hit, unread) /\ pc'[r] = "shell" /\ got'[r] = "nul"
          /\ UNCHANGED <<size, rd, wr, cell>>
      BY <1>1, <1>13 DEF Restart, ring, TypeOK
    <2>2. ~hit /\ unread' = unread
      <3>1. hit \in BOOLEAN /\ unread \in [Tty -> Seq(Code)]
        BY <1>1 DEF TypeOK
      <3> HIDE DEF hit
      <3> QED BY <1>1, <2>1, <3>1, DisturbTyped
    <2>3. Hand(r) = 0
      BY <2>2 DEF Hand
    <2> QED BY <1>2, <1>4, <2>1, <2>2, <2>3, AtRest
  <1> QED BY <1>5, <1>6, <1>7, <1>8, <1>9, <1>10, <1>11, <1>12, <1>13 DEF ReaderStep
-----------------------------------------------------------------------------
LEMMA NextKeeps == ConsoleInv /\ [Next]_vars => ConsoleInv'
  <1> SUFFICES ASSUME ConsoleInv, [Next]_vars PROVE ConsoleInv'
    OBVIOUS
  <1> DEFINE KeyStep == \/ \E k \in keys_state : Release(k)
                        \/ \E k \in Code : Type(k)
                        \/ \E t \in Tty : SwitchTty(t)
                        \/ Escape
  <1>0. TypeOK /\ LocalsFit
    BY DEF ConsoleInv
  <1>1. CASE KeyStep
    <2>1. TypeOK' /\ LocalsFit'
      BY <1>0, <1>1, KeyTyped
    <2>2. ASSUME ~rough', NEW r \in Readers PROVE ReaderInv(r)'
      BY <1>1, <2>2, KeyKeeps
    <2> QED BY <2>1, <2>2 DEF ConsoleInv
  <1>2. ASSUME NEW r \in Readers, ReaderStep(r) \/ Restart(r) PROVE ConsoleInv'
    <2>1. TypeOK' /\ LocalsFit'
      BY <1>0, <1>2, ReaderTyped
    <2>2. ~rough' => ~rough
      <3>1. CASE Restart(r)
        BY <3>1 DEF Restart, Disturb
      <3>2. CASE ReaderStep(r)
        BY <3>2 DEF ReaderStep, Call, Poll, LoadSize, Empty, StoreSize, Take, StoreHead, Check
      <3> QED BY <1>2, <3>1, <3>2
    <2>3. ASSUME ~rough', NEW q \in Readers PROVE ReaderInv(q)'
      <3>1. CASE q = r
        BY <1>2, <2>2, <2>3, <3>1, StepKeeps
      <3>2. CASE q # r
        BY <1>2, <2>2, <2>3, <3>2, OthersKeep
      <3> QED BY <3>1, <3>2
    <2> QED BY <2>1, <2>3 DEF ConsoleInv
  <1>3. CASE UNCHANGED vars
    <2>1. UNCHANGED <<current_tty_displ, keys_state, size, rd, wr, cell, errno, pc, d, n, got,
                     text_cur, unread, rough>>
      BY <1>3 DEF vars, ring, reader
    <2>2. TypeOK' /\ LocalsFit'
      BY <1>0, <2>1 DEF TypeOK, LocalsFit
    <2>3. ASSUME ~rough', NEW r \in Readers PROVE ReaderInv(r)'
      <3>1. ReaderInv(r)
        BY <2>1, <2>3 DEF ConsoleInv
      <3>2. InPop(r) => current_tty_displ' = r /\ errno' = "ENO"
        BY <2>1, <3>1 DEF ReaderInv
      <3> QED BY <2>1, <3>1, <3>2, OtherReader
    <2> QED BY <2>2, <2>3 DEF ConsoleInv
  <1> QED BY <1>1, <1>2, <1>3 DEF Next

LEMMA InvReadsInOrder == ConsoleInv => ReadsInOrder
  <1> SUFFICES ASSUME ConsoleInv, ~rough, NEW r \in Readers
               PROVE  LET first == IF pc[r] = "head" THEN (rd[r] + 1) % INPUT_BUF_CAP ELSE rd[r]
                          held == InHand(r)
                          rest == Len(unread[r]) - Len(held)
                      IN /\ rest \in 0 .. INPUT_BUF_CAP
                         /\ unread[r] = held \o
                              [i \in 1 .. rest |-> cell[r][(first + i - 1) % INPUT_BUF_CAP]]
                         /\ wr[r] = (first + rest) % INPUT_BUF_CAP
    BY DEF ReadsInOrder
  <1>1. TypeOK /\ Kept(unread[r], Hand(r), got[r], cell[r], First(r), wr[r])
    BY DEF ConsoleInv, ReaderInv
  <1>2. First(r) = IF pc[r] = "head" THEN (rd[r] + 1) % INPUT_BUF_CAP ELSE rd[r]
    BY <1>1, ReaderValues, NextIndex DEF First
  <1>3. InHand(r) = IF Hand(r) = 1 THEN <<got[r]>> ELSE <<>>
    BY HandIsInHand
  <1>4. /\ unread[r] \in Seq(Code) /\ got[r] \in Code \cup {"nul"}
        /\ cell[r] \in [Index -> Code \cup {"nul"}] /\ First(r) \in Index
    BY <1>1, ReaderValues
  <1>5. InOrder(unread[r], InHand(r), cell[r], First(r), wr[r])
    BY <1>1, <1>3, <1>4, KeptReads
  <1> QED BY <1>2, <1>5 DEF InOrder

LEMMA InvSizeNeverAhead == ConsoleInv => SizeNeverAhead
  BY HandIsInHand DEF ConsoleInv, ReaderInv, SizeNeverAhead
-----------------------------------------------------------------------------
THEOREM ConsoleInvHolds == Spec => []ConsoleInv
  BY InitConsole, NextKeeps, PTL DEF Spec

(***************************************************************************)
(* The rings, the heads and the readers stay in their ranges, whatever     *)
(* disturbs them: no index leaves its ring, and pop_scancode never stores  *)
(* a size below zero, as it only comes to the store with a size above it.  *)
(***************************************************************************)
THEOREM ConsoleTypes == Spec => []TypeOK
  <1>1. ConsoleInv => TypeOK
    BY DEF ConsoleInv
  <1> QED BY <1>1, ConsoleInvHolds, PTL

(***************************************************************************)
(* The keys of a terminal reach the shell that reads it once, in order and *)
(* untouched, as long as no switch of terminals or kill hit a reader in    *)
(* mid-pop and no push overran its ring (push_scancode and pop_scancode,   *)
(* kernel/console.c, and tty_read, kernel/tty.c).                          *)
(***************************************************************************)
THEOREM KeysAreReadInOrder == Spec => []ReadsInOrder
  BY ConsoleInvHolds, InvReadsInOrder, PTL

(***************************************************************************)
(* input_scancode_buf_size never counts a key that is not there, although  *)
(* the keyboard interrupt and pop_scancode race over it.                   *)
(***************************************************************************)
THEOREM CounterIsNeverAhead == Spec => []SizeNeverAhead
  BY ConsoleInvHolds, InvSizeNeverAhead, PTL
=============================================================================
