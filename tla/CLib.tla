-------------------------------- MODULE CLib --------------------------------
(***************************************************************************)
(* The routines of include/string.h, on a memory m of bytes.  Strings end  *)
(* in NUL.                                                                 *)
(***************************************************************************)
EXTENDS Integers, Sequences, FiniteSetsExt

NUL == 0

(* The memories of which the last byte is NUL; char may be signed or not. *)
Memories == {m \in Seq(Int) : m # <<>> /\ m[Len(m)] = NUL}

FromTheTop(m, s1, s2, n) ==                      \* mutant
  LET copied[k \in 0 .. n] ==
        IF k = 0 THEN m ELSE [copied[k - 1] EXCEPT ![s1 + n - k] = copied[k - 1][s2 + n - k]]
  IN copied[n]

(* Byte after byte from the first on. *)
memcpy(m, s1, s2, n) ==
  LET copied[k \in 0 .. n] ==
        IF k = 0 THEN m ELSE [copied[k - 1] EXCEPT ![s1 + k - 1] = copied[k - 1][s2 + k - 1]]
  IN copied[n]

(* The loop counts n down but never moves on: the first bytes decide. *)
memcmp(m, s1, s2, n) == m[s1] - m[s2]

memset(m, s, c, n) == [a \in DOMAIN m |-> IF s <= a /\ a < s + n THEN c ELSE m[a]]

strlen(m, s) == Min({l \in 0 .. Len(m) - s : m[s + l] = NUL})

TerminatesToo(m, s1, s2) == memcpy(m, s1, s2, strlen(m, s2) + 1)   \* mutant

(* The NUL is not copied. *)
strcpy(m, s1, s2) == memcpy(m, s1, s2, strlen(m, s2))

ComparesPastTheEnd(m, s1, s2) ==                 \* mutant
  LET end == Len(m) - (IF s1 > s2 THEN s1 ELSE s2)
      apart == {k \in 0 .. end : m[s1 + k] # m[s2 + k]}
  IN IF apart = {} THEN 0 ELSE m[s1 + Min(apart)] - m[s2 + Min(apart)]

(* The first place where a string ends or they differ. *)
strcmp(m, s1, s2) ==
  LET k == Min({l \in 0 .. Min({strlen(m, s1), strlen(m, s2)}) :
                 m[s1 + l] = NUL \/ m[s1 + l] # m[s2 + l]})
  IN m[s1 + k] - m[s2 + k]
-----------------------------------------------------------------------------
String(m, s) == SubSeq(m, s, s + strlen(m, s) - 1)

(***************************************************************************)
(* The scroll of con_putstr, a copy of n bytes down over themselves and a  *)
(* fill of the room this leaves, moves the bytes that were there up and    *)
(* changes nothing outside; memcpy has restrict pointers and promises no   *)
(* such thing.                                                             *)
(***************************************************************************)
ScrollMovesUp(m, s1, s2, n) ==
  s1 <= s2 =>
    LET r == memset(memcpy(m, s1, s2, n), s1 + n, NUL, s2 - s1)
    IN \A a \in DOMAIN m :
         r[a] = CASE s1 <= a /\ a < s1 + n -> m[a + (s2 - s1)]
                  [] s1 + n <= a /\ a < s2 + n -> NUL
                  [] OTHER -> m[a]

(***************************************************************************)
(* After strcpy the destination begins with the source and goes on with    *)
(* what its old string had beyond: it is the source only where there was   *)
(* a NUL before, as in the zeroed buffers of the shell and not in the      *)
(* utsname it hands to system call 5.                                      *)
(***************************************************************************)
StrcpyKeepsTheOldEnd(m, s1, s2) ==
  LET n == strlen(m, s2)
      apart == s1 + n < s2 \/ s2 + n < s1
  IN apart /\ s1 + n <= Len(m) =>
       String(strcpy(m, s1, s2), s1) = String(m, s2) \o String(m, s1 + n)

(***************************************************************************)
(* strcmp is 0 for equal strings only, which is what login and the shell   *)
(* go by, and orders the others one way.                                   *)
(***************************************************************************)
StrcmpTellsApart(m, s1, s2) ==
  /\ strcmp(m, s1, s2) = 0 <=> String(m, s1) = String(m, s2)
  /\ strcmp(m, s1, s2) > 0 <=> strcmp(m, s2, s1) < 0
=============================================================================
