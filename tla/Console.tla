------------------------------ MODULE Console ------------------------------
(***************************************************************************)
(* The input side of the terminals: the keyboard interrupt, one ring of    *)
(* scancodes per terminal (kernel/console.c), and the shells that poll it  *)
(* in tty_read (kernel/tty.c).  The handler runs with interrupts off, so   *)
(* it is one step.  tty_read runs with interrupts on: the timer may switch *)
(* to another reader, and the keyboard may strike, between any two of its  *)
(* accesses to what they share.  Its steps are those accesses in the order *)
(* the source and the build (gcc -O, in which --size is a load, a test and *)
(* a store) make them.                                                     *)
(***************************************************************************)
EXTENDS Integers, Sequences, FiniteSets

CONSTANTS TTYS_CAP,       \* terminals
          INPUT_BUF_CAP,  \* cells of a scancode ring
          COUNT,          \* characters a line may have
          Readers,        \* the terminals that have a shell
          Chars,          \* scancodes of printing keys
          Mutes,          \* scancodes scan_code_table_default has 0 for (shift, ..)
          MAX_UNREAD,     \* bound of the model: keys typed ahead
          TypedOn,        \* bound of the model: the terminals keys are typed on
          Held            \* bound of the model: the keys that may be held down;
                          \* every other one is up again at once

ASSUME ConsoleAssumption ==
  /\ TTYS_CAP \in Nat \ {0} /\ INPUT_BUF_CAP \in Nat \ {0, 1}
  /\ COUNT \in Nat /\ MAX_UNREAD \in Nat
  /\ Readers \subseteq 0 .. TTYS_CAP - 1 /\ TypedOn \subseteq 0 .. TTYS_CAP - 1
  /\ (Chars \cup Mutes) \cap {"enter", "backspace", "nul", "esc", "F1", "F2", "F3", "F4"} = {}

Tty == 0 .. TTYS_CAP - 1
Index == 0 .. INPUT_BUF_CAP - 1

(* The scancodes that scan_code_table_special leaves to the rings, named   *)
(* for what scan_code_table_default makes of them; con_read looks them up. *)
Code == Chars \cup Mutes \cup {"enter", "backspace"}
FKey == <<"F1", "F2", "F3", "F4">>
Key == Code \cup {"esc"} \cup {FKey[t + 1] : t \in Tty}

VARIABLES
  current_tty_displ,   \* the terminal on the screen
  keys_state,          \* the keys that are down
  size, rd, wr,        \* input_scancode_buf_size, .._read_head, .._write_head
  cell,                \* input_scancode_buf
  errno,
  pc, d, n, got,       \* a reader: where it is, the ring and size it loaded, its character
  text_cur,            \* characters of its line so far
  unread,              \* history: keys each ring accepted and no reader has acted on
  rough                \* history: a switch or a kill hit a reader in mid-pop, or a
                       \* push overran the ring; unread is kept up to there

ring == <<size, rd, wr, cell>>
reader == <<d, n, got, text_cur>>
vars == <<current_tty_displ, keys_state, ring, errno, pc, reader, unread, rough>>

InPop(r) == \/ pc[r] \in {"size", "store", "empty", "take", "head"}
            \/ pc[r] = "check" /\ got[r] # "nul"

(* What reader r has taken from the ring and not yet acted on. *)
InHand(r) == IF r \in Readers /\ pc[r] \in {"head", "check"} /\ got[r] # "nul"
             THEN <<got[r]>> ELSE <<>>

Init ==
  /\ current_tty_displ = 0 /\ keys_state = {}
  /\ size = [t \in Tty |-> 0] /\ rd = [t \in Tty |-> 0] /\ wr = [t \in Tty |-> 0]
  /\ cell = [t \in Tty |-> [i \in Index |-> "nul"]]
  /\ errno = "ENO"
  /\ pc = [r \in Readers |-> "shell"]
  /\ d = [r \in Readers |-> 0] /\ n = [r \in Readers |-> 0]
  /\ got = [r \in Readers |-> "nul"] /\ text_cur = [r \in Readers |-> 0]
  /\ unread = [t \in Tty |-> <<>>] /\ rough = FALSE
-----------------------------------------------------------------------------
(* The history: it ends with the first disturbance. *)
Disturb(now, keys) ==
  /\ rough' = (rough \/ now)
  /\ unread' = IF rough' THEN [t \in Tty |-> <<>>] ELSE keys

(* The keyboard interrupt. *)
Release(k) ==
  /\ k \in keys_state
  /\ keys_state' = keys_state \ {k}
  /\ UNCHANGED <<current_tty_displ, ring, errno, pc, reader, unread, rough>>

(* A press of a key that is up; repeats of one held down are filtered. *)
Strike(k) ==
  /\ k \notin keys_state
  /\ keys_state' = keys_state \cup ({k} \cap Held)

(* push_scancode: a full ring drops the key. *)
Type(k) ==
  LET t == current_tty_displ
  IN /\ Strike(k) /\ t \in TypedOn
     /\ Len(unread[t]) < MAX_UNREAD
     /\ IF size[t] = INPUT_BUF_CAP - 1
        THEN UNCHANGED <<ring, unread, rough>>
        ELSE /\ size' = [size EXCEPT ![t] = @ + 1]
             /\ cell' = [cell EXCEPT ![t][wr[t]] = k]
             /\ wr' = [wr EXCEPT ![t] = (@ + 1) % INPUT_BUF_CAP]
             /\ Disturb(Len(unread[t]) - Len(InHand(t)) = INPUT_BUF_CAP,
                        [unread EXCEPT ![t] = Append(@, k)])
             /\ UNCHANGED rd
     /\ UNCHANGED <<current_tty_displ, errno, pc, reader>>

(* F1 to F4, which are never pushed. *)
SwitchTty(t) ==
  /\ Strike(FKey[t + 1])
  /\ current_tty_displ' = t
  /\ Disturb(t # current_tty_displ /\ \E r \in Readers : InPop(r), unread)
  /\ UNCHANGED <<ring, errno, pc, reader>>

(* The other special keys: nothing looks at them. *)
Escape ==
  /\ Strike("esc")
  /\ UNCHANGED <<current_tty_displ, ring, errno, pc, reader, unread, rough>>
-----------------------------------------------------------------------------
(* A reader.  Locals it is done with are put back to their first values. *)
Go(r, from, to) == pc[r] = from /\ pc' = [pc EXCEPT ![r] = to]
Console == <<current_tty_displ, keys_state>>

Call(r) ==
  /\ Go(r, "shell", "poll")
  /\ UNCHANGED <<Console, ring, errno, reader, unread, rough>>

PollAnyTty(r) ==                        \* mutant: con_read without its first test
  /\ Go(r, "poll", "size")
  /\ errno' = "ENO"
  /\ got' = [got EXCEPT ![r] = "nul"]
  /\ UNCHANGED <<Console, ring, d, n, text_cur, unread, rough>>

(* errno = ENO, and con_read's test of the terminal on the screen. *)
Poll(r) ==
  /\ Go(r, "poll", IF r = current_tty_displ THEN "size" ELSE "check")
  /\ errno' = "ENO"
  /\ got' = [got EXCEPT ![r] = "nul"]
  /\ UNCHANGED <<Console, ring, d, n, text_cur, unread, rough>>

(* pop_scancode loads the terminal, again, and its size. *)
LoadSize(r) ==
  /\ Go(r, "size", IF size[current_tty_displ] = 0 THEN "empty" ELSE "store")
  /\ d' = [d EXCEPT ![r] = current_tty_displ]
  /\ n' = [n EXCEPT ![r] = size[current_tty_displ]]
  /\ UNCHANGED <<Console, ring, errno, got, text_cur, unread, rough>>

Empty(r) ==
  /\ Go(r, "empty", "check")
  /\ errno' = "EAGAIN"
  /\ d' = [d EXCEPT ![r] = 0] /\ n' = [n EXCEPT ![r] = 0]
  /\ UNCHANGED <<Console, ring, got, text_cur, unread, rough>>

DecrementInMemory(r) ==                 \* mutant: what another build could do
  /\ Go(r, "store", "take")
  /\ size' = [size EXCEPT ![d[r]] = @ - 1]
  /\ UNCHANGED <<Console, rd, wr, cell, errno, reader, unread, rough>>

StoreSameSize(r) ==                     \* mutant
  /\ Go(r, "store", "take")
  /\ size' = [size EXCEPT ![d[r]] = n[r]]
  /\ UNCHANGED <<Console, rd, wr, cell, errno, reader, unread, rough>>

(* A key that came after LoadSize is forgotten by this store. *)
StoreSize(r) ==
  /\ Go(r, "store", "take")
  /\ size' = [size EXCEPT ![d[r]] = n[r] - 1]
  /\ UNCHANGED <<Console, rd, wr, cell, errno, reader, unread, rough>>

Take(r) ==
  /\ Go(r, "take", "head")
  /\ n' = [n EXCEPT ![r] = rd[d[r]]]
  /\ got' = [got EXCEPT ![r] = cell[d[r]][rd[d[r]]]]
  /\ UNCHANGED <<Console, ring, errno, d, text_cur, unread, rough>>

StoreHead(r) ==
  /\ Go(r, "head", "check")
  /\ rd' = [rd EXCEPT ![d[r]] = (n[r] + 1) % INPUT_BUF_CAP]
  /\ d' = [d EXCEPT ![r] = 0] /\ n' = [n EXCEPT ![r] = 0]
  /\ UNCHANGED <<Console, size, wr, cell, errno, got, text_cur, unread, rough>>

(* What tty_read does with a character, and the end of the line. *)
NextPlace(k) == IF k = "enter" THEN "shell" ELSE "poll"

NewLength(len, k) == CASE k = "enter" -> 0
                       [] k \in Chars /\ len < COUNT -> len + 1
                       [] k = "backspace" /\ len > 0 -> len - 1
                       [] OTHER -> len

(* The tests of errno and of what con_read returned. *)
Check(r) ==
  /\ Go(r, "check", IF errno = "EAGAIN" THEN "poll" ELSE NextPlace(got[r]))
  /\ got' = [got EXCEPT ![r] = "nul"]
  /\ IF errno = "EAGAIN" \/ got[r] = "nul"
     THEN UNCHANGED <<text_cur, unread>>
     ELSE /\ text_cur' = [text_cur EXCEPT ![r] = NewLength(@, got[r])]
          /\ unread' = [unread EXCEPT ![r] = IF @ = <<>> THEN @ ELSE Tail(@)]
  /\ UNCHANGED <<Console, ring, errno, d, n, rough>>

(* The shell is killed and init starts another on its terminal. *)
Restart(r) ==
  /\ pc[r] # "shell"
  /\ pc' = [pc EXCEPT ![r] = "shell"]
  /\ got' = [got EXCEPT ![r] = "nul"]
  /\ Disturb(pc[r] \in {"take", "head"} \/ got[r] # "nul", unread)
  /\ d' = [d EXCEPT ![r] = 0] /\ n' = [n EXCEPT ![r] = 0]
  /\ text_cur' = [text_cur EXCEPT ![r] = 0]
  /\ UNCHANGED <<Console, ring, errno>>

ReaderStep(r) ==
  \/ Call(r) \/ Poll(r) \/ LoadSize(r) \/ Empty(r) \/ StoreSize(r)
  \/ Take(r) \/ StoreHead(r) \/ Check(r)

Next ==
  \/ \E k \in keys_state : Release(k)
  \/ \E k \in Code : Type(k)
  \/ \E t \in Tty : SwitchTty(t)
  \/ Escape
  \/ \E r \in Readers : ReaderStep(r) \/ Restart(r)

Spec == Init /\ [][Next]_vars
-----------------------------------------------------------------------------
TypeOK ==
  /\ current_tty_displ \in Tty /\ keys_state \subseteq Key
  /\ size \in [Tty -> Index] /\ rd \in [Tty -> Index] /\ wr \in [Tty -> Index]
  /\ cell \in [Tty -> [Index -> Code \cup {"nul"}]]
  /\ errno \in {"ENO", "EAGAIN"}
  /\ pc \in [Readers -> {"shell", "poll", "size", "empty", "store", "take", "head", "check"}]
  /\ d \in [Readers -> Tty] /\ n \in [Readers -> Index]
  /\ got \in [Readers -> Code \cup {"nul"}]
  /\ text_cur \in [Readers -> 0 .. COUNT]
  /\ unread \in [Tty -> Seq(Code)] /\ rough \in BOOLEAN

(***************************************************************************)
(* The keys of a terminal reach its reader once, in order and untouched:   *)
(* the one in its hand and then the cells from the read head to the write  *)
(* head are the keys typed and not yet acted on.  The races with the       *)
(* handler over size, and of the readers over errno, do not break this;    *)
(* only a switch of terminals or a kill in mid-pop does, or an overrun.    *)
(***************************************************************************)
ReadsInOrder ==
  ~rough => \A r \in Readers :
    LET first == IF pc[r] = "head" THEN (rd[r] + 1) % INPUT_BUF_CAP ELSE rd[r]
        held == InHand(r)
        rest == Len(unread[r]) - Len(held)
    IN /\ rest \in 0 .. INPUT_BUF_CAP
       /\ unread[r] = held \o [i \in 1 .. rest |-> cell[r][(first + i - 1) % INPUT_BUF_CAP]]
       /\ wr[r] = (first + rest) % INPUT_BUF_CAP

(***************************************************************************)
(* The counter of a ring never promises a key that is not there, so no     *)
(* reader takes a stale cell.  (It may promise less: StoreSize forgets     *)
(* keys, which then wait for the next ones.)                               *)
(***************************************************************************)
SizeNeverAhead ==
  ~rough => \A r \in Readers :
    size[r] <= Len(unread[r]) - Len(InHand(r)) - (IF pc[r] = "take" THEN 1 ELSE 0)
=============================================================================
