------------------------------- MODULE Screen -------------------------------
(***************************************************************************)
(* Output: con_putstr (kernel/console.c) and con_putstr_rev (kernel/       *)
(* main.c), which keep a picture of every terminal in vga_copies and copy  *)
(* what they write to the video memory if their terminal is displayed, and *)
(* the F-key interrupt (kernel/traps.c), which displays another picture.   *)
(* The shells' strcpy command (kernel/test.c) writes to the video memory   *)
(* alone.                                                                  *)
(*                                                                         *)
(* The writers run with interrupts on and take no lock.  A character is    *)
(* split at each access to what they share, in the order of the source:    *)
(* the write to the copy, the test of current_tty_displ, the write to the  *)
(* screen, the load and the store of the cursor, its test, its reset, and  *)
(* likewise in a scroll.  Between the store and the reset a cursor may be  *)
(* past the end, and whoever writes there writes to the terminal that      *)
(* follows in vga_copies.                                                  *)
(***************************************************************************)
EXTENDS Integers

BLANK == " "
USHORT == 65536     \* values of an unsigned short

CONSTANTS
  COLS, ROWS, TAB,  \* 80, 25 and 8
  TEXT,             \* cells the strcpy command writes (32)
  Writers,          \* tasks that print
  Terminal,         \* the terminal of each: tasks[w].tty
  REVERSED,         \* the terminal con_putstr_rev serves (3)
  Printable,        \* characters that leave a mark
  MAX_CHARS         \* bound: characters written in all

ASSUME ScreenAssumption ==
  /\ COLS \in Nat \ {0} /\ ROWS \in Nat \ {0, 1} /\ TAB \in Nat \ {0}
  /\ COLS * (ROWS + 1) < USHORT
  /\ TEXT \in 1 .. COLS * ROWS
  /\ MAX_CHARS \in Nat
  /\ \A w \in Writers : Terminal[w] \in Nat
  /\ BLANK \notin Printable

(* Two shells share a terminal only after test_b was killed (Userland).    *)
ASSUME OneWriterEach == \A v, w \in Writers : Terminal[v] = Terminal[w] => v = w

VARIABLES
  displ,            \* current_tty_displ
  con_cursors, vga_copies,
  con_addr,         \* the video memory
  at, char, next,   \* of each writer: place in con_putstr, character, sum
  chars,            \* characters written so far
  torn,             \* history: something came where it parts screen and picture
  crossed,          \* history: writers another one wrote across
  left              \* history: terminals whose cursor a death left untested

screenVars ==
  <<displ, con_cursors, vga_copies, con_addr, at, char, next, chars, torn, crossed, left>>
history == <<torn, crossed, left>>

CELLS == COLS * ROWS
Cell == 0 .. CELLS - 1
LastRow == CELLS - COLS
Control == {"newline", "return", "tab", "vtab", "backspace"}
Ttys == {Terminal[w] : w \in Writers}

(* Where a character goes: con_putstr_rev fills each row from the right. *)
Place(t, cursor) ==
  IF t = REVERSED THEN (COLS - 1 - (cursor % COLS)) + (cursor \div COLS) * COLS
  ELSE cursor

Moved(ch, cursor) ==
  CASE ch = "newline" -> cursor + COLS - (cursor % COLS)
    [] ch = "return" -> cursor - (cursor % COLS)
    [] ch = "tab" -> cursor + TAB - ((cursor % COLS) % TAB)
    [] ch = "vtab" -> cursor + COLS
    [] ch = "backspace" -> cursor - 1
    [] OTHER -> cursor + 1

SignedCursor(ch, cursor) == Moved(ch, cursor)                 \* mutant

(* A cursor is an unsigned short. *)
NextCursor(ch, cursor) == Moved(ch, cursor) % USHORT

Picture == [Cell -> Printable \union {BLANK}]
Blank == [c \in Cell |-> BLANK]
MovedUp(pic) == [c \in Cell |-> IF c < LastRow THEN pic[c + COLS] ELSE pic[c]]
Wiped(pic) == [c \in Cell |-> IF c < LastRow THEN pic[c] ELSE BLANK]

(* Of a write at index i of the picture of t: whose picture it hits, what  *)
(* it makes of the pictures, and of the screen at the same index.  Past    *)
(* the last terminal and past the screen lies memory that is not modelled. *)
Owner(t, i) == t + (i \div CELLS)
Marked(pics, t, i, ch) ==
  IF Owner(t, i) \in Ttys THEN [pics EXCEPT ![Owner(t, i)][i % CELLS] = ch] ELSE pics
Lit(screen, i, ch) == IF i \in Cell THEN [screen EXCEPT ![i] = ch] ELSE screen
-----------------------------------------------------------------------------
ScreenInit ==
  /\ displ \in Ttys
  /\ con_cursors = [t \in Ttys |-> 0]
  /\ vga_copies = [t \in Ttys |-> Blank]
  /\ con_addr = Blank
  /\ at = [w \in Writers |-> "idle"]
  /\ char = [w \in Writers |-> BLANK]
  /\ next = [w \in Writers |-> 0]
  /\ chars = 0
  /\ torn = FALSE /\ crossed = {} /\ left = {}

Goto(w, place) == at' = [at EXCEPT ![w] = place]
Done(w) == Goto(w, "idle") /\ crossed' = crossed \ {w}

(* Where a writer has nothing to do to the screen that it has not done to  *)
(* the picture; and the writers of t that are elsewhere.                   *)
Even == {"idle", "move", "store", "check", "reset", "roll"}
Across(t) == {w \in Writers : Terminal[w] = t /\ at[w] \notin Even}

(* A write at index i of the picture of t that may hit another's: the      *)
(* screen lacks it if that one is displayed.                               *)
Spills(t, i) ==
  LET u == Owner(t, i)
  IN [torn |-> u # t /\ u = displ, crossed |-> IF u # t THEN Across(u) ELSE {}]

PutControl(w) ==
  /\ at[w] = "idle" /\ chars < MAX_CHARS
  /\ chars' = chars + 1
  /\ \E ch \in Control : char' = [char EXCEPT ![w] = ch]
  /\ Goto(w, "move")
  /\ UNCHANGED <<displ, con_cursors, vga_copies, con_addr, next, history>>

(* The character goes to the copy. *)
PutCopy(w) ==
  LET t == Terminal[w]
      i == Place(t, con_cursors[t])
  IN /\ at[w] = "idle" /\ chars < MAX_CHARS
     /\ chars' = chars + 1
     /\ \E ch \in Printable :
          /\ vga_copies' = Marked(vga_copies, t, i, ch)
          /\ char' = [char EXCEPT ![w] = ch]
     /\ torn' = (torn \/ Spills(t, i).torn)
     /\ crossed' = crossed \union Spills(t, i).crossed
     /\ Goto(w, "test")
     /\ UNCHANGED <<displ, con_cursors, con_addr, next, left>>

(* current_tty_displ == tty, of a character and of a scroll *)
Test(w) ==
  /\ \/ at[w] = "test" /\ Goto(w, IF displ = Terminal[w] THEN "show" ELSE "move") /\ UNCHANGED crossed
     \/ at[w] = "rolled" /\ displ = Terminal[w] /\ Goto(w, "scroll") /\ UNCHANGED crossed
     \/ at[w] = "rolled" /\ displ # Terminal[w] /\ Done(w)
  /\ UNCHANGED <<displ, con_cursors, vga_copies, con_addr, char, next, chars, torn, left>>

(* The cursor is read again. *)
Show(w) ==
  /\ at[w] = "show"
  /\ LET t == Terminal[w]
     IN con_addr' = Lit(con_addr, Place(t, con_cursors[t]), char[w])
  /\ Goto(w, "move")
  /\ UNCHANGED <<displ, con_cursors, vga_copies, char, next, chars, history>>

(* The load of the cursor, and its store. *)
Move(w) ==
  /\ LET t == Terminal[w] IN
     \/ /\ at[w] = "move" /\ Goto(w, "store")
        /\ next' = [next EXCEPT ![w] = NextCursor(char[w], con_cursors[t])]
        /\ UNCHANGED con_cursors
     \/ /\ at[w] = "store" /\ Goto(w, "check")
        /\ con_cursors' = [con_cursors EXCEPT ![t] = next[w]]
        /\ UNCHANGED next
  /\ UNCHANGED <<displ, vga_copies, con_addr, char, chars, history>>

(* The test that ends the loop body. *)
Check(w) ==
  /\ at[w] = "check"
  /\ IF con_cursors[Terminal[w]] >= CELLS
     THEN Goto(w, "reset") /\ UNCHANGED <<crossed, left>>
     ELSE Done(w) /\ left' = left \ {Terminal[w]}
  /\ UNCHANGED <<displ, con_cursors, vga_copies, con_addr, char, next, chars, torn>>

Reset(w) ==
  /\ at[w] = "reset" /\ Goto(w, "roll")
  /\ con_cursors' = [con_cursors EXCEPT ![Terminal[w]] = LastRow]
  /\ left' = left \ {Terminal[w]}
  /\ UNCHANGED <<displ, vga_copies, con_addr, char, next, chars, torn, crossed>>

RollForgetsTheWipe(w) ==                         \* mutant
  /\ at[w] \in {"roll", "wipe"}
  /\ LET t == Terminal[w] IN
     \/ /\ at[w] = "roll" /\ Goto(w, "wipe")
        /\ vga_copies' = [vga_copies EXCEPT ![t] = MovedUp(@)]
     \/ /\ at[w] = "wipe" /\ Goto(w, "rolled")
        /\ UNCHANGED vga_copies
  /\ UNCHANGED <<displ, con_cursors, con_addr, char, next, chars, history>>

(* memcpy and memset on the copy *)
Roll(w) ==
  /\ at[w] \in {"roll", "wipe"}
  /\ LET t == Terminal[w] IN
     \/ /\ at[w] = "roll" /\ Goto(w, "wipe")
        /\ vga_copies' = [vga_copies EXCEPT ![t] = MovedUp(@)]
     \/ /\ at[w] = "wipe" /\ Goto(w, "rolled")
        /\ vga_copies' = [vga_copies EXCEPT ![t] = Wiped(@)]
  /\ UNCHANGED <<displ, con_cursors, con_addr, char, next, chars, history>>

(* memcpy and memset on the screen *)
Scroll(w) ==
  /\ at[w] \in {"scroll", "scrolled"}
  /\ \/ at[w] = "scroll" /\ Goto(w, "scrolled") /\ con_addr' = MovedUp(con_addr) /\ UNCHANGED crossed
     \/ at[w] = "scrolled" /\ con_addr' = Wiped(con_addr) /\ Done(w)
  /\ UNCHANGED <<displ, con_cursors, vga_copies, char, next, chars, torn, left>>

(***************************************************************************)
(* The strcpy command of w's shell: it writes to the first cells of the    *)
(* video memory, whatever is displayed there, and to no picture.  Here one *)
(* cell, since anything may come between two.                              *)
(***************************************************************************)
Strcpy(w) ==
  /\ at[w] = "idle" /\ chars < MAX_CHARS
  /\ chars' = chars + 1
  /\ \E c \in 0 .. TEXT - 1, ch \in Printable : con_addr' = [con_addr EXCEPT ![c] = ch]
  /\ torn' = TRUE
  /\ UNCHANGED <<displ, con_cursors, vga_copies, at, char, next, crossed, left>>
-----------------------------------------------------------------------------
(* Where w is when a redraw of terminal d leaves the screen wrong: it will *)
(* write to a screen that is no longer its own, or once more to one that   *)
(* was drawn from the copy it had already scrolled.                        *)
KeyTears(w, d) ==
  IF d = Terminal[w] THEN at[w] \in {"wipe", "rolled", "scroll"}
  ELSE at[w] \in {"show", "scroll", "scrolled"}

(* int_keyboard on F1 .. F4 *)
FKey ==
  \E d \in Ttys :
    /\ displ' = d
    /\ con_addr' = vga_copies[d]
    /\ torn' = (crossed # {} \/ \E w \in Writers : KeyTears(w, d))
    /\ UNCHANGED <<con_cursors, vga_copies, at, char, next, chars, crossed, left>>

(* A line the kernel prints with interrupts off on the terminal of a task  *)
(* (x86_error_trap, __flush_signals): the loop body of con_putstr for one  *)
(* character of it.                                                        *)
KernelPrints(w) ==
  LET t == Terminal[w]
      i == Place(t, con_cursors[t])
      moved == NextCursor("x", con_cursors[t])
      Scrolled(pic) == IF moved >= CELLS THEN Wiped(MovedUp(pic)) ELSE pic
  IN /\ chars < MAX_CHARS /\ chars' = chars + 1
     /\ con_cursors' = [con_cursors EXCEPT ![t] = IF moved >= CELLS THEN LastRow ELSE moved]
     /\ \E ch \in Printable :
          /\ vga_copies' = [Marked(vga_copies, t, i, ch) EXCEPT ![t] = Scrolled(@)]
          /\ con_addr' = IF displ = t THEN Scrolled(Lit(con_addr, i, ch)) ELSE con_addr
     /\ torn' = (torn \/ Spills(t, i).torn \/ (displ = t /\ Across(t) # {}))
     /\ crossed' = crossed \union Across(t) \union Spills(t, i).crossed
     /\ left' = left \ {t}
     /\ UNCHANGED <<displ, at, char, next>>

(* The task dies in the middle of a write, and its slot gets another.  The *)
(* screen lacks what the copy has if it is the one displayed, and between  *)
(* store and reset the cursor stays where it is until the next test of it. *)
Dies(w) ==
  /\ at[w] # "idle"
  /\ Done(w)
  /\ torn' = (torn \/ (displ = Terminal[w] /\ at[w] \notin Even))
  /\ left' = IF at[w] \in {"check", "reset"} THEN left \union {Terminal[w]} ELSE left
  /\ UNCHANGED <<displ, con_cursors, vga_copies, con_addr, char, next, chars>>

ScreenNext ==
  \/ \E w \in Writers :
       \/ PutControl(w) \/ PutCopy(w) \/ Test(w) \/ Show(w)
       \/ Move(w) \/ Check(w) \/ Reset(w) \/ Roll(w) \/ Scroll(w)
       \/ Strcpy(w) \/ KernelPrints(w) \/ Dies(w)
  \/ FKey

ScreenSpec == ScreenInit /\ [][ScreenNext]_screenVars
-----------------------------------------------------------------------------
(* Cursors are unsigned shorts, pictures have marks and blanks. *)
ScreenTypeOK ==
  /\ displ \in Ttys
  /\ con_cursors \in [Ttys -> 0 .. USHORT - 1]
  /\ vga_copies \in [Ttys -> Picture] /\ con_addr \in Picture
  /\ at \in [Writers -> Even \union {"test", "show", "wipe", "rolled", "scroll", "scrolled"}]
  /\ next \in [Writers -> 0 .. USHORT - 1]
  /\ crossed \subseteq Writers /\ left \subseteq Ttys

(***************************************************************************)
(* A cursor is past the end of its picture only while its writer is        *)
(* between the store and the reset that follows (a backspace at the start  *)
(* wraps it there), or after that writer died just there, until the next   *)
(* character on that terminal has been tested: the index of a character    *)
(* that comes at any other moment is inside, whatever messages and other   *)
(* writers did to cursors between loads and stores.                        *)
(***************************************************************************)
CursorsInside ==
  \A t \in Ttys :
    \/ con_cursors[t] \in Cell /\ Place(t, con_cursors[t]) \in Cell
    \/ t \in left \/ \E w \in Writers : Terminal[w] = t /\ at[w] \in {"check", "reset"}

(***************************************************************************)
(* The screen is the picture of the displayed terminal whenever no writer  *)
(* of that terminal is between its copy and its screen, except after the   *)
(* strcpy command, after a redraw, a kernel message or a death that came   *)
(* exactly there, and after a character that another terminal's cursor,    *)
(* past its end, put into this picture; the next redraw repairs it.        *)
(***************************************************************************)
ScreenIsThePicture ==
  ~torn /\ (\A w \in Writers : Terminal[w] = displ => at[w] \in Even)
    => con_addr = vga_copies[displ]
=============================================================================
