---------------------------- MODULE ScreenProofs ----------------------------
(***************************************************************************)
(* For pictures of any size and any number of terminals with one writer    *)
(* each: the cursors stay inside the pictures, and the screen is the       *)
(* picture of the displayed terminal.                                      *)
(***************************************************************************)
EXTENDS Screen, TLAPS

(* A picture is at least two rows, and the last one is inside it. *)
LEMMA Rows ==
  /\ COLS \in Nat \ {0} /\ CELLS \in Nat /\ LastRow \in Nat
  /\ LastRow + COLS = CELLS /\ COLS <= LastRow /\ CELLS < USHORT
  <1>1. COLS \in Nat \ {0} /\ ROWS \in Nat \ {0, 1} /\ COLS * (ROWS + 1) < USHORT
    BY ScreenAssumption
  <1>2. COLS * ROWS \in Nat /\ COLS * (ROWS + 1) = COLS * ROWS + COLS
    BY <1>1
  <1>3. COLS * ROWS >= COLS + COLS
    <2>1. PICK k \in Nat : ROWS = k + 2
      BY <1>1, ROWS = (ROWS - 2) + 2
    <2>2. COLS * (k + 2) = COLS * k + COLS + COLS /\ COLS * k \in Nat
      BY <1>1, <2>1
    <2> QED BY <1>1, <2>1, <2>2
  <1> QED BY <1>1, <1>2, <1>3 DEF CELLS, LastRow, USHORT

LEMMA ModCols ==
  ASSUME NEW x \in Nat
  PROVE  /\ x % COLS \in 0 .. COLS - 1 /\ x \div COLS \in Nat
         /\ x = COLS * (x \div COLS) + (x % COLS)
  BY Rows

(* The cell of a character, whichever way its terminal writes. *)
LEMMA PlaceIsCell ==
  ASSUME NEW t, NEW c \in Cell
  PROVE  Place(t, c) \in Cell
  <1>1. CASE t # REVERSED
    BY <1>1 DEF Place
  <1>2. CASE t = REVERSED
    <2> DEFINE q == c \div COLS
               r == c % COLS
    <2>1. c \in Nat /\ q \in Nat /\ r \in 0 .. COLS - 1 /\ c = COLS * q + r
      BY ModCols, Rows DEF Cell
    <2>2. ROWS \in Nat /\ COLS \in Nat \ {0} /\ CELLS = COLS * ROWS /\ c < CELLS
      BY ScreenAssumption, Rows DEF Cell, CELLS
    <2>3. Place(t, c) = (COLS - 1 - r) + q * COLS
      BY <1>2 DEF Place
    <2> HIDE DEF q, r
    <2>4. q < ROWS
      <3> SUFFICES ASSUME q >= ROWS PROVE FALSE
        BY <2>1, <2>2
      <3>1. PICK k \in Nat : q = ROWS + k
        BY <2>1, <2>2, q = ROWS + (q - ROWS)
      <3>2. COLS * (ROWS + k) = COLS * ROWS + COLS * k /\ COLS * k \in Nat
        BY <2>2, <3>1
      <3> QED BY <2>1, <2>2, <3>1, <3>2
    <2>5. q * COLS + COLS <= CELLS /\ q * COLS \in Nat
      <3>1. PICK k \in Nat : ROWS = q + 1 + k
        BY <2>1, <2>2, <2>4, ROWS = q + 1 + (ROWS - q - 1)
      <3>2. COLS * (q + 1 + k) = q * COLS + COLS + COLS * k /\ COLS * k \in Nat
            /\ q * COLS \in Nat
        BY <2>1, <2>2, <3>1
      <3> QED BY <2>2, <3>1, <3>2
    <2> QED BY <2>1, <2>2, <2>3, <2>5 DEF Cell
  <1> QED BY <1>1, <1>2

(* A cursor of any value, past its end too, gives an index to write at. *)
LEMMA PlaceIsNat ==
  ASSUME NEW t, NEW c \in Nat
  PROVE  Place(t, c) \in Nat
  <1>1. c % COLS \in 0 .. COLS - 1 /\ c \div COLS \in Nat /\ COLS \in Nat
    BY ModCols, Rows
  <1>2. (c \div COLS) * COLS \in Nat
    BY <1>1
  <1> QED BY <1>1, <1>2 DEF Place

(* An unsigned short moves on to an unsigned short. *)
LEMMA NextIsShort ==
  ASSUME NEW ch, NEW c \in 0 .. USHORT - 1
  PROVE  NextCursor(ch, c) \in 0 .. USHORT - 1
  <1>1. c \in Nat /\ c % COLS \in Nat /\ COLS \in Nat
    BY ModCols, Rows
  <1>2. TAB \in Nat \ {0} /\ (c % COLS) % TAB \in 0 .. TAB - 1
    BY <1>1, ScreenAssumption
  <1>3. Moved(ch, c) \in Int
    BY <1>1, <1>2 DEF Moved
  <1>4. USHORT \in Nat \ {0}
    BY DEF USHORT
  <1> HIDE DEF USHORT
  <1>5. Moved(ch, c) % USHORT \in 0 .. USHORT - 1
    BY <1>3, <1>4
  <1> QED BY <1>5 DEF NextCursor

Places == Even \union {"test", "show", "wipe", "rolled", "scroll", "scrolled"}

Shape ==
  /\ displ \in Ttys
  /\ con_cursors \in [Ttys -> 0 .. USHORT - 1]
  /\ vga_copies \in [Ttys -> Picture] /\ con_addr \in Picture
  /\ at \in [Writers -> Places]
  /\ char \in [Writers -> Printable \union {BLANK} \union Control]
  /\ \A w \in Writers : at[w] \in {"test", "show"} => char[w] \in Printable
  /\ next \in [Writers -> 0 .. USHORT - 1]
  /\ crossed \subseteq Writers /\ left \subseteq Ttys

(* A cursor past its end is still to be tested by the one who put it there. *)
Tested(t) ==
  \/ con_cursors[t] \in Cell
  \/ t \in left
  \/ \E w \in Writers : Terminal[w] = t /\ at[w] \in {"check", "reset"}

CursorInv == Shape /\ \A t \in Ttys : Tested(t)

(* A picture whose last row is wiped. *)
BottomBlank(pic) == Wiped(pic) = pic

(* What a writer that nobody wrote across finds in its copy. *)
CopyAsLeft(w) ==
  LET t == Terminal[w]
  IN w \notin crossed =>
       /\ at[w] \in {"test", "show"} =>
            vga_copies[t] = Lit(vga_copies[t], Place(t, con_cursors[t]), char[w])
       /\ at[w] \in {"rolled", "scroll", "scrolled"} => BottomBlank(vga_copies[t])

(* How far the screen is behind the copy of its writer. *)
ScreenBehind(w) ==
  LET pic == vga_copies[displ]
  IN /\ at[w] \in Even => con_addr = pic
     /\ at[w] \in {"test", "show"} =>
          pic = Lit(con_addr, Place(displ, con_cursors[displ]), char[w])
     /\ at[w] = "wipe" => pic = MovedUp(con_addr)
     /\ at[w] \in {"rolled", "scroll"} => pic = Wiped(MovedUp(con_addr))
     /\ at[w] = "scrolled" => pic = Wiped(con_addr)

(* A writer of another terminal is not about to write to the screen. *)
ScreenLeftAlone(w) == at[w] \notin {"show", "scroll", "scrolled"}

ScreenFits(w) == IF Terminal[w] = displ THEN ScreenBehind(w) ELSE ScreenLeftAlone(w)

ScreenInv ==
  /\ Shape
  /\ \A w \in Writers : CopyAsLeft(w)
  /\ ~torn => \A w \in Writers : ScreenFits(w)
-----------------------------------------------------------------------------
LEMMA PictureOps ==
  ASSUME NEW pic \in Picture
  PROVE  MovedUp(pic) \in Picture /\ Wiped(pic) \in Picture /\ BottomBlank(Wiped(pic))
  <1>1. \A c \in Cell : c < LastRow => c + COLS \in Cell
    BY Rows DEF Cell
  <1>2. MovedUp(pic) \in Picture
    BY <1>1 DEF Picture, MovedUp
  <1>3. Wiped(pic) \in Picture
    BY DEF Picture, Wiped
  <1>4. Wiped(Wiped(pic)) = Wiped(pic)
    BY DEF Wiped
  <1> QED BY <1>2, <1>3, <1>4 DEF BottomBlank

LEMMA BlankIsPicture == Blank \in Picture
  BY DEF Blank, Picture

LEMMA ZeroIsCell == 0 \in Cell /\ LastRow \in Cell
  BY Rows DEF Cell

LEMMA TerminalIsTty == \A w \in Writers : Terminal[w] \in Ttys
  BY DEF Ttys

(***************************************************************************)
(* A write at index i of the picture of t: a mark in that picture if i is  *)
(* inside, else in that of the terminal it falls into.                     *)
(***************************************************************************)
LEMMA Marks ==
  ASSUME NEW pics \in [Ttys -> Picture], NEW t \in Ttys, NEW i \in Nat, NEW ch \in Printable
  PROVE  /\ Marked(pics, t, i, ch) \in [Ttys -> Picture]
         /\ Marked(pics, t, i, ch)[t] = Lit(pics[t], i, ch)
         /\ \A u \in Ttys : u # t /\ u # Owner(t, i) => Marked(pics, t, i, ch)[u] = pics[u]
  <1> DEFINE u == Owner(t, i)
             c == i % CELLS
  <1>1. t \in Nat /\ CELLS \in Nat \ {0}
    BY ScreenAssumption, Rows DEF Ttys
  <1>2. c \in Cell /\ i \div CELLS \in Nat /\ i = CELLS * (i \div CELLS) + c
    BY <1>1 DEF Cell
  <1>3. u = t <=> i \div CELLS = 0
    BY <1>1, <1>2 DEF Owner
  <1>4. i \div CELLS = 0 <=> i \in Cell
    BY <1>1, <1>2 DEF Cell
  <1>5. i \in Cell => c = i
    BY <1>1, <1>2, <1>4
  <1> HIDE DEF u, c
  <1>6. Marked(pics, t, i, ch) = IF u \in Ttys THEN [pics EXCEPT ![u][c] = ch] ELSE pics
    BY DEF Marked, u, c
  <1>7. Marked(pics, t, i, ch) \in [Ttys -> Picture]
    BY <1>2, <1>6 DEF Picture
  <1>8. CASE i \in Cell
    BY <1>3, <1>4, <1>5, <1>6, <1>7, <1>8 DEF Lit, u
  <1>9. CASE i \notin Cell
    BY <1>3, <1>4, <1>6, <1>7, <1>9 DEF Lit, u
  <1> QED BY <1>7, <1>8, <1>9

LEMMA LitIsPicture ==
  ASSUME NEW pic \in Picture, NEW i, NEW ch \in Printable
  PROVE  /\ Lit(pic, i, ch) \in Picture
         /\ Lit(Lit(pic, i, ch), i, ch) = Lit(pic, i, ch)
  BY DEF Lit, Picture

(* The place a writer of t has for its character. *)
LEMMA Index ==
  ASSUME Shape, NEW w \in Writers
  PROVE  /\ Terminal[w] \in Ttys /\ con_cursors[Terminal[w]] \in 0 .. USHORT - 1
         /\ Place(Terminal[w], con_cursors[Terminal[w]]) \in Nat
  <1>1. Terminal[w] \in Ttys /\ con_cursors[Terminal[w]] \in 0 .. USHORT - 1
    BY TerminalIsTty DEF Shape
  <1>2. con_cursors[Terminal[w]] \in Nat
    BY <1>1
  <1> QED BY <1>1, <1>2, PlaceIsNat

LEMMA ZeroIsShort == 0 \in 0 .. USHORT - 1 /\ LastRow \in 0 .. USHORT - 1
  <1>1. LastRow \in Nat /\ LastRow < USHORT /\ USHORT \in Nat
    BY Rows DEF USHORT
  <1> QED BY <1>1

LEMMA CursorInvMeans == CursorInv => ScreenTypeOK /\ CursorsInside
  <1> SUFFICES ASSUME CursorInv PROVE ScreenTypeOK /\ CursorsInside
    OBVIOUS
  <1>1. ScreenTypeOK
    BY DEF CursorInv, Shape, ScreenTypeOK, Places
  <1>2. CursorsInside
    BY PlaceIsCell DEF CursorInv, Tested, CursorsInside
  <1> QED BY <1>1, <1>2

LEMMA InitInv == ScreenInit => CursorInv /\ ScreenInv
  <1> SUFFICES ASSUME ScreenInit PROVE CursorInv /\ ScreenInv
    OBVIOUS
  <1>1. Shape
    BY BlankIsPicture, ZeroIsShort DEF ScreenInit, Shape, Places, Even
  <1>2. \A t \in Ttys : Tested(t)
    BY ZeroIsCell DEF ScreenInit, Tested
  <1>3. \A w \in Writers : CopyAsLeft(w)
    BY DEF ScreenInit, CopyAsLeft
  <1>4. \A w \in Writers : at[w] = "idle" /\ con_addr = vga_copies[displ]
    BY DEF ScreenInit
  <1>5. \A w \in Writers : ScreenFits(w)
    BY <1>4 DEF ScreenFits, ScreenBehind, ScreenLeftAlone
  <1> QED BY <1>1, <1>2, <1>3, <1>5 DEF ScreenInv, CursorInv

LEMMA NextShape == Shape /\ [ScreenNext]_screenVars => Shape'
  <1> SUFFICES ASSUME Shape, [ScreenNext]_screenVars PROVE Shape'
    OBVIOUS
  <1> USE TerminalIsTty DEF history
  <1>1. ASSUME NEW w \in Writers, PutControl(w) PROVE Shape'
    BY <1>1 DEF PutControl, Goto, Shape, Places, Even
  <1>2. ASSUME NEW w \in Writers, PutCopy(w) PROVE Shape'
    <2> DEFINE t == Terminal[w]
               i == Place(t, con_cursors[t])
    <2>1. t \in Ttys /\ i \in Nat
      BY Index
    <2> HIDE DEF i
    <2>2. PICK ch \in Printable : /\ vga_copies' = Marked(vga_copies, t, i, ch)
                                  /\ char' = [char EXCEPT ![w] = ch]
      BY <1>2 DEF PutCopy, i
    <2>3. vga_copies' \in [Ttys -> Picture]
      BY <2>1, <2>2, Marks DEF Shape
    <2>4. crossed' \subseteq Writers
      BY <1>2 DEF PutCopy, Spills, Across, Shape
    <2> QED BY <1>2, <2>2, <2>3, <2>4 DEF PutCopy, Shape, Goto, Places, Even
  <1>3. ASSUME NEW w \in Writers, Test(w) PROVE Shape'
    BY <1>3 DEF Test, Shape, Goto, Done, Places, Even
  <1>4. ASSUME NEW w \in Writers, Show(w) PROVE Shape'
    <2>1. con_addr' \in Picture
      BY <1>4, LitIsPicture DEF Show, Shape
    <2> QED BY <1>4, <2>1 DEF Show, Shape, Goto, Places, Even
  <1>5. ASSUME NEW w \in Writers, Move(w) PROVE Shape'
    <2>1. NextCursor(char[w], con_cursors[Terminal[w]]) \in 0 .. USHORT - 1
      BY Index, NextIsShort
    <2>2. con_cursors' \in [Ttys -> 0 .. USHORT - 1] /\ next' \in [Writers -> 0 .. USHORT - 1]
      BY <1>5, <2>1 DEF Move, Shape
    <2> QED BY <1>5, <2>2 DEF Move, Shape, Goto, Places, Even
  <1>6. ASSUME NEW w \in Writers, Check(w) PROVE Shape'
    BY <1>6 DEF Check, Shape, Goto, Done, Places, Even
  <1>7. ASSUME NEW w \in Writers, Reset(w) PROVE Shape'
    BY <1>7, ZeroIsShort DEF Reset, Shape, Goto, Places, Even
  <1>8. ASSUME NEW w \in Writers, Roll(w) PROVE Shape'
    <2>1. vga_copies' \in [Ttys -> Picture]
      BY <1>8, PictureOps DEF Roll, Shape
    <2> QED BY <1>8, <2>1 DEF Roll, Shape, Goto, Places, Even
  <1>9. ASSUME NEW w \in Writers, Scroll(w) PROVE Shape'
    <2>1. con_addr' \in Picture
      BY <1>9, PictureOps DEF Scroll, Shape
    <2> QED BY <1>9, <2>1 DEF Scroll, Shape, Goto, Done, Places, Even
  <1>10. ASSUME NEW w \in Writers, Strcpy(w) PROVE Shape'
    <2>1. con_addr' \in Picture
      BY <1>10 DEF Strcpy, Shape, Picture
    <2> QED BY <1>10, <2>1 DEF Strcpy, Shape
  <1>11. ASSUME NEW w \in Writers, KernelPrints(w) PROVE Shape'
    <2> DEFINE t == Terminal[w]
               i == Place(t, con_cursors[t])
               moved == NextCursor("x", con_cursors[t])
               Scrolled(pic) == IF moved >= CELLS THEN Wiped(MovedUp(pic)) ELSE pic
    <2>1. t \in Ttys /\ i \in Nat /\ moved \in 0 .. USHORT - 1
      BY Index, NextIsShort
    <2> HIDE DEF i, moved
    <2>2. PICK ch \in Printable :
            /\ vga_copies' = [Marked(vga_copies, t, i, ch) EXCEPT ![t] = Scrolled(@)]
            /\ con_addr' = IF displ = t THEN Scrolled(Lit(con_addr, i, ch)) ELSE con_addr
      BY <1>11 DEF KernelPrints, i, moved
    <2>3. con_cursors' = [con_cursors EXCEPT ![t] = IF moved >= CELLS THEN LastRow ELSE moved]
      BY <1>11 DEF KernelPrints, moved
    <2>4. ASSUME NEW pic \in Picture PROVE Scrolled(pic) \in Picture
      BY PictureOps
    <2>5. Marked(vga_copies, t, i, ch) \in [Ttys -> Picture] /\ Lit(con_addr, i, ch) \in Picture
      BY <2>1, Marks, LitIsPicture DEF Shape
    <2> HIDE DEF Scrolled
    <2>6. vga_copies' \in [Ttys -> Picture] /\ con_addr' \in Picture
      BY <2>1, <2>2, <2>4, <2>5 DEF Shape
    <2>7. con_cursors' \in [Ttys -> 0 .. USHORT - 1]
      BY <2>1, <2>3, ZeroIsShort DEF Shape
    <2>8. crossed' \subseteq Writers /\ left' \subseteq Ttys
      BY <1>11 DEF KernelPrints, Spills, Across, Shape
    <2> QED BY <1>11, <2>6, <2>7, <2>8 DEF KernelPrints, Shape
  <1>12. ASSUME NEW w \in Writers, Dies(w) PROVE Shape'
    BY <1>12 DEF Dies, Shape, Goto, Done, Places, Even
  <1>13. CASE FKey
    BY <1>13 DEF FKey, Shape
  <1>14. CASE UNCHANGED screenVars
    BY <1>14 DEF screenVars, Shape
  <1> QED BY <1>1, <1>2, <1>3, <1>4, <1>5, <1>6, <1>7, <1>8, <1>9, <1>10, <1>11, <1>12,
             <1>13, <1>14 DEF ScreenNext

(* Every cursor and picture stays in its range. *)
THEOREM ScreenTypes == ScreenSpec => []ScreenTypeOK
  <1>1. ScreenInit => Shape
    BY InitInv DEF ScreenInv
  <1>2. Shape => ScreenTypeOK
    BY DEF Shape, ScreenTypeOK, Places
  <1> QED BY <1>1, <1>2, NextShape, PTL DEF ScreenSpec

(***************************************************************************)
(* A step of w that moves it on and leaves the cursors of other terminals  *)
(* and the deaths there alone.                                             *)
(***************************************************************************)
LEMMA OtherCursors ==
  ASSUME CursorInv, Shape', NEW w \in Writers,
         \A v \in Writers \ {w} : at'[v] = at[v],
         \A t \in Ttys \ {Terminal[w]} :
           con_cursors'[t] = con_cursors[t] /\ (t \in left => t \in left'),
         Tested(Terminal[w])'
  PROVE  CursorInv'
  <1>1. ASSUME NEW t \in Ttys \ {Terminal[w]} PROVE Tested(t)'
    BY <1>1 DEF CursorInv, Tested
  <1> QED BY <1>1 DEF CursorInv

LEMMA NextCursors == CursorInv /\ [ScreenNext]_screenVars => CursorInv'
  <1> SUFFICES ASSUME CursorInv, [ScreenNext]_screenVars PROVE CursorInv'
    OBVIOUS
  <1> USE DEF history
  <1>0. Shape /\ Shape'
    BY NextShape DEF CursorInv
  <1>1. ASSUME NEW w \in Writers,
               PutControl(w) \/ PutCopy(w) \/ Test(w) \/ Show(w) \/ Roll(w) \/ Scroll(w)
        PROVE  CursorInv'
    <2>1. /\ at[w] \notin {"check", "reset"}
          /\ \A v \in Writers \ {w} : at'[v] = at[v]
          /\ UNCHANGED <<con_cursors, left>>
      BY <1>0, <1>1 DEF PutControl, PutCopy, Test, Show, Roll, Scroll, Goto, Done, Shape
    <2>2. Tested(Terminal[w])
      BY TerminalIsTty DEF CursorInv
    <2>3. Tested(Terminal[w])'
      BY <2>1, <2>2 DEF Tested
    <2> QED BY <1>0, <2>1, <2>3, OtherCursors
  <1>2. ASSUME NEW w \in Writers, Move(w) PROVE CursorInv'
    <2>1. /\ \A v \in Writers \ {w} : at'[v] = at[v]
          /\ \A t \in Ttys \ {Terminal[w]} : con_cursors'[t] = con_cursors[t]
          /\ left' = left
          /\ \/ at[w] = "move" /\ con_cursors' = con_cursors
             \/ at'[w] = "check"
      BY <1>0, <1>2 DEF Move, Goto, Shape
    <2>2. Tested(Terminal[w])
      BY TerminalIsTty DEF CursorInv
    <2>3. Tested(Terminal[w])'
      BY <2>1, <2>2 DEF Tested
    <2> QED BY <1>0, <2>1, <2>3, OtherCursors
  <1>3. ASSUME NEW w \in Writers, Check(w) PROVE CursorInv'
    <2> DEFINE t == Terminal[w]
    <2>1. /\ \A v \in Writers \ {w} : at'[v] = at[v]
          /\ con_cursors' = con_cursors
          /\ left' \in {left, left \ {t}}
          /\ IF con_cursors[t] >= CELLS THEN at'[w] = "reset" ELSE TRUE
      BY <1>0, <1>3 DEF Check, Goto, Done, Shape
    <2>2. con_cursors[t] \in Cell \/ con_cursors[t] >= CELLS
      BY <1>0, Index, Rows DEF Cell
    <2>3. Tested(t)'
      BY <2>1, <2>2 DEF Tested
    <2> QED BY <1>0, <2>1, <2>3, OtherCursors
  <1>4. ASSUME NEW w \in Writers, Reset(w) \/ KernelPrints(w) PROVE CursorInv'
    <2> DEFINE t == Terminal[w]
               moved == NextCursor("x", con_cursors[t])
    <2>1. moved \in 0 .. USHORT - 1 /\ t \in Ttys
      BY <1>0, Index, NextIsShort
    <2> HIDE DEF moved
    <2>2. \/ con_cursors' = [con_cursors EXCEPT ![t] = LastRow]
          \/ con_cursors' = [con_cursors EXCEPT ![t] = IF moved >= CELLS THEN LastRow ELSE moved]
      BY <1>4 DEF Reset, KernelPrints, moved
    <2>3. /\ \A v \in Writers \ {w} : at'[v] = at[v]
          /\ left' = left \ {t}
      BY <1>0, <1>4 DEF Reset, KernelPrints, Goto, Shape
    <2>4. ~(moved >= CELLS) => moved \in Cell
      BY <2>1, Rows DEF Cell
    <2>5. con_cursors'[t] \in Cell
      BY <1>0, <2>1, <2>2, <2>4, ZeroIsCell DEF Shape
    <2>6. \A u \in Ttys \ {t} : con_cursors'[u] = con_cursors[u]
      BY <1>0, <2>2 DEF Shape
    <2>7. Tested(t)'
      BY <2>5 DEF Tested
    <2> QED BY <1>0, <2>3, <2>6, <2>7, OtherCursors
  <1>5. ASSUME NEW w \in Writers, Strcpy(w) PROVE CursorInv'
    BY <1>0, <1>5 DEF Strcpy, CursorInv, Tested
  <1>6. ASSUME NEW w \in Writers, Dies(w) PROVE CursorInv'
    <2>1. /\ \A v \in Writers \ {w} : at'[v] = at[v]
          /\ con_cursors' = con_cursors
          /\ left \subseteq left'
          /\ at[w] \in {"check", "reset"} => Terminal[w] \in left'
      BY <1>0, <1>6 DEF Dies, Goto, Done, Shape
    <2>2. Tested(Terminal[w])
      BY TerminalIsTty DEF CursorInv
    <2>3. Tested(Terminal[w])'
      BY <2>1, <2>2 DEF Tested
    <2> QED BY <1>0, <2>1, <2>3, OtherCursors
  <1>7. CASE FKey
    BY <1>0, <1>7 DEF FKey, CursorInv, Tested
  <1>8. CASE UNCHANGED screenVars
    BY <1>0, <1>8 DEF screenVars, CursorInv, Tested
  <1> QED BY <1>1, <1>2, <1>3, <1>4, <1>5, <1>6, <1>7, <1>8 DEF ScreenNext

(***************************************************************************)
(* With pictures of any size, and messages, interrupts and deaths between  *)
(* any load, store and test: no character is placed by a cursor past the   *)
(* end, but in the gap between a store and the test that is to catch it.   *)
(***************************************************************************)
THEOREM CursorsStayInside == ScreenSpec => []CursorsInside
  <1>1. ScreenInit => CursorInv
    BY InitInv
  <1> QED BY <1>1, NextCursors, CursorInvMeans, PTL DEF ScreenSpec
-----------------------------------------------------------------------------
(***************************************************************************)
(* What is left to show of a step of one writer.  It touches its own copy  *)
(* and its own places; the screen it touches only when it is its own.      *)
(* What it spills into another picture is on record.                       *)
(***************************************************************************)
LEMMA OneWriterStep ==
  ASSUME ScreenInv, Shape', NEW w \in Writers, displ' = displ, ~torn' => ~torn,
         \A v \in Writers \ {w} : /\ at'[v] = at[v] /\ char'[v] = char[v]
                                  /\ v \in crossed => v \in crossed',
         \A t \in Ttys \ {Terminal[w]} :
           /\ con_cursors'[t] = con_cursors[t]
           /\ \/ vga_copies'[t] = vga_copies[t]
              \/ Across(t) \subseteq crossed' /\ (~torn' => t # displ),
         ~torn' => displ = Terminal[w] \/ con_addr' = con_addr,
         CopyAsLeft(w)', ~torn' => ScreenFits(w)'
  PROVE  ScreenInv'
  <1>1. ASSUME NEW v \in Writers \ {w}
        PROVE  CopyAsLeft(v)' /\ (~torn' => ScreenFits(v)')
    <2> DEFINE t == Terminal[v]
    <2>1. t \in Ttys \ {Terminal[w]}
      BY TerminalIsTty, OneWriterEach
    <2>2. con_cursors'[t] = con_cursors[t] /\ at'[v] = at[v] /\ char'[v] = char[v]
      BY <2>1
    <2>3. CASE vga_copies'[t] = vga_copies[t]
      <3>1. CopyAsLeft(v)'
        BY <2>2, <2>3 DEF CopyAsLeft, ScreenInv
      <3>2. ~torn' => ScreenFits(v)'
        BY <2>1, <2>2, <2>3 DEF ScreenFits, ScreenBehind, ScreenLeftAlone, ScreenInv
      <3> QED BY <3>1, <3>2
    <2>4. CASE Across(t) \subseteq crossed' /\ (~torn' => t # displ)
      <3>1. v \in crossed' \/ at[v] \in Even
        BY <2>4 DEF Across
      <3>2. CopyAsLeft(v)'
        BY <2>2, <3>1 DEF CopyAsLeft, Even
      <3>3. ~torn' => ScreenFits(v)'
        BY <2>2, <2>4 DEF ScreenFits, ScreenLeftAlone, ScreenInv
      <3> QED BY <3>2, <3>3
    <2> QED BY <2>1, <2>3, <2>4
  <1> QED BY <1>1 DEF ScreenInv

(* A step that changes no picture and no screen, from and to a place where *)
(* they are even.                                                          *)
LEMMA EvenStep ==
  ASSUME ScreenInv, Shape', NEW w \in Writers, at[w] \in Even, at'[w] \in Even,
         UNCHANGED <<displ, vga_copies, con_addr, torn>>,
         \A v \in Writers \ {w} : /\ at'[v] = at[v] /\ char'[v] = char[v]
                                  /\ v \in crossed => v \in crossed',
         \A t \in Ttys \ {Terminal[w]} : con_cursors'[t] = con_cursors[t]
  PROVE  ScreenInv'
  <1>1. CopyAsLeft(w)'
    BY DEF CopyAsLeft, Even
  <1>2. ~torn' => ScreenFits(w)'
    BY DEF ScreenFits, ScreenBehind, ScreenLeftAlone, ScreenInv, Even
  <1> QED BY <1>1, <1>2, OneWriterStep

(* After a redraw the screen is the copy, and who is not yet through with  *)
(* its writes will repeat what the copy already shows.                     *)
LEMMA RedrawFits ==
  ASSUME ScreenInv, FKey, ~torn', NEW w \in Writers
  PROVE  ScreenFits(w)'
  <1>1. PICK d \in Ttys :
          /\ displ' = d /\ con_addr' = vga_copies[d]
          /\ torn' = (crossed # {} \/ \E v \in Writers : KeyTears(v, d))
          /\ UNCHANGED <<con_cursors, vga_copies, at, char, crossed>>
    BY DEF FKey
  <1>2. w \notin crossed /\ ~KeyTears(w, d)
    BY <1>1
  <1>3. CopyAsLeft(w) /\ at[w] \in Places
    BY DEF ScreenInv, Shape
  <1>4. CASE d # Terminal[w]
    BY <1>1, <1>2, <1>4 DEF ScreenFits, ScreenLeftAlone, KeyTears
  <1>5. CASE d = Terminal[w]
    <2> DEFINE pic == vga_copies[d]
    <2>1. at[w] \notin {"wipe", "rolled", "scroll"}
      BY <1>2, <1>5 DEF KeyTears
    <2>2. at[w] \in {"test", "show"} => pic = Lit(pic, Place(d, con_cursors[d]), char[w])
      BY <1>2, <1>3, <1>5 DEF CopyAsLeft
    <2>3. at[w] = "scrolled" => pic = Wiped(pic)
      BY <1>2, <1>3, <1>5 DEF CopyAsLeft, BottomBlank
    <2> QED BY <1>1, <1>5, <2>1, <2>2, <2>3 DEF ScreenFits, ScreenBehind
  <1> QED BY <1>4, <1>5

LEMMA NextScreen == ScreenInv /\ [ScreenNext]_screenVars => ScreenInv'
  <1> SUFFICES ASSUME ScreenInv, [ScreenNext]_screenVars PROVE ScreenInv'
    OBVIOUS
  <1> USE TerminalIsTty DEF history
  <1>0. Shape /\ Shape'
    BY NextShape DEF ScreenInv
  <1>1. ASSUME NEW w \in Writers, PutControl(w) PROVE ScreenInv'
    <2>1. /\ at[w] \in Even /\ at'[w] \in Even
          /\ \A v \in Writers \ {w} : at'[v] = at[v] /\ char'[v] = char[v]
          /\ UNCHANGED <<displ, con_cursors, vga_copies, con_addr, torn, crossed>>
      BY <1>0, <1>1 DEF PutControl, Shape, Goto, Even
    <2> QED BY <1>0, <2>1, EvenStep
  <1>2. ASSUME NEW w \in Writers, PutCopy(w) PROVE ScreenInv'
    <2> DEFINE t == Terminal[w]
               i == Place(t, con_cursors[t])
    <2>1. t \in Ttys /\ i \in Nat /\ vga_copies[t] \in Picture /\ con_addr \in Picture
      BY <1>0, Index DEF Shape
    <2>2. PICK ch \in Printable : /\ vga_copies' = Marked(vga_copies, t, i, ch)
                                  /\ char' = [char EXCEPT ![w] = ch]
      BY <1>2 DEF PutCopy
    <2>3. /\ at[w] = "idle" /\ at'[w] = "test" /\ char'[w] = ch
          /\ \A v \in Writers \ {w} : at'[v] = at[v] /\ char'[v] = char[v]
          /\ UNCHANGED <<displ, con_cursors, con_addr>>
          /\ torn' = (torn \/ Spills(t, i).torn)
          /\ crossed' = crossed \union Spills(t, i).crossed
      BY <1>0, <1>2, <2>2 DEF PutCopy, Shape, Goto
    <2>4. /\ vga_copies'[t] = Lit(vga_copies[t], i, ch)
          /\ \A u \in Ttys : u # t /\ u # Owner(t, i) => vga_copies'[u] = vga_copies[u]
      <3>1. PICK j \in Nat : j = i
        BY <2>1
      <3>2. vga_copies' = Marked(vga_copies, t, j, ch)
        BY <2>2, <3>1
      <3>3. vga_copies \in [Ttys -> Picture]
        BY <1>0 DEF Shape
      <3> HIDE DEF i, t
      <3> QED BY <2>1, <3>1, <3>2, <3>3, Marks
    <2>5. ASSUME NEW u \in Ttys, u # t, u = Owner(t, i)
          PROVE  Across(u) \subseteq crossed' /\ (~torn' => u # displ)
      BY <2>3, <2>5 DEF Spills
    <2>6. i' = i
      BY <2>3
    <2>7. vga_copies'[t] = Lit(vga_copies'[t], i, ch)
      BY <2>1, <2>4, LitIsPicture
    <2> HIDE DEF i
    <2>8. CopyAsLeft(w)'
      BY <2>3, <2>6, <2>7 DEF CopyAsLeft, i
    <2>9. ~torn' => ScreenFits(w)'
      <3> SUFFICES ASSUME ~torn' PROVE ScreenFits(w)'
        OBVIOUS
      <3>1. CASE displ = t
        <4>1. con_addr = vga_copies[t]
          BY <2>3, <3>1 DEF ScreenInv, ScreenFits, ScreenBehind, Even
        <4>2. vga_copies'[t] = Lit(con_addr', Place(t, con_cursors'[t]), char'[w])
          BY <2>3, <2>4, <4>1 DEF i
        <4> QED BY <2>3, <3>1, <4>2 DEF ScreenFits, ScreenBehind, Even
      <3>2. CASE displ # t
        BY <2>3, <3>2 DEF ScreenFits, ScreenLeftAlone
      <3> QED BY <3>1, <3>2
    <2>10. \A v \in Writers \ {w} : v \in crossed => v \in crossed'
      BY <2>3
    <2>11. \A u \in Ttys \ {t} :
             /\ con_cursors'[u] = con_cursors[u]
             /\ \/ vga_copies'[u] = vga_copies[u]
                \/ Across(u) \subseteq crossed' /\ (~torn' => u # displ)
      BY <2>3, <2>4, <2>5
    <2> QED BY <1>0, <2>3, <2>8, <2>9, <2>10, <2>11, OneWriterStep
  <1>3. ASSUME NEW w \in Writers, Test(w) PROVE ScreenInv'
    <2>1. /\ \/ at[w] = "test" /\ at'[w] = IF displ = Terminal[w] THEN "show" ELSE "move"
             \/ at[w] = "rolled" /\ at'[w] = IF displ = Terminal[w] THEN "scroll" ELSE "idle"
          /\ \A v \in Writers \ {w} : at'[v] = at[v] /\ (v \in crossed' <=> v \in crossed)
          /\ at'[w] # "idle" => crossed' = crossed
          /\ UNCHANGED <<displ, con_cursors, vga_copies, con_addr, char, torn>>
      BY <1>0, <1>3 DEF Test, Shape, Goto, Done
    <2>2. CopyAsLeft(w)'
      BY <2>1 DEF CopyAsLeft, ScreenInv
    <2>3. ~torn' => ScreenFits(w)'
      BY <2>1 DEF ScreenFits, ScreenBehind, ScreenLeftAlone, ScreenInv, Even
    <2> QED BY <1>0, <2>1, <2>2, <2>3, OneWriterStep
  <1>4. ASSUME NEW w \in Writers, Show(w) PROVE ScreenInv'
    <2> DEFINE t == Terminal[w]
               i == Place(t, con_cursors[t])
    <2>1. /\ at[w] = "show" /\ at'[w] = "move"
          /\ \A v \in Writers \ {w} : at'[v] = at[v]
          /\ con_addr' = Lit(con_addr, i, char[w])
          /\ UNCHANGED <<displ, con_cursors, vga_copies, char, torn, crossed>>
      BY <1>0, <1>4 DEF Show, Shape, Goto
    <2>2. CopyAsLeft(w)'
      BY <2>1 DEF CopyAsLeft
    <2>3. ~torn' => displ = t
      BY <2>1 DEF ScreenInv, ScreenFits, ScreenLeftAlone
    <2>4. ~torn' => ScreenFits(w)'
      BY <2>1, <2>3 DEF ScreenFits, ScreenBehind, ScreenInv, Even
    <2> QED BY <1>0, <2>1, <2>2, <2>3, <2>4, OneWriterStep
  <1>5. ASSUME NEW w \in Writers, Move(w) \/ Check(w) \/ Reset(w) PROVE ScreenInv'
    <2>1. /\ at[w] \in Even /\ at'[w] \in Even
          /\ \A v \in Writers \ {w} : at'[v] = at[v] /\ (v \in crossed => v \in crossed')
          /\ \A t \in Ttys \ {Terminal[w]} : con_cursors'[t] = con_cursors[t]
          /\ UNCHANGED <<displ, vga_copies, con_addr, char, torn>>
      BY <1>0, <1>5 DEF Move, Check, Reset, Shape, Goto, Done, Even
    <2> QED BY <1>0, <2>1, EvenStep
  <1>6. ASSUME NEW w \in Writers, Roll(w) PROVE ScreenInv'
    <2> DEFINE t == Terminal[w]
               pic == vga_copies[t]
    <2>1. /\ \/ at[w] = "roll" /\ at'[w] = "wipe" /\ vga_copies'[t] = MovedUp(pic)
             \/ at[w] = "wipe" /\ at'[w] = "rolled" /\ vga_copies'[t] = Wiped(pic)
          /\ \A v \in Writers \ {w} : at'[v] = at[v]
          /\ \A u \in Ttys \ {t} : vga_copies'[u] = vga_copies[u]
          /\ UNCHANGED <<displ, con_cursors, con_addr, char, torn, crossed>>
      BY <1>0, <1>6 DEF Roll, Shape, Goto
    <2>2. CopyAsLeft(w)'
      <3>1. pic \in Picture
        BY <1>0 DEF Shape
      <3> QED BY <2>1, <3>1, PictureOps DEF CopyAsLeft
    <2>3. ~torn' => ScreenFits(w)'
      BY <2>1 DEF ScreenFits, ScreenBehind, ScreenLeftAlone, ScreenInv, Even
    <2> QED BY <1>0, <2>1, <2>2, <2>3, OneWriterStep
  <1>7. ASSUME NEW w \in Writers, Scroll(w) PROVE ScreenInv'
    <2>1. /\ \/ at[w] = "scroll" /\ at'[w] = "scrolled" /\ con_addr' = MovedUp(con_addr)
                /\ crossed' = crossed
             \/ at[w] = "scrolled" /\ at'[w] = "idle" /\ con_addr' = Wiped(con_addr)
          /\ \A v \in Writers \ {w} : at'[v] = at[v] /\ (v \in crossed' <=> v \in crossed)
          /\ UNCHANGED <<displ, con_cursors, vga_copies, char, torn>>
      BY <1>0, <1>7 DEF Scroll, Shape, Goto, Done
    <2>2. CopyAsLeft(w)'
      BY <2>1 DEF CopyAsLeft, ScreenInv
    <2>3. ~torn' => displ = Terminal[w]
      BY <2>1 DEF ScreenInv, ScreenFits, ScreenLeftAlone
    <2>4. ~torn' => ScreenFits(w)'
      BY <2>1, <2>3 DEF ScreenFits, ScreenBehind, ScreenInv, Even
    <2> QED BY <1>0, <2>1, <2>2, <2>3, <2>4, OneWriterStep
  <1>8. ASSUME NEW w \in Writers, KernelPrints(w) PROVE ScreenInv'
    <2> DEFINE t == Terminal[w]
               i == Place(t, con_cursors[t])
               moved == NextCursor("x", con_cursors[t])
               Scrolled(pic) == IF moved >= CELLS THEN Wiped(MovedUp(pic)) ELSE pic
    <2>1. t \in Ttys /\ i \in Nat
      BY <1>0, Index
    <2> HIDE DEF i, moved
    <2>2. PICK ch \in Printable :
            /\ vga_copies' = [Marked(vga_copies, t, i, ch) EXCEPT ![t] = Scrolled(@)]
            /\ con_addr' = IF displ = t THEN Scrolled(Lit(con_addr, i, ch)) ELSE con_addr
      BY <1>8 DEF KernelPrints, i, moved
    <2> HIDE DEF Scrolled
    <2>3. /\ UNCHANGED <<displ, at, char>>
          /\ torn' = (torn \/ Spills(t, i).torn \/ (displ = t /\ Across(t) # {}))
          /\ crossed' = crossed \union Across(t) \union Spills(t, i).crossed
          /\ \A u \in Ttys \ {t} : con_cursors'[u] = con_cursors[u]
      BY <1>0, <1>8 DEF KernelPrints, Shape, i
    <2>4. /\ vga_copies'[t] = Scrolled(Lit(vga_copies[t], i, ch))
          /\ \A u \in Ttys : u # t /\ u # Owner(t, i) => vga_copies'[u] = vga_copies[u]
      BY <1>0, <2>1, <2>2, Marks DEF Shape
    <2>5. ASSUME NEW u \in Ttys, u # t, u = Owner(t, i)
          PROVE  Across(u) \subseteq crossed' /\ (~torn' => u # displ)
      BY <2>3, <2>5 DEF Spills
    <2>6. w \in Across(t) <=> at[w] \notin Even
      BY DEF Across
    <2>7. CopyAsLeft(w)'
      BY <2>3, <2>6 DEF CopyAsLeft, Even
    <2>8. ~torn' => ScreenFits(w)'
      <3> SUFFICES ASSUME ~torn' PROVE ScreenFits(w)'
        OBVIOUS
      <3>1. CASE displ = t
        <4>1. at[w] \in Even /\ ~torn
          BY <2>3, <2>6, <3>1
        <4>2. con_addr = vga_copies[t]
          BY <3>1, <4>1 DEF ScreenInv, ScreenFits, ScreenBehind
        <4>3. con_addr' = vga_copies'[t]
          BY <2>2, <2>4, <3>1, <4>2
        <4> QED BY <2>3, <3>1, <4>1, <4>3 DEF ScreenFits, ScreenBehind, Even
      <3>2. CASE displ # t
        BY <2>3, <3>2 DEF ScreenFits, ScreenLeftAlone, ScreenInv
      <3> QED BY <3>1, <3>2
    <2>9. \A u \in Ttys \ {t} :
             /\ con_cursors'[u] = con_cursors[u]
             /\ \/ vga_copies'[u] = vga_copies[u]
                \/ Across(u) \subseteq crossed' /\ (~torn' => u # displ)
      BY <2>3, <2>4, <2>5
    <2>10. ~torn' => displ = t \/ con_addr' = con_addr
      BY <2>2
    <2> QED BY <1>0, <2>3, <2>7, <2>8, <2>9, <2>10, OneWriterStep
  <1>9. ASSUME NEW w \in Writers, Dies(w) PROVE ScreenInv'
    <2>1. /\ at'[w] = "idle"
          /\ \A v \in Writers \ {w} : at'[v] = at[v] /\ (v \in crossed' <=> v \in crossed)
          /\ ~torn' => ~torn /\ (displ = Terminal[w] => at[w] \in Even)
          /\ UNCHANGED <<displ, con_cursors, vga_copies, con_addr, char>>
      BY <1>0, <1>9 DEF Dies, Shape, Goto, Done
    <2>2. CopyAsLeft(w)' /\ (~torn' => ScreenFits(w)')
      BY <2>1 DEF CopyAsLeft, ScreenFits, ScreenBehind, ScreenLeftAlone, ScreenInv, Even
    <2> QED BY <1>0, <2>1, <2>2, OneWriterStep
  <1>10. ASSUME NEW w \in Writers, Strcpy(w) PROVE ScreenInv'
    <2>1. torn' /\ UNCHANGED <<displ, con_cursors, vga_copies, at, char, crossed>>
      BY <1>10 DEF Strcpy
    <2> QED BY <1>0, <2>1 DEF ScreenInv, CopyAsLeft
  <1>11. CASE FKey
    <2>1. \A w \in Writers : CopyAsLeft(w)'
      BY <1>11 DEF FKey, CopyAsLeft, ScreenInv
    <2> QED BY <1>0, <1>11, <2>1, RedrawFits DEF ScreenInv
  <1>12. CASE UNCHANGED screenVars
    BY <1>0, <1>12 DEF screenVars, ScreenInv, CopyAsLeft, ScreenFits, ScreenBehind,
       ScreenLeftAlone
  <1> QED BY <1>1, <1>2, <1>3, <1>4, <1>5, <1>6, <1>7, <1>8, <1>9, <1>10, <1>11, <1>12
          DEF ScreenNext

(***************************************************************************)
(* Whatever the writers and the F-keys do, the screen is the picture of    *)
(* the displayed terminal, with the exceptions ScreenIsThePicture names.   *)
(***************************************************************************)
THEOREM ScreenShowsThePicture == ScreenSpec => []ScreenIsThePicture
  <1>1. ScreenInv => ScreenIsThePicture
    <2> SUFFICES ASSUME ScreenInv, ~torn,
                        \A w \in Writers : Terminal[w] = displ => at[w] \in Even
                 PROVE  con_addr = vga_copies[displ]
      BY DEF ScreenIsThePicture
    <2>1. PICK w \in Writers : Terminal[w] = displ
      BY DEF ScreenInv, Shape, Ttys
    <2> QED BY <2>1 DEF ScreenInv, ScreenFits, ScreenBehind
  <1> QED BY <1>1, InitInv, NextScreen, PTL DEF ScreenSpec
=============================================================================
