------------------------------- MODULE Clock --------------------------------
(***************************************************************************)
(* time (kernel/time.c), which system call 6 runs with interrupts off: it  *)
(* reads the registers of the real-time clock one after the other and adds *)
(* them up.  One tick is one access to the clock.                          *)
(*                                                                         *)
(* The clock is external: it updates its registers in the LENGTH ticks     *)
(* from instant upd on and shows so in register A from LEAD ticks before   *)
(* (244 microseconds, some hundred accesses); meanwhile a read returns     *)
(* anything.                                                               *)
(***************************************************************************)
EXTENDS Integers, Sequences

CONSTANTS LEAD, LENGTH

ASSUME ClockAssumption == LEAD \in Nat /\ LENGTH \in Nat /\ LEAD > 6

Leap(y) == (y % 4 = 0 /\ y % 100 # 0) \/ y % 400 = 0
DaysIn(y, m) == CASE m \in {4, 6, 9, 11} -> 30 [] m = 2 -> (IF Leap(y) THEN 29 ELSE 28) [] OTHER -> 31

(* A moment: a year of two digits, as the clock counts them. *)
Moment(yy, mon, mday, hour, min, sec) ==
  [sec |-> sec, min |-> min, hour |-> hour, mday |-> mday, mon |-> mon, year |-> yy]

Fields == {"sec", "min", "hour", "mday", "mon", "year"}
Numbers == [Fields -> 0 .. 99]

(* Every moment the clock can show. *)
Moments ==
  {d \in Numbers : /\ d.sec < 60 /\ d.min < 60 /\ d.hour < 24
                   /\ d.mon \in 1 .. 12 /\ d.mday \in 1 .. DaysIn(2000 + d.year, d.mon)}

Tomorrow(d) ==
  LET midnight == [d EXCEPT !.sec = 0, !.min = 0, !.hour = 0, !.mday = @ + 1]
  IN IF d.mday < DaysIn(2000 + d.year, d.mon) THEN midnight
     ELSE IF d.mon < 12 THEN [midnight EXCEPT !.mday = 1, !.mon = @ + 1]
     ELSE [midnight EXCEPT !.mday = 1, !.mon = 1, !.year = (@ + 1) % 100]

(* The moment the clock shows a second later. *)
Update(d) ==
  CASE d.sec < 59 -> [d EXCEPT !.sec = @ + 1]
    [] d.sec = 59 /\ d.min < 59 -> [d EXCEPT !.sec = 0, !.min = @ + 1]
    [] d.sec = 59 /\ d.min = 59 /\ d.hour < 23 -> [d EXCEPT !.sec = 0, !.min = 0, !.hour = @ + 1]
    [] OTHER -> Tomorrow(d)

Bcd(x) == (x \div 10) * 16 + (x % 10)
-----------------------------------------------------------------------------
__decode_bcd(d) == (d \div 16) * 10 + (d % 16)

(* A pass of the clock: it shows d, changes at tick upd, and a read in     *)
(* between returns junk.                                                   *)
Pass(d, upd, junk) == [old |-> d, upd |-> upd, junk |-> junk]

__is_upd(c, t) == c.upd - LEAD <= t /\ t < c.upd + LENGTH

__get_rtc_reg(c, t, reg) ==
  IF t < c.upd THEN Bcd(c.old[reg])
  ELSE IF t < c.upd + LENGTH THEN c.junk
  ELSE Bcd(Update(c.old)[reg])

(* Days before each month, in a leap year. *)
MonthOfCommonYears ==                            \* mutant
  <<0, 31, 59, 90, 120, 151, 181, 212, 243, 273, 304, 334>>

month == <<0, 31, 60, 91, 121, 152, 182, 213, 244, 274, 305, 335>>

TestsNothing(c) ==                               \* mutant
  LET Read(i, reg) == __decode_bcd(__get_rtc_reg(c, i, reg))
  IN [sec |-> Read(1, "sec"), min |-> Read(2, "min"), hour |-> Read(3, "hour"),
      mday |-> Read(4, "mday"), mon |-> Read(5, "mon") - 1, year |-> Read(6, "year") + 2000,
      yday |-> 0]

(* Waits until no update shows, then reads on the six ticks that follow. *)
__get_time(c) ==
  LET t0 == CHOOSE t \in 0 .. c.upd + LENGTH :
              ~__is_upd(c, t) /\ \A u \in 0 .. t - 1 : __is_upd(c, u)
      Read(i, reg) == __decode_bcd(__get_rtc_reg(c, t0 + i, reg))
      mday == Read(4, "mday")
      mon == Read(5, "mon") - 1
  IN [sec |-> Read(1, "sec"), min |-> Read(2, "min"), hour |-> Read(3, "hour"),
      mday |-> mday, mon |-> mon, year |-> Read(6, "year") + 2000,
      yday |-> mday + month[mon + 1]]

(* Days and seconds; the code adds 86400 times the first to the second,    *)
(* which stays below 2^32 for the years of the clock.                      *)
mktime(tm) ==
  LET year == tm.year - 1900
  IN [days |-> tm.yday + (year - 70) * 365 + (year - 69) \div 4
               - (year - 1) \div 100 + (year + 299) \div 400 - 2,
      secs |-> tm.sec + tm.min * 60 + tm.hour * 3600]

time(c) == mktime(__get_time(c))
-----------------------------------------------------------------------------
(* The moment d in the fields of struct tm that the clock gives. *)
Shows(tm, d) ==
  /\ tm.sec = d.sec /\ tm.min = d.min /\ tm.hour = d.hour
  /\ tm.mday = d.mday /\ tm.mon + 1 = d.mon /\ tm.year = 2000 + d.year

(***************************************************************************)
(* The six registers read are those of one moment, the one before the      *)
(* update or the one after, wherever the update falls.                     *)
(***************************************************************************)
ReadsOneMoment(c) ==
  LET tm == __get_time(c) IN Shows(tm, c.old) \/ Shows(tm, Update(c.old))

(* The reference: days since 1 January 1970, counted year by year. *)
YearStart[y \in 1970 .. 2100] ==
  IF y = 1970 THEN 0 ELSE YearStart[y - 1] + (IF Leap(y - 1) THEN 366 ELSE 365)

DayNumber(d) ==
  LET y == 2000 + d.year
      before[m \in 1 .. 12] == IF m = 1 THEN 0 ELSE before[m - 1] + DaysIn(y, m - 1)
  IN YearStart[y] + before[d.mon] + d.mday - 1

Quiet(d) == Pass(d, LEAD + 7, 0)

(***************************************************************************)
(* The day count is right from March on in a common year; in January and   *)
(* February, and in all of a leap year, it is one day behind.              *)
(***************************************************************************)
DaysAreRightOrOneBehind(d) ==
  time(Quiet(d)).days = DayNumber(d) - (IF d.mon > 2 /\ ~Leap(2000 + d.year) THEN 0 ELSE 1)

(***************************************************************************)
(* So time is later on a later day, but for the first day of a year that   *)
(* follows a common one, which repeats the number of the last.             *)
(***************************************************************************)
RepeatsOnlyNewYear(d) ==
  LET next == Tomorrow(d)
      repeats == next.mon = 1 /\ next.mday = 1 /\ ~Leap(2000 + d.year)
  IN d.year < 99 =>
       time(Quiet(next)).days - time(Quiet(d)).days
         \in IF repeats THEN {0} ELSE {1, 2}
=============================================================================
