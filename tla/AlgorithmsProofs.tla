-------------------------- MODULE AlgorithmsProofs --------------------------
(***************************************************************************)
(* The clock and the string routines, for every moment of the clock, every *)
(* instant of its update and every memory.  What a loop computes is shown  *)
(* by its closed form: a function that differs from it differs first at    *)
(* some turn, and the turn before forbids that.                            *)
(***************************************************************************)
EXTENDS Algorithms, HardwareProofs, SequenceTheorems, WellFoundedInduction, TLAPS

-----------------------------------------------------------------------------
LEMMA MonthLength ==
  ASSUME NEW y \in Int, NEW m \in 1 .. 12
  PROVE  DaysIn(y, m) \in 28 .. 31
  BY DEF DaysIn

(* A field of two digits survives the way through the register. *)
LEMMA DecodeBcd ==
  ASSUME NEW x \in 0 .. 99
  PROVE  __decode_bcd(Bcd(x)) = x
  <1>1. x - 10 * (x \div 10) \in 0 .. 9 /\ x \div 10 \in 0 .. 9
    OBVIOUS
  <1>2. PICK t \in 0 .. 9, u \in 0 .. 9 : x = 10 * t + u
    BY <1>1
  <1>3. (t * 16 + u) \div 16 = t /\ (t * 16 + u) % 16 = u
    BY <1>2
  <1>4. __decode_bcd(t * 16 + u) = x
    BY <1>2, <1>3 DEF __decode_bcd
  <1>5. (10 * t + u) \div 10 = t /\ (10 * t + u) % 10 = u
    OBVIOUS
  <1> QED BY <1>2, <1>4, <1>5 DEF Bcd

LEMMA MomentsAreNumbers ==
  ASSUME NEW d \in Moments
  PROVE  /\ d \in Numbers
         /\ d.sec \in 0 .. 59 /\ d.min \in 0 .. 59 /\ d.hour \in 0 .. 23
         /\ d.mday \in 1 .. 31 /\ d.mon \in 1 .. 12 /\ d.year \in 0 .. 99
         /\ d.mday <= DaysIn(2000 + d.year, d.mon)
  <1>1. /\ d \in Numbers /\ d.sec < 60 /\ d.min < 60 /\ d.hour < 24
        /\ d.mon \in 1 .. 12 /\ d.mday \in 1 .. DaysIn(2000 + d.year, d.mon)
    BY DEF Moments
  <1>2. d.sec \in 0 .. 99 /\ d.min \in 0 .. 99 /\ d.hour \in 0 .. 99 /\ d.year \in 0 .. 99
    BY <1>1 DEF Numbers, Fields
  <1>3. DaysIn(2000 + d.year, d.mon) \in 28 .. 31
    BY <1>1, <1>2, MonthLength
  <1> QED BY <1>1, <1>2, <1>3

(* The fields of the day after d. *)
LEMMA TomorrowIs ==
  ASSUME NEW d \in Moments
  PROVE  LET n == Tomorrow(d)
             last == ~(d.mday < DaysIn(2000 + d.year, d.mon))
         IN /\ n \in Numbers /\ n.sec = 0 /\ n.min = 0 /\ n.hour = 0
            /\ ~last => n.mday = d.mday + 1 /\ n.mon = d.mon /\ n.year = d.year
            /\ last /\ d.mon < 12 => n.mday = 1 /\ n.mon = d.mon + 1 /\ n.year = d.year
            /\ last /\ d.mon = 12 => n.mday = 1 /\ n.mon = 1 /\ n.year = (d.year + 1) % 100
  <1> DEFINE a == [d EXCEPT !.sec = 0]
             b == [a EXCEPT !.min = 0]
             e == [b EXCEPT !.hour = 0]
             midnight == [e EXCEPT !.mday = d.mday + 1]
  <1>1. d \in Numbers /\ d.mday + 1 \in 0 .. 99 /\ d.mon \in 1 .. 12 /\ d.year \in 0 .. 99
    BY MomentsAreNumbers
  <1>2. a \in Numbers /\ a.mday = d.mday /\ a.mon = d.mon /\ a.year = d.year /\ a.sec = 0
    BY <1>1, SMT DEF Numbers, Fields
  <1> HIDE DEF a
  <1>3. b \in Numbers /\ b.mday = d.mday /\ b.mon = d.mon /\ b.year = d.year /\ b.sec = 0 /\ b.min = 0
    BY <1>2, SMT DEF Numbers, Fields
  <1> HIDE DEF b
  <1>4. e \in Numbers /\ e.mday = d.mday /\ e.mon = d.mon /\ e.year = d.year /\ e.sec = 0 /\ e.min = 0 /\ e.hour = 0
    BY <1>3, SMT DEF Numbers, Fields
  <1> HIDE DEF e
  <1>5. /\ midnight \in Numbers /\ midnight.sec = 0 /\ midnight.min = 0 /\ midnight.hour = 0
        /\ midnight.mday = d.mday + 1 /\ midnight.mon = d.mon /\ midnight.year = d.year
    BY <1>1, <1>4, SMT DEF Numbers, Fields
  <1>6. [d EXCEPT !.sec = 0, !.min = 0, !.hour = 0, !.mday = @ + 1] = midnight
    BY <1>4, Zenon DEF a, b, e
  <1> DEFINE short == d.mday < DaysIn(2000 + d.year, d.mon)
  <1>7. Tomorrow(d) =
          IF short THEN [d EXCEPT !.sec = 0, !.min = 0, !.hour = 0, !.mday = @ + 1]
          ELSE IF d.mon < 12
          THEN [[d EXCEPT !.sec = 0, !.min = 0, !.hour = 0, !.mday = @ + 1]
                  EXCEPT !.mday = 1, !.mon = @ + 1]
          ELSE [[d EXCEPT !.sec = 0, !.min = 0, !.hour = 0, !.mday = @ + 1]
                  EXCEPT !.mday = 1, !.mon = 1, !.year = (@ + 1) % 100]
    BY SMT DEF Tomorrow
  <1> HIDE DEF midnight, short
  <1>8. CASE short
    <2>1. Tomorrow(d) = midnight
      BY <1>6, <1>7, <1>8, Zenon
    <2> QED BY <1>5, <1>8, <2>1 DEF short
  <1>9. CASE ~short /\ d.mon < 12
    <2> DEFINE f == [midnight EXCEPT !.mday = 1]
               g == [f EXCEPT !.mon = d.mon + 1]
    <2>1. f \in Numbers /\ f.mday = 1 /\ f.mon = d.mon /\ f.year = d.year
             /\ f.sec = 0 /\ f.min = 0 /\ f.hour = 0
      BY <1>5, SMT DEF Numbers, Fields
    <2> HIDE DEF f
    <2>2. g \in Numbers /\ g.mday = 1 /\ g.mon = d.mon + 1 /\ g.year = d.year
             /\ g.sec = 0 /\ g.min = 0 /\ g.hour = 0
      BY <1>1, <2>1, SMT DEF Numbers, Fields
    <2>3. [midnight EXCEPT !.mday = 1, !.mon = @ + 1] = g
      BY <1>5, <2>1, Zenon DEF f
    <2>4. Tomorrow(d) = g
      BY <1>6, <1>7, <1>9, <2>3, Zenon
    <2> HIDE DEF g
    <2> QED BY <1>1, <1>9, <2>2, <2>4 DEF short
  <1>10. CASE ~short /\ ~(d.mon < 12)
    <2> DEFINE f == [midnight EXCEPT !.mday = 1]
               h == [f EXCEPT !.mon = 1]
               v == (d.year + 1) % 100
               g == [h EXCEPT !.year = v]
    <2>1. f \in Numbers /\ f.mday = 1 /\ f.mon = d.mon /\ f.year = d.year
             /\ f.sec = 0 /\ f.min = 0 /\ f.hour = 0
      BY <1>5, SMT DEF Numbers, Fields
    <2> HIDE DEF f
    <2>2. h \in Numbers /\ h.mday = 1 /\ h.mon = 1 /\ h.year = d.year
             /\ h.sec = 0 /\ h.min = 0 /\ h.hour = 0
      BY <2>1, SMT DEF Numbers, Fields
    <2> HIDE DEF h
    <2>3. v \in 0 .. 99
      BY <1>1
    <2> HIDE DEF v
    <2>4. g \in Numbers /\ g.mday = 1 /\ g.mon = 1 /\ g.year = v
             /\ g.sec = 0 /\ g.min = 0 /\ g.hour = 0
      BY <2>2, <2>3, SMT DEF Numbers, Fields
    <2>5. [midnight EXCEPT !.mday = 1, !.mon = 1, !.year = (@ + 1) % 100] = g
      BY <1>5, <2>2, Zenon DEF f, h, v
    <2>6. Tomorrow(d) = g
      BY <1>6, <1>7, <1>10, <2>5, Zenon
    <2> HIDE DEF g
    <2> QED BY <1>1, <1>10, <2>4, <2>6 DEF short, v
  <1> QED BY <1>8, <1>9, <1>10

LEMMA TomorrowIsAMoment ==
  ASSUME NEW d \in Moments
  PROVE  Tomorrow(d) \in Moments
  <1> DEFINE n == Tomorrow(d)
             last == ~(d.mday < DaysIn(2000 + d.year, d.mon))
  <1>1. /\ d.mon \in 1 .. 12 /\ d.mday \in 1 .. 31 /\ d.year \in 0 .. 99
        /\ DaysIn(2000 + d.year, d.mon) \in 28 .. 31
    BY MomentsAreNumbers, MonthLength
  <1>2. /\ n \in Numbers /\ n.sec = 0 /\ n.min = 0 /\ n.hour = 0
        /\ ~last => n.mday = d.mday + 1 /\ n.mon = d.mon /\ n.year = d.year
        /\ last /\ d.mon < 12 => n.mday = 1 /\ n.mon = d.mon + 1 /\ n.year = d.year
        /\ last /\ d.mon = 12 => n.mday = 1 /\ n.mon = 1 /\ n.year = (d.year + 1) % 100
    BY TomorrowIs
  <1> HIDE DEF n
  <1>3. n.mon \in 1 .. 12 /\ n.year \in Int
    BY <1>1, <1>2
  <1>4. DaysIn(2000 + n.year, n.mon) \in 28 .. 31
    BY <1>3, MonthLength
  <1>5. n.mday \in 1 .. DaysIn(2000 + n.year, n.mon)
    BY <1>1, <1>2, <1>3, <1>4
  <1>6. n.sec < 60 /\ n.min < 60 /\ n.hour < 24
    BY <1>2
  <1> QED BY <1>2, <1>3, <1>5, <1>6 DEF n, Moments

(* A second later the registers show numbers of two digits again. *)
LEMMA UpdateIsANumber ==
  ASSUME NEW d \in Moments
  PROVE  Update(d) \in Numbers
  <1>1. /\ d \in Numbers
        /\ d.sec \in 0 .. 59 /\ d.min \in 0 .. 59 /\ d.hour \in 0 .. 23
    BY MomentsAreNumbers
  <1> DEFINE a == [d EXCEPT !.sec = 0]
             b == [a EXCEPT !.min = 0]
  <1>2. a \in Numbers /\ a.min = d.min /\ a.hour = d.hour
    BY <1>1, SMT DEF Numbers, Fields
  <1>3. CASE d.sec < 59
    <2>1. Update(d) = [d EXCEPT !.sec = d.sec + 1]
      BY <1>1, <1>3, SMT DEF Update
    <2> QED BY <1>1, <1>3, <2>1, SMT DEF Numbers, Fields
  <1>4. CASE d.sec = 59 /\ d.min < 59
    <2> HIDE DEF a
    <2>1. [d EXCEPT !.sec = 0, !.min = @ + 1] = [a EXCEPT !.min = d.min + 1]
      BY <1>2, Zenon DEF a
    <2>2. Update(d) = [a EXCEPT !.min = d.min + 1]
      BY <1>1, <1>4, <2>1 DEF Update
    <2> QED BY <1>1, <1>2, <1>4, <2>2, SMT DEF Numbers, Fields
  <1>5. CASE d.sec = 59 /\ d.min = 59 /\ d.hour < 23
    <2> HIDE DEF a
    <2>1. b \in Numbers /\ b.hour = d.hour
      BY <1>2, SMT DEF Numbers, Fields
    <2> HIDE DEF b
    <2>2. [d EXCEPT !.sec = 0, !.min = 0, !.hour = @ + 1] = [b EXCEPT !.hour = d.hour + 1]
      BY <2>1, Zenon DEF a, b
    <2>3. Update(d) = [b EXCEPT !.hour = d.hour + 1]
      BY <1>1, <1>5, <2>2 DEF Update
    <2> QED BY <1>1, <1>5, <2>1, <2>3, SMT DEF Numbers, Fields
  <1>6. CASE d.sec = 59 /\ d.min = 59 /\ ~(d.hour < 23)
    <2>1. Update(d) = Tomorrow(d)
      BY <1>1, <1>6 DEF Update
    <2> QED BY <2>1, TomorrowIs
  <1> QED BY <1>1, <1>3, <1>4, <1>5, <1>6

LEMMA FieldsOfMoments ==
  ASSUME NEW d \in Moments, NEW f \in Fields
  PROVE  d[f] \in 0 .. 99 /\ Update(d)[f] \in 0 .. 99
  <1>1. d \in Numbers /\ Update(d) \in Numbers
    BY MomentsAreNumbers, UpdateIsANumber
  <1> QED BY <1>1, Zenon DEF Numbers

(* The wait of __get_time ends, and at an instant that shows no update.    *)
LEMMA WaitEnds ==
  ASSUME NEW c, c.upd \in Nat
  PROVE  \E t \in 0 .. c.upd + LENGTH :
           ~__is_upd(c, t) /\ \A u \in 0 .. t - 1 : __is_upd(c, u)
  <1> DEFINE Calm == {t \in 0 .. c.upd + LENGTH : ~__is_upd(c, t)}
  <1>1. c.upd + LENGTH \in Calm
    BY ClockAssumption DEF __is_upd
  <1>2. Calm \subseteq Nat
    BY ClockAssumption
  <1>3. PICK t \in Calm : \A u \in Calm : t <= u
    BY <1>1, <1>2, LeastOf
  <1>4. ASSUME NEW u \in 0 .. t - 1 PROVE __is_upd(c, u)
    BY <1>3, <1>4, ClockAssumption
  <1> QED BY <1>3, <1>4

(* time reads the clock at one moment, wherever the update falls: the lead *)
(* of the clock over its update outlasts the six accesses of a reading     *)
(* (__get_time, time.c).                                                   *)
THEOREM TimeReadsOneMoment ==
  \A d \in Moments, upd \in Nat : \A junk : ReadsOneMoment(Pass(d, upd, junk))
  <1> SUFFICES ASSUME NEW d \in Moments, NEW upd \in Nat, NEW junk
               PROVE  ReadsOneMoment(Pass(d, upd, junk))
    OBVIOUS
  <1> DEFINE c == Pass(d, upd, junk)
             t0 == CHOOSE t \in 0 .. c.upd + LENGTH :
                     ~__is_upd(c, t) /\ \A u \in 0 .. t - 1 : __is_upd(c, u)
             shown == IF t0 < upd THEN d ELSE Update(d)
             Read(i, reg) == __decode_bcd(__get_rtc_reg(c, t0 + i, reg))
  <1>1. c.old = d /\ c.upd = upd /\ c.junk = junk
    BY DEF Pass
  <1>2. t0 \in 0 .. c.upd + LENGTH /\ ~__is_upd(c, t0)
    BY <1>1, WaitEnds
  <1>3. t0 \in Nat /\ (t0 + LEAD < upd \/ t0 >= upd + LENGTH)
    BY <1>1, <1>2, ClockAssumption DEF __is_upd
  <1> HIDE DEF t0, c
  <1>4. ASSUME NEW i \in 1 .. 6, NEW reg \in Fields PROVE Read(i, reg) = shown[reg]
    <2>1. CASE t0 + LEAD < upd
      <3>1. t0 + i < upd /\ t0 < upd
        BY <1>3, <2>1, ClockAssumption
      <3>2. __get_rtc_reg(c, t0 + i, reg) = Bcd(d[reg])
        BY <1>1, <3>1 DEF __get_rtc_reg
      <3> QED BY <3>1, <3>2, FieldsOfMoments, DecodeBcd
    <2>2. CASE t0 >= upd + LENGTH
      <3>1. ~(t0 + i < upd) /\ ~(t0 + i < upd + LENGTH) /\ ~(t0 < upd)
        BY <1>3, <2>2, ClockAssumption
      <3>2. __get_rtc_reg(c, t0 + i, reg) = Bcd(Update(d)[reg])
        BY <1>1, <3>1 DEF __get_rtc_reg
      <3> QED BY <3>1, <3>2, FieldsOfMoments, DecodeBcd
    <2> QED BY <1>3, <2>1, <2>2
  <1>5. /\ Read(1, "sec") = shown.sec /\ Read(2, "min") = shown.min
        /\ Read(3, "hour") = shown.hour /\ Read(4, "mday") = shown.mday
        /\ Read(5, "mon") = shown.mon /\ Read(6, "year") = shown.year
    BY <1>4 DEF Fields
  <1>6. shown.mon \in 0 .. 99 /\ shown.year \in 0 .. 99
    BY FieldsOfMoments DEF Fields
  <1> DEFINE tm == __get_time(c)
  <1>7. /\ tm.sec = Read(1, "sec") /\ tm.min = Read(2, "min") /\ tm.hour = Read(3, "hour")
        /\ tm.mday = Read(4, "mday") /\ tm.mon = Read(5, "mon") - 1
        /\ tm.year = Read(6, "year") + 2000
    BY DEF __get_time, t0
  <1> HIDE DEF tm, shown, Read
  <1>8. Shows(tm, shown)
    BY <1>5, <1>6, <1>7 DEF Shows
  <1>9. Shows(tm, c.old) \/ Shows(tm, Update(c.old))
    BY <1>1, <1>8 DEF shown
  <1> QED BY <1>9 DEF ReadsOneMoment, tm, c
-----------------------------------------------------------------------------
(* The calendar. *)
LEMMA DivSteps ==
  ASSUME NEW a \in Nat
  PROVE  /\ (a + 1) \div 4 - a \div 4 = IF (a + 1) % 4 = 0 THEN 1 ELSE 0
         /\ (a + 1) \div 100 - a \div 100 = IF (a + 1) % 100 = 0 THEN 1 ELSE 0
         /\ (a + 1) \div 400 - a \div 400 = IF (a + 1) % 400 = 0 THEN 1 ELSE 0
  <1>1. (a + 1) \div 4 - a \div 4 = IF (a + 1) % 4 = 0 THEN 1 ELSE 0
    OBVIOUS
  <1>2. (a + 1) \div 100 - a \div 100 = IF (a + 1) % 100 = 0 THEN 1 ELSE 0
    OBVIOUS
  <1>3. (a + 1) \div 400 - a \div 400 = IF (a + 1) % 400 = 0 THEN 1 ELSE 0
    OBVIOUS
  <1> QED BY <1>1, <1>2, <1>3
LEMMA Mods ==
  ASSUME NEW y \in 1970 .. 2100
  PROVE  /\ (y - 1968) % 4 = 0 <=> y % 4 = 0
         /\ (y - 1900) % 100 = 0 <=> y % 100 = 0
         /\ (y - 1600) % 400 = 0 <=> y % 400 = 0
  <1>1. (y - 1968) % 4 = 0 <=> y % 4 = 0
    OBVIOUS
  <1>2. (y - 1900) % 100 = 0 <=> y % 100 = 0
    OBVIOUS
  <1>3. (y - 1600) % 400 = 0 <=> y % 400 = 0
    OBVIOUS
  <1> QED BY <1>1, <1>2, <1>3

(* Days from 1 January 1970 to that of year y, as mktime counts them. *)
YearLength(y) == IF Leap(y) THEN 366 ELSE 365

YearsBefore(y) ==
  (y - 1970) * 365 + (y - 1969) \div 4 - (y - 1901) \div 100 + (y - 1601) \div 400

LEMMA YearStep ==
  ASSUME NEW y \in 1970 .. 2100
  PROVE  YearsBefore(y + 1) = YearsBefore(y) + YearLength(y)
         /\ YearsBefore(y) \in Int
  <1> DEFINE a == y - 1969
             b == y - 1901
             c == y - 1601
  <1>1. /\ a \in Nat /\ b \in Nat /\ c \in Nat
        /\ y + 1 - 1969 = a + 1 /\ y + 1 - 1901 = b + 1 /\ y + 1 - 1601 = c + 1
        /\ y - 1968 = a + 1 /\ y - 1900 = b + 1 /\ y - 1600 = c + 1
    OBVIOUS
  <1>2. /\ (a + 1) % 4 = 0 <=> y % 4 = 0
        /\ (b + 1) % 100 = 0 <=> y % 100 = 0
        /\ (c + 1) % 400 = 0 <=> y % 400 = 0
    BY <1>1, Mods
  <1> HIDE DEF a, b, c
  <1>3. /\ (a + 1) \div 4 - a \div 4 = IF y % 4 = 0 THEN 1 ELSE 0
        /\ (b + 1) \div 100 - b \div 100 = IF y % 100 = 0 THEN 1 ELSE 0
        /\ (c + 1) \div 400 - c \div 400 = IF y % 400 = 0 THEN 1 ELSE 0
    BY <1>1, <1>2, DivSteps
  <1>4. /\ (a + 1) \div 4 \in Int /\ a \div 4 \in Int
        /\ (b + 1) \div 100 \in Int /\ b \div 100 \in Int
        /\ (c + 1) \div 400 \in Int /\ c \div 400 \in Int
    BY <1>1
  <1>5. (y % 100 = 0 => y % 4 = 0) /\ (y % 400 = 0 => y % 100 = 0)
    OBVIOUS
  <1>6. YearsBefore(y + 1) = (y - 1970) * 365 + 365 + (a + 1) \div 4 - (b + 1) \div 100 + (c + 1) \div 400
    BY <1>1, <1>4 DEF YearsBefore
  <1>7. YearsBefore(y) = (y - 1970) * 365 + a \div 4 - b \div 100 + c \div 400
    BY DEF YearsBefore, a, b, c
  <1>8. (y - 1970) * 365 \in Int
    OBVIOUS
  <1> QED BY <1>3, <1>4, <1>5, <1>6, <1>7, <1>8 DEF Leap, YearLength

(* The recursion of YearStart and its closed form. *)
Epoch == 1970

Years == Epoch .. 2100

YearRule(f) ==
  [y \in Years |-> IF y = Epoch THEN 0 ELSE f[y - 1] + YearLength(y - 1)]

LEMMA YearStartIs ==
  ASSUME NEW y \in Years
  PROVE  YearStart[y] = YearsBefore(y)
  <1> DEFINE closed == [l \in Years |-> YearsBefore(l)]
  <1>1. YearsBefore(Epoch) = 0
    BY DEF YearsBefore, Epoch
  <1>2. ASSUME NEW l \in 1971 .. 2100 PROVE YearsBefore(l) = YearsBefore(l - 1) + YearLength(l - 1)
    <2> DEFINE p == l - 1
    <2>1. p \in 1970 .. 2100 /\ p + 1 = l
      OBVIOUS
    <2> HIDE DEF p
    <2>2. YearsBefore(p + 1) = YearsBefore(p) + YearLength(p)
      BY <2>1, YearStep
    <2> QED BY <2>1, <2>2 DEF p
  <1>3. closed = YearRule(closed)
    <2>1. ASSUME NEW l \in Years
          PROVE  YearsBefore(l) = IF l = Epoch THEN 0 ELSE closed[l - 1] + YearLength(l - 1)
      <3>1. CASE l = Epoch
        BY <1>1, <3>1 DEF Epoch
      <3>2. CASE l # Epoch
        <4>1. l \in 1971 .. 2100 /\ l - 1 \in Years
          BY <3>2 DEF Years, Epoch
        <4>2. closed[l - 1] = YearsBefore(l - 1)
          BY <4>1
        <4> HIDE DEF closed
        <4> QED BY <1>2, <3>2, <4>1, <4>2
      <3> QED BY <3>1, <3>2
    <2>2. closed = [l \in Years |-> YearsBefore(l)]
      OBVIOUS
    <2> HIDE DEF closed
    <2> QED BY <2>1, <2>2, Zenon DEF YearRule
  <1>4. YearStart = CHOOSE g : g = YearRule(g)
    BY SMT DEF YearStart, YearRule, YearLength, Years, Epoch
  <1>5. YearStart = YearRule(YearStart)
    BY <1>3, <1>4, Zenon
  <1>6. ASSUME NEW l \in Years
        PROVE  YearStart[l] = IF l = Epoch THEN 0 ELSE YearStart[l - 1] + YearLength(l - 1)
    BY <1>5, Zenon DEF YearRule
  <1> DEFINE Wrong == {l \in Years : YearStart[l] # YearsBefore(l)}
  <1> SUFFICES ASSUME Wrong # {} PROVE FALSE
    BY DEF Years, Epoch
  <1>7. Wrong \subseteq Nat
    BY DEF Years, Epoch
  <1>8. PICK l \in Wrong : \A j \in Wrong : l <= j
    BY <1>7, LeastOf
  <1>9. l \in Years /\ YearStart[l] # YearsBefore(l)
    BY <1>8
  <1>10. l # Epoch
    BY <1>1, <1>6, <1>9
  <1> DEFINE j == l - 1
  <1>11. j \in Years /\ ~(l <= j) /\ l \in 1971 .. 2100
    BY <1>9, <1>10 DEF Years, Epoch
  <1> HIDE DEF j
  <1>12. YearStart[j] = YearsBefore(j)
    BY <1>8, <1>11
  <1>13. YearStart[l] = YearStart[j] + YearLength(j)
    BY <1>6, <1>9, <1>10 DEF j
  <1>14. YearsBefore(l) = YearsBefore(j) + YearLength(j)
    BY <1>2, <1>11 DEF j
  <1> QED BY <1>9, <1>12, <1>13, <1>14

(* The same for the days before a month: the table is that of leap years.  *)
MonthsBefore(y, m) == month[m] - (IF m > 2 /\ ~Leap(y) THEN 1 ELSE 0)

MonthRule(y, f) == [m \in 1 .. 12 |-> IF m = 1 THEN 0 ELSE f[m - 1] + DaysIn(y, m - 1)]

LEMMA MonthTable ==
  /\ month[1] = 0 /\ month[2] = 31 /\ month[3] = 60 /\ month[4] = 91
  /\ month[5] = 121 /\ month[6] = 152 /\ month[7] = 182 /\ month[8] = 213
  /\ month[9] = 244 /\ month[10] = 274 /\ month[11] = 305 /\ month[12] = 335
  BY DEF month

LEMMA MonthStep ==
  ASSUME NEW y \in Int, NEW l \in 1 .. 11
  PROVE  /\ MonthsBefore(y, l + 1) = MonthsBefore(y, l) + DaysIn(y, l)
         /\ month[l + 1] - month[l] = DaysIn(y, l) + (IF l = 2 /\ ~Leap(y) THEN 1 ELSE 0)
         /\ month[l] \in Int /\ month[l + 1] \in Int
  <1>1. l \in {1, 2, 3, 4, 5, 6, 7, 8, 9, 10, 11}
    OBVIOUS
  <1>2. DaysIn(y, l) = CASE l \in {4, 6, 9, 11} -> 30 [] l = 2 -> (IF Leap(y) THEN 29 ELSE 28) [] OTHER -> 31
    BY DEF DaysIn
  <1>3. CASE l = 1
    BY <1>2, <1>3, MonthTable DEF MonthsBefore
  <1>4. CASE l = 2
    BY <1>2, <1>4, MonthTable DEF MonthsBefore
  <1>5. CASE l \in {3, 5, 7, 8, 10}
    BY <1>2, <1>5, MonthTable DEF MonthsBefore
  <1>6. CASE l \in {4, 6, 9, 11}
    BY <1>2, <1>6, MonthTable DEF MonthsBefore
  <1> QED BY <1>1, <1>3, <1>4, <1>5, <1>6

LEMMA MonthCountIs ==
  ASSUME NEW y \in Int, NEW f, f = MonthRule(y, f), NEW m \in 1 .. 12
  PROVE  f[m] = MonthsBefore(y, m)
  <1>1. ASSUME NEW l \in 1 .. 12
        PROVE  f[l] = IF l = 1 THEN 0 ELSE f[l - 1] + DaysIn(y, l - 1)
    BY Zenon DEF MonthRule
  <1>2. MonthsBefore(y, 1) = 0
    BY MonthTable DEF MonthsBefore
  <1> DEFINE Wrong == {l \in 1 .. 12 : f[l] # MonthsBefore(y, l)}
  <1> SUFFICES ASSUME Wrong # {} PROVE FALSE
    OBVIOUS
  <1>3. Wrong \subseteq Nat
    OBVIOUS
  <1>4. PICK l \in Wrong : \A j \in Wrong : l <= j
    BY <1>3, LeastOf
  <1>5. l \in 1 .. 12 /\ f[l] # MonthsBefore(y, l)
    BY <1>4
  <1>6. l # 1
    BY <1>1, <1>2, <1>5
  <1> DEFINE j == l - 1
  <1>7. j \in 1 .. 11 /\ j \in 1 .. 12 /\ ~(l <= j) /\ j + 1 = l
    BY <1>5, <1>6
  <1>8. f[l] = f[j] + DaysIn(y, j)
    BY <1>1, <1>5, <1>6
  <1> HIDE DEF j
  <1>9. f[j] = MonthsBefore(y, j)
    BY <1>4, <1>7
  <1>10. MonthsBefore(y, j + 1) = MonthsBefore(y, j) + DaysIn(y, j)
    BY <1>7, MonthStep
  <1> QED BY <1>5, <1>7, <1>8, <1>9, <1>10

LEMMA MonthRuleHasOne ==
  ASSUME NEW y \in Int
  PROVE  LET f == CHOOSE g : g = MonthRule(y, g) IN f = MonthRule(y, f)
  <1> DEFINE closed == [l \in 1 .. 12 |-> MonthsBefore(y, l)]
  <1>1. ASSUME NEW l \in 1 .. 12
        PROVE  MonthsBefore(y, l) = IF l = 1 THEN 0 ELSE closed[l - 1] + DaysIn(y, l - 1)
    <2>1. CASE l = 1
      BY <2>1, MonthTable DEF MonthsBefore
    <2>2. CASE l # 1
      <3> DEFINE j == l - 1
      <3>1. j \in 1 .. 11 /\ j \in 1 .. 12 /\ j + 1 = l
        BY <2>2
      <3> HIDE DEF j
      <3>2. closed[j] = MonthsBefore(y, j)
        BY <3>1
      <3>3. MonthsBefore(y, j + 1) = MonthsBefore(y, j) + DaysIn(y, j)
        BY <3>1, MonthStep
      <3> HIDE DEF closed
      <3> QED BY <2>2, <3>1, <3>2, <3>3 DEF j
    <2> QED BY <2>1, <2>2
  <1>2. closed = [l \in 1 .. 12 |-> MonthsBefore(y, l)]
    OBVIOUS
  <1> HIDE DEF closed
  <1>3. closed = MonthRule(y, closed)
    BY <1>1, <1>2, Zenon DEF MonthRule
  <1> QED BY <1>3, Zenon

(* What time counts for a moment d that it reads far from an update.       *)
LEMMA QuietDays ==
  ASSUME NEW d \in Moments
  PROVE  time(Quiet(d)).days = d.mday + month[d.mon] + YearsBefore(2000 + d.year) - 2
  <1> DEFINE c == Quiet(d)
             t0 == CHOOSE t \in 0 .. c.upd + LENGTH :
                     ~__is_upd(c, t) /\ \A u \in 0 .. t - 1 : __is_upd(c, u)
             Read(i, reg) == __decode_bcd(__get_rtc_reg(c, t0 + i, reg))
  <1>1. c.old = d /\ c.upd = LEAD + 7 /\ LEAD + 7 \in Nat /\ LEAD \in Nat /\ LENGTH \in Nat
    BY ClockAssumption DEF Quiet, Pass
  <1>2. t0 \in 0 .. c.upd + LENGTH /\ ~__is_upd(c, t0) /\ \A u \in 0 .. t0 - 1 : __is_upd(c, u)
    BY <1>1, WaitEnds
  <1>3. ~__is_upd(c, 0)
    BY <1>1 DEF __is_upd
  <1> HIDE DEF t0, c
  <1>4. t0 = 0
    <2>1. ~(0 \in 0 .. t0 - 1)
      BY <1>2, <1>3
    <2> QED BY <1>1, <1>2, <2>1
  <1>5. ASSUME NEW i \in 1 .. 6, NEW reg \in Fields PROVE Read(i, reg) = d[reg]
    <2>1. t0 + i < c.upd
      BY <1>1, <1>4
    <2>2. __get_rtc_reg(c, t0 + i, reg) = Bcd(d[reg])
      BY <1>1, <2>1 DEF __get_rtc_reg
    <2> QED BY <2>2, FieldsOfMoments, DecodeBcd
  <1>6. Read(4, "mday") = d.mday /\ Read(5, "mon") = d.mon /\ Read(6, "year") = d.year
    BY <1>5 DEF Fields
  <1> DEFINE tm == __get_time(c)
  <1>7. /\ tm.year = Read(6, "year") + 2000
        /\ tm.yday = Read(4, "mday") + month[Read(5, "mon") - 1 + 1]
    BY DEF __get_time, t0
  <1> HIDE DEF tm, Read
  <1>8. d.mon \in 1 .. 12 /\ d.mday \in 1 .. 31 /\ d.year \in 0 .. 99
    BY MomentsAreNumbers
  <1>9. tm.yday = d.mday + month[d.mon] /\ tm.year = 2000 + d.year
    BY <1>6, <1>7, <1>8
  <1> DEFINE y == 2000 + d.year
             a == y - 1900
  <1>10. time(c).days = tm.yday + (a - 70) * 365 + (a - 69) \div 4
                          - (a - 1) \div 100 + (a + 299) \div 400 - 2
    BY <1>9 DEF time, mktime, tm
  <1>11. y \in 2000 .. 2099 /\ a - 70 = y - 1970 /\ a - 69 = y - 1969 /\ a - 1 = y - 1901 /\ a + 299 = y - 1601
    BY <1>8
  <1>12. month[d.mon] \in Int
    BY <1>8, MonthTable
  <1> DEFINE p == (y - 1970) * 365
             q == (y - 1969) \div 4
             r == (y - 1901) \div 100
             s == (y - 1601) \div 400
  <1> HIDE DEF a, y
  <1>13. p \in Int /\ q \in Int /\ r \in Int /\ s \in Int
    BY <1>11
  <1>14. time(c).days = tm.yday + p + q - r + s - 2
    BY <1>10, <1>11
  <1>15. YearsBefore(y) = p + q - r + s
    BY DEF YearsBefore
  <1> HIDE DEF p, q, r, s
  <1>16. time(c).days = d.mday + month[d.mon] + YearsBefore(y) - 2
    BY <1>8, <1>9, <1>12, <1>13, <1>14, <1>15
  <1> QED BY <1>16 DEF c, y

(* The days mktime counts (time.c) are those of a calendar from March on   *)
(* in a common year, and one less in January, February and leap years.     *)
THEOREM DaysAreCountedOrOneLess ==
  \A d \in Moments : DaysAreRightOrOneBehind(d)
  <1> SUFFICES ASSUME NEW d \in Moments PROVE DaysAreRightOrOneBehind(d)
    OBVIOUS
  <1> DEFINE y == 2000 + d.year
             f == CHOOSE g : g = MonthRule(y, g)
  <1>1. d.mon \in 1 .. 12 /\ d.mday \in 1 .. 31 /\ d.year \in 0 .. 99
    BY MomentsAreNumbers
  <1>2. y \in 1970 .. 2100 /\ y \in Years /\ y \in Int
    BY <1>1 DEF Years, Epoch
  <1>3. time(Quiet(d)).days = d.mday + month[d.mon] + YearsBefore(y) - 2
    BY QuietDays
  <1>4. DayNumber(d) = YearStart[y] + f[d.mon] + d.mday - 1
    BY SMT DEF DayNumber, MonthRule
  <1>5. DaysAreRightOrOneBehind(d) <=>
          time(Quiet(d)).days = DayNumber(d) - (IF d.mon > 2 /\ ~Leap(y) THEN 0 ELSE 1)
    BY DEF DaysAreRightOrOneBehind
  <1> HIDE DEF y
  <1>6. f = MonthRule(y, f)
    BY <1>2, MonthRuleHasOne
  <1> HIDE DEF f
  <1>7. f[d.mon] = month[d.mon] - (IF d.mon > 2 /\ ~Leap(y) THEN 1 ELSE 0)
    BY <1>1, <1>2, <1>6, MonthCountIs DEF MonthsBefore
  <1>8. YearStart[y] = YearsBefore(y) /\ YearsBefore(y) \in Int
    BY <1>2, YearStartIs, YearStep
  <1>9. month[d.mon] \in Int
    BY <1>1, MonthTable
  <1> QED BY <1>1, <1>3, <1>4, <1>5, <1>7, <1>8, <1>9

(* So time goes forward with the days, but for the first of January after  *)
(* a common year, which has the number of the day before (time.c).         *)
THEOREM OnlyNewYearRepeats ==
  \A d \in Moments : RepeatsOnlyNewYear(d)
  <1> SUFFICES ASSUME NEW d \in Moments, d.year < 99 PROVE RepeatsOnlyNewYear(d)
    BY DEF RepeatsOnlyNewYear
  <1> DEFINE y == 2000 + d.year
             n == Tomorrow(d)
             last == ~(d.mday < DaysIn(2000 + d.year, d.mon))
             D == time(Quiet(d)).days
             N == time(Quiet(n)).days
             repeats == n.mon = 1 /\ n.mday = 1 /\ ~Leap(2000 + d.year)
  <1>1. /\ d.mon \in 1 .. 12 /\ d.mday \in 1 .. 31 /\ d.year \in 0 .. 98
        /\ d.mday <= DaysIn(y, d.mon)
    BY MomentsAreNumbers
  <1>2. /\ ~last => n.mday = d.mday + 1 /\ n.mon = d.mon /\ n.year = d.year
        /\ last /\ d.mon < 12 => n.mday = 1 /\ n.mon = d.mon + 1 /\ n.year = d.year
        /\ last /\ d.mon = 12 => n.mday = 1 /\ n.mon = 1 /\ n.year = (d.year + 1) % 100
    BY TomorrowIs
  <1>3. n \in Moments
    BY TomorrowIsAMoment
  <1>4. D = d.mday + month[d.mon] + YearsBefore(y) - 2
    BY QuietDays
  <1>5. N = n.mday + month[n.mon] + YearsBefore(2000 + n.year) - 2
    BY <1>3, QuietDays
  <1>6. RepeatsOnlyNewYear(d) <=> N - D \in IF repeats THEN {0} ELSE {1, 2}
    BY DEF RepeatsOnlyNewYear
  <1>7. /\ y \in 1970 .. 2100 /\ y \in Int /\ 2000 + d.year = y
        /\ 2000 + (d.year + 1) = y + 1 /\ (d.year + 1) % 100 = d.year + 1
    BY <1>1
  <1> HIDE DEF y, n, D, N
  <1>8. /\ YearsBefore(y) \in Int
        /\ YearsBefore(y + 1) = YearsBefore(y) + (IF Leap(y) THEN 366 ELSE 365)
    <2>1. y \in 1970 .. 2100
      BY <1>7
    <2>2. YearsBefore(y + 1) = YearsBefore(y) + YearLength(y) /\ YearsBefore(y) \in Int
      BY <2>1, YearStep
    <2> QED BY <2>2 DEF YearLength
  <1>9. month[d.mon] \in Int
    BY <1>1, MonthTable
  <1>10. CASE ~last
    <2>1. n.mday = d.mday + 1 /\ n.mon = d.mon /\ 2000 + n.year = y
      BY <1>2, <1>7, <1>10
    <2>2. N - D = 1
      BY <1>1, <1>4, <1>5, <1>8, <1>9, <2>1
    <2>3. ~repeats
      BY <1>1, <2>1
    <2> QED BY <1>6, <2>2, <2>3
  <1>11. CASE last /\ d.mon < 12
    <2> DEFINE l == d.mon
    <2>1. l \in 1 .. 11 /\ n.mon = l + 1 /\ n.mday = 1 /\ 2000 + n.year = y
      BY <1>1, <1>2, <1>7, <1>11
    <2>2. d.mday = DaysIn(y, l)
      BY <1>1, <1>7, <1>11, MonthLength
    <2> HIDE DEF l
    <2>3. /\ month[l + 1] - month[l] = DaysIn(y, l) + (IF l = 2 /\ ~Leap(y) THEN 1 ELSE 0)
          /\ month[l] \in Int /\ month[l + 1] \in Int
      BY <1>7, <2>1, MonthStep
    <2>4. DaysIn(y, l) \in 28 .. 31
      BY <1>7, <2>1, MonthLength
    <2>5. N = 1 + month[l + 1] + YearsBefore(y) - 2
      BY <1>5, <2>1
    <2>6. D = DaysIn(y, l) + month[l] + YearsBefore(y) - 2
      BY <1>4, <2>2 DEF l
    <2>7. N - D \in {1, 2}
      BY <1>8, <2>3, <2>4, <2>5, <2>6
    <2>8. ~repeats
      BY <2>1
    <2> QED BY <1>6, <2>7, <2>8
  <1>12. CASE last /\ d.mon = 12
    <2>1. n.mon = 1 /\ n.mday = 1 /\ 2000 + n.year = y + 1
      BY <1>1, <1>2, <1>7, <1>12
    <2>2. d.mday = 31
      BY <1>1, <1>7, <1>12 DEF DaysIn
    <2>3. month[1] = 0 /\ month[12] = 335
      BY MonthTable
    <2>4. N = 1 + 0 + YearsBefore(y + 1) - 2
      BY <1>5, <2>1, <2>3
    <2>5. D = 31 + 335 + YearsBefore(y) - 2
      BY <1>4, <1>12, <2>2, <2>3
    <2>6. N - D = IF Leap(y) THEN 1 ELSE 0
      BY <1>8, <2>4, <2>5
    <2> QED BY <1>6, <1>7, <2>1, <2>6
  <1> QED BY <1>1, <1>10, <1>11, <1>12
-----------------------------------------------------------------------------
LEMMA MinOf ==
  ASSUME NEW S, S \subseteq Nat, S # {}
  PROVE  Min(S) \in S /\ \A y \in S : Min(S) <= y
  BY LeastOf DEF Min

LEMMA MemoryBytes ==
  ASSUME NEW m \in Memories
  PROVE  /\ Len(m) \in Nat /\ Len(m) >= 1 /\ m[Len(m)] = NUL
         /\ DOMAIN m = 1 .. Len(m) /\ m \in [1 .. Len(m) -> Int]
  <1>1. m \in Seq(Int) /\ m # <<>>
    BY DEF Memories
  <1> QED BY <1>1, LenProperties, EmptySeq DEF Memories

(* The length of a string: the first NUL is there. *)
LEMMA StrlenIs ==
  ASSUME NEW m \in Memories, NEW s \in 1 .. Len(m)
  PROVE  /\ strlen(m, s) \in 0 .. Len(m) - s
         /\ m[s + strlen(m, s)] = NUL
         /\ \A k \in 0 .. strlen(m, s) - 1 : m[s + k] # NUL
  <1> DEFINE Nuls == {l \in 0 .. Len(m) - s : m[s + l] = NUL}
  <1>1. Len(m) \in Nat /\ m[Len(m)] = NUL
    BY MemoryBytes
  <1>2. s + (Len(m) - s) = Len(m) /\ Len(m) - s \in 0 .. Len(m) - s
    BY <1>1
  <1>3. Len(m) - s \in Nuls
    BY <1>1, <1>2
  <1>4. Nuls \subseteq Nat
    BY <1>1
  <1>5. Min(Nuls) \in Nuls /\ \A y \in Nuls : Min(Nuls) <= y
    BY <1>3, <1>4, MinOf
  <1>6. strlen(m, s) = Min(Nuls)
    BY DEF strlen
  <1> DEFINE n == Min(Nuls)
  <1>7. n \in 0 .. Len(m) - s /\ m[s + n] = NUL
    BY <1>5
  <1>8. ASSUME NEW k \in 0 .. n - 1 PROVE m[s + k] # NUL
    <2>1. k \in 0 .. Len(m) - s /\ ~(n <= k)
      BY <1>1, <1>7
    <2> QED BY <1>5, <2>1
  <1> HIDE DEF n
  <1> QED BY <1>6, <1>7, <1>8 DEF n

LEMMA StringIs ==
  ASSUME NEW m \in Memories, NEW s \in 1 .. Len(m)
  PROVE  /\ String(m, s) \in Seq(Int)
         /\ Len(String(m, s)) = strlen(m, s)
         /\ \A i \in 1 .. strlen(m, s) : String(m, s)[i] = m[s + i - 1]
  <1> DEFINE n == strlen(m, s)
  <1>1. n \in 0 .. Len(m) - s /\ Len(m) \in Nat /\ m \in [1 .. Len(m) -> Int]
    BY StrlenIs, MemoryBytes
  <1> HIDE DEF n
  <1> DEFINE e == s + n - 1
  <1>2. e \in Int /\ e - s + 1 = n /\ (s <= e <=> n # 0) /\ \A i \in s .. e : m[i] \in Int
    BY <1>1
  <1>3. String(m, s) = SubSeq(m, s, e)
    BY DEF String, n
  <1> HIDE DEF e
  <1>4. /\ SubSeq(m, s, e) \in Seq(Int)
        /\ Len(SubSeq(m, s, e)) = IF s <= e THEN e - s + 1 ELSE 0
        /\ \A i \in 1 .. e - s + 1 : SubSeq(m, s, e)[i] = m[s + i - 1]
    BY <1>2, SubSeqProperties
  <1>5. Len(SubSeq(m, s, e)) = n
    BY <1>1, <1>2, <1>4
  <1> QED BY <1>2, <1>3, <1>4, <1>5 DEF n

(* Where strcmp stops: at the first end or difference. *)
LEMMA StrcmpStops ==
  ASSUME NEW m \in Memories, NEW s1 \in 1 .. Len(m), NEW s2 \in 1 .. Len(m)
  PROVE  \E k \in Nat :
           /\ k <= strlen(m, s1) /\ k <= strlen(m, s2)
           /\ m[s1 + k] = NUL \/ m[s1 + k] # m[s2 + k]
           /\ \A l \in 0 .. k - 1 : m[s1 + l] # NUL /\ m[s1 + l] = m[s2 + l]
           /\ strcmp(m, s1, s2) = m[s1 + k] - m[s2 + k]
  <1> DEFINE a == strlen(m, s1)
             b == strlen(m, s2)
             c == Min({a, b})
             Stops == {l \in 0 .. c : m[s1 + l] = NUL \/ m[s1 + l] # m[s2 + l]}
             k == Min(Stops)
  <1>1. /\ a \in Nat /\ m[s1 + a] = NUL /\ \A l \in 0 .. a - 1 : m[s1 + l] # NUL
        /\ b \in Nat /\ m[s2 + b] = NUL
    BY StrlenIs, MemoryBytes
  <1> HIDE DEF a, b
  <1>2. c \in {a, b} /\ c <= a /\ c <= b
    BY <1>1, MinOf
  <1> HIDE DEF c
  <1>3. c \in Stops
    <2>1. CASE c = a
      BY <1>1, <1>2, <2>1
    <2>2. CASE c # a
      <3>1. c = b /\ c \in 0 .. a - 1 /\ c \in 0 .. c
        BY <1>1, <1>2, <2>2
      <3> QED BY <1>1, <3>1
    <2> QED BY <2>1, <2>2
  <1>4. Stops \subseteq Nat
    BY <1>1, <1>2
  <1>5. k \in Stops /\ \A l \in Stops : k <= l
    BY <1>3, <1>4, MinOf
  <1>6. strcmp(m, s1, s2) = m[s1 + k] - m[s2 + k]
    BY Zenon DEF strcmp, a, b, c
  <1>7. k \in 0 .. c /\ (m[s1 + k] = NUL \/ m[s1 + k] # m[s2 + k])
    BY <1>5
  <1>8. ASSUME NEW l \in 0 .. k - 1 PROVE m[s1 + l] # NUL /\ m[s1 + l] = m[s2 + l]
    <2>1. l \in 0 .. c /\ ~(k <= l)
      BY <1>1, <1>2, <1>7
    <2> QED BY <1>5, <2>1
  <1> HIDE DEF k
  <1>9. k \in Nat /\ k <= a /\ k <= b
    BY <1>1, <1>2, <1>7
  <1> QED BY <1>6, <1>7, <1>8, <1>9 DEF a, b

(* strcmp is 0 for equal strings only, and orders two others one way       *)
(* whichever comes first (include/string.h), as login and the shell trust. *)
THEOREM StrcmpIsAnEquality ==
  \A m \in Memories : \A s1, s2 \in 1 .. Len(m) : StrcmpTellsApart(m, s1, s2)
  <1> SUFFICES ASSUME NEW m \in Memories, NEW s1 \in 1 .. Len(m), NEW s2 \in 1 .. Len(m)
               PROVE  StrcmpTellsApart(m, s1, s2)
    OBVIOUS
  <1> DEFINE a == strlen(m, s1)
             b == strlen(m, s2)
             u == String(m, s1)
             v == String(m, s2)
  <1>1. /\ a \in 0 .. Len(m) - s1 /\ m[s1 + a] = NUL /\ \A l \in 0 .. a - 1 : m[s1 + l] # NUL
        /\ b \in 0 .. Len(m) - s2 /\ m[s2 + b] = NUL /\ \A l \in 0 .. b - 1 : m[s2 + l] # NUL
        /\ Len(m) \in Nat /\ m \in [1 .. Len(m) -> Int]
    BY StrlenIs, MemoryBytes
  <1>2. /\ u \in Seq(Int) /\ Len(u) = a /\ \A i \in 1 .. a : u[i] = m[s1 + i - 1]
        /\ v \in Seq(Int) /\ Len(v) = b /\ \A i \in 1 .. b : v[i] = m[s2 + i - 1]
    BY StringIs
  <1>3. PICK k \in Nat :
          /\ k <= a /\ k <= b
          /\ m[s1 + k] = NUL \/ m[s1 + k] # m[s2 + k]
          /\ \A l \in 0 .. k - 1 : m[s1 + l] # NUL /\ m[s1 + l] = m[s2 + l]
          /\ strcmp(m, s1, s2) = m[s1 + k] - m[s2 + k]
    BY StrcmpStops
  <1>4. PICK j \in Nat :
          /\ j <= b /\ j <= a
          /\ m[s2 + j] = NUL \/ m[s2 + j] # m[s1 + j]
          /\ \A l \in 0 .. j - 1 : m[s2 + l] # NUL /\ m[s2 + l] = m[s1 + l]
          /\ strcmp(m, s2, s1) = m[s2 + j] - m[s1 + j]
    BY StrcmpStops
  <1> HIDE DEF a, b, u, v
  <1>5. m[s1 + k] \in Int /\ m[s2 + k] \in Int
    BY <1>1, <1>3
  <1>6. strcmp(m, s1, s2) = 0 => u = v
    <2> SUFFICES ASSUME strcmp(m, s1, s2) = 0 PROVE u = v
      OBVIOUS
    <2>1. m[s1 + k] = m[s2 + k] /\ m[s1 + k] = NUL
      BY <1>3, <1>5
    <2>2. ~(k \in 0 .. a - 1) /\ ~(k \in 0 .. b - 1)
      BY <1>1, <2>1
    <2>3. a = k /\ b = k
      BY <1>1, <1>3, <2>2
    <2>4. ASSUME NEW i \in 1 .. Len(u) PROVE u[i] = v[i]
      <3> DEFINE l == i - 1
      <3>1. l \in 0 .. k - 1 /\ s1 + l = s1 + i - 1 /\ s2 + l = s2 + i - 1
        BY <1>2, <2>3
      <3>2. m[s1 + l] = m[s2 + l]
        BY <1>3, <3>1
      <3> QED BY <1>2, <2>3, <3>1, <3>2
    <2> QED BY <1>2, <2>3, <2>4, SeqEqual
  <1>7. u = v => strcmp(m, s1, s2) = 0
    <2> SUFFICES ASSUME u = v PROVE m[s1 + k] = m[s2 + k]
      BY <1>3, <1>5
    <2>1. a = b
      BY <1>2
    <2>2. CASE k = a
      BY <1>1, <2>1, <2>2
    <2>3. CASE k # a
      <3> DEFINE i == k + 1
      <3>1. i \in 1 .. a /\ s1 + i - 1 = s1 + k /\ s2 + i - 1 = s2 + k
        BY <1>1, <1>3, <2>3
      <3> HIDE DEF i
      <3> QED BY <1>2, <2>1, <3>1
    <2> QED BY <2>2, <2>3
  <1>8. j = k
    <2>1. CASE j < k
      BY <1>3, <1>4, <2>1
    <2>2. CASE k < j
      BY <1>3, <1>4, <2>2
    <2> QED BY <2>1, <2>2
  <1>9. strcmp(m, s1, s2) > 0 <=> strcmp(m, s2, s1) < 0
    BY <1>3, <1>4, <1>5, <1>8
  <1> QED BY <1>6, <1>7, <1>9 DEF StrcmpTellsApart, u, v
-----------------------------------------------------------------------------
(* The loop of memcpy, and its closed form after k turns. *)
CopyByte(m, to, from) == [m EXCEPT ![to] = m[from]]

CopyLoop(m, s1, s2, n, f) ==
  [k \in 0 .. n |-> IF k = 0 THEN m ELSE CopyByte(f[k - 1], s1 + k - 1, s2 + k - 1)]

Copied(m, s1, s2, k) ==
  [a \in DOMAIN m |-> IF s1 <= a /\ a < s1 + k THEN m[a + (s2 - s1)] ELSE m[a]]

(* A copy that goes down, or to a place apart, has not yet written what it *)
(* reads next.                                                             *)
LEMMA CopyTurn ==
  ASSUME NEW m \in Memories, NEW s1 \in 1 .. Len(m), NEW s2 \in 1 .. Len(m), NEW n \in Nat,
         NEW j \in 0 .. n - 1,
         s1 + n <= Len(m) + 1, s2 + n <= Len(m) + 1, s1 <= s2 \/ s2 + n <= s1
  PROVE  Copied(m, s1, s2, j + 1) = CopyByte(Copied(m, s1, s2, j), s1 + j, s2 + j)
  <1> DEFINE g == Copied(m, s1, s2, j)
             h == Copied(m, s1, s2, j + 1)
  <1>1. Len(m) \in Nat /\ DOMAIN m = 1 .. Len(m)
    BY MemoryBytes
  <1>2. s2 + j \in DOMAIN m /\ s1 + j \in DOMAIN m /\ ~(s1 <= s2 + j /\ s2 + j < s1 + j)
    BY <1>1
  <1>3. /\ DOMAIN g = DOMAIN m /\ DOMAIN h = DOMAIN m
        /\ g = [a \in DOMAIN m |-> g[a]] /\ h = [a \in DOMAIN m |-> h[a]]
    BY Zenon DEF Copied
  <1>4. g[s2 + j] = m[s2 + j]
    BY <1>2, SMT DEF Copied
  <1>5. ASSUME NEW a \in DOMAIN m PROVE h[a] = IF a = s1 + j THEN m[s2 + j] ELSE g[a]
    <2>1. a \in Int /\ s1 + j + (s2 - s1) = s2 + j
      BY <1>1
    <2>2. a # s1 + j => (s1 <= a /\ a < s1 + (j + 1) <=> s1 <= a /\ a < s1 + j)
      BY <2>1
    <2>3. a = s1 + j => s1 <= a /\ a < s1 + (j + 1)
      BY <2>1
    <2> QED BY <2>1, <2>2, <2>3 DEF Copied
  <1> HIDE DEF g, h
  <1>6. [g EXCEPT ![s1 + j] = g[s2 + j]] = [a \in DOMAIN m |-> IF a = s1 + j THEN m[s2 + j] ELSE g[a]]
    BY <1>2, <1>3, <1>4
  <1>7. h = [a \in DOMAIN m |-> IF a = s1 + j THEN m[s2 + j] ELSE g[a]]
    BY <1>3, <1>5
  <1> QED BY <1>6, <1>7 DEF g, h, CopyByte

LEMMA MemcpyIs ==
  ASSUME NEW m \in Memories, NEW s1 \in 1 .. Len(m), NEW s2 \in 1 .. Len(m), NEW n \in Nat,
         s1 + n <= Len(m) + 1, s2 + n <= Len(m) + 1, s1 <= s2 \/ s2 + n <= s1
  PROVE  memcpy(m, s1, s2, n) = Copied(m, s1, s2, n)
  <1> DEFINE C(k) == Copied(m, s1, s2, k)
             closed == [k \in 0 .. n |-> C(k)]
             f == CHOOSE g : g = CopyLoop(m, s1, s2, n, g)
  <1>1. C(0) = m
    <2>1. Len(m) \in Nat /\ DOMAIN m = 1 .. Len(m) /\ m \in [1 .. Len(m) -> Int]
      BY MemoryBytes
    <2>2. \A a \in DOMAIN m : ~(s1 <= a /\ a < s1 + 0)
      BY <2>1
    <2> QED BY <2>1, <2>2 DEF Copied
  <1>0. ASSUME NEW j \in 0 .. n - 1
        PROVE  C(j + 1) = CopyByte(C(j), s1 + j, s2 + j)
    BY CopyTurn
  <1>2. ASSUME NEW k \in 0 .. n, k # 0
        PROVE  C(k) = CopyByte(C(k - 1), s1 + k - 1, s2 + k - 1)
    <2> HIDE DEF C
    <2> DEFINE j == k - 1
    <2>1. j \in 0 .. n - 1 /\ j + 1 = k /\ s1 + k - 1 = s1 + j /\ s2 + k - 1 = s2 + j
      BY <1>2
    <2> HIDE DEF j
    <2>2. C(j + 1) = CopyByte(C(j), s1 + j, s2 + j)
      BY <1>0, <2>1
    <2>3. k - 1 = j
      BY DEF j
    <2> QED BY <2>1, <2>2, <2>3
  <1> HIDE DEF C
  <1>3. closed = CopyLoop(m, s1, s2, n, closed)
    <2>1. ASSUME NEW k \in 0 .. n
          PROVE  C(k) = IF k = 0 THEN m
                        ELSE CopyByte(closed[k - 1], s1 + k - 1, s2 + k - 1)
      <3>1. CASE k = 0
        BY <1>1, <3>1
      <3>2. CASE k # 0
        <4>1. k - 1 \in 0 .. n
          BY <3>2
        <4>2. closed[k - 1] = C(k - 1)
          BY <4>1
        <4> HIDE DEF closed
        <4> QED BY <1>2, <3>2, <4>2
      <3> QED BY <3>1, <3>2
    <2>2. closed = [k \in 0 .. n |-> C(k)]
      OBVIOUS
    <2> HIDE DEF closed
    <2> QED BY <2>1, <2>2, Zenon DEF CopyLoop
  <1>4. f = CopyLoop(m, s1, s2, n, f)
    BY <1>3, Zenon
  <1>5. memcpy(m, s1, s2, n) = f[n]
    BY Zenon DEF memcpy, CopyLoop, CopyByte
  <1> HIDE DEF f
  <1>6. ASSUME NEW k \in 0 .. n
        PROVE  f[k] = IF k = 0 THEN m ELSE CopyByte(f[k - 1], s1 + k - 1, s2 + k - 1)
    BY <1>4, Zenon DEF CopyLoop
  <1>7. \A k \in 0 .. n : f[k] = C(k)
    <2> DEFINE Wrong == {k \in 0 .. n : f[k] # C(k)}
    <2> SUFFICES ASSUME Wrong # {} PROVE FALSE
      OBVIOUS
    <2>1. Wrong \subseteq Nat
      OBVIOUS
    <2>2. PICK k \in Wrong : \A j \in Wrong : k <= j
      BY <2>1, LeastOf
    <2>3. k \in 0 .. n /\ f[k] # C(k)
      BY <2>2
    <2>4. k # 0
      BY <1>1, <1>6, <2>3
    <2> DEFINE j == k - 1
    <2>5. j \in 0 .. n /\ ~(k <= j)
      BY <2>3, <2>4
    <2> HIDE DEF j
    <2>6. f[j] = C(j)
      BY <2>2, <2>5
    <2>7. f[k] = CopyByte(f[j], s1 + k - 1, s2 + k - 1)
      BY <1>6, <2>3, <2>4, Zenon DEF j
    <2>8. C(k) = CopyByte(C(j), s1 + k - 1, s2 + k - 1)
      BY <1>2, <2>3, <2>4, Zenon DEF j
    <2> QED BY <2>3, <2>6, <2>7, <2>8, Zenon
  <1> QED BY <1>5, <1>7 DEF C

(* A copy down over itself and a fill move the bytes up and touch nothing  *)
(* else, though memcpy's pointers are restrict (con_putstr, console.c).    *)
THEOREM ScrollIsAMove ==
  \A m \in Memories : \A s1, s2 \in 1 .. Len(m) :
    \A n \in 0 .. Len(m) + 1 - s2 : ScrollMovesUp(m, s1, s2, n)
  <1> SUFFICES ASSUME NEW m \in Memories, NEW s1 \in 1 .. Len(m), NEW s2 \in 1 .. Len(m),
                      NEW n \in 0 .. Len(m) + 1 - s2, s1 <= s2
               PROVE  ScrollMovesUp(m, s1, s2, n)
    BY DEF ScrollMovesUp
  <1>1. Len(m) \in Nat /\ DOMAIN m = 1 .. Len(m)
    BY MemoryBytes
  <1>2. n \in Nat /\ s1 + n <= Len(m) + 1 /\ s2 + n <= Len(m) + 1
    BY <1>1
  <1>3. memcpy(m, s1, s2, n) = Copied(m, s1, s2, n)
    BY <1>2, MemcpyIs
  <1> DEFINE c == Copied(m, s1, s2, n)
             r == memset(c, s1 + n, NUL, s2 - s1)
  <1>4. DOMAIN c = DOMAIN m
    BY DEF Copied
  <1>5. \A a \in DOMAIN m : c[a] = IF s1 <= a /\ a < s1 + n THEN m[a + (s2 - s1)] ELSE m[a]
    BY DEF Copied
  <1> HIDE DEF c
  <1>6. \A a \in DOMAIN m : r[a] = IF s1 + n <= a /\ a < s1 + n + (s2 - s1) THEN NUL ELSE c[a]
    BY <1>4 DEF memset
  <1> HIDE DEF r
  <1>7. ASSUME NEW a \in DOMAIN m
        PROVE  r[a] = CASE s1 <= a /\ a < s1 + n -> m[a + (s2 - s1)]
                        [] s1 + n <= a /\ a < s2 + n -> NUL
                        [] OTHER -> m[a]
    <2>1. a \in Int /\ s1 + n + (s2 - s1) = s2 + n
      BY <1>1
    <2>2. CASE s1 <= a /\ a < s1 + n
      BY <1>1, <1>5, <1>6, <2>1, <2>2
    <2>3. CASE s1 + n <= a /\ a < s2 + n
      BY <1>1, <1>5, <1>6, <2>1, <2>3
    <2>4. CASE ~(s1 <= a /\ a < s1 + n) /\ ~(s1 + n <= a /\ a < s2 + n)
      BY <1>1, <1>5, <1>6, <2>1, <2>4
    <2> QED BY <2>2, <2>3, <2>4
  <1> QED BY <1>3, <1>7, Zenon DEF ScrollMovesUp, r, c

(* strcpy copies no NUL: behind its copy the old string goes on, so it is  *)
(* the source only where there was a NUL before (include/string.h).        *)
THEOREM StrcpyKeepsTheEnd ==
  \A m \in Memories : \A s1, s2 \in 1 .. Len(m) : StrcpyKeepsTheOldEnd(m, s1, s2)
  <1> SUFFICES ASSUME NEW m \in Memories, NEW s1 \in 1 .. Len(m), NEW s2 \in 1 .. Len(m)
               PROVE  StrcpyKeepsTheOldEnd(m, s1, s2)
    OBVIOUS
  <1> DEFINE n == strlen(m, s2)
             r == strcpy(m, s1, s2)
             mid == s1 + n
             p == strlen(m, mid)
             q == strlen(r, s1)
             u == String(m, s2)
             v == String(m, mid)
             w == String(r, s1)
  <1> SUFFICES ASSUME mid < s2 \/ s2 + n < s1, mid <= Len(m)
               PROVE  w = u \o v
    BY Zenon DEF StrcpyKeepsTheOldEnd
  <1>1. /\ Len(m) \in Nat /\ Len(m) >= 1 /\ m \in [1 .. Len(m) -> Int]
        /\ DOMAIN m = 1 .. Len(m) /\ m[Len(m)] = NUL
    BY MemoryBytes
  <1>2. n \in 0 .. Len(m) - s2 /\ \A k \in 0 .. n - 1 : m[s2 + k] # NUL
    BY StrlenIs
  <1>3. mid \in 1 .. Len(m)
    BY <1>1, <1>2
  <1>4. p \in 0 .. Len(m) - mid /\ m[mid + p] = NUL /\ \A k \in 0 .. p - 1 : m[mid + k] # NUL
    BY <1>3, StrlenIs
  <1>5. /\ u \in Seq(Int) /\ Len(u) = n /\ \A i \in 1 .. n : u[i] = m[s2 + i - 1]
        /\ v \in Seq(Int) /\ Len(v) = p /\ \A i \in 1 .. p : v[i] = m[mid + i - 1]
    BY <1>3, StringIs
  <1>6. r = Copied(m, s1, s2, n)
    <2>1. n \in Nat /\ s1 + n <= Len(m) + 1 /\ s2 + n <= Len(m) + 1 /\ (s1 <= s2 \/ s2 + n <= s1)
      BY <1>1, <1>2
    <2>2. r = memcpy(m, s1, s2, n)
      BY DEF strcpy
    <2> HIDE DEF n, r
    <2> QED BY <2>1, <2>2, MemcpyIs
  <1> HIDE DEF n, r, p, u, v
  <1>7. DOMAIN r = 1 .. Len(m)
        /\ \A a \in 1 .. Len(m) : r[a] = IF s1 <= a /\ a < s1 + n THEN m[a + (s2 - s1)] ELSE m[a]
    BY <1>1, <1>6 DEF Copied
  <1>8. \A k \in 0 .. n - 1 : r[s1 + k] = m[s2 + k]
    <2> SUFFICES ASSUME NEW k \in 0 .. n - 1 PROVE r[s1 + k] = m[s2 + k]
      OBVIOUS
    <2> DEFINE a == s1 + k
    <2>1. a \in 1 .. Len(m) /\ s1 <= a /\ a < s1 + n /\ a + (s2 - s1) = s2 + k
      BY <1>1, <1>2
    <2> HIDE DEF a
    <2>2. r[a] = m[s2 + k]
      BY <1>7, <2>1
    <2> QED BY <2>2 DEF a
  <1>9. \A a \in mid .. Len(m) : r[a] = m[a]
    BY <1>1, <1>2, <1>3, <1>7
  <1>10. r \in Memories /\ Len(r) = Len(m)
    <2>1. \A a \in 1 .. Len(m) : r[a] \in Int
      <3> SUFFICES ASSUME NEW a \in 1 .. Len(m) PROVE r[a] \in Int
        OBVIOUS
      <3>1. s1 <= a /\ a < s1 + n => a + (s2 - s1) \in 1 .. Len(m)
        BY <1>1, <1>2
      <3> QED BY <1>1, <1>7, <3>1
    <2>2. r \in [1 .. Len(m) -> Int]
      <3>1. r = [a \in 1 .. Len(m) |-> r[a]]
        <4>1. r = [a \in DOMAIN r |-> r[a]]
          BY <1>6, Zenon DEF Copied
        <4> QED BY <1>7, <4>1, Zenon
      <3> QED BY <2>1, <3>1, Zenon
    <2>3. r \in Seq(Int) /\ Len(r) = Len(m)
      BY <1>1, <1>7, <2>2
    <2>4. r[Len(m)] = NUL
      BY <1>1, <1>3, <1>9
    <2>5. r # <<>>
      BY <1>1, <2>3
    <2> QED BY <2>3, <2>4, <2>5 DEF Memories
  <1>11. q \in 0 .. Len(m) - s1 /\ r[s1 + q] = NUL /\ \A k \in 0 .. q - 1 : r[s1 + k] # NUL
    BY <1>10, StrlenIs
  <1>12. w \in Seq(Int) /\ Len(w) = q /\ \A i \in 1 .. q : w[i] = r[s1 + i - 1]
    BY <1>10, StringIs
  <1> HIDE DEF q, w
  <1>13. q = n + p
    <2>1. CASE q < n
      <3>1. q \in 0 .. n - 1
        BY <1>2, <1>11, <2>1
      <3>2. r[s1 + q] # NUL
        BY <1>2, <1>8, <3>1
      <3> QED BY <1>11, <3>2
    <2>2. CASE q >= n /\ q < n + p
      <3> DEFINE k == q - n
      <3>1. k \in 0 .. p - 1 /\ mid + k = s1 + q /\ mid + k \in mid .. Len(m)
        BY <1>1, <1>2, <1>4, <1>11, <2>2
      <3> HIDE DEF k, mid
      <3> QED BY <1>4, <1>9, <1>11, <3>1
    <2>3. CASE q > n + p
      <3> DEFINE k == n + p
      <3>1. k \in 0 .. q - 1 /\ mid + p = s1 + k /\ mid + p \in mid .. Len(m)
        BY <1>1, <1>2, <1>4, <1>11, <2>3
      <3> HIDE DEF k, mid
      <3> QED BY <1>4, <1>9, <1>11, <3>1
    <2> QED BY <1>2, <1>4, <1>11, <2>1, <2>2, <2>3
  <1>14. /\ u \o v \in Seq(Int) /\ Len(u \o v) = n + p
         /\ \A i \in 1 .. n + p : (u \o v)[i] = IF i <= n THEN u[i] ELSE v[i - n]
    <2>1. u \in Seq(Int) /\ v \in Seq(Int) /\ Len(u) = n /\ Len(v) = p
      BY <1>5
    <2>2. /\ u \o v \in Seq(Int) /\ Len(u \o v) = Len(u) + Len(v)
          /\ \A i \in 1 .. Len(u) + Len(v) :
               (u \o v)[i] = IF i <= Len(u) THEN u[i] ELSE v[i - Len(u)]
      BY <2>1, ConcatProperties, Zenon
    <2> QED BY <2>1, <2>2
  <1>15. ASSUME NEW i \in 1 .. q PROVE w[i] = (u \o v)[i]
    <2>1. CASE i <= n
      <3> DEFINE k == i - 1
      <3>1. k \in 0 .. n - 1 /\ s1 + i - 1 = s1 + k /\ s2 + i - 1 = s2 + k /\ i \in 1 .. n
        BY <1>2, <2>1
      <3> HIDE DEF k
      <3>2. r[s1 + k] = m[s2 + k]
        BY <1>8, <3>1
      <3>3. w[i] = m[s2 + i - 1]
        BY <1>12, <3>1, <3>2
      <3> QED BY <1>5, <1>13, <1>14, <2>1, <3>1, <3>3
    <2>2. CASE ~(i <= n)
      <3> DEFINE j == i - n
                 a == s1 + i - 1
      <3>1. j \in 1 .. p /\ mid + j - 1 = a /\ a \in mid .. Len(m)
        BY <1>1, <1>2, <1>4, <1>13, <2>2
      <3>2. w[i] = r[a]
        BY <1>12
      <3> HIDE DEF a, mid
      <3>3. w[i] = m[a]
        BY <1>9, <3>1, <3>2
      <3>4. (u \o v)[i] = v[j]
        BY <1>13, <1>14, <2>2
      <3> HIDE DEF j
      <3> QED BY <1>5, <3>1, <3>3, <3>4
    <2> QED BY <2>1, <2>2
  <1> QED BY <1>12, <1>13, <1>14, <1>15, SeqEqual
-----------------------------------------------------------------------------
(* What has been drawn is an input of its kind. *)
Drawn == kind # "none" => kind \in Kinds /\ input \in Inputs[kind]

(* Every step draws one of the inputs, of whatever choice of them (the     *)
(* callers of the routines below).                                         *)
THEOREM OnlyInputsAreDrawn == Spec => []Drawn
  <1>1. Init => Drawn
    BY DEF Init, Drawn
  <1>2. Drawn /\ [Draw]_<<kind, input>> => Drawn'
    BY DEF Draw, Drawn
  <1> QED BY <1>1, <1>2, PTL DEF Spec

LEMMA DrawnAs ==
  ASSUME Drawn, NEW k \in Kinds, kind = k, k # "none"
  PROVE  input \in Inputs[k]
  BY DEF Drawn

(* time (time.c), for every reading an input can be.                       *)
THEOREM ClockReadingsHolds == Spec => []ClockReadings
  <1>1. Drawn => ClockReadings
    <2> SUFFICES ASSUME Drawn, kind = "reading" PROVE ReadsOneMoment(input)
      BY DEF ClockReadings
    <2>1. input \in [old : Moments, upd : Nat, junk : 0 .. 255]
      BY DrawnAs, InputAssumption DEF Kinds
    <2>2. input = Pass(input.old, input.upd, input.junk) /\ input.old \in Moments /\ input.upd \in Nat
      BY <2>1 DEF Pass
    <2>3. ReadsOneMoment(Pass(input.old, input.upd, input.junk))
      BY <2>2, TimeReadsOneMoment
    <2> QED BY <2>2, <2>3
  <1> QED BY <1>1, OnlyInputsAreDrawn, PTL

(* mktime's days (time.c), for every day an input can be.                  *)
THEOREM DayCountsHolds == Spec => []DayCounts
  <1>1. Drawn => DayCounts
    BY DrawnAs, InputAssumption, DaysAreCountedOrOneLess DEF DayCounts, Kinds
  <1> QED BY <1>1, OnlyInputsAreDrawn, PTL

(* The day after (time.c), for every day an input can be.                  *)
THEOREM NewYearsHolds == Spec => []NewYears
  <1>1. Drawn => NewYears
    BY DrawnAs, InputAssumption, OnlyNewYearRepeats DEF NewYears, Kinds
  <1> QED BY <1>1, OnlyInputsAreDrawn, PTL

LEMMA MemoryDrawn ==
  ASSUME Drawn, kind = "memory"
  PROVE  input.m \in Memories /\ input.s1 \in 1 .. Len(input.m) /\ input.s2 \in 1 .. Len(input.m)
  BY DrawnAs, InputAssumption DEF Kinds

(* The scroll of con_putstr (include/string.h), for every memory.          *)
THEOREM ScrollsHolds == Spec => []Scrolls
  <1>1. Drawn => Scrolls
    BY MemoryDrawn, ScrollIsAMove DEF Scrolls
  <1> QED BY <1>1, OnlyInputsAreDrawn, PTL

(* strcpy (include/string.h), for every memory and every two strings of it.*)
THEOREM StrcpysHolds == Spec => []Strcpys
  <1>1. Drawn => Strcpys
    BY MemoryDrawn, StrcpyKeepsTheEnd DEF Strcpys
  <1> QED BY <1>1, OnlyInputsAreDrawn, PTL

(* strcmp (include/string.h), for every memory and every two strings of it.*)
THEOREM StrcmpsHolds == Spec => []Strcmps
  <1>1. Drawn => Strcmps
    BY MemoryDrawn, StrcmpIsAnEquality DEF Strcmps
  <1> QED BY <1>1, OnlyInputsAreDrawn, PTL

(* WRITE_REG_BY_ID (i386_emulator.c), for every write an input can be, and *)
(* for bytes of any size and any BitOr that stays within a byte.           *)
THEOREM RegisterWritesHolds == Spec => []RegisterWrites
  <1>1. Drawn => RegisterWrites
    <2> SUFFICES ASSUME Drawn, kind = "write" PROVE WritesStayInPlace(input.regs, input.id, input.value)
      BY DEF RegisterWrites
    <2>1. input \in [regs : RegisterSets, id : Ids, value : Dword]
      BY DrawnAs, InputAssumption DEF Kinds
    <2>2. input.regs \in RegisterSets /\ input.id \in Ids /\ input.value \in Dword
      BY <2>1
    <2> QED BY <2>2, WritesStay
  <1> QED BY <1>1, OnlyInputsAreDrawn, PTL

(* add and sub (i386_emulator.c), for every instruction an input can be.   *)
THEOREM AddAndSubHolds == Spec => []AddAndSub
  <1>1. Drawn => AddAndSub
    <2> SUFFICES ASSUME Drawn, kind = "instruction" PROVE SubUndoesAdd(input.s, input.arg0, input.arg1)
      BY DEF AddAndSub
    <2>1. input \in [s : States, arg0 : LOperands, arg1 : ROperands]
      BY DrawnAs, InputAssumption DEF Kinds
    <2>2. input.s \in States /\ input.arg0 \in LOperands /\ input.arg1 \in ROperands
      BY <2>1
    <2> QED BY <2>2, SubTakesBack
  <1> QED BY <1>1, OnlyInputsAreDrawn, PTL

(* push and pop (i386_emulator.c), for every instruction an input can be.  *)
THEOREM PushAndPopHolds == Spec => []PushAndPop
  <1>1. Drawn => PushAndPop
    <2> SUFFICES ASSUME Drawn, kind = "instruction" PROVE PushThenPopMoves(input.s, input.arg0, input.arg1)
      BY DEF PushAndPop
    <2>1. input \in [s : States, arg0 : LOperands, arg1 : ROperands]
      BY DrawnAs, InputAssumption DEF Kinds
    <2>2. input.s \in States /\ input.arg0 \in LOperands /\ input.arg1 \in ROperands
      BY <2>1
    <2> QED BY <2>2, PushAndPopMove
  <1> QED BY <1>1, OnlyInputsAreDrawn, PTL

(* gdt_set and gdt_init (hw.c), for every segment an input can be.         *)
THEOREM SegmentsHolds == Spec => []Segments
  <1>1. Drawn => Segments
    <2> SUFFICES ASSUME Drawn, kind = "segment" PROVE SegmentsHoldTheirLimit(input.id, input.limit, input.base)
      BY DEF Segments
    <2>1. input \in [id : Nat, limit : DoubleWord, base : DoubleWord]
      BY DrawnAs, InputAssumption DEF Kinds
    <2>2. input.id \in Nat /\ input.limit \in DoubleWord /\ input.base \in DoubleWord
      BY <2>1
    <2> QED BY <2>2, SegmentsAreAsAsked
  <1> QED BY <1>1, OnlyInputsAreDrawn, PTL

(* kernel_start's gates (main.c), wherever the linker places the handlers. *)
THEOREM GatesHolds == Spec => []Gates
  <1>1. Drawn => Gates
    BY DrawnAs, InputAssumption, GatesLead DEF Gates, Kinds
  <1> QED BY <1>1, OnlyInputsAreDrawn, PTL

(* The debugger console (traps.c), for every line an input can be.         *)
THEOREM DebuggerLinesHolds == Spec => []DebuggerLines
  <1>1. Drawn => DebuggerLines
    <2> SUFFICES ASSUME Drawn, kind = "line" PROVE DebuggerSetsTwoRegisters(input.regs, input)
      BY DEF DebuggerLines
    <2>1. input \in [regs : [Range(Registers) -> 0 .. SIZE - 1],
                   word : LineWords, digits : Seq(0 .. JUNK)]
      BY DrawnAs, InputAssumption DEF Kinds
    <2>2. input.word \in LineWords /\ input.digits \in Seq(0 .. JUNK)
      BY <2>1
    <2> QED BY <2>2, LinesSetTwoRegisters
  <1> QED BY <1>1, OnlyInputsAreDrawn, PTL
=============================================================================
