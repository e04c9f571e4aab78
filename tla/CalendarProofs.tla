-------------------------- MODULE CalendarProofs ---------------------------
(***************************************************************************)
(* The conversions of dates agree with the two calendars, day after day    *)
(* for ever, from any day on which they agree.  The invariant that carries *)
(* the induction (SameDay): today is a day of both calendars, and the day  *)
(* counts of the two conversions differ by the constant of the code.  One  *)
(* lemma for each calendar shows that its count goes up by one from a day  *)
(* to the next, another that the count gives the date back.                *)
(*                                                                         *)
(* What the program does with days that are typed, the 31st of a shorter   *)
(* month among them, needs two facts more: every count from the year 0 on  *)
(* is some Gregorian day's (EveryDayHasDate), and the texts of dates are   *)
(* in the order of their counts (TextsCompare).                            *)
(***************************************************************************)
EXTENDS Calendar, FiniteSetTheorems, WellFoundedInduction, TLAPS

USE DEF DaysOf4, DaysOf33, DaysOf100, DaysOf400

\* A day of the Jalali calendar.
JalaliDate(y, m, d) ==
    /\ y \in Nat /\ m \in 1 .. 12 /\ d \in Nat
    /\ 1 <= d /\ d <= JalaliLength(y, m)

\* A year is a leap year by its place in the cycle of 33 that the code counts from 979.
LEMMA JalaliYear ==
    ASSUME NEW y \in Int, NEW q \in Int, NEW r \in 0 .. 32, y - 979 = 33 * q + r
    PROVE  JalaliLeap(y) <=> r \in {0, 4, 8, 12, 16, 20, 24, 28}
<1>1. CASE r <= 10
  <2>1. y = 33 * (q + 29) + r + 22 OBVIOUS
  <2>2. y % 33 = r + 22 BY <1>1, <2>1
  <2> QED BY <1>1, <2>2 DEF JalaliLeap
<1>2. CASE r > 10
  <2>1. y = 33 * (q + 30) + (r - 11) OBVIOUS
  <2>2. y % 33 = r - 11 BY <1>2, <2>1
  <2> QED BY <1>2, <2>2 DEF JalaliLeap
<1> QED BY <1>1, <1>2

\* The days of a Jalali year before a month.
JalaliBefore(m) == 30 * (m - 1) + (IF m <= 7 THEN m - 1 ELSE 6)

\* Where a year is in its cycle of 33, and the leap days before it there.
LEMMA Cycle ==
    ASSUME NEW y \in Int
    PROVE  \E q \in Int, r \in 0 .. 32, s \in 0 .. 8, t \in 0 .. 3 :
              /\ y - 979 = 33 * q + r /\ r = 4 * s + t
              /\ s = 8 => t = 0
              /\ (y - 979) \div 33 = q
              /\ (y - 979) % 33 = r
              /\ (r + 3) \div 4 = s + (IF t = 0 THEN 0 ELSE 1)
<1> DEFINE q == (y - 979) \div 33
           r == (y - 979) % 33
           s == r \div 4
           t == r % 4
<1>1. q \in Int /\ r \in 0 .. 32 /\ y - 979 = 33 * q + r OBVIOUS
<1> HIDE DEF q, r
<1>2. s \in 0 .. 8 /\ t \in 0 .. 3 /\ r = 4 * s + t /\ (s = 8 => t = 0) BY <1>1
<1>3. (r + 3) \div 4 = s + (IF t = 0 THEN 0 ELSE 1) BY <1>2
<1>4. (y - 979) \div 33 = q /\ (y - 979) % 33 = r BY DEF q, r
<1> HIDE DEF s, t
<1> QED BY <1>1, <1>2, <1>3, <1>4

\* The count of a Jalali day gives the day back: the loop of _g2j undoes the sum of _j2g.
LEMMA JalaliDecoded ==
    ASSUME NEW y, NEW m, NEW d, JalaliDate(y, m, d)
    PROVE  JalaliOf(JalaliDay(<<y, m, d>>)) = <<y, m, d>>
<1> DEFINE k == 30 * (m - 1) + (IF m - 1 <= 6 THEN m - 1 ELSE 6) + d - 1
<1>1. PICK q \in Int, r \in 0 .. 32, s \in 0 .. 8, t \in 0 .. 3 :
              /\ y - 979 = 33 * q + r /\ r = 4 * s + t
              /\ s = 8 => t = 0
              /\ (y - 979) \div 33 = q
              /\ (y - 979) % 33 = r
              /\ (r + 3) \div 4 = s + (IF t = 0 THEN 0 ELSE 1)
  BY Cycle DEF JalaliDate
<1>2. JalaliLeap(y) <=> t = 0 /\ s <= 7
  <2>1. y \in Int BY DEF JalaliDate
  <2>2. JalaliLeap(y) <=> r \in {0, 4, 8, 12, 16, 20, 24, 28}
    BY <1>1, <2>1, JalaliYear
  <2> QED BY <1>1, <2>2
<1>3. /\ k \in Nat /\ k <= 365 /\ (k = 365 => JalaliLeap(y))
      /\ IF k < 186 THEN m = 1 + k \div 31 /\ d = 1 + (k % 31)
         ELSE m = 7 + (k - 186) \div 30 /\ d = 1 + ((k - 186) % 30)
  BY DEF JalaliDate, JalaliLength
<1>4. y \in Int BY DEF JalaliDate
<1> DEFINE u == IF t = 0 THEN 0 ELSE 1
           f == 365 * t + u + k
           n == DaysOf33 * q + DaysOf4 * s + f
<1>5. JalaliDay(<<y, m, d>>) = n
  BY <1>1, <1>4 DEF JalaliDay, JalaliDate
<1> HIDE DEF k
<1>6. f \in Nat /\ f < DaysOf4 /\ DaysOf4 * s + f \in Nat /\ DaysOf4 * s + f < DaysOf33
  BY <1>1, <1>2, <1>3
<1> HIDE DEF f
<1>7. n \div DaysOf33 = q /\ n % DaysOf33 = DaysOf4 * s + f
  BY <1>1, <1>6
<1>8. (DaysOf4 * s + f) \div DaysOf4 = s /\ (DaysOf4 * s + f) % DaysOf4 = f
  BY <1>1, <1>6
<1>9. CASE t = 0
  <2>1. f = k /\ f < 366 BY <1>1, <1>3, <1>9 DEF f
  <2>2. y = 979 + 33 * q + 4 * s BY <1>1, <1>9, <1>4
  <2> HIDE DEF n
  <2> QED BY <1>3, <1>5, <1>7, <1>8, <2>1, <2>2, SMTT(60) DEF JalaliOf
<1>10. CASE t # 0
  <2>1. f >= 366 /\ f - 1 = 365 * t + k /\ k <= 364
    BY <1>1, <1>2, <1>3, <1>10 DEF f
  <2>2. (f - 1) \div 365 = t /\ (f - 1) % 365 = k BY <1>1, <1>3, <2>1
  <2>3. y = 979 + 33 * q + 4 * s + t BY <1>1, <1>4
  <2>4. (n % DaysOf33) % DaysOf4 = f /\ (n % DaysOf33) \div DaysOf4 = s BY <1>7, <1>8
  <2>5. n \div DaysOf33 = q /\ f \in Int /\ n \in Int BY <1>6, <1>7
  <2> HIDE DEF n
  <2>6. JalaliOf(n) = IF k < 186 THEN <<y, 1 + k \div 31, 1 + (k % 31)>>
                      ELSE <<y, 7 + (k - 186) \div 30, 1 + ((k - 186) % 30)>>
    BY <2>1, <2>2, <2>3, <2>4, <2>5 DEF JalaliOf
  <2> QED BY <1>3, <1>5, <2>6
<1> QED BY <1>9, <1>10

\* From one Jalali day to the next the count of _j2g goes up by one, leap days included.
LEMMA JalaliTomorrow ==
    ASSUME NEW y, NEW m, NEW d, JalaliDate(y, m, d)
    PROVE  \E y2, m2, d2 :
              /\ NextJalali(<<y, m, d>>) = <<y2, m2, d2>>
              /\ JalaliDate(y2, m2, d2)
              /\ JalaliDay(<<y2, m2, d2>>) = JalaliDay(<<y, m, d>>) + 1
<1>1. y \in Nat /\ m \in 1 .. 12 /\ d \in Nat /\ 1 <= d /\ d <= JalaliLength(y, m)
  BY DEF JalaliDate
<1>2. CASE d < JalaliLength(y, m)
  <2>1. NextJalali(<<y, m, d>>) = <<y, m, d + 1>> BY <1>2 DEF DayAfter, NextJalali
  <2>2. JalaliDate(y, m, d + 1) BY <1>1, <1>2 DEF JalaliDate, JalaliLength
  <2>3. JalaliDay(<<y, m, d + 1>>) = JalaliDay(<<y, m, d>>) + 1 BY <1>1 DEF JalaliDay
  <2> QED BY <2>1, <2>2, <2>3
<1>3. CASE ~(d < JalaliLength(y, m)) /\ m < 12
  <2>1. NextJalali(<<y, m, d>>) = <<y, m + 1, 1>> BY <1>3 DEF DayAfter, NextJalali
  <2>2. JalaliDate(y, m + 1, 1) BY <1>1, <1>3 DEF JalaliDate, JalaliLength
  <2>3. d = IF m <= 6 THEN 31 ELSE 30 BY <1>1, <1>3 DEF JalaliLength
  <2>4. JalaliDay(<<y, m + 1, 1>>) = JalaliDay(<<y, m, d>>) + 1
    BY <1>1, <1>3, <2>3 DEF JalaliDay
  <2> QED BY <2>1, <2>2, <2>4
<1>4. CASE ~(d < JalaliLength(y, m)) /\ m = 12
  <2>1. NextJalali(<<y, m, d>>) = <<y + 1, 1, 1>> BY <1>4 DEF DayAfter, NextJalali
  <2>2. JalaliDate(y + 1, 1, 1) BY <1>1 DEF JalaliDate, JalaliLength
  <2>3. d = 29 + (IF JalaliLeap(y) THEN 1 ELSE 0) BY <1>1, <1>4 DEF JalaliLength
  <2>4. JalaliDay(<<y + 1, 1, 1>>) = JalaliDay(<<y, m, d>>) + 1
    <3>1. PICK q \in Int, r \in 0 .. 32, s \in 0 .. 8, t \in 0 .. 3 :
              /\ y - 979 = 33 * q + r /\ r = 4 * s + t
              /\ s = 8 => t = 0
              /\ (y - 979) \div 33 = q
              /\ (y - 979) % 33 = r
              /\ (r + 3) \div 4 = s + (IF t = 0 THEN 0 ELSE 1)
      BY <1>1, Cycle
    <3>2. JalaliLeap(y) <=> r \in {0, 4, 8, 12, 16, 20, 24, 28} BY <1>1, <3>1, JalaliYear
    <3>3. JalaliDay(<<y, m, d>>) = 365 * (y - 979) + 8 * q + s + (IF t = 0 THEN 0 ELSE 1) + 336 + d - 1
      BY <1>1, <1>4, <3>1 DEF JalaliDay
    <3>4. CASE r = 32
      <4>1. y + 1 - 979 = 33 * (q + 1) /\ (y + 1 - 979) \div 33 = q + 1 /\ (y + 1 - 979) % 33 = 0
        BY <1>1, <3>1, <3>4
      <4>2. JalaliDay(<<y + 1, 1, 1>>) = 365 * (y + 1 - 979) + 8 * (q + 1)
        BY <1>1, <4>1 DEF JalaliDay
      <4> QED BY <1>1, <2>3, <3>1, <3>2, <3>3, <3>4, <4>2
    <3>5. CASE r # 32
      <4>1. (y + 1 - 979) \div 33 = q /\ (y + 1 - 979) % 33 = r + 1
        BY <1>1, <3>1, <3>5
      <4>2. JalaliDay(<<y + 1, 1, 1>>) = 365 * (y + 1 - 979) + 8 * q + (r + 4) \div 4
        BY <1>1, <4>1 DEF JalaliDay
      <4>3. (r + 4) \div 4 = s + 1 BY <3>1
      <4>4. JalaliLeap(y) <=> t = 0 BY <3>1, <3>2, <3>5
      <4> QED BY <1>1, <2>3, <3>1, <3>3, <4>2, <4>3, <4>4
    <3> QED BY <3>4, <3>5
  <2> QED BY <2>1, <2>2, <2>4
<1>5. m < 12 \/ m = 12 BY <1>1
<1> QED BY <1>2, <1>3, <1>4, <1>5
-----------------------------------------------------------------------------
\* A day of the Gregorian calendar.
GregorianDate(y, m, d) ==
    /\ y \in Nat /\ m \in 1 .. 12 /\ d \in Nat
    /\ 1 <= d /\ d <= GregorianLength(y, m)

\* The loop over the lengths of months finds the month and the day of a day of the year.
LEMMA MonthFound ==
    ASSUME NEW y, NEW m, NEW d, GregorianDate(y, m, d)
    PROVE  LET k == Before(GregorianLeap(y), m) + d - 1 IN
             /\ DayOfYear(y, GregorianLeap(y), k) = <<y, m, d>>
             /\ k \in Nat /\ k <= 365 /\ (k = 365 => GregorianLeap(y))
<1> DEFINE leap == GregorianLeap(y)
           k    == Before(leap, m) + d - 1
<1>1. m \in 1 .. 12 /\ d \in Nat /\ 1 <= d /\ leap \in BOOLEAN
      /\ d <= IF m = 2 THEN IF leap THEN 29 ELSE 28 ELSE IF m \in {4, 6, 9, 11} THEN 30 ELSE 31
  BY DEF GregorianDate, GregorianLength, GregorianLeap
<1>2. \A i \in 1 .. 12 : Before(leap, i) \in Nat
  BY <1>1 DEF Before, DaysBefore
<1> HIDE DEF leap
<1>3. k \in Nat /\ k <= 365 /\ (k = 365 => leap)
  BY <1>1 DEF Before, DaysBefore
<1>4. Before(leap, m) <= k /\ (m < 12 => k < Before(leap, m + 1))
  BY <1>1 DEF Before, DaysBefore
<1>5. ASSUME NEW i \in 1 .. 12, Before(leap, i) <= k, i < 12 => k < Before(leap, i + 1)
      PROVE  i = m
  <2>1. \A a, b \in 1 .. 12 : a < b => Before(leap, a + 1) <= Before(leap, b)
    BY <1>1 DEF Before, DaysBefore
  <2>2. CASE i < m BY <1>1, <1>2, <1>3, <1>4, <1>5, <2>1, <2>2
  <2>3. CASE m < i BY <1>1, <1>2, <1>3, <1>4, <1>5, <2>1, <2>3
  <2> QED BY <1>1, <2>2, <2>3
<1> HIDE DEF k
<1>6. DayOfYear(y, leap, k) = <<y, m, k - Before(leap, m) + 1>>
  BY <1>1, <1>4, <1>5 DEF DayOfYear
<1>7. k - Before(leap, m) + 1 = d BY <1>1, <1>2, SMTT(60) DEF k
<1> QED BY <1>3, <1>6, <1>7 DEF k, leap

\* Where a year is in its four centuries, and the leap days before it that _g2j adds up.
LEMMA Centuries ==
    ASSUME NEW y \in Int
    PROVE  \E a \in Int, b \in 0 .. 3, c \in 0 .. 24, e \in 0 .. 3 :
              /\ y = 1600 + 400 * a + 100 * b + 4 * c + e
              /\ GregorianLeap(y) <=> e = 0 /\ (c # 0 \/ b = 0)
              /\ (y - 1600 + 3) \div 4 = 100 * a + 25 * b + c + (IF e = 0 THEN 0 ELSE 1)
              /\ (y - 1600 + 99) \div 100 = 4 * a + b + (IF e = 0 /\ c = 0 THEN 0 ELSE 1)
              /\ (y - 1600 + 399) \div 400 = a + (IF e = 0 /\ c = 0 /\ b = 0 THEN 0 ELSE 1)
<1> DEFINE x == y - 1600
           a == x \div 400
           z == x % 400
           b == z \div 100
           w == z % 100
           c == w \div 4
           e == w % 4
<1>1. x \in Int /\ a \in Int /\ z \in Nat /\ z <= 399 /\ x = 400 * a + z OBVIOUS
<1> HIDE DEF a, z
<1>2. b \in 0 .. 3 /\ w \in Nat /\ w <= 99 /\ z = 100 * b + w BY <1>1
<1> HIDE DEF b, w
<1>3. c \in 0 .. 24 /\ e \in 0 .. 3 /\ w = 4 * c + e BY <1>2
<1> HIDE DEF c, e
<1>4. y = 1600 + 400 * a + 100 * b + 4 * c + e BY <1>1, <1>2, <1>3
<1>5. (y % 4 = 0 <=> e = 0) /\ (y % 100 = 0 <=> e = 0 /\ c = 0) /\ (y % 400 = 0 <=> e = 0 /\ c = 0 /\ b = 0)
  <2>1. y % 4 = e BY <1>1, <1>2, <1>3, <1>4
  <2>2. y % 100 = w BY <1>1, <1>2, <1>3, <1>4
  <2>3. y % 400 = z BY <1>1, <1>2, <1>3, <1>4
  <2> QED BY <1>1, <1>2, <1>3, <2>1, <2>2, <2>3
<1>6. GregorianLeap(y) <=> e = 0 /\ (c # 0 \/ b = 0) BY <1>5 DEF GregorianLeap
<1>7. (x + 3) \div 4 = 100 * a + 25 * b + c + (IF e = 0 THEN 0 ELSE 1)
  BY <1>1, <1>2, <1>3
<1>8. (x + 99) \div 100 = 4 * a + b + (IF e = 0 /\ c = 0 THEN 0 ELSE 1)
  BY <1>1, <1>2, <1>3
<1>9. (x + 399) \div 400 = a + (IF e = 0 /\ c = 0 /\ b = 0 THEN 0 ELSE 1)
  BY <1>1, <1>2, <1>3
<1> DEFINE Placed(i, j, k, l) ==
             /\ y = 1600 + 400 * i + 100 * j + 4 * k + l
             /\ GregorianLeap(y) <=> l = 0 /\ (k # 0 \/ j = 0)
             /\ (y - 1600 + 3) \div 4 = 100 * i + 25 * j + k + (IF l = 0 THEN 0 ELSE 1)
             /\ (y - 1600 + 99) \div 100 = 4 * i + j + (IF l = 0 /\ k = 0 THEN 0 ELSE 1)
             /\ (y - 1600 + 399) \div 400 = i + (IF l = 0 /\ k = 0 /\ j = 0 THEN 0 ELSE 1)
<1>10. Placed(a, b, c, e) BY ONLY <1>4, <1>6, <1>7, <1>8, <1>9
<1> HIDE DEF Placed
<1>11. a \in Int /\ b \in 0 .. 3 /\ c \in 0 .. 24 /\ e \in 0 .. 3 BY <1>1, <1>2, <1>3
<1>12. \E i \in Int, j \in 0 .. 3, k \in 0 .. 24, l \in 0 .. 3 : Placed(i, j, k, l)
  BY ONLY <1>10, <1>11, Zenon
<1> QED BY ONLY <1>12 DEF Placed

\* Where a day is in four years that begin with a leap year.
LEMMA InFourYears ==
    ASSUME NEW c \in 0 .. 24, NEW e \in 0 .. 3, NEW k \in Nat, k <= 365, k = 365 => e = 0,
           NEW in4 \in Int, in4 = 365 * e + (IF e = 0 THEN 0 ELSE 1) + k,
           NEW at \in Int, at = DaysOf4 * c + in4
    PROVE  /\ in4 \in Nat /\ in4 < DaysOf4 /\ at \in Nat /\ at <= DaysOf100
           /\ at \div DaysOf4 = c /\ at % DaysOf4 = in4
           /\ in4 < 366 <=> e = 0
           /\ e = 0 => in4 = k
           /\ e # 0 => (in4 - 1) \div 365 = e /\ (in4 - 1) % 365 = k
           /\ c # 0 \/ e # 0 => at >= 366
<1>1. in4 \in Nat /\ in4 < DaysOf4 OBVIOUS
<1>2. at \div DaysOf4 = c /\ at % DaysOf4 = in4 BY <1>1
<1>3. at \in Nat /\ at <= DaysOf100 BY <1>1
<1>4. e # 0 => (in4 - 1) \div 365 = e /\ (in4 - 1) % 365 = k
  <2> SUFFICES ASSUME e # 0 PROVE (in4 - 1) \div 365 = e /\ (in4 - 1) % 365 = k OBVIOUS
  <2>1. in4 - 1 = 365 * e + k /\ k <= 364 OBVIOUS
  <2> QED BY <2>1
<1>5. (in4 < 366 <=> e = 0) /\ (e = 0 => in4 = k) OBVIOUS
<1>6. c # 0 \/ e # 0 => at >= 366 BY <1>1, <1>5
<1> QED BY <1>1, <1>2, <1>3, <1>4, <1>5, <1>6

\* Where a day is in four centuries of which the first begins with a leap year.
LEMMA InFourCenturies ==
    ASSUME NEW b \in 0 .. 3, NEW at \in Nat, at <= DaysOf100, NEW common \in BOOLEAN,
           b = 0 => ~common, common => at <= 364, b # 0 /\ ~common => at >= 366,
           NEW in400 \in Int,
           in400 = IF b = 0 THEN at ELSE DaysOf100 * b + 1 + (IF common THEN at ELSE at - 1)
    PROVE  /\ in400 \in Nat /\ in400 < DaysOf400 /\ (in400 <= DaysOf100 <=> b = 0)
           /\ b # 0 => (in400 - 1) \div DaysOf100 = b
           /\ BeginsLeap(in400) <=> ~common
           /\ Padded(in400) = at
<1>1. CASE b = 0
  <2>1. in400 <= DaysOf100 /\ in400 = at BY <1>1
  <2> QED BY <1>1, <2>1 DEF InCentury, BeginsLeap, Padded
<1>2. CASE b # 0 /\ common
  <2>1. in400 - 1 = DaysOf100 * b + at /\ at <= 364 /\ b \in 1 .. 3 BY <1>2
  <2>2. (in400 - 1) \div DaysOf100 = b /\ (in400 - 1) % DaysOf100 = at BY <2>1
  <2>3. in400 > DaysOf100 /\ in400 < DaysOf400 /\ ~(in400 <= DaysOf100) BY <2>1
  <2>4. InCentury(in400) = at BY <2>2, <2>3 DEF InCentury
  <2>5. ~BeginsLeap(in400) BY <2>1, <2>3, <2>4 DEF BeginsLeap
  <2> QED BY <1>2, <2>2, <2>3, <2>4, <2>5 DEF Padded
<1>3. CASE b # 0 /\ ~common
  <2>1. /\ in400 - 1 = DaysOf100 * b + (at - 1) /\ at - 1 \in Nat
        /\ 365 <= at - 1 /\ at - 1 < DaysOf100 /\ b \in 1 .. 3
    BY <1>3
  <2>2. (in400 - 1) \div DaysOf100 = b /\ (in400 - 1) % DaysOf100 = at - 1 BY <2>1
  <2>3. in400 > DaysOf100 /\ in400 < DaysOf400 /\ ~(in400 <= DaysOf100) BY <2>1
  <2>4. InCentury(in400) = at - 1 BY <2>2, <2>3 DEF InCentury
  <2>5. BeginsLeap(in400) BY <2>1, <2>3, <2>4 DEF BeginsLeap
  <2> QED BY <1>3, <2>2, <2>3, <2>4, <2>5 DEF Padded
<1> QED BY <1>1, <1>2, <1>3

\* The count of a Gregorian day gives the day back: _j2g undoes the sum of _g2j.
LEMMA GregorianDecoded ==
    ASSUME NEW y, NEW m, NEW d, GregorianDate(y, m, d)
    PROVE  GregorianOf(GregorianDay(<<y, m, d>>)) = <<y, m, d>>
<1>1. y \in Int /\ m \in 1 .. 12 /\ d \in Nat BY DEF GregorianDate
<1>2. PICK a \in Int, b \in 0 .. 3, c \in 0 .. 24, e \in 0 .. 3 :
        /\ y = 1600 + 400 * a + 100 * b + 4 * c + e
        /\ GregorianLeap(y) <=> e = 0 /\ (c # 0 \/ b = 0)
        /\ (y - 1600 + 3) \div 4 = 100 * a + 25 * b + c + (IF e = 0 THEN 0 ELSE 1)
        /\ (y - 1600 + 99) \div 100 = 4 * a + b + (IF e = 0 /\ c = 0 THEN 0 ELSE 1)
        /\ (y - 1600 + 399) \div 400 = a + (IF e = 0 /\ c = 0 /\ b = 0 THEN 0 ELSE 1)
  BY <1>1, Centuries
<1>3. PICK k \in Nat : k <= 365 /\ k = Before(GregorianLeap(y), m) + d - 1 /\ (k = 365 => GregorianLeap(y))
  BY MonthFound
<1>4. PICK in4 \in Int : in4 = 365 * e + (IF e = 0 THEN 0 ELSE 1) + k OBVIOUS
<1>5. PICK at \in Int : at = DaysOf4 * c + in4 OBVIOUS
<1>6. PICK common \in BOOLEAN : common <=> b # 0 /\ c = 0 /\ e = 0 OBVIOUS
<1>7. PICK in400 \in Int :
         in400 = IF b = 0 THEN at ELSE DaysOf100 * b + 1 + (IF common THEN at ELSE at - 1)
  OBVIOUS
<1>8. GregorianDay(<<y, m, d>>) = DaysOf400 * a + in400
  <2>1. Before(GregorianLeap(y), m) \in Int BY <1>1 DEF Before, DaysBefore
  <2>2. GregorianDay(<<y, m, d>>) = 365 * (y - 1600) + (y - 1600 + 3) \div 4 - (y - 1600 + 99) \div 100
                                      + (y - 1600 + 399) \div 400 + k
    BY <1>1, <1>3, <2>1 DEF GregorianDay
  <2>3. CASE b = 0 BY <1>2, <1>4, <1>5, <1>7, <2>2, <2>3
  <2>4. CASE b # 0 /\ common BY <1>2, <1>4, <1>5, <1>6, <1>7, <2>2, <2>4
  <2>5. CASE b # 0 /\ ~common BY <1>2, <1>4, <1>5, <1>6, <1>7, <2>2, <2>5
  <2> QED BY <2>3, <2>4, <2>5
<1>9. k = 365 => e = 0 BY <1>2, <1>3
<1>10. /\ in4 \in Nat /\ in4 < DaysOf4 /\ at \in Nat /\ at <= DaysOf100
       /\ at \div DaysOf4 = c /\ at % DaysOf4 = in4
       /\ in4 < 366 <=> e = 0
       /\ e = 0 => in4 = k
       /\ e # 0 => (in4 - 1) \div 365 = e /\ (in4 - 1) % 365 = k
       /\ c # 0 \/ e # 0 => at >= 366
  BY <1>3, <1>4, <1>5, <1>9, InFourYears
<1>11. common => at <= 364 BY <1>2, <1>3, <1>5, <1>6, <1>10
<1>12. /\ in400 \in Nat /\ in400 < DaysOf400 /\ (in400 <= DaysOf100 <=> b = 0)
       /\ b # 0 => (in400 - 1) \div DaysOf100 = b
       /\ BeginsLeap(in400) <=> ~common
       /\ Padded(in400) = at
  BY <1>6, <1>7, <1>10, <1>11, InFourCenturies
<1>13. PICK n \in Int : n = DaysOf400 * a + in400 OBVIOUS
<1>14. n \div DaysOf400 = a /\ n % DaysOf400 = in400 BY <1>12, <1>13
<1>15. PICK year \in Int : year = 1600 + 400 * a + 4 * c + 100 * b OBVIOUS
<1>16. year = 1600 + 400 * a + 4 * c + (IF in400 <= DaysOf100 THEN 0 ELSE 100 * ((in400 - 1) \div DaysOf100))
  BY <1>12, <1>15
<1>17. GregorianOf(n) =
           IF in4 < 366 THEN DayOfYear(year, BeginsLeap(in400), in4)
           ELSE DayOfYear(year + (in4 - 1) \div 365, FALSE, (in4 - 1) % 365)
  <2> HIDE DEF DaysOf4, DaysOf100, DaysOf400
  <2>1. Padded(in400) % DaysOf4 = in4 /\ Padded(in400) \div DaysOf4 = c BY <1>10, <1>12
  <2> DEFINE w == n % DaysOf400
             z == 1600 + 400 * (n \div DaysOf400) + 4 * (Padded(w) \div DaysOf4)
                    + (IF w <= DaysOf100 THEN 0 ELSE 100 * ((w - 1) \div DaysOf100))
             u == Padded(w) % DaysOf4
  <2>2. GregorianOf(n) = IF u < 366 THEN DayOfYear(z, BeginsLeap(w), u)
                         ELSE DayOfYear(z + (u - 1) \div 365, FALSE, (u - 1) % 365)
    BY ONLY DEF GregorianOf
  <2>3. w = in400 BY ONLY <1>14
  <2> HIDE DEF w
  <2>4. u = in4 BY ONLY <2>1, <2>3
  <2>5. z = 1600 + 400 * a + 4 * c + (IF in400 <= DaysOf100 THEN 0 ELSE 100 * ((in400 - 1) \div DaysOf100))
    BY ONLY <1>14, <2>1, <2>3
  <2>6. z = year BY ONLY <1>16, <2>5
  <2> HIDE DEF z, u
  <2> QED BY ONLY <2>2, <2>3, <2>4, <2>6
<1>18. GregorianLeap(y) \in BOOLEAN /\ BeginsLeap(in400) \in BOOLEAN
  BY DEF GregorianLeap, BeginsLeap
<1>19. GregorianOf(n) = DayOfYear(y, GregorianLeap(y), k)
  <2>1. CASE e = 0
    <3>1. year = y /\ in4 = k /\ in4 < 366 BY <1>1, <1>2, <1>10, <1>15, <2>1
    <3>2. BeginsLeap(in400) = GregorianLeap(y) BY <1>2, <1>6, <1>12, <1>18, <2>1
    <3>3. GregorianOf(n) = DayOfYear(year, BeginsLeap(in400), in4) BY ONLY <1>17, <3>1
    <3> QED BY ONLY <3>1, <3>2, <3>3
  <2>2. CASE e # 0
    <3>1. year + (in4 - 1) \div 365 = y /\ (in4 - 1) % 365 = k /\ ~(in4 < 366)
      BY <1>1, <1>2, <1>10, <1>15, <2>2
    <3>2. GregorianLeap(y) = FALSE BY <1>2, <1>18, <2>2
    <3>3. GregorianOf(n) = DayOfYear(year + (in4 - 1) \div 365, FALSE, (in4 - 1) % 365)
      BY ONLY <1>17, <3>1
    <3>4. DayOfYear(year + (in4 - 1) \div 365, FALSE, (in4 - 1) % 365)
            = DayOfYear(y, GregorianLeap(y), k)
      BY ONLY <3>1, <3>2, ZenonT(60)
    <3> QED BY ONLY <3>3, <3>4, ZenonT(60)
  <2> QED BY <2>1, <2>2
<1>20. DayOfYear(y, GregorianLeap(y), k) = <<y, m, d>> BY <1>3, MonthFound
<1> QED BY ONLY <1>8, <1>13, <1>19, <1>20

\* From one Gregorian day to the next the count of _g2j goes up by one.
LEMMA GregorianTomorrow ==
    ASSUME NEW y, NEW m, NEW d, GregorianDate(y, m, d)
    PROVE  \E y2, m2, d2 :
              /\ NextGregorian(<<y, m, d>>) = <<y2, m2, d2>>
              /\ GregorianDate(y2, m2, d2)
              /\ GregorianDay(<<y2, m2, d2>>) = GregorianDay(<<y, m, d>>) + 1
<1>1. y \in Nat /\ m \in 1 .. 12 /\ d \in Nat /\ 1 <= d /\ d <= GregorianLength(y, m)
  BY DEF GregorianDate
<1>2. \A i \in 1 .. 12 : Before(GregorianLeap(y), i) \in Nat
  BY DEF Before, DaysBefore
<1>3. CASE d < GregorianLength(y, m)
  <2>1. NextGregorian(<<y, m, d>>) = <<y, m, d + 1>> BY <1>3 DEF DayAfter, NextGregorian
  <2>2. GregorianDate(y, m, d + 1) BY <1>1, <1>3 DEF GregorianDate, GregorianLength
  <2>3. GregorianDay(<<y, m, d + 1>>) = GregorianDay(<<y, m, d>>) + 1
    BY <1>1, <1>2 DEF GregorianDay
  <2> QED BY <2>1, <2>2, <2>3
<1>4. CASE ~(d < GregorianLength(y, m)) /\ m < 12
  <2>1. NextGregorian(<<y, m, d>>) = <<y, m + 1, 1>> BY <1>4 DEF DayAfter, NextGregorian
  <2>2. GregorianDate(y, m + 1, 1) BY <1>1, <1>4 DEF GregorianDate, GregorianLength
  <2>3. d = GregorianLength(y, m) /\ m + 1 \in 1 .. 12
    BY <1>1, <1>4 DEF GregorianLength
  <2>4. Before(GregorianLeap(y), m + 1) = Before(GregorianLeap(y), m) + d
    BY <1>1, <1>4, <2>3 DEF Before, DaysBefore, GregorianLength
  <2>5. GregorianDay(<<y, m + 1, 1>>) = GregorianDay(<<y, m, d>>) + 1
    BY <1>1, <1>2, <2>3, <2>4 DEF GregorianDay
  <2> QED BY <2>1, <2>2, <2>5
<1>5. CASE ~(d < GregorianLength(y, m)) /\ m = 12
  <2>1. NextGregorian(<<y, m, d>>) = <<y + 1, 1, 1>> BY <1>5 DEF DayAfter, NextGregorian
  <2>2. GregorianDate(y + 1, 1, 1) BY <1>1 DEF GregorianDate, GregorianLength
  <2>3. d = 31 BY <1>1, <1>5 DEF GregorianLength
  <2>4. /\ Before(GregorianLeap(y), 12) = 334 + (IF GregorianLeap(y) THEN 1 ELSE 0)
        /\ Before(GregorianLeap(y + 1), 1) = 0
    BY DEF Before, DaysBefore
  <2> DEFINE x == y - 1600
  <2>5. (x + 1 + 3) \div 4 = (x + 3) \div 4 + (IF y % 4 = 0 THEN 1 ELSE 0) BY <1>1
  <2>6. (x + 1 + 99) \div 100 = (x + 99) \div 100 + (IF y % 100 = 0 THEN 1 ELSE 0) BY <1>1
  <2>7. (x + 1 + 399) \div 400 = (x + 399) \div 400 + (IF y % 400 = 0 THEN 1 ELSE 0) BY <1>1
  <2>8. (y % 400 = 0 => y % 100 = 0) /\ (y % 100 = 0 => y % 4 = 0) BY <1>1
  <2>9. (IF GregorianLeap(y) THEN 1 ELSE 0) =
          (IF y % 4 = 0 THEN 1 ELSE 0) - (IF y % 100 = 0 THEN 1 ELSE 0) + (IF y % 400 = 0 THEN 1 ELSE 0)
    BY <1>1, <2>8 DEF GregorianLeap
  <2>10. GregorianDay(<<y, m, d>>) = 365 * x + (x + 3) \div 4 - (x + 99) \div 100 + (x + 399) \div 400
                                       + 334 + (IF GregorianLeap(y) THEN 1 ELSE 0) + 30
    BY <1>1, <1>5, <2>3, <2>4 DEF GregorianDay
  <2>11. GregorianDay(<<y + 1, 1, 1>>) = 365 * (x + 1) + (x + 1 + 3) \div 4 - (x + 1 + 99) \div 100
                                       + (x + 1 + 399) \div 400
    <3>1. y + 1 - 1600 = x + 1 BY <1>1
    <3> QED BY <1>1, <2>4, <3>1 DEF GregorianDay
  <2>12. GregorianDay(<<y + 1, 1, 1>>) = GregorianDay(<<y, m, d>>) + 1
    BY <1>1, <2>5, <2>6, <2>7, <2>9, <2>10, <2>11
  <2> QED BY <2>1, <2>2, <2>12
<1>6. m < 12 \/ m = 12 BY <1>1
<1> QED BY <1>3, <1>4, <1>5, <1>6
-----------------------------------------------------------------------------
(***************************************************************************)
(* The inductive invariant: today is a day of both calendars, and the day  *)
(* counts of the two conversions are the same.                             *)
(***************************************************************************)
SameDay ==
    \E gy, gm, gd, jy, jm, jd :
       /\ gregorian = <<gy, gm, gd>> /\ GregorianDate(gy, gm, gd)
       /\ jalali = <<jy, jm, jd>> /\ JalaliDate(jy, jm, jd)
       /\ GregorianDay(gregorian) = JalaliDay(jalali) + 79

\* Both counts are integers.
LEMMA DayCounts ==
    /\ \A y, m, d : JalaliDate(y, m, d) => JalaliDay(<<y, m, d>>) \in Int
    /\ \A y, m, d : GregorianDate(y, m, d) => GregorianDay(<<y, m, d>>) \in Int
<1>1. ASSUME NEW y, NEW m, NEW d, JalaliDate(y, m, d) PROVE JalaliDay(<<y, m, d>>) \in Int
  BY <1>1 DEF JalaliDate, JalaliDay
<1>2. ASSUME NEW y, NEW m, NEW d, GregorianDate(y, m, d) PROVE GregorianDay(<<y, m, d>>) \in Int
  <2>1. y \in Int /\ m \in 1 .. 12 /\ d \in Int BY <1>2 DEF GregorianDate
  <2>2. Before(GregorianLeap(y), m) \in Int BY <2>1 DEF Before, DaysBefore
  <2> QED BY <2>1, <2>2 DEF GregorianDay
<1> QED BY <1>1, <1>2

\* The first day is a day of both calendars, with the same count.
LEMMA SameDayFirst == CalendarInit => SameDay
<1> SUFFICES ASSUME CalendarInit PROVE SameDay OBVIOUS
<1>1. PICK day \in FirstDays : gregorian = day[1] /\ jalali = day[2] BY DEF CalendarInit
<1>2. gregorian \in Nat \X Nat \X Nat /\ jalali \in Nat \X Nat \X Nat
  <2>1. day \in (Nat \X Nat \X Nat) \X (Nat \X Nat \X Nat) BY FirstDaysAssumption
  <2> QED BY <1>1, <2>1
<1> DEFINE g(i) == gregorian[i]
           j(i) == jalali[i]
<1>3. GregorianDate(g(1), g(2), g(3)) /\ JalaliDate(j(1), j(2), j(3))
  <2>1. IsDate(gregorian, GregorianLength) /\ IsDate(jalali, JalaliLength)
    BY <1>1, FirstDaysAssumption
  <2> QED BY <1>2, <2>1 DEF IsDate, GregorianDate, JalaliDate
<1>5. gregorian = <<g(1), g(2), g(3)>> /\ jalali = <<j(1), j(2), j(3)>> BY <1>2
<1>4. GregorianDay(gregorian) = JalaliDay(jalali) + 79 BY <1>1, FirstDaysAssumption
<1> QED BY <1>3, <1>4, <1>5 DEF SameDay

\* And so is every day after it.
LEMMA SameDayTomorrow == SameDay /\ [Tomorrow]_vars => SameDay'
<1> SUFFICES ASSUME SameDay, [Tomorrow]_vars PROVE SameDay' OBVIOUS
<1>1. CASE UNCHANGED vars BY <1>1 DEF vars, SameDay
<1>2. CASE Tomorrow
  <2>1. PICK gy, gm, gd, jy, jm, jd :
           /\ gregorian = <<gy, gm, gd>> /\ GregorianDate(gy, gm, gd)
           /\ jalali = <<jy, jm, jd>> /\ JalaliDate(jy, jm, jd)
           /\ GregorianDay(gregorian) = JalaliDay(jalali) + 79
    BY DEF SameDay
  <2>2. PICK gy2, gm2, gd2 :
           /\ gregorian' = <<gy2, gm2, gd2>> /\ GregorianDate(gy2, gm2, gd2)
           /\ GregorianDay(gregorian') = GregorianDay(gregorian) + 1
    <3>1. gregorian' = NextGregorian(gregorian) BY <1>2 DEF Tomorrow
    <3>2. GregorianDate(gy, gm, gd) BY <2>1
    <3>3. \E y2, m2, d2 :
             /\ NextGregorian(<<gy, gm, gd>>) = <<y2, m2, d2>>
             /\ GregorianDate(y2, m2, d2)
             /\ GregorianDay(<<y2, m2, d2>>) = GregorianDay(<<gy, gm, gd>>) + 1
      BY ONLY <3>2, GregorianTomorrow, ZenonT(60)
    <3> QED BY <2>1, <3>1, <3>3
  <2>3. PICK jy2, jm2, jd2 :
           /\ jalali' = <<jy2, jm2, jd2>> /\ JalaliDate(jy2, jm2, jd2)
           /\ JalaliDay(jalali') = JalaliDay(jalali) + 1
    <3>1. jalali' = NextJalali(jalali) BY <1>2 DEF Tomorrow
    <3>2. JalaliDate(jy, jm, jd) BY <2>1
    <3>3. \E y2, m2, d2 :
             /\ NextJalali(<<jy, jm, jd>>) = <<y2, m2, d2>>
             /\ JalaliDate(y2, m2, d2)
             /\ JalaliDay(<<y2, m2, d2>>) = JalaliDay(<<jy, jm, jd>>) + 1
      BY ONLY <3>2, JalaliTomorrow, Zenon
    <3> QED BY <2>1, <3>1, <3>3
  <2>4. JalaliDay(jalali) \in Int BY <2>1, DayCounts
  <2>5. GregorianDay(gregorian') = JalaliDay(jalali') + 79 BY <2>1, <2>2, <2>3, <2>4
  <2> QED BY <2>2, <2>3, <2>5 DEF SameDay
<1> QED BY <1>1, <1>2

(***************************************************************************)
(* On every day, for ever, _g2j gives the Jalali date of a Gregorian one   *)
(* and _j2g the Gregorian date of a Jalali one.                            *)
(***************************************************************************)
THEOREM AlwaysConverts == CalendarSpec => []ConvertsBothWays
<1>1. SameDay => ConvertsBothWays
  <2> SUFFICES ASSUME SameDay PROVE ConvertsBothWays OBVIOUS
  <2>1. PICK gy, gm, gd, jy, jm, jd :
           /\ gregorian = <<gy, gm, gd>> /\ GregorianDate(gy, gm, gd)
           /\ jalali = <<jy, jm, jd>> /\ JalaliDate(jy, jm, jd)
           /\ GregorianDay(gregorian) = JalaliDay(jalali) + 79
    BY DEF SameDay
  <2>2. JalaliDay(jalali) \in Int BY <2>1, DayCounts
  <2>3. GregorianDay(gregorian) - 79 = JalaliDay(jalali) BY <2>1, <2>2
  <2>4. JalaliOf(JalaliDay(jalali)) = jalali BY <2>1, JalaliDecoded
  <2>5. GregorianOf(GregorianDay(gregorian)) = gregorian BY <2>1, GregorianDecoded
  <2> QED BY <2>1, <2>3, <2>4, <2>5 DEF ConvertsBothWays, g2j, j2g
<1> QED BY <1>1, SameDayFirst, SameDayTomorrow, PTL DEF CalendarSpec
-----------------------------------------------------------------------------
\* Induction over the naturals, with a set in place of a predicate.
LEMMA CountingInduction ==
    ASSUME NEW Good, 0 \in Good, \A n \in Nat : n \in Good => n + 1 \in Good
    PROVE  \A n \in Nat : n \in Good
<1> DEFINE Bad == {n \in Nat : n \notin Good}
<1> SUFFICES ASSUME Bad # {} PROVE FALSE OBVIOUS
<1> DEFINE T == {1 .. n : n \in Bad}
<1>1. IsWellFoundedOn(StrictSubsetOrdering(Nat), FiniteSubsetsOf(Nat))
  BY FS_StrictSubsetOrderingWellFounded
<1>2. \A n \in Nat : 1 .. n \in SUBSET Nat /\ IsFiniteSet(1 .. n)
  BY FS_Interval, SMTT(60)
<1>3. T # {} /\ T \subseteq FiniteSubsetsOf(Nat)
  BY <1>2, FS_FiniteSubsetsOfFinite DEF FiniteSubsetsOf
<1> HIDE DEF T
<1>4. PICK t \in T : \A u \in T : <<u, t>> \notin StrictSubsetOrdering(Nat)
  BY <1>1, <1>3, WFMin
<1>5. PICK n \in Bad : t = 1 .. n
  BY DEF T
<1>6. n \in Nat /\ n # 0 /\ n - 1 \in Nat /\ n = (n - 1) + 1
  OBVIOUS
<1>7. 1 .. (n - 1) \subseteq 1 .. n /\ 1 .. (n - 1) # 1 .. n
  <2>1. n \in 1 .. n /\ n \notin 1 .. (n - 1)
    BY <1>6
  <2> QED BY <1>6, <2>1
<1>8. <<1 .. (n - 1), 1 .. n>> \in StrictSubsetOrdering(Nat)
  BY <1>2, <1>6, <1>7 DEF StrictSubsetOrdering
<1>9. n - 1 \notin Bad
  BY <1>4, <1>5, <1>8 DEF T
<1> QED BY <1>6, <1>9

\* The count of the first day of the Gregorian year 0.
FirstCount == 0 - 584388

\* It is.  (The year is a variable: the prover cuts the quotient of two numerals off, where
\* a negative one is to be rounded down.)
LEMMA YearZero ==
    ASSUME NEW y \in Nat, y < 1
    PROVE  GregorianDate(y, 1, 1) /\ GregorianDay(<<y, 1, 1>>) = FirstCount
<1>1. GregorianDate(y, 1, 1) BY DEF GregorianDate, GregorianLength
<1>2. Before(GregorianLeap(y), 1) = 0 BY DEF Before, DaysBefore
<1>3. PICK x \in Int : x = y - 1600 OBVIOUS
<1>4. GregorianDay(<<y, 1, 1>>) = 365 * x + (x + 3) \div 4 - (x + 99) \div 100
                                   + (x + 399) \div 400 + 0 + 1 - 1
  BY <1>2, <1>3 DEF GregorianDay
<1>5. x + 1600 < 1 /\ x + 1600 >= 0 BY <1>3
<1>6. (x + 3) \div 4 + 400 = 0 BY <1>5
<1>7. (x + 99) \div 100 + 16 = 0 BY <1>5
<1>8. (x + 399) \div 400 + 4 = 0 BY <1>5
<1>9. PICK u \in Int, v \in Int, w \in Int :
         /\ u = (x + 3) \div 4 /\ v = (x + 99) \div 100 /\ w = (x + 399) \div 400
  BY <1>6, <1>7, <1>8
<1>10. u + 400 = 0 /\ v + 16 = 0 /\ w + 4 = 0 BY <1>6, <1>7, <1>8, <1>9
<1>11. 365 * x + u - v + w + 0 + 1 - 1 = 0 - 584388 BY <1>5, <1>10
<1> QED BY <1>1, <1>4, <1>9, <1>11 DEF FirstCount

\* Every day since then has a Gregorian date with its count.
LEMMA EveryDayHasDate ==
    ASSUME NEW n \in Int, FirstCount <= n
    PROVE  \E y, m, d : GregorianDate(y, m, d) /\ GregorianDay(<<y, m, d>>) = n
<1> DEFINE Good == {k \in Nat : \E y, m, d : /\ GregorianDate(y, m, d)
                                          /\ GregorianDay(<<y, m, d>>) = FirstCount + k}
<1>1. 0 \in Good
  <2>1. PICK y \in Nat : y < 1 OBVIOUS
  <2>2. GregorianDate(y, 1, 1) /\ GregorianDay(<<y, 1, 1>>) = FirstCount BY <2>1, YearZero
  <2>3. GregorianDay(<<y, 1, 1>>) = FirstCount + 0 BY <2>2 DEF FirstCount
  <2> QED BY <2>2, <2>3
<1>2. ASSUME NEW k \in Nat, k \in Good PROVE k + 1 \in Good
  <2>1. PICK y, m, d : GregorianDate(y, m, d) /\ GregorianDay(<<y, m, d>>) = FirstCount + k
    BY <1>2
  <2>2. PICK y2, m2, d2 : /\ GregorianDate(y2, m2, d2)
                          /\ GregorianDay(<<y2, m2, d2>>) = GregorianDay(<<y, m, d>>) + 1
    <3>1. GregorianDate(y, m, d)
      BY <2>1
    <3>2. \E y2, m2, d2 : /\ NextGregorian(<<y, m, d>>) = <<y2, m2, d2>>
                          /\ GregorianDate(y2, m2, d2)
                          /\ GregorianDay(<<y2, m2, d2>>) = GregorianDay(<<y, m, d>>) + 1
      BY ONLY <3>1, GregorianTomorrow, ZenonT(60)
    <3> QED BY ONLY <3>2
  <2>3. GregorianDay(<<y2, m2, d2>>) = FirstCount + (k + 1) BY <2>1, <2>2 DEF FirstCount
  <2> QED BY <2>2, <2>3
<1> HIDE DEF Good
<1>3. \A k \in Nat : k \in Good BY <1>1, <1>2, CountingInduction
<1>4. n - FirstCount \in Nat /\ FirstCount + (n - FirstCount) = n BY DEF FirstCount
<1>5. n - FirstCount \in Good BY <1>3, <1>4
<1> QED BY <1>4, <1>5 DEF Good

\* Two dates with the same count are the same.
LEMMA CountIsOwn ==
    ASSUME NEW y, NEW m, NEW d, GregorianDate(y, m, d),
           NEW y2, NEW m2, NEW d2, GregorianDate(y2, m2, d2),
           GregorianDay(<<y, m, d>>) = GregorianDay(<<y2, m2, d2>>)
    PROVE  <<y, m, d>> = <<y2, m2, d2>>
<1>1. GregorianOf(GregorianDay(<<y, m, d>>)) = <<y, m, d>>
  BY GregorianDecoded
<1>2. GregorianOf(GregorianDay(<<y2, m2, d2>>)) = <<y2, m2, d2>>
  BY GregorianDecoded
<1> QED BY ONLY <1>1, <1>2, GregorianDay(<<y, m, d>>) = GregorianDay(<<y2, m2, d2>>)

\* Dates are compared as they come: the text of a later day is the greater one.
LEMMA TextsInOrder ==
    ASSUME NEW y, NEW m, NEW d, GregorianDate(y, m, d),
           NEW y2, NEW m2, NEW d2, GregorianDate(y2, m2, d2),
           GregorianDay(<<y, m, d>>) < GregorianDay(<<y2, m2, d2>>)
    PROVE  Text(<<y, m, d>>) < Text(<<y2, m2, d2>>)
<1> DEFINE After(g, k) == \A a, b, c : /\ GregorianDate(a, b, c)
                                      /\ GregorianDay(<<a, b, c>>) = GregorianDay(g) + (k + 1)
                                      => Text(g) < Text(<<a, b, c>>)
           Good == {k \in Nat : \A e, f, h : GregorianDate(e, f, h) => After(<<e, f, h>>, k)}
<1>0. \A a, b, c : GregorianDate(a, b, c) =>
         GregorianDay(<<a, b, c>>) \in Int /\ Text(<<a, b, c>>) \in Int
  BY DayCounts DEF GregorianDate, Text
<1>1. ASSUME NEW e, NEW f, NEW h, GregorianDate(e, f, h)
      PROVE  \E a, b, c : /\ GregorianDate(a, b, c)
                          /\ GregorianDay(<<a, b, c>>) = GregorianDay(<<e, f, h>>) + 1
                          /\ Text(<<e, f, h>>) < Text(<<a, b, c>>)
  <2>1. PICK a, b, c : /\ NextGregorian(<<e, f, h>>) = <<a, b, c>>
                       /\ GregorianDate(a, b, c)
                       /\ GregorianDay(<<a, b, c>>) = GregorianDay(<<e, f, h>>) + 1
    <3>1. \E a, b, c : /\ NextGregorian(<<e, f, h>>) = <<a, b, c>>
                       /\ GregorianDate(a, b, c)
                       /\ GregorianDay(<<a, b, c>>) = GregorianDay(<<e, f, h>>) + 1
      BY ONLY <1>1, GregorianTomorrow, ZenonT(60)
    <3> QED BY <3>1
  <2>2. /\ e \in Nat /\ f \in 1 .. 12 /\ h \in Nat /\ 1 <= h /\ h <= 31
    BY <1>1 DEF GregorianDate, GregorianLength
  <2>3. <<a, b, c>> \in {<<e, f, h + 1>>, <<e, f + 1, 1>>, <<e + 1, 1, 1>>}
    BY <2>1 DEF NextGregorian, DayAfter
  <2>4. Text(<<e, f, h>>) < Text(<<a, b, c>>) BY <2>2, <2>3 DEF Text
  <2> QED BY <2>1, <2>4
<1>2. 0 \in Good
  <2> SUFFICES ASSUME NEW e, NEW f, NEW h, GregorianDate(e, f, h),
                      NEW a, NEW b, NEW c, GregorianDate(a, b, c),
                      GregorianDay(<<a, b, c>>) = GregorianDay(<<e, f, h>>) + (0 + 1)
               PROVE  Text(<<e, f, h>>) < Text(<<a, b, c>>)
    OBVIOUS
  <2>1. PICK i, j, k : /\ GregorianDate(i, j, k)
                       /\ GregorianDay(<<i, j, k>>) = GregorianDay(<<e, f, h>>) + 1
                       /\ Text(<<e, f, h>>) < Text(<<i, j, k>>)
    BY <1>1
  <2>2. GregorianDay(<<i, j, k>>) = GregorianDay(<<a, b, c>>)
    BY <2>1
  <2>3. <<i, j, k>> = <<a, b, c>>
    BY <2>1, <2>2, CountIsOwn
  <2> QED BY <2>1, <2>3
<1>3. ASSUME NEW n \in Nat, n \in Good PROVE n + 1 \in Good
  <2> SUFFICES ASSUME NEW e, NEW f, NEW h, GregorianDate(e, f, h),
                      NEW a, NEW b, NEW c, GregorianDate(a, b, c),
                      GregorianDay(<<a, b, c>>) = GregorianDay(<<e, f, h>>) + ((n + 1) + 1)
               PROVE  Text(<<e, f, h>>) < Text(<<a, b, c>>)
    OBVIOUS
  <2>1. PICK i, j, k : /\ GregorianDate(i, j, k)
                       /\ GregorianDay(<<i, j, k>>) = GregorianDay(<<e, f, h>>) + 1
                       /\ Text(<<e, f, h>>) < Text(<<i, j, k>>)
    BY <1>1
  <2>2. GregorianDay(<<a, b, c>>) = GregorianDay(<<i, j, k>>) + (n + 1)
    BY <1>0, <2>1
  <2>3. Text(<<i, j, k>>) < Text(<<a, b, c>>)
    BY <1>3, <2>1, <2>2
  <2>4. /\ Text(<<e, f, h>>) \in Int /\ Text(<<i, j, k>>) \in Int /\ Text(<<a, b, c>>) \in Int
    BY <1>0, <2>1
  <2> QED BY <2>1, <2>3, <2>4
<1>4. PICK k \in Nat : GregorianDay(<<y2, m2, d2>>) = GregorianDay(<<y, m, d>>) + (k + 1)
  <2>1. /\ GregorianDay(<<y, m, d>>) \in Int /\ GregorianDay(<<y2, m2, d2>>) \in Int
    BY <1>0
  <2>2. /\ GregorianDay(<<y2, m2, d2>>) - GregorianDay(<<y, m, d>>) - 1 \in Nat
        /\ GregorianDay(<<y2, m2, d2>>) = GregorianDay(<<y, m, d>>)
              + ((GregorianDay(<<y2, m2, d2>>) - GregorianDay(<<y, m, d>>) - 1) + 1)
    BY <2>1
  <2> QED BY <2>2
<1> HIDE DEF Good
<1>5. k \in Good
  BY <1>2, <1>3, CountingInduction
<1> QED BY <1>4, <1>5 DEF Good

\* And only a later day's.
LEMMA TextsCompare ==
    ASSUME NEW y, NEW m, NEW d, GregorianDate(y, m, d),
           NEW y2, NEW m2, NEW d2, GregorianDate(y2, m2, d2)
    PROVE  Text(<<y, m, d>>) <= Text(<<y2, m2, d2>>)
             <=> GregorianDay(<<y, m, d>>) <= GregorianDay(<<y2, m2, d2>>)
<1> DEFINE i == GregorianDay(<<y, m, d>>)
           j == GregorianDay(<<y2, m2, d2>>)
           s == Text(<<y, m, d>>)
           t == Text(<<y2, m2, d2>>)
<1>1. i \in Int /\ j \in Int /\ s \in Int /\ t \in Int
  BY DayCounts DEF GregorianDate, Text
<1>2. (i < j => s < t) /\ (j < i => t < s)
  BY TextsInOrder
<1>3. i = j => s = t
  BY CountIsOwn
<1> HIDE DEF i, j, s, t
<1>4. s <= t <=> i <= j
  BY <1>1, <1>2, <1>3
<1> QED BY <1>4 DEF i, j, s, t
-----------------------------------------------------------------------------
\* What a user may type for a date: the day 31 of any month included.
TypedDate(y, m, d) == y \in Nat /\ m \in 1 .. 12 /\ d \in 1 .. 31

\* _j2g turns whatever is typed into a date, the one whose count it is.
LEMMA TypedHasDate ==
    ASSUME NEW y, NEW m, NEW d, TypedDate(y, m, d)
    PROVE  \E gy, gm, gd : /\ j2g(<<y, m, d>>) = <<gy, gm, gd>>
                           /\ GregorianDate(gy, gm, gd)
                           /\ GregorianDay(<<gy, gm, gd>>) = JalaliDay(<<y, m, d>>) + 79
<1>1. y \in Nat /\ m \in 1 .. 12 /\ d \in 1 .. 31 BY DEF TypedDate
<1>2. PICK q \in Int, r \in 0 .. 32, s \in 0 .. 8, t \in 0 .. 3 :
              /\ y - 979 = 33 * q + r /\ r = 4 * s + t
              /\ s = 8 => t = 0
              /\ (y - 979) \div 33 = q
              /\ (y - 979) % 33 = r
              /\ (r + 3) \div 4 = s + (IF t = 0 THEN 0 ELSE 1)
  BY <1>1, Cycle
<1>3. JalaliDay(<<y, m, d>>) = 365 * (y - 979) + q * 8 + s + (IF t = 0 THEN 0 ELSE 1)
                                  + JalaliBefore(m) + d - 1
  BY <1>1, <1>2 DEF JalaliDay, JalaliBefore
<1>4. JalaliBefore(m) \in Nat BY <1>1 DEF JalaliBefore
<1>5. JalaliDay(<<y, m, d>>) + 79 \in Int /\ FirstCount <= JalaliDay(<<y, m, d>>) + 79
  BY <1>1, <1>2, <1>3, <1>4 DEF FirstCount
<1>6. PICK gy, gm, gd : /\ GregorianDate(gy, gm, gd)
                        /\ GregorianDay(<<gy, gm, gd>>) = JalaliDay(<<y, m, d>>) + 79
  BY <1>5, EveryDayHasDate
<1>7. GregorianOf(GregorianDay(<<gy, gm, gd>>)) = <<gy, gm, gd>>
  BY <1>6, GregorianDecoded
<1>8. j2g(<<y, m, d>>) = <<gy, gm, gd>>
  BY ONLY <1>6, <1>7 DEF j2g
<1> QED BY <1>6, <1>8

\* A date, and one of the first two days of the month after it, if the day is too many.
LEMMA DayTooMany ==
    ASSUME NEW y, NEW m, NEW d, TypedDate(y, m, d), d > JalaliLength(y, m)
    PROVE  /\ d - JalaliLength(y, m) \in {1, 2}
           /\ \E y2 : /\ JalaliDate(y2, (m % 12) + 1, d - JalaliLength(y, m))
                      /\ JalaliDay(<<y2, (m % 12) + 1, d - JalaliLength(y, m)>>)
                            = JalaliDay(<<y, m, d>>)
<1> DEFINE last == JalaliLength(y, m)
           m2 == (m % 12) + 1
<1>1. /\ y \in Nat /\ m \in 1 .. 12 /\ d \in 1 .. 31 /\ last \in {29, 30} /\ d > last
      /\ m >= 7
  BY DEF TypedDate, JalaliLength
<1>2. JalaliDate(y, m, last) BY <1>1 DEF JalaliDate
<1>3. PICK y2 : /\ JalaliDate(y2, m2, 1)
                /\ JalaliDay(<<y2, m2, 1>>) = JalaliDay(<<y, m, last>>) + 1
  <2>1. PICK a, b, c : /\ NextJalali(<<y, m, last>>) = <<a, b, c>>
                       /\ JalaliDate(a, b, c)
                       /\ JalaliDay(<<a, b, c>>) = JalaliDay(<<y, m, last>>) + 1
    <3>1. \E a, b, c : /\ NextJalali(<<y, m, last>>) = <<a, b, c>>
                       /\ JalaliDate(a, b, c)
                       /\ JalaliDay(<<a, b, c>>) = JalaliDay(<<y, m, last>>) + 1
      BY ONLY <1>2, JalaliTomorrow, ZenonT(60)
    <3> QED BY <3>1
  <2>2. NextJalali(<<y, m, last>>) = IF m < 12 THEN <<y, m + 1, 1>> ELSE <<y + 1, 1, 1>>
    BY <1>1 DEF NextJalali, DayAfter
  <2>3. m2 = IF m < 12 THEN m + 1 ELSE 1 BY <1>1
  <2> HIDE DEF m2
  <2>4. b = m2 /\ c = 1 BY <1>1, <2>1, <2>2, <2>3
  <2> QED BY <2>1, <2>4
<1>4. y2 \in Nat /\ m2 \in 1 .. 12 BY <1>3 DEF JalaliDate
<1>5. d - last \in {1, 2} BY <1>1
<1> HIDE DEF last, m2
<1>6. JalaliDate(y2, m2, d - last) BY <1>4, <1>5 DEF JalaliDate, JalaliLength
<1>7. JalaliDay(<<y2, m2, d - last>>) = JalaliDay(<<y2, m2, 1>>) + (d - last - 1)
  BY <1>4, <1>5 DEF JalaliDay
<1>8. JalaliDay(<<y, m, d>>) = JalaliDay(<<y, m, last>>) + (d - last)
  BY <1>1 DEF JalaliDay
<1>9. JalaliDay(<<y, m, last>>) \in Int BY <1>2, DayCounts
<1>10. JalaliDay(<<y2, m2, d - last>>) = JalaliDay(<<y, m, d>>)
  BY <1>1, <1>3, <1>7, <1>8, <1>9
<1> QED BY <1>5, <1>6, <1>10 DEF last, m2

\* Whatever day of a month is accepted becomes that day, or one of the next month.
LEMMA AcceptedIsDate ==
    ASSUME NEW y, NEW m, NEW d, TypedDate(y, m, d)
    PROVE  LET g == j2g(<<y, m, d>>)  over == d - JalaliLength(y, m) IN
             /\ g[2] \in 1 .. 12 /\ g[3] \in 1 .. GregorianLength(g[1], g[2])
             /\ over <= 2
             /\ LET j == g2j(g) IN IF over <= 0 THEN j = <<y, m, d>>
                                               ELSE j[2] = (m % 12) + 1 /\ j[3] = over
<1> DEFINE over == d - JalaliLength(y, m)
<1>1. PICK gy, gm, gd : /\ j2g(<<y, m, d>>) = <<gy, gm, gd>>
                        /\ GregorianDate(gy, gm, gd)
                        /\ GregorianDay(<<gy, gm, gd>>) = JalaliDay(<<y, m, d>>) + 79
  BY TypedHasDate, ZenonT(60)
<1>2. gm \in 1 .. 12 /\ gd \in 1 .. GregorianLength(gy, gm)
  BY <1>1 DEF GregorianDate, GregorianLength
<1>3. y \in Nat /\ m \in 1 .. 12 /\ d \in 1 .. 31 /\ JalaliLength(y, m) \in 29 .. 31
  BY DEF TypedDate, JalaliLength
<1>4. over \in Int /\ over <= 2 /\ (over <= 0 <=> ~(d > JalaliLength(y, m))) BY <1>3
<1>5. JalaliDay(<<y, m, d>>) \in Int
  BY <1>3 DEF JalaliDay
<1>6. g2j(<<gy, gm, gd>>) = JalaliOf(JalaliDay(<<y, m, d>>))
  <2>1. GregorianDay(<<gy, gm, gd>>) - 79 = JalaliDay(<<y, m, d>>) BY <1>1, <1>5
  <2> QED BY <2>1 DEF g2j
<1>7. CASE over <= 0
  <2>1. JalaliDate(y, m, d) BY <1>3, <1>7 DEF JalaliDate
  <2>2. JalaliOf(JalaliDay(<<y, m, d>>)) = <<y, m, d>> BY <2>1, JalaliDecoded
  <2> QED BY <1>1, <1>2, <1>4, <1>6, <1>7, <2>2
<1>8. CASE ~(over <= 0)
  <2>1. PICK y2 : /\ JalaliDate(y2, (m % 12) + 1, over)
                  /\ JalaliDay(<<y2, (m % 12) + 1, over>>) = JalaliDay(<<y, m, d>>)
    BY <1>4, <1>8, DayTooMany, ZenonT(60)
  <2>2. JalaliOf(JalaliDay(<<y2, (m % 12) + 1, over>>)) = <<y2, (m % 12) + 1, over>>
    BY <2>1, JalaliDecoded
  <2>3. g2j(<<gy, gm, gd>>) = <<y2, (m % 12) + 1, over>> BY <1>6, <2>1, <2>2
  <2>4. g2j(<<gy, gm, gd>>)[2] = (m % 12) + 1 /\ g2j(<<gy, gm, gd>>)[3] = over BY <2>3
  <2> HIDE DEF over
  <2> QED BY <1>1, <1>2, <1>4, <1>8, <2>4 DEF over
<1> QED BY <1>7, <1>8

(***************************************************************************)
(* normalize_jalali lets a day 31 through in every month: still every date *)
(* that it lets through has a Gregorian equivalent, on any day, for ever.  *)
(***************************************************************************)
THEOREM TypedBecomeDates == CalendarSpec => []TypedAreDates
<1>1. SameDay => TypedAreDates
  <2> SUFFICES ASSUME SameDay, NEW d \in 1 .. 40, Normalized(jalali[1], jalali[2], d)
               PROVE  LET g == j2g(<<jalali[1], jalali[2], d>>)
                          over == d - JalaliLength(jalali[1], jalali[2])
                      IN  /\ g[2] \in 1 .. 12 /\ g[3] \in 1 .. GregorianLength(g[1], g[2])
                          /\ over <= 2
                          /\ LET j == g2j(g) IN
                               IF over <= 0 THEN j = <<jalali[1], jalali[2], d>>
                                            ELSE j[2] = (jalali[2] % 12) + 1 /\ j[3] = over
    BY DEF TypedAreDates
  <2>1. TypedDate(jalali[1], jalali[2], d)
    BY DEF SameDay, JalaliDate, TypedDate, Normalized
  <2> QED BY <2>1, AcceptedIsDate, SMTT(60)
<1> QED BY <1>1, SameDayFirst, SameDayTomorrow, PTL DEF CalendarSpec
-----------------------------------------------------------------------------
\* Days that are typed are compared by their counts, whatever month they run over into.
LEMMA TypedCompare ==
    ASSUME NEW y, NEW m, NEW d, TypedDate(y, m, d), NEW y2, NEW m2, NEW d2, TypedDate(y2, m2, d2)
    PROVE  Text(j2g(<<y, m, d>>)) <= Text(j2g(<<y2, m2, d2>>))
             <=> JalaliDay(<<y, m, d>>) <= JalaliDay(<<y2, m2, d2>>)
<1>1. PICK a, b, c : /\ j2g(<<y, m, d>>) = <<a, b, c>>
                     /\ GregorianDate(a, b, c)
                     /\ GregorianDay(<<a, b, c>>) = JalaliDay(<<y, m, d>>) + 79
  BY TypedHasDate, SMTT(60)
<1>2. PICK a2, b2, c2 : /\ j2g(<<y2, m2, d2>>) = <<a2, b2, c2>>
                        /\ GregorianDate(a2, b2, c2)
                        /\ GregorianDay(<<a2, b2, c2>>) = JalaliDay(<<y2, m2, d2>>) + 79
  BY TypedHasDate, ZenonT(60)
<1>3. Text(<<a, b, c>>) <= Text(<<a2, b2, c2>>)
        <=> GregorianDay(<<a, b, c>>) <= GregorianDay(<<a2, b2, c2>>)
  BY <1>1, <1>2, TextsCompare
<1>4. JalaliDay(<<y, m, d>>) \in Int /\ JalaliDay(<<y2, m2, d2>>) \in Int
  BY DEF TypedDate, JalaliDay
<1>5. JalaliDay(<<y, m, d>>) + 79 <= JalaliDay(<<y2, m2, d2>>) + 79
        <=> JalaliDay(<<y, m, d>>) <= JalaliDay(<<y2, m2, d2>>)
  BY <1>4
<1> QED BY ONLY <1>1, <1>2, <1>3, <1>5

\* The count of a day, within its year.
LEMMA CountInYear ==
    ASSUME NEW y \in Nat
    PROVE  \E n \in Int : \A m \in 1 .. 12, d \in 1 .. 31 :
              JalaliDay(<<y, m, d>>) = n + JalaliBefore(m) + d
<1>1. PICK q \in Int, r \in 0 .. 32, s \in 0 .. 8, t \in 0 .. 3 :
              /\ y - 979 = 33 * q + r /\ r = 4 * s + t
              /\ s = 8 => t = 0
              /\ (y - 979) \div 33 = q
              /\ (y - 979) % 33 = r
              /\ (r + 3) \div 4 = s + (IF t = 0 THEN 0 ELSE 1)
  BY Cycle
<1> DEFINE n == 365 * (y - 979) + q * 8 + s + (IF t = 0 THEN 0 ELSE 1) - 1
<1>2. ASSUME NEW m \in 1 .. 12, NEW d \in 1 .. 31
      PROVE  JalaliDay(<<y, m, d>>) = n + JalaliBefore(m) + d
  BY <1>1 DEF JalaliDay, JalaliBefore
<1>3. n \in Int BY <1>1
<1> HIDE DEF n
<1> QED BY <1>2, <1>3

\* A day of a year is in the report of a month as its place in the year says.
LEMMA MonthOfDay ==
    ASSUME NEW y, NEW k, NEW d, JalaliDate(y, k, d), NEW m \in 1 .. 12
    PROVE  InRange(<<y, k, d>>, <<y, m, 1>>, <<y, m, 31>>)
             <=> k = m \/ (k = m + 1 /\ d <= 31 - JalaliLength(y, m))
<1>1. y \in Nat /\ k \in 1 .. 12 /\ d \in 1 .. 31 /\ d <= JalaliLength(y, k)
  BY DEF JalaliDate, JalaliLength
<1>2. TypedDate(y, k, d) /\ TypedDate(y, m, 1) /\ TypedDate(y, m, 31)
  BY <1>1 DEF TypedDate
<1>3. InRange(<<y, k, d>>, <<y, m, 1>>, <<y, m, 31>>)
        <=> /\ JalaliDay(<<y, m, 1>>) <= JalaliDay(<<y, k, d>>)
            /\ JalaliDay(<<y, k, d>>) <= JalaliDay(<<y, m, 31>>)
  BY <1>2, TypedCompare, SMTT(60) DEF InRange
<1>4. PICK n \in Int : \A i \in 1 .. 12, j \in 1 .. 31 :
                          JalaliDay(<<y, i, j>>) = n + JalaliBefore(i) + j
  BY <1>1, CountInYear, ZenonT(60)
<1>5. /\ JalaliDay(<<y, m, 1>>) = n + JalaliBefore(m) + 1
      /\ JalaliDay(<<y, m, 31>>) = n + JalaliBefore(m) + 31
      /\ JalaliDay(<<y, k, d>>) = n + JalaliBefore(k) + d
  <2>1. 1 \in 1 .. 31 /\ 31 \in 1 .. 31 OBVIOUS
  <2> QED BY <1>1, <1>4, <2>1
<1>6. JalaliBefore(m) \in Nat /\ JalaliBefore(k) \in Nat
  BY <1>1 DEF JalaliBefore
<1>7. InRange(<<y, k, d>>, <<y, m, 1>>, <<y, m, 31>>)
        <=> JalaliBefore(m) + 1 <= JalaliBefore(k) + d /\ JalaliBefore(k) + d <= JalaliBefore(m) + 31
  BY <1>1, <1>3, <1>5, <1>6
<1>8. JalaliBefore(m) + 1 <= JalaliBefore(k) + d <=> m <= k
  BY <1>1 DEF JalaliBefore, JalaliLength
<1>9. m <= k => (JalaliBefore(k) + d <= JalaliBefore(m) + 31
                   <=> k = m \/ (k = m + 1 /\ d <= 31 - JalaliLength(y, m)))
  <2>1. CASE k = m
    BY <1>1, <1>6, <2>1
  <2>2. CASE k = m + 1
    <3>1. JalaliBefore(k) = JalaliBefore(m) + JalaliLength(y, m) /\ JalaliLength(y, m) \in 29 .. 31
      BY <1>1, <2>2 DEF JalaliBefore, JalaliLength
    <3> QED BY <1>1, <1>6, <2>2, <3>1
  <2>3. CASE k > m + 1
    <3>1. JalaliBefore(k) >= JalaliBefore(m) + 60
      BY <1>1, <2>3 DEF JalaliBefore
    <3> QED BY <1>1, <1>6, <2>3, <3>1
  <2> QED BY <1>1, <2>1, <2>2, <2>3
<1> QED BY <1>1, <1>7, <1>8, <1>9

(***************************************************************************)
(* date_clause compares texts of Gregorian dates: the report of a Jalali   *)
(* month still has the days of the month in it, and besides them only the  *)
(* days of the next month that 31 days reach into.                         *)
(***************************************************************************)
THEOREM ReportHasItsMonth == CalendarSpec => []MonthReport
<1>1. SameDay => MonthReport
  <2> SUFFICES ASSUME SameDay, NEW m \in 1 .. 12
               PROVE  InRange(jalali, <<jalali[1], m, 1>>, <<jalali[1], m, 31>>) <=>
                        \/ jalali[2] = m
                        \/ jalali[2] = m + 1 /\ jalali[3] <= 31 - JalaliLength(jalali[1], m)
    BY DEF MonthReport
  <2>1. PICK jy, jm, jd : jalali = <<jy, jm, jd>> /\ JalaliDate(jy, jm, jd)
    BY DEF SameDay
  <2>2. InRange(<<jy, jm, jd>>, <<jy, m, 1>>, <<jy, m, 31>>)
          <=> jm = m \/ (jm = m + 1 /\ jd <= 31 - JalaliLength(jy, m))
    BY <2>1, MonthOfDay
  <2> QED BY <2>1, <2>2
<1> QED BY <1>1, SameDayFirst, SameDayTomorrow, PTL DEF CalendarSpec
=============================================================================
