------------------------------ MODULE Calendar ------------------------------
(***************************************************************************)
(* Dates (payroll/jalali.py, without the optional jdatetime): a user types *)
(* a Jalali date, the program stores it with its Gregorian equivalent, and *)
(* reports select by the latter.                                           *)
(*                                                                         *)
(* The model is the passing of days.  The two calendars as they are, which *)
(* the conversions should agree with, are external; the Jalali leap years  *)
(* are those of the 33-year cycle.  A date is <<year, month, day>>.        *)
(***************************************************************************)
EXTENDS Integers

CONSTANTS
    FirstDays,  \* days to begin with: <<Gregorian date, Jalali date>>
    Years       \* bound: for so many Jalali years

VARIABLES gregorian, jalali, \* today
          first              \* the Jalali year of the first day

vars == <<gregorian, jalali, first>>

\* The two calendars.
GregorianLeap(y) == (y % 4 = 0 /\ y % 100 # 0) \/ y % 400 = 0
JalaliLeap(y)    == y % 33 \in {1, 5, 9, 13, 17, 22, 26, 30}

GregorianLength(y, m) ==
    IF m = 2 THEN IF GregorianLeap(y) THEN 29 ELSE 28 ELSE IF m \in {4, 6, 9, 11} THEN 30 ELSE 31

JalaliLength(y, m) ==
    IF m <= 6 THEN 31 ELSE IF m < 12 \/ JalaliLeap(y) THEN 30 ELSE 29

IsDate(date, Length(_, _)) ==
    date[2] \in 1 .. 12 /\ date[3] >= 1 /\ date[3] <= Length(date[1], date[2])

DayAfter(date, Length(_, _)) ==
    LET y == date[1]  m == date[2]  d == date[3] IN
      IF d < Length(y, m) THEN <<y, m, d + 1>>
      ELSE IF m < 12 THEN <<y, m + 1, 1>> ELSE <<y + 1, 1, 1>>

NextGregorian(date) == DayAfter(date, GregorianLength)
NextJalali(date)    == DayAfter(date, JalaliLength)

\* A day on which both calendars are known.
CalendarInit ==
    \E day \in FirstDays : gregorian = day[1] /\ jalali = day[2] /\ first = day[2][1]

\* The next day in both calendars, up to the bound.
Tomorrow ==
    /\ gregorian' = NextGregorian(gregorian)
    /\ jalali' = NextJalali(jalali)
    /\ jalali'[1] < first + Years
    /\ UNCHANGED first

CalendarSpec == CalendarInit /\ [][Tomorrow]_vars
-----------------------------------------------------------------------------
\* g_d_m: the days of a common year before each month.
DaysBefore == <<0, 31, 59, 90, 120, 151, 181, 212, 243, 273, 304, 334>>

\* The days of a year before a month.
Before(leap, m) == DaysBefore[m] + (IF leap /\ m > 2 THEN 1 ELSE 0)

\* _g2j's g_day_no: days since 1 January 1600.
GregorianDay(date) ==
    LET y == date[1] - 1600 IN
      365 * y + (y + 3) \div 4 - (y + 99) \div 100 + (y + 399) \div 400
        + Before(GregorianLeap(date[1]), date[2]) + date[3] - 1

\* 1461, 12053, 36524 and 146097 days.
DaysOf4   == 4 * 365 + 1
DaysOf33  == 33 * 365 + 8
DaysOf100 == 100 * 365 + 24
DaysOf400 == 400 * 365 + 97

\* The rest of _g2j: 33-year cycles, four years (the first has a day more), years, months.
JalaliOf(n) ==
    LET r    == (n % DaysOf33) % DaysOf4
        year == 979 + 33 * (n \div DaysOf33) + 4 * ((n % DaysOf33) \div DaysOf4)
                  + (IF r >= 366 THEN (r - 1) \div 365 ELSE 0)
        day  == IF r >= 366 THEN (r - 1) % 365 ELSE r
    IN  IF day < 186 THEN <<year, 1 + day \div 31, 1 + (day % 31)>>
        ELSE <<year, 7 + (day - 186) \div 30, 1 + ((day - 186) % 30)>>

g2j(date) == JalaliOf(GregorianDay(date) - 79)

\* _j2g's j_day_no: months of 31 days, then of 30.
JalaliDay(date) ==
    LET y == date[1] - 979  m == date[2] - 1 IN
      365 * y + (y \div 33) * 8 + ((y % 33) + 3) \div 4
        + 30 * m + (IF m <= 6 THEN m ELSE 6) + date[3] - 1

\* The date that is so many days into a year: the loop over g_days_in_month.
DayOfYear(year, leap, day) ==
    LET month == CHOOSE m \in 1 .. 12 :
                    Before(leap, m) <= day /\ (m < 12 => day < Before(leap, m + 1))
    IN  <<year, month, day - Before(leap, month) + 1>>

\* Of four centuries the first has a day more: the day in its century.
InCentury(in400) == IF in400 <= DaysOf100 THEN in400 ELSE (in400 - 1) % DaysOf100

\* What if the first day of 2101 were counted to 2100.
BeginsLeapLate(in400) == in400 <= DaysOf100 \/ InCentury(in400) > 365

\* The other three begin with a common year; all other four years begin with a leap year.
BeginsLeap(in400) == in400 <= DaysOf100 \/ InCentury(in400) >= 365

\* From there on a century is made of four years of which the first is a leap year.
Padded(in400) ==
    IF in400 > DaysOf100 /\ BeginsLeap(in400) THEN InCentury(in400) + 1 ELSE InCentury(in400)

\* The rest of _j2g, from the days since 1 January 1600.
GregorianOf(n) ==
    LET in400 == n % DaysOf400
        in4   == Padded(in400) % DaysOf4
        year  == 1600 + 400 * (n \div DaysOf400) + 4 * (Padded(in400) \div DaysOf4)
                   + (IF in400 <= DaysOf100 THEN 0 ELSE 100 * ((in400 - 1) \div DaysOf100))
    IN  IF in4 < 366 THEN DayOfYear(year, BeginsLeap(in400), in4)
        ELSE DayOfYear(year + (in4 - 1) \div 365, FALSE, (in4 - 1) % 365)

j2g(date) == GregorianOf(JalaliDay(date) + 79)

ASSUME FirstDaysAssumption ==
    /\ FirstDays \subseteq (Nat \X Nat \X Nat) \X (Nat \X Nat \X Nat)
    /\ \A day \in FirstDays :
          /\ IsDate(day[1], GregorianLength) /\ IsDate(day[2], JalaliLength)
          /\ GregorianDay(day[1]) = JalaliDay(day[2]) + 79

ASSUME YearsAssumption == Years \in Nat

\* What if 32 were let through as a day.
NormalizedTo32(y, m, d) == 1 <= m /\ m <= 12 /\ 1 <= d /\ d <= 32 /\ y > 0

\* normalize_jalali: the numbers that are taken for a date, day 31 in every month.
Normalized(y, m, d) == 1 <= m /\ m <= 12 /\ 1 <= d /\ d <= 31 /\ y > 0

\* "%04d/%02d/%02d" and isoformat(), of which SQLite compares the text.
Text(date) == 10000 * date[1] + 100 * date[2] + date[3]

\* What if the last day of a report were left out.
InRangeOpen(date, from, to) == Text(j2g(from)) <= Text(j2g(date)) /\ Text(j2g(date)) < Text(j2g(to))

\* date_clause: is something of this date in the report from one date to the other?
InRange(date, from, to) == Text(j2g(from)) <= Text(j2g(date)) /\ Text(j2g(date)) <= Text(j2g(to))
-----------------------------------------------------------------------------
\* The two conversions agree with the calendars, and so with each other.
ConvertsBothWays == g2j(gregorian) = jalali /\ j2g(jalali) = gregorian

\* Whatever day of the month is typed, if it is accepted its Gregorian equivalent is a
\* date (datetime.date would raise, and the record would be left out of every report),
\* the day itself or one of the first two of the next month.
TypedAreDates ==
    \A d \in 1 .. 40 : Normalized(jalali[1], jalali[2], d) =>
        LET g == j2g(<<jalali[1], jalali[2], d>>)  over == d - JalaliLength(jalali[1], jalali[2]) IN
          /\ g[2] \in 1 .. 12 /\ g[3] \in 1 .. GregorianLength(g[1], g[2])
          /\ over <= 2
          /\ LET j == g2j(g) IN
               IF over <= 0 THEN j = <<jalali[1], jalali[2], d>>
                            ELSE j[2] = (jalali[2] % 12) + 1 /\ j[3] = over

(***************************************************************************)
(* A report from the first to the 31st of a month has today in it exactly  *)
(* when today is of that month, or is one of the days at the beginning of  *)
(* the next by which the month is shorter than 31.                         *)
(***************************************************************************)
MonthReport ==
    \A m \in 1 .. 12 :
       InRange(jalali, <<jalali[1], m, 1>>, <<jalali[1], m, 31>>) <=>
         \/ jalali[2] = m
         \/ jalali[2] = m + 1 /\ jalali[3] <= 31 - JalaliLength(jalali[1], m)
=============================================================================
