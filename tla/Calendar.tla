------------------------------- MODULE Calendar -------------------------------
(***************************************************************************)
(* The part of JavaScript's UTC Date that packages/domain relies on, as    *)
(* whole days: a date is the number of days since 31 December of year 0.   *)
(* Months are numbered from 0, as getUTCMonth does.                        *)
(***************************************************************************)
EXTENDS Integers

Leap(y) == (y % 4 = 0 /\ y % 100 # 0) \/ y % 400 = 0
LeapsBefore(y) == ((y - 1) \div 4) - ((y - 1) \div 100) + ((y - 1) \div 400)

MonthLength(y, m) ==
  CASE m = 1 -> IF Leap(y) THEN 29 ELSE 28
    [] m \in {3, 5, 8, 10} -> 30
    [] OTHER -> 31

DaysBeforeMonth(y, m) ==
  LET common == <<0, 31, 59, 90, 120, 151, 181, 212, 243, 273, 304, 334>>[m + 1]
  IN IF m > 1 /\ Leap(y) THEN common + 1 ELSE common

\* Date.UTC(y, m, d): a month beyond 11 and a day beyond the month (0 included) carry over.
Utc(y, m, d) ==
  LET year == y + (m \div 12)
      month == m % 12
  IN 365 * (year - 1) + LeapsBefore(year) + DaysBeforeMonth(year, month) + d

YearOf(date) == CHOOSE y \in (date \div 366)..((date \div 365) + 1) : Utc(y, 0, 1) <= date /\ date < Utc(y + 1, 0, 1)
MonthOf(date) == LET y == YearOf(date) IN CHOOSE m \in 0..11 : Utc(y, m, 1) <= date /\ date < Utc(y, m + 1, 1)
DayOfMonth(date) == date - Utc(YearOf(date), MonthOf(date), 1) + 1

\* getUTCDay: 0 is Sunday.
DayOfWeek(date) == date % 7

FirstOfMonth(date) == Utc(YearOf(date), MonthOf(date), 1)
LastOfMonth(date) == Utc(YearOf(date), MonthOf(date) + 1, 0)
===============================================================================
