---------------------------- MODULE FiscalCalendar ----------------------------
(***************************************************************************)
(* The fiscal catalogue and what the resolver makes of an entry of it for  *)
(* one year: its periods, their deadlines, and the shift of a deadline to  *)
(* a business day (packages/domain/src/obligations).                       *)
(*                                                                         *)
(* The loops are actions: a turn of generatePeriods' for, then the turns   *)
(* of nextBusinessDay's while for the period it found.  Once an entry is   *)
(* resolved, days pass and groupByUrgency sorts its deadlines again.       *)
(***************************************************************************)
EXTENDS Calendar, FiscalCatalogue

CONSTANTS FirstYear, LastYear,   \* the years whose obligations are resolved
          LastWatched            \* how many days after 1 January groupByUrgency is called

ASSUME FiscalYearsAssumption ==
  FirstYear \in Nat /\ LastYear \in Nat /\ FirstYear >= 2023 /\ FirstYear <= LastYear

VARIABLES
  entry,      \* the entry being resolved
  year,       \* the calendar year it is resolved for
  cursor,     \* months of the year the loop has passed
  candidate,  \* the deadline nextBusinessDay is moving, 0 between two periods
  periods,    \* the periods found, each with its statutory and its final deadline
  today       \* the day groupByUrgency is called on, 0 before

fiscalVars == <<entry, year, cursor, candidate, periods, today>>

-------------------------------------------------------------------------------
(* holidays.ts *)

FixedHolidays == {<<1, 1>>, <<4, 25>>, <<5, 1>>, <<6, 10>>, <<8, 15>>,
                  <<10, 5>>, <<11, 1>>, <<12, 1>>, <<12, 8>>, <<12, 25>>}

\* Variant: without the correction of the moon's orbit.
EasterUncorrected(y) ==
  LET a == y % 19
      b == y \div 100
      c == y % 100
      h == (19 * a + b - (b \div 4) + 15) % 30
      l == (32 + 2 * (b % 4) + 2 * (c \div 4) - h - (c % 4)) % 7
      m == (a + 11 * h + 22 * l) \div 451
      n == h + l - 7 * m + 114
  IN Utc(y, (n \div 31) - 1, (n % 31) + 1)

\* easterSunday: the Meeus/Jones/Butcher algorithm.
EasterSunday(y) ==
  LET a == y % 19
      b == y \div 100
      c == y % 100
      f == (b + 8) \div 25
      g == (b - f + 1) \div 3
      h == (19 * a + b - (b \div 4) - g + 15) % 30
      l == (32 + 2 * (b % 4) + 2 * (c \div 4) - h - (c % 4)) % 7
      m == (a + 11 * h + 22 * l) \div 451
      n == h + l - 7 * m + 114
  IN Utc(y, (n \div 31) - 1, (n % 31) + 1)

MovableHolidays(y) == {EasterSunday(y) - 2, EasterSunday(y) + 60}

IsPublicHoliday(date) ==
  \/ <<MonthOf(date) + 1, DayOfMonth(date)>> \in FixedHolidays
  \/ date \in MovableHolidays(YearOf(date))

IsWeekend(date) == DayOfWeek(date) \in {0, 6}

-------------------------------------------------------------------------------
(* resolver.ts *)

MonthsPerPeriod(periodicity) == CASE periodicity = "MONTHLY" -> 1 [] periodicity = "QUARTERLY" -> 3
                                  [] periodicity = "ANNUAL" -> 12

\* Variant: the months wrap around within the year.
AddMonthsInYear(end, months, day) == Utc(YearOf(end), (MonthOf(end) + months) % 12, day)

AddMonthsAndSetDay(end, months, day) == Utc(YearOf(end), MonthOf(end) + months, day)
LastDayOfMonthsAfter(end, months)    == Utc(YearOf(end), MonthOf(end) + months + 1, 0)

\* Variant: the year offset of a fixed date is counted backwards.
RawDueDateBackwards(deadline, end) ==
  CASE deadline.kind = "dayOfMonthAfterPeriodEnd"     -> AddMonthsAndSetDay(end, deadline.months, deadline.day)
    [] deadline.kind = "lastDayOfMonthAfterPeriodEnd" -> LastDayOfMonthsAfter(end, deadline.months)
    [] deadline.kind = "fixedDate"                    -> Utc(YearOf(end) - deadline.years, deadline.month - 1, deadline.day)

RawDueDate(deadline, end) ==
  CASE deadline.kind = "dayOfMonthAfterPeriodEnd"     -> AddMonthsAndSetDay(end, deadline.months, deadline.day)
    [] deadline.kind = "lastDayOfMonthAfterPeriodEnd" -> LastDayOfMonthsAfter(end, deadline.months)
    [] deadline.kind = "fixedDate"                    -> Utc(YearOf(end) + deadline.years, deadline.month - 1, deadline.day)

FiscalInit ==
  /\ entry \in FiscalCatalog
  /\ year \in FirstYear..LastYear
  /\ cursor = 0 /\ candidate = 0 /\ periods = <<>> /\ today = 0

\* Variant: the loop does not stop at the end of the year.
NextPeriodForever ==
  /\ today = 0 /\ candidate = 0 /\ cursor <= 24
  /\ LET end == Utc(year, cursor + MonthsPerPeriod(entry.periodicity), 0)
     IN /\ candidate' = RawDueDate(entry.deadline, end)
        /\ periods' = Append(periods, [start |-> Utc(year, cursor, 1), end |-> end, raw |-> candidate', due |-> 0])
  /\ cursor' = cursor + MonthsPerPeriod(entry.periodicity)
  /\ UNCHANGED <<entry, year, today>>

\* Variant: a period ends on the first day of the next.
NextPeriodTouching ==
  /\ today = 0 /\ candidate = 0
  /\ LET start == Utc(year, cursor, 1)
         end == Utc(year, cursor + MonthsPerPeriod(entry.periodicity), 1)
     IN /\ start <= Utc(year, 11, 31)
        /\ candidate' = RawDueDate(entry.deadline, end)
        /\ periods' = Append(periods, [start |-> start, end |-> end, raw |-> candidate', due |-> 0])
  /\ cursor' = cursor + MonthsPerPeriod(entry.periodicity)
  /\ UNCHANGED <<entry, year, today>>

\* A turn of the period loop, which runs from 1 January to 31 December of the year.
NextPeriod ==
  /\ today = 0 /\ candidate = 0
  /\ LET start == Utc(year, cursor, 1)
         end == Utc(year, cursor + MonthsPerPeriod(entry.periodicity), 0)
     IN /\ start <= Utc(year, 11, 31)
        /\ candidate' = RawDueDate(entry.deadline, end)
        /\ periods' = Append(periods, [start |-> start, end |-> end, raw |-> candidate', due |-> 0])
  /\ cursor' = cursor + MonthsPerPeriod(entry.periodicity)
  /\ UNCHANGED <<entry, year, today>>

\* Variant: a holiday counts as a business day.
ShiftPastWeekend ==
  /\ candidate # 0
  /\ IF IsWeekend(candidate)
     THEN candidate' = candidate + 1 /\ UNCHANGED periods
     ELSE /\ periods' = [periods EXCEPT ![Len(periods)].due = candidate]
          /\ candidate' = 0
  /\ UNCHANGED <<entry, year, cursor, today>>

\* A turn of nextBusinessDay's loop, or its end.
ShiftDeadline ==
  /\ candidate # 0
  /\ IF IsWeekend(candidate) \/ IsPublicHoliday(candidate)
     THEN candidate' = candidate + 1 /\ UNCHANGED periods
     ELSE /\ periods' = [periods EXCEPT ![Len(periods)].due = candidate]
          /\ candidate' = 0
  /\ UNCHANGED <<entry, year, cursor, today>>

Resolved == candidate = 0 /\ Utc(year, cursor, 1) > Utc(year, 11, 31)

PassDay ==
  /\ Resolved
  /\ today' = IF today = 0 THEN Utc(year, 0, 1) ELSE today + 1
  /\ today' <= Utc(year, 0, 1) + LastWatched
  /\ UNCHANGED <<entry, year, cursor, candidate, periods>>

FiscalNext == NextPeriod \/ ShiftDeadline \/ PassDay
FiscalSpec == FiscalInit /\ [][FiscalNext]_fiscalVars

\* groupByUrgency: the group of a deadline on a day, from the most urgent on.
Groups == <<"overdue", "thisWeek", "thisMonth", "later">>
\* Variant: the month is looked at before the week.
GroupOfMonthFirst(due, day) ==
  CASE due < day -> 1
    [] due >= day /\ due <= LastOfMonth(day) -> 3
    [] due > LastOfMonth(day) /\ due < day + 7 -> 2
    [] OTHER -> 4

GroupOf(due, day) ==
  CASE due < day -> 1
    [] due >= day /\ due < day + 7 -> 2
    [] due >= day + 7 /\ due <= LastOfMonth(day) -> 3
    [] OTHER -> 4

-------------------------------------------------------------------------------
(* Properties *)

FiscalTypeOK ==
  /\ entry \in FiscalCatalog /\ year \in FirstYear..LastYear /\ cursor \in 0..12
  /\ candidate \in Nat /\ today \in Nat
  /\ periods \in Seq([start: Nat, end: Nat, raw: Nat, due: Nat])

Dues == {i \in DOMAIN periods : periods[i].due # 0}

\* The shift of resolveDueDate moves a deadline to the first business day from it
\* on, whatever mix of weekends, fixed and movable holidays and year ends is in between.
Business(d) == ~IsWeekend(d) /\ ~IsPublicHoliday(d)
FirstBusinessDay ==
  \A i \in Dues : LET p == periods[i]
                  IN Business(p.due) /\ \A d \in p.raw..(p.due - 1) : ~Business(d)

\* The comment in generate (obligations.service.ts:80): no deadline falls before
\* 1 January of its own period's year, so a generation needs no lookahead.
NoDeadlineBeforeItsYear == \A i \in Dues : periods[i].due >= Utc(year, 0, 1)

\* Deadlines of successive periods never meet or overtake each other, although
\* each is shifted on its own.
DeadlinesInOrder == \A i, j \in Dues : i < j => periods[i].due < periods[j].due

\* The periods of a year leave no day of it out and share none (the unique key of
\* an instance is its first day).
PeriodsTileTheYear ==
  /\ \A i \in DOMAIN periods : periods[i].start =
       IF i = 1 THEN Utc(year, 0, 1) ELSE periods[i - 1].end + 1
  /\ Resolved => periods[Len(periods)].end = Utc(year, 11, 31)

\* Easter by the tables of the church (golden number, epact, the Sunday after the
\* paschal full moon), a reference for easterSunday.
PaschalEaster(y) ==
  LET golden == (y % 19) + 1
      century == (y \div 100) + 1
      x == ((3 * century) \div 4) - 12
      z == ((8 * century + 5) \div 25) - 5
      e == (11 * golden + 20 + z - x) % 30
      epact == IF e = 24 \/ (e = 25 /\ golden > 11) THEN e + 1 ELSE e
      moon == Utc(y, 2, IF 44 - epact < 21 THEN 74 - epact ELSE 44 - epact)
  IN CHOOSE d \in (moon + 1)..(moon + 7) : DayOfWeek(d) = 0
EasterIsPaschal == EasterSunday(year) = PaschalEaster(year)

\* As days pass an obligation only gets more urgent on the dashboard: the week
\* that runs past the end of a month does not make one fall back.
UrgencyOnlyGrows ==
  [][today # 0 => \A i \in DOMAIN periods : GroupOf(periods[i].due, today') <= GroupOf(periods[i].due, today)]_fiscalVars
===============================================================================
