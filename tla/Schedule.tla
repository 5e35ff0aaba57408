------------------------------ MODULE Schedule ------------------------------
(* recurring/schedule.py: the due dates of a recurring bill.  A date is its  *)
(* month, counted from year 0, and its day.  Payments fall due in Singapore, *)
(* which keeps one offset all year, so a local time is a time.               *)
EXTENDS Integers, Sequences

CONSTANT UtcOffset           \* seconds the time zone is ahead of UTC

ReviewDays == 3              \* REVIEW_DAYS
Frequencies == {"WEEKLY", "MONTHLY"}

Year(month) == month \div 12
Leap(y) == y % 4 = 0 /\ (y % 100 # 0 \/ y % 400 = 0)
DaysIn(month) ==             \* calendar.monthrange
  CASE month % 12 = 1 -> IF Leap(Year(month)) THEN 29 ELSE 28
    [] month % 12 \in {3, 5, 8, 10} -> 30
    [] OTHER -> 31

IsDate(d) == d.month \in Nat /\ d.day \in 1 .. DaysIn(d.month)

\* Days from the start of its year to the first of each month, January first.
Before == <<0, 31, 59, 90, 120, 151, 181, 212, 243, 273, 304, 334>>

\* date.toordinal(), from the first of January of year 0.
DayNumber(d) ==
  LET y == Year(d.month)
      leaps == IF y = 0 THEN 0 ELSE 1 + ((y - 1) \div 4) - ((y - 1) \div 100) + ((y - 1) \div 400)
  IN 365 * y + leaps + Before[1 + (d.month % 12)]
       + (IF Leap(y) /\ d.month % 12 > 1 THEN 1 ELSE 0) + d.day - 1

Clamped(month, day) == [month |-> month, day |-> IF day > DaysIn(month) THEN DaysIn(month) ELSE day]

\* _month_add(): the same day of a later month, or its last.
MonthAdd(d, months, anchor) == Clamped(d.month + months, anchor)

\* timedelta: a date a week or less later.
PlusDays(d, n) ==
  IF d.day + n <= DaysIn(d.month) THEN [month |-> d.month, day |-> d.day + n]
  ELSE [month |-> d.month + 1, day |-> d.day + n - DaysIn(d.month)]

WeeklyFrom(start, count) ==
  LET due[i \in 1 .. count] == IF i = 1 THEN start ELSE PlusDays(due[i - 1], 7)
  IN due

OccurrenceDatesDrift(frequency, start, count) ==   \* mutant: each month from the one before
  IF frequency = "WEEKLY" THEN WeeklyFrom(start, count)
  ELSE LET due[i \in 1 .. count] ==
             IF i = 1 THEN start ELSE MonthAdd(due[i - 1], 1, due[i - 1].day)
       IN due
\* occurrence_dates(): a short month does not move the months after it.
OccurrenceDates(frequency, start, count) ==
  IF frequency = "WEEKLY" THEN WeeklyFrom(start, count)
  ELSE [i \in 1 .. count |-> MonthAdd(start, i - 1, start.day)]

\* count_until(): the due dates on or before end, counted to limit + 1.
CountUntil(frequency, start, end, limit) ==
  LET due == OccurrenceDates(frequency, start, limit + 1)
      After(n) == DayNumber(due[n]) > DayNumber(end)
  IN IF \E n \in 1 .. limit + 1 : After(n)
     THEN CHOOSE n \in 0 .. limit : After(n + 1) /\ \A k \in 1 .. n : ~After(k)
     ELSE limit + 1

Day == 86400
UnixDay(d)     == DayNumber(d) - 719528                            \* from 1 January 1970
DueAt(d)       == UnixDay(d) * Day + 9 * 3600 - UtcOffset          \* DUE_LOCAL_TIME
DayEnd(d)      == (UnixDay(d) + 1) * Day - 1 - UtcOffset
ReviewUntil(d) == DayEnd(d) + ReviewDays * Day
=============================================================================
