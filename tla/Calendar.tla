------------------------------ MODULE Calendar ------------------------------
(***************************************************************************)
(* Dates as libs/zbxcommon/misc.c computes them, and the two library       *)
(* functions it leans on: localtime and mktime of a zone that is one hour  *)
(* ahead of UTC from SummerStart until SummerEnd, and at UTC otherwise.    *)
(* A date is a struct tm with the year and the month in full.              *)
(***************************************************************************)
EXTENDS Integers, FiniteSetsExt

CONSTANTS SummerStart, SummerEnd    \* instants, whole minutes

Minute == 60
Hour == 3600
Day == 24 * Hour
Year == 365 * Day                   \* SEC_PER_YEAR

IsLeapYear(year) == year % 4 = 0 /\ (year % 100 # 0 \/ year % 400 = 0)

DayInMonth(year, mon) ==
  CASE mon = 2 -> IF IsLeapYear(year) THEN 29 ELSE 28
    [] mon \in {4, 6, 9, 11} -> 30
    [] mon \in {1, 3, 5, 7, 8, 10, 12} -> 31
    [] OTHER -> 30

LeapYears(year) == ((year - 1) \div 4) - ((year - 1) \div 100) + ((year - 1) \div 400)

MonthDay == <<0, 31, 59, 90, 120, 151, 181, 212, 243, 273, 304, 334>>

IsTime(tm) == tm.hour \in 0 .. 23 /\ tm.min \in 0 .. 59 /\ tm.sec \in 0 .. 61

\* The dates zbx_utc_time accepts.
IsUtcTime(tm) ==
  /\ tm.year >= 1970
  /\ tm.mon \in 1 .. 12
  /\ tm.mday \in 1 .. DayInMonth(tm.year, tm.mon)
  /\ IsTime(tm)

\* What it returns for them.
UtcTime(tm) ==
  LET leap == LeapYears(IF tm.mon > 2 THEN tm.year + 1 ELSE tm.year) - LeapYears(1970)
  IN  (tm.year - 1970) * Year + leap * Day + (MonthDay[tm.mon] + tm.mday - 1) * Day
        + tm.hour * Hour + tm.min * Minute + tm.sec

\* Monday is 1, Sunday is 7.
CalculateDayOfWeek(year, mon, mday) ==
  LET table == <<0, 3, 2, 5, 0, 3, 5, 1, 4, 6, 2, 4>>
      y == IF mon < 3 THEN year - 1 ELSE year
  IN  ((y + (y \div 4) - (y \div 100) + (y \div 400) + table[mon] + mday - 1) % 7) + 1

DayOfWeek(tm) == CalculateDayOfWeek(tm.year, tm.mon, tm.mday)

\* zbx_scheduler_tm_inc: one second later, by the fields.
TmInc(tm) ==
  IF tm.sec < 59 THEN [tm EXCEPT !.sec = @ + 1]
  ELSE IF tm.min < 59 THEN [tm EXCEPT !.sec = 0, !.min = @ + 1]
  ELSE LET hour == [tm EXCEPT !.sec = 0, !.min = 0, !.hour = @ + 1]
           day == [hour EXCEPT !.hour = 0, !.mday = @ + 1]
           month == [day EXCEPT !.mday = 1, !.mon = @ + 1]
       IN  IF hour.hour < 24 THEN hour
           ELSE IF day.mday <= DayInMonth(day.year, day.mon) THEN day
           ELSE IF month.mon <= 12 THEN month
           ELSE [month EXCEPT !.mon = 1, !.year = @ + 1]

-----------------------------------------------------------------------------
(* The C library, as the code uses it. *)

IsDst(t) == SummerStart <= t /\ t < SummerEnd

Offset(isdst) == IF isdst THEN Hour ELSE 0

Midnight(year, mon, mday) ==
  UtcTime([year |-> year, mon |-> mon, mday |-> mday, hour |-> 0, min |-> 0, sec |-> 0])

\* The fields of an instant.
LocalTime(t) ==
  LET local == t + Offset(IsDst(t))
      about == 1970 + (local \div Year)      \* this year, or a little too late
      Month(year) == Max({m \in 1 .. 12 : Midnight(year, m, 1) <= local})
      Fields(year, mon, rest) ==
        [year |-> year, mon |-> mon, mday |-> (rest \div Day) + 1,
         hour |-> (rest % Day) \div Hour, min |-> (rest % Hour) \div Minute,
         sec |-> rest % Minute, isdst |-> IsDst(t)]
      InMonth(year, mon) == Fields(year, mon, local - Midnight(year, mon, 1))
      InYear(year) == InMonth(year, Month(year))
  IN  InYear(Max({y \in about - 1 .. about : Midnight(y, 1, 1) <= local}))

\* Fields beyond their range are carried; isdst says which offset they are in.
MkTime(tm) ==
  Midnight(tm.year, tm.mon, 1) + (tm.mday - 1) * Day + tm.hour * Hour + tm.min * Minute
    + tm.sec - Offset(tm.isdst)
=============================================================================
