---------------------------- MODULE ItemSchedule ----------------------------
(***************************************************************************)
(* When an item is checked next: the scheduling and flexible intervals of  *)
(* libs/zbxcommon/misc.c.                                                  *)
(*                                                                         *)
(* A filter is a sequence of ranges [start, end, step], <<>> for none.  A  *)
(* scheduling interval has a filter per unit and the level of its last     *)
(* one; a flexible interval has a period of days and seconds and a delay.  *)
(***************************************************************************)
EXTENDS Calendar, Sequences, SequencesExt

CONSTANT Horizon    \* how far ahead a check is looked for: SEC_PER_YEAR

DayLevel == 1
HourLevel == 2
MinuteLevel == 3
SecondLevel == 4

Nowhere == -1
Jan2038 == 2145916800

\* The value of a range at or after v, one step being v itself.
Stepped(range, v) == v + ((range.start - v) % range.step)

Hits(range, v) == range.start <= v /\ v <= range.end /\ Stepped(range, v) <= range.end

\* Mutant: the range that contains the value is not stepped through.
NearestStart(filter, v) ==
  LET hits == {i \in DOMAIN filter : Hits(filter[i], v)}
      later == {filter[i].start : i \in {j \in DOMAIN filter : filter[j].start > v}}
  IN  IF hits # {} THEN v ELSE IF later # {} THEN Min(later) ELSE Nowhere

\* scheduler_get_nearest_filter_value: the first range of the chain that has
\* the value or a step after it, else the next start.
NearestFilterValue(filter, v) ==
  LET hits == {i \in DOMAIN filter : Hits(filter[i], v)}
      later == {filter[i].start : i \in {j \in DOMAIN filter : filter[j].start > v}}
  IN  IF hits # {} THEN Stepped(filter[Min(hits)], v)
      ELSE IF later # {} THEN Min(later)
      ELSE Nowhere

Found(tm) == [ok |-> TRUE, tm |-> tm]
NotFound(tm) == [ok |-> FALSE, tm |-> tm]

\* The month's length is asked of the year 70 years later.
FitsMonth(tm) == tm.mday <= DayInMonth(tm.year + 70, tm.mon)

\* scheduler_get_wday_nextcheck: this week, or the first such day of the next.
WdayNextCheck(interval, tm) ==
  LET now == DayOfWeek(tm)
      this == NearestFilterValue(interval.wdays, now)
      next == NearestFilterValue(interval.wdays, 1)
      moved == IF this # Nowhere
               THEN [tm EXCEPT !.mday = @ + this - now]
               ELSE [tm EXCEPT !.mday = @ + 7 - now + next]
  IN  IF interval.wdays = <<>> THEN Found(tm)
      ELSE [ok |-> FitsMonth(moved), tm |-> moved]

\* Mutant: a day of the month is taken whatever day of the week it is.
AnyWday(interval, tm) == TRUE

\* scheduler_validate_wday_filter: a range that has the day, or a later one.
ValidWday(interval, tm) ==
  interval.wdays = <<>> \/ \E i \in DOMAIN interval.wdays : Hits(interval.wdays[i], DayOfWeek(tm))

\* scheduler_get_day_nextcheck.
RECURSIVE MdayNextCheck(_, _)
MdayNextCheck(interval, tm) ==
  LET mday == NearestFilterValue(interval.mdays, tm.mday)
      at == [tm EXCEPT !.mday = mday]
      after == [at EXCEPT !.mday = @ + 1]
  IN  IF mday = Nowhere THEN NotFound(tm)
      ELSE IF ~FitsMonth(at) THEN NotFound(at)
      ELSE IF ValidWday(interval, at) THEN Found(at)
      ELSE IF ~FitsMonth(after) THEN NotFound(after)
      ELSE MdayNextCheck(interval, after)

DayNextCheck(interval, tm) ==
  IF ~IsUtcTime(tm) THEN NotFound(tm)
  ELSE IF interval.mdays = <<>> THEN WdayNextCheck(interval, tm)
  ELSE MdayNextCheck(interval, tm)

\* scheduler_get_filter_nextcheck for a unit of the time of day: its next
\* value, without a filter any value above the interval's level, 0 below it.
UnitNextCheck(interval, level, filter, max, v) ==
  IF v > max THEN Nowhere
  ELSE IF filter # <<>> THEN NearestFilterValue(filter, v)
  ELSE IF interval.level > level \/ v = 0 THEN v
  ELSE Nowhere

\* scheduler_apply_day_filter: month by month; another day starts at 0:00:00.
RECURSIVE SeekDay(_, _)
SeekDay(interval, tm) ==
  LET next == DayNextCheck(interval, tm)
  IN  IF next.ok THEN next.tm
      ELSE IF tm.mon = 12
      THEN SeekDay(interval, [tm EXCEPT !.mday = 1, !.mon = 1, !.year = @ + 1])
      ELSE SeekDay(interval, [tm EXCEPT !.mday = 1, !.mon = @ + 1])

ApplyDay(interval, tm) ==
  LET Started(day) ==
        IF <<day.year, day.mon, day.mday>> = <<tm.year, tm.mon, tm.mday>> THEN day
        ELSE [day EXCEPT !.hour = 0, !.min = 0, !.sec = 0]
  IN  Started(SeekDay(interval, tm))

\* scheduler_apply_hour_filter, minute and second: a unit without a value left
\* carries into the one above, whose filter is applied again.
RECURSIVE SeekHour(_, _)
SeekHour(interval, tm) ==
  LET hour == UnitNextCheck(interval, HourLevel, interval.hours, 23, tm.hour)
  IN  IF hour # Nowhere THEN [tm EXCEPT !.hour = hour]
      ELSE SeekHour(interval, ApplyDay(interval, [tm EXCEPT !.mday = @ + 1, !.hour = 0]))

ApplyHour(interval, tm) ==
  LET Started(hour) ==
        IF hour.hour = tm.hour THEN hour ELSE [hour EXCEPT !.min = 0, !.sec = 0]
  IN  Started(SeekHour(interval, tm))

RECURSIVE SeekMinute(_, _)
SeekMinute(interval, tm) ==
  LET min == UnitNextCheck(interval, MinuteLevel, interval.minutes, 59, tm.min)
  IN  IF min # Nowhere THEN [tm EXCEPT !.min = min]
      ELSE SeekMinute(interval, ApplyHour(interval, [tm EXCEPT !.hour = @ + 1, !.min = 0]))

ApplyMinute(interval, tm) ==
  LET Started(minute) == IF minute.min = tm.min THEN minute ELSE [minute EXCEPT !.sec = 0]
  IN  Started(SeekMinute(interval, tm))

RECURSIVE ApplySecond(_, _)
ApplySecond(interval, tm) ==
  LET sec == UnitNextCheck(interval, SecondLevel, interval.seconds, 59, tm.sec)
  IN  IF sec # Nowhere THEN [tm EXCEPT !.sec = sec]
      ELSE ApplySecond(interval, ApplyMinute(interval, [tm EXCEPT !.min = @ + 1, !.sec = 0]))

ApplyFilters(interval, tm) ==
  ApplySecond(interval, ApplyMinute(interval, ApplyHour(interval, ApplyDay(interval, tm))))

\* scheduler_find_dst_change: halving to the first minute of the other offset.
RECURSIVE FindDstChange(_, _, _)
FindDstChange(start, end, dst) ==
  LET mid == (start + end) \div 2
  IN  IF end <= start + 1 THEN end * Minute
      ELSE IF IsDst(mid * Minute) = dst THEN FindDstChange(mid, end, dst)
      ELSE FindDstChange(start, mid, dst)

\* The static time_dst: the change the last search found is taken again if it is between.
NotSearched == 0
DstChange(now, first, timeDst) ==
  IF timeDst < now \/ timeDst > first
  THEN FindDstChange(now \div Minute, first \div Minute, IsDst(now))
  ELSE timeDst

\* The next instant of one interval; past a change of offset it is sought again
\* from the change on.
IntervalNextCheck(interval, now, timeDst) ==
  LET Instant(tm, dst) == MkTime([ApplyFilters(interval, tm) EXCEPT !.isdst = dst])
      Past(change, first) == [at |-> Instant(LocalTime(change), IsDst(first)), timeDst |-> change]
      Settled(first) ==
        IF IsDst(first) = IsDst(now) THEN [at |-> first, timeDst |-> timeDst]
        ELSE Past(DstChange(now, first, timeDst), first)
  IN  Settled(Instant(TmInc(LocalTime(now)), IsDst(now)))

\* scheduler_get_nextcheck: 0 without intervals.
SchedulerNextCheck(intervals, now, timeDst) ==
  LET With(checks, check) == [at |-> checks.at \cup {check.at}, timeDst |-> check.timeDst]
      Next(checks, interval) == With(checks, IntervalNextCheck(interval, now, checks.timeDst))
  IN  IF intervals = <<>> THEN 0
      ELSE Min(FoldLeft(Next, [at |-> {}, timeDst |-> timeDst], intervals).at)

-----------------------------------------------------------------------------
(* Flexible intervals *)

TimeOfDay(tm) == Hour * tm.hour + Minute * tm.min + tm.sec

CheckTimePeriod(period, tm) ==
  /\ DayOfWeek(tm) \in period.startDay .. period.endDay
  /\ period.startTime <= TimeOfDay(tm) /\ TimeOfDay(tm) < period.endTime

CurrentDelay(default, flexible, t) ==
  LET now == {i \in DOMAIN flexible : CheckTimePeriod(flexible[i].period, LocalTime(t))}
  IN  IF now = {} THEN default ELSE Min({flexible[i].delay : i \in now})

\* Seconds from the start of the day until the period starts or ends next.
NextChange(p, day, time) ==
  IF day \in p.startDay .. p.endDay /\ time < p.endTime
  THEN IF time < p.startTime THEN p.startTime ELSE p.endTime
  ELSE IF day < p.endDay
  THEN Day * (IF day < p.startDay THEN p.startDay - day ELSE 1) + p.startTime
  ELSE Day * (p.startDay + 7 - day) + p.startTime

\* get_next_delay_interval: 0 without intervals.
NextDelayInterval(flexible, t) ==
  LET tm == LocalTime(t)
      time == TimeOfDay(tm)
  IN  IF flexible = <<>> THEN 0
      ELSE t - time + Min({NextChange(flexible[i].period, DayOfWeek(tm), time) :
                             i \in DOMAIN flexible})

\* The first seed of the delay after t; in a later interval t itself may be it.
SeedAfter(seed, delay, t, attempt) ==
  LET at == delay * (t \div delay) + (seed % delay)
      from == IF attempt = 0 THEN t + 1 ELSE t
  IN  at + (IF at >= from THEN 0 ELSE delay * ((from - at + delay - 1) \div delay))

\* The loop of calculate_item_nextcheck over the intervals up to the horizon.
RECURSIVE FlexibleNextCheck(_, _, _, _, _, _)
FlexibleNextCheck(seed, simple, flexible, t, tmax, attempt) ==
  LET delay == CurrentDelay(simple, flexible, t)
      check == IF delay = 0 THEN Jan2038 ELSE SeedAfter(seed, delay, t, attempt)
      next == NextDelayInterval(flexible, t)
  IN  IF flexible # <<>> /\ check >= next /\ next < tmax
      THEN FlexibleNextCheck(seed, simple, flexible, next, tmax, attempt + 1)
      ELSE check

Earlier(scheduled, check) == IF scheduled # 0 /\ scheduled < check THEN scheduled ELSE check

\* calculate_item_nextcheck: an active item has its simple interval only.
ItemNextCheck(active, seed, simple, custom, now, timeDst) ==
  IF active THEN IF simple = 0 THEN Jan2038 ELSE now + simple
  ELSE Earlier(SchedulerNextCheck(custom.scheduling, now, timeDst),
               FlexibleNextCheck(seed, simple, custom.flexible, now, now + Horizon, 0))

\* calculate_item_nextcheck_unreachable: the first time with a delay at all.
RECURSIVE FirstDelayed(_, _, _, _)
FirstDelayed(simple, flexible, t, tmax) ==
  IF t >= tmax \/ CurrentDelay(simple, flexible, t) # 0 THEN t
  ELSE IF flexible = <<>> THEN Jan2038
  ELSE FirstDelayed(simple, flexible, NextDelayInterval(flexible, t), tmax)

UnreachableNextCheck(simple, custom, until, timeDst) ==
  Earlier(SchedulerNextCheck(custom.scheduling, until, timeDst),
          FirstDelayed(simple, custom.flexible, until, until + Horizon))

\* calculate_proxy_nextcheck.
ProxyNextCheck(hostid, delay, now) ==
  LET at == delay * (now \div delay) + (hostid % delay)
  IN  IF at > now THEN at ELSE at + delay * (((now - at) \div delay) + 1)

-----------------------------------------------------------------------------
(* What the functions promise, over instants. *)

AllowedValues(filter, all) ==
  IF filter = <<>> THEN all
  ELSE UNION {{v \in filter[i].start .. filter[i].end :
                 (v - filter[i].start) % filter[i].step = 0} : i \in DOMAIN filter}

UnitValues(interval, level, filter, all) ==
  IF filter = <<>> /\ interval.level <= level THEN {0} ELSE AllowedValues(filter, all)

\* The instants of the day that starts at the given local time.
InstantsOf(interval, midnight) ==
  LET day == LocalTime(midnight - Offset(IsDst(midnight)))
      Of(level, filter, all) == UnitValues(interval, level, filter, all)
      local == {midnight + h * Hour + m * Minute + s :
                  h \in Of(HourLevel, interval.hours, 0 .. 23),
                  m \in Of(MinuteLevel, interval.minutes, 0 .. 59),
                  s \in Of(SecondLevel, interval.seconds, 0 .. 59)}
  IN  IF /\ day.mday \in AllowedValues(interval.mdays, 1 .. 31)
         /\ DayOfWeek(day) \in AllowedValues(interval.wdays, 1 .. 7)
      THEN {t \in local : ~IsDst(t)} \cup {t \in {l - Hour : l \in local} : IsDst(t)}
      ELSE {}

RECURSIVE FirstInstant(_, _, _)
FirstInstant(interval, midnight, now) ==
  LET later == {t \in InstantsOf(interval, midnight) : t > now}
  IN  IF later # {} THEN Min(later) ELSE FirstInstant(interval, midnight + Day, now)

LocalMidnight(t) == LET local == t + Offset(IsDst(t)) IN local - (local % Day)

\* The next check of an interval is its first instant after now, whatever change of offset an
\* earlier call left behind.
FirstMatch(interval, now) ==
  \A timeDst \in {NotSearched, SummerStart, SummerEnd} :
    IntervalNextCheck(interval, now, timeDst).at = FirstInstant(interval, LocalMidnight(now), now)

\* The first instant from t until end that is due by seed and delay.
RECURSIVE FirstDueInstant(_, _, _, _, _)
FirstDueInstant(seed, simple, flexible, t, end) ==
  LET delays == {simple} \cup {flexible[i].delay : i \in DOMAIN flexible}
      next == t + 6 * Hour
      Seeds(d) == {k * d + (seed % d) : k \in (t \div d) .. (next \div d)}
      Due(u) == LET d == CurrentDelay(simple, flexible, u) IN d # 0 /\ u % d = seed % d
      due == {u \in UNION {Seeds(d) : d \in delays \ {0}} : t <= u /\ u < next /\ Due(u)}
  IN  IF t >= end THEN Jan2038
      ELSE IF due # {} THEN Min(due)
      ELSE FirstDueInstant(seed, simple, flexible, next, end)

\* The next check of an item is its first due instant after now, or an earlier
\* scheduled one; without one within the horizon there is none.
FirstDue(seed, simple, custom, now) ==
  LET due == FirstDueInstant(seed, simple, custom.flexible, now + 1, now + Horizon)
      scheduled == {FirstInstant(custom.scheduling[i], LocalMidnight(now), now) :
                      i \in DOMAIN custom.scheduling}
  IN  ItemNextCheck(FALSE, seed, simple, custom, now, NotSearched) = Min(scheduled \cup {due})

\* An unreachable host is asked again at once or when a delay is first in force, not within
\* the horizon if there is none.
DelayedAgain(simple, flexible, until) ==
  LET t == FirstDelayed(simple, flexible, until, until + Horizon)
      hours == {until} \cup {((until \div Hour) + k) * Hour : k \in 1 .. (Horizon \div Hour)}
      delayed == {u \in hours : CurrentDelay(simple, flexible, u) # 0}
  IN  IF delayed = {} THEN t >= until + Horizon ELSE t = Min(delayed)
=============================================================================
