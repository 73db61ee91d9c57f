---------------------------- MODULE ItemIntervals ----------------------------
(***************************************************************************)
(* From the text of an update interval to the next check of an item, and   *)
(* from the text of time periods to whether a time is in one of them       *)
(* (libs/zbxcommon/misc.c).                                                *)
(***************************************************************************)
EXTENDS ItemSchedule, IntervalText

Simple(delay) == [simple |-> delay, flexible |-> <<>>, scheduling |-> <<>>]

NextCheckOf(itemid, interval, now) ==
  ItemNextCheck(FALSE, itemid, interval.simple,
                [flexible |-> interval.flexible, scheduling |-> interval.scheduling], now, NotSearched)

\* zbx_get_agent_item_nextcheck: an item that is not supported is asked at its own interval.
AgentItemNextCheck(itemid, text, normal, now, refresh) ==
  LET interval == IF normal THEN ParseInterval(text) ELSE Simple(refresh)
  IN  IF normal /\ ~IsInterval(text) THEN [ok |-> FALSE, at |-> Jan2038]
      ELSE [ok |-> TRUE, at |-> NextCheckOf(itemid, interval, now)]

\* zbx_check_time_period of periods between semicolons: all are read before one counts.
CheckTimePeriods(periods, t) ==
  LET read == [i \in DOMAIN periods |-> ParsePeriod(periods[i])]
  IN  IF periods = <<>> \/ \E i \in DOMAIN read : ~read[i].ok THEN [ok |-> FALSE, within |-> FALSE]
      ELSE [ok |-> TRUE,
            within |-> \E i \in DOMAIN read : CheckTimePeriod(read[i].period, LocalTime(t))]

-----------------------------------------------------------------------------
\* An interval that can be read has its next check after now, whatever the order of its parts is,
\* and one that cannot has none; without support it is at most the other interval away.
ItemIsAsked(itemid, text, now, refresh) ==
  LET turned == [text EXCEPT !.parts = Reverse(@)]
  IN  \A next \in {[normal \in BOOLEAN |->
                      [of \in {text, turned} |-> AgentItemNextCheck(itemid, of, normal, now, refresh)]]} :
        /\ next[TRUE][text] = next[TRUE][turned]
        /\ next[TRUE][text].at > now
        /\ next[FALSE][text].at \in now + 1 .. now + refresh

\* Being in a period is having its delay in force.
PeriodsAgree(periods, t) ==
  LET flexible == [i \in DOMAIN periods |-> [period |-> ParsePeriod(periods[i]).period, delay |-> 1]]
  IN  CheckTimePeriods(periods, t).ok =>
        (CheckTimePeriods(periods, t).within <=> CurrentDelay(0, flexible, t) = 1)
=============================================================================
