---------------------------- MODULE IntervalText ----------------------------
(***************************************************************************)
(* The two readers of an update interval in libs/zbxcommon/misc.c: the     *)
(* validation of what a user enters (user macros allowed) and the parsing  *)
(* of what is in force.                                                    *)
(*                                                                         *)
(* A text comes in tokens [t, n, len]: a number with its value and digits, *)
(* or a sign or letter.  An update interval is a record of its simple      *)
(* interval and its parts, between the semicolons; a part that starts with *)
(* a digit has a delay, perhaps a slash, and a period; another one has     *)
(* groups [unit, fragments] of a letter and what stands between commas.    *)
(***************************************************************************)
EXTENDS Integers, Sequences, FiniteSetsExt

CONSTANT MaxValue       \* 2^31 - 1

Sign(c) == [t |-> c, n |-> 0, len |-> 0]
Number(n, len) == [t |-> "number", n |-> n, len |-> len]
UserMacro == <<Sign("{$MACRO}")>>

Signs(tokens) == [i \in DOMAIN tokens |-> tokens[i].t]

None == [ok |-> FALSE]

SecPerDay == 86400

Factor(suffix) ==
  CASE suffix = "m" -> 60 [] suffix = "h" -> 3600 [] suffix = "d" -> SecPerDay
    [] suffix = "w" -> 7 * SecPerDay [] OTHER -> 1

\* is_time_suffix: a number, a suffix, no overflow.
IsTimeSuffix(tokens) ==
  /\ Signs(tokens) \in {<<"number">>} \cup {<<"number", s>> : s \in {"s", "m", "h", "d", "w"}}
  /\ tokens[1].n <= MaxValue \div Factor(Signs(tokens)[Len(tokens)])

TimeSuffix(tokens) == tokens[1].n * Factor(Signs(tokens)[Len(tokens)])

\* time_parse: up to three digits of hours, exactly two of minutes.
IsTimeOfDay(hours, minutes) ==
  /\ hours.len \in 1 .. 3 /\ hours.n \in 0 .. 24
  /\ minutes.len = 2 /\ minutes.n \in 0 .. 59
  /\ hours.n = 24 => minutes.n = 0

DaySeconds(hours, minutes) == 3600 * hours.n + 60 * minutes.n

\* time_period_parse: d[-d],hh:mm-hh:mm.
ParsePeriod(tokens) ==
  LET day == <<"number", ",", "number", ":", "number", "-", "number", ":", "number">>
      days == <<"number", "-">> \o day
      last == IF Signs(tokens) = days THEN 3 ELSE 1
      IsDay(token) == token.len = 1 /\ token.n \in 1 .. 7
      At(i) == tokens[last + i]
  IN  IF /\ Signs(tokens) \in {day, days}
         /\ IsDay(tokens[1]) /\ IsDay(tokens[last]) /\ tokens[1].n <= tokens[last].n
         /\ IsTimeOfDay(At(2), At(4)) /\ IsTimeOfDay(At(6), At(8))
         /\ DaySeconds(At(2), At(4)) < DaySeconds(At(6), At(8))
      THEN [ok |-> TRUE,
            period |-> [startDay |-> tokens[1].n, endDay |-> tokens[last].n,
                        startTime |-> DaySeconds(At(2), At(4)),
                        endTime |-> DaySeconds(At(6), At(8))]]
      ELSE None

\* flexible_interval_parse: delay/period.
ParseFlexible(part) ==
  IF IsTimeSuffix(part.delay) /\ part.slash THEN ParsePeriod(part.period) ELSE None

-----------------------------------------------------------------------------
(* Scheduling intervals *)

Level(unit) == CASE unit = "h" -> 2 [] unit = "m" -> 3 [] unit = "s" -> 4 [] OTHER -> 1
Least(unit) == IF unit \in {"md", "wd"} THEN 1 ELSE 0
Most(unit) == CASE unit = "md" -> 31 [] unit = "wd" -> 7 [] unit = "h" -> 23 [] OTHER -> 59
Digits(unit) == IF unit = "wd" THEN 1 ELSE 2

Fits(token, unit) == token.len <= Digits(unit) /\ token.n \in Least(unit) .. Most(unit)

\* scheduler_parse_filter_r for one fragment: n, n-n, n-n/n or /n.
ParseFragment(tokens, unit) ==
  LET range == <<"number", "-", "number">>
      Ranged(start, end) == [start |-> start, end |-> end, step |-> 1]
      Stepping(start, end, token) ==
        IF token.len <= Digits(unit) /\ token.n \in 1 .. (end - start)
        THEN [ok |-> TRUE, range |-> [start |-> start, end |-> end, step |-> token.n]]
        ELSE None
      InRange == Fits(tokens[1], unit) /\ Fits(tokens[3], unit) /\ tokens[1].n <= tokens[3].n
  IN  CASE Signs(tokens) = <<"number">> /\ Fits(tokens[1], unit) ->
             [ok |-> TRUE, range |-> Ranged(tokens[1].n, tokens[1].n)]
        [] Signs(tokens) = range /\ InRange ->
             [ok |-> TRUE, range |-> Ranged(tokens[1].n, tokens[3].n)]
        [] Signs(tokens) = range \o <<"/", "number">> /\ InRange ->
             Stepping(tokens[1].n, tokens[3].n, tokens[5])
        [] Signs(tokens) = <<"/", "number">> -> Stepping(Least(unit), Most(unit), tokens[2])
        [] OTHER -> None

\* The chain is in the order of the text: each fragment goes before the rest.
ParseFilter(fragments, unit) ==
  LET read == [i \in DOMAIN fragments |-> ParseFragment(fragments[i], unit)]
  IN  IF fragments # <<>> /\ \A i \in DOMAIN read : read[i].ok
      THEN [ok |-> TRUE, filter |-> [i \in DOMAIN read |-> read[i].range]]
      ELSE None

\* What scheduler_interval_parse accepts: units from days to seconds, each
\* once, and month days not after week days.
IsScheduling(groups) ==
  /\ groups # <<>>
  /\ \A i, j \in DOMAIN groups : i < j =>
       /\ Level(groups[i].unit) <= Level(groups[j].unit)
       /\ groups[i].unit # groups[j].unit
       /\ ~(groups[i].unit = "wd" /\ groups[j].unit = "md")
  /\ \A i \in DOMAIN groups : ParseFilter(groups[i].fragments, groups[i].unit).ok

\* And what it returns for it.
ParseScheduling(groups) ==
  LET Of(unit) ==
        LET at == {i \in DOMAIN groups : groups[i].unit = unit}
        IN  IF at = {} THEN <<>> ELSE ParseFilter(groups[Max(at)].fragments, unit).filter
  IN  [mdays |-> Of("md"), wdays |-> Of("wd"), hours |-> Of("h"), minutes |-> Of("m"),
       seconds |-> Of("s"), level |-> Level(groups[Len(groups)].unit)]

-----------------------------------------------------------------------------
(* Update intervals *)

Flexible(text) == SelectSeq(text.parts, LAMBDA part : part.digit)
Scheduled(text) == SelectSeq(text.parts, LAMBDA part : ~part.digit)

\* Mutant: nothing but a delay of 0 is accepted by the parser.
NeverAsked(text) ==
  /\ IsTimeSuffix(text.simple)
  /\ \A i \in DOMAIN text.parts :
       LET part == text.parts[i]
       IN  IF part.digit THEN ParseFlexible(part).ok ELSE IsScheduling(part.groups)
  /\ TimeSuffix(text.simple) <= SecPerDay

\* What zbx_interval_preproc accepts: an item that is asked at all, and at
\* least once a day.
IsInterval(text) ==
  /\ IsTimeSuffix(text.simple)
  /\ \A i \in DOMAIN text.parts :
       LET part == text.parts[i]
       IN  IF part.digit
           THEN ParseFlexible(part).ok /\ TimeSuffix(text.simple) + TimeSuffix(part.delay) # 0
           ELSE IsScheduling(part.groups)
  /\ text.parts = <<>> => TimeSuffix(text.simple) # 0
  /\ TimeSuffix(text.simple) <= SecPerDay

\* And what it returns for it: every new interval goes to the front of its list.
ParseInterval(text) ==
  LET flexible == Flexible(text)
      scheduled == Scheduled(text)
      back(s, i) == s[Len(s) + 1 - i]
  IN  [simple |-> TimeSuffix(text.simple),
       flexible |-> [i \in DOMAIN flexible |->
                       [period |-> ParsePeriod(back(flexible, i).period).period,
                        delay |-> TimeSuffix(back(flexible, i).delay)]],
       scheduling |-> [i \in DOMAIN scheduled |-> ParseScheduling(back(scheduled, i).groups)]]

\* zbx_validate_interval: a user macro may stand for the simple interval, for a
\* delay, for a period or for a whole part, and counts as 1.
ValidInterval(text) ==
  LET Seconds(tokens) == IF tokens = UserMacro THEN 1 ELSE TimeSuffix(tokens)
      IsSeconds(tokens) == tokens = UserMacro \/ IsTimeSuffix(tokens)
      ValidPart(part) ==
        \/ /\ part.digit /\ part.slash
           /\ IsSeconds(part.delay)
           /\ Seconds(part.delay) # 0 \/ Seconds(text.simple) # 0
           /\ part.period = UserMacro \/ ParsePeriod(part.period).ok
        \/ part.digit /\ ~part.slash /\ part.delay = UserMacro
        \/ ~part.digit /\ IsScheduling(part.groups)
  IN  /\ IsSeconds(text.simple)
      /\ \A i \in DOMAIN text.parts : ValidPart(text.parts[i])
      /\ text.parts # <<>> \/ Seconds(text.simple) # 0
      /\ Seconds(text.simple) <= SecPerDay

-----------------------------------------------------------------------------
\* The text with its macros replaced by a delay, a period, a flexible interval.
Expanded(text) ==
  LET second == <<Number(1, 1)>>
      hour == <<Number(9, 1), Sign(":"), Number(0, 2)>>
      always == <<Number(1, 1), Sign(",")>> \o hour \o <<Sign("-")>>
                  \o <<Number(18, 2), Sign(":"), Number(0, 2)>>
      Of(tokens, value) == IF tokens = UserMacro THEN value ELSE tokens
  IN  [simple |-> Of(text.simple, second),
       parts |-> [i \in DOMAIN text.parts |->
         LET part == text.parts[i]
         IN  IF ~part.digit THEN part
             ELSE IF ~part.slash /\ part.delay = UserMacro
             THEN [part EXCEPT !.slash = TRUE, !.delay = second, !.period = always]
             ELSE [part EXCEPT !.delay = Of(@, second), !.period = Of(@, always)]]]

\* What the validation accepts is what the parser accepts once the macros have
\* their values.
ReadersAgree(text) == ValidInterval(text) <=> IsInterval(Expanded(text))
=============================================================================
