------------------------------ MODULE ItemKeys ------------------------------
(***************************************************************************)
(* The readers of item keys in libs/zbxcommon/str.c: name[param,...], with *)
(* quoted parameters and arrays in brackets.  Five functions walk the same *)
(* text, each with a small automaton of its own: "init" before a           *)
(* parameter, "quoted" and "unquoted" inside one.                          *)
(***************************************************************************)
EXTENDS Texts

\* The position of the last of the blanks after i.
Blanks(s, i) == Skip(s, i + 1, {" "}) - 1

Refused == 0

\* parse_key's walk over the parameters: where the key ends.
RECURSIVE KeyEnd(_, _, _, _)
KeyEnd(s, i, state, array) ==
  LET c == At(s, i)
      last == Blanks(s, i)
      next == At(s, last + 1)
  IN  CASE c = "" -> Refused
        [] state = "init" /\ c = Quote -> KeyEnd(s, i + 1, "quoted", array)
        [] state = "init" /\ c = "[" -> IF array THEN Refused ELSE KeyEnd(s, i + 1, "init", TRUE)
        [] state = "init" /\ c = "]" /\ array ->
             IF next = "]" THEN last + 2
             ELSE IF next = "," THEN KeyEnd(s, last + 2, "init", FALSE)
             ELSE Refused
        [] state # "quoted" /\ c = "]" /\ ~array -> i + 1
        [] state = "init" -> KeyEnd(s, i + 1, IF c \in {",", " "} THEN "init" ELSE "unquoted", array)
        [] state = "quoted" /\ c = Quote ->
             IF next = "]" /\ ~array THEN last + 2
             ELSE IF next = "," \/ (next = "]" /\ array) THEN KeyEnd(s, last + 1, "init", array)
             ELSE Refused
        [] state = "quoted" /\ c = Backslash /\ At(s, i + 1) = Quote -> KeyEnd(s, i + 2, state, array)
        [] state = "unquoted" /\ c \in {",", "]"} -> KeyEnd(s, i, "init", array)
        [] OTHER -> KeyEnd(s, i + 1, state, array)

\* parse_key: the position after the key at i, or Refused.
ParseKey(s, i) ==
  LET name == Skip(s, i, KeyChar)
  IN  IF name = i THEN Refused
      ELSE IF At(s, name) = "[" THEN KeyEnd(s, name + 1, "init", FALSE)
      ELSE name

\* num_param: the parameters of a text, 0 when it is refused.
RECURSIVE CountParams(_, _, _, _, _)
CountParams(s, i, state, array, n) ==
  LET c == At(s, i)
      last == Blanks(s, i)
      next == At(s, last + 1)
  IN  CASE c = "" -> IF state = "quoted" \/ array THEN Refused ELSE n
        [] state = "init" /\ c = "," ->
             CountParams(s, i + 1, state, array, IF array THEN n ELSE n + 1)
        [] state = "init" /\ c = Quote -> CountParams(s, i + 1, "quoted", array, n)
        [] state = "init" /\ c = "[" ->
             IF array THEN Refused ELSE CountParams(s, i + 1, state, TRUE, n)
        [] state = "init" /\ c = "]" /\ array ->
             IF next \in {",", ""} THEN CountParams(s, last + 1, state, FALSE, n) ELSE Refused
        [] state = "quoted" /\ c = Quote ->
             IF next \in {",", ""} \/ (array /\ next = "]")
             THEN CountParams(s, last + 1, "init", array, n) ELSE Refused
        [] state = "quoted" /\ c = Backslash /\ At(s, i + 1) = Quote ->
             CountParams(s, i + 2, state, array, n)
        [] state = "unquoted" /\ (c = "," \/ (c = "]" /\ array)) ->
             CountParams(s, i, "init", array, n)
        [] state # "quoted" /\ c = "]" -> Refused
        [] state = "init" /\ c # " " -> CountParams(s, i + 1, "unquoted", array, n)
        [] OTHER -> CountParams(s, i + 1, state, array, n)

NumParam(s) == CountParams(s, 1, "init", FALSE, 1)

NoParam == [ok |-> FALSE, text |-> <<>>]

\* get_param's walk: the num-th parameter, without its own quotes and brackets
\* but with those inside an array.  depth is the nesting of arrays.
RECURSIVE TakeParam(_, _, _, _, _, _, _)
TakeParam(s, num, i, state, depth, idx, text) ==
  LET c == At(s, i)
      last == Blanks(s, i)
      next == At(s, last + 1)
      Keep(d, chars) == IF idx = num /\ d # 0 THEN text \o chars ELSE text
      Closed(d) == next \in {",", ""} \/ (d # 0 /\ next = "]")
      On(j, st, d, t) == TakeParam(s, num, j, st, d, idx, t)
  IN  CASE c = "" \/ idx > num ->
             [ok |-> state # "quoted" /\ depth = 0 /\ idx >= num, text |-> text]
        [] state = "init" /\ c = "," ->
             IF depth = 0 THEN TakeParam(s, num, i + 1, state, depth, idx + 1, text)
             ELSE On(i + 1, state, depth, Keep(depth, <<c>>))
        [] state = "init" /\ c = Quote -> On(i + 1, "quoted", depth, Keep(depth, <<c>>))
        [] state = "init" /\ c = "[" -> On(i + 1, state, depth + 1, Keep(depth, <<c>>))
        [] state = "init" /\ c = "]" /\ depth # 0 ->
             IF Closed(depth - 1) THEN On(last + 1, state, depth - 1, Keep(depth - 1, <<c>>))
             ELSE NoParam
        [] state = "init" ->
             IF c = " " THEN On(i + 1, state, depth, text)
             ELSE On(i + 1, "unquoted", depth, Keep(1, <<c>>))
        [] state = "quoted" /\ c = Quote ->
             IF Closed(depth) THEN On(last + 1, "init", depth, Keep(depth, <<c>>)) ELSE NoParam
        [] state = "quoted" /\ c = Backslash /\ At(s, i + 1) = Quote ->
             On(i + 2, state, depth, IF depth # 0 THEN Keep(1, <<c, Quote>>) ELSE Keep(1, <<Quote>>))
        [] state = "unquoted" /\ (c = "," \/ (c = "]" /\ depth # 0)) -> On(i, "init", depth, text)
        [] OTHER -> On(i + 1, state, depth, Keep(1, <<c>>))

\* get_param into a buffer of size characters, the terminating zero included.
GetParam(s, num, size) ==
  LET param == TakeParam(s, num, 1, "init", 0, 1, <<>>)
  IN  IF param.ok /\ Len(param.text) < size THEN param ELSE NoParam

\* get_param_len's walk, the same with a counter.
RECURSIVE CountChars(_, _, _, _, _, _, _)
CountChars(s, num, i, state, depth, idx, sz) ==
  LET c == At(s, i)
      last == Blanks(s, i)
      next == At(s, last + 1)
      Plus(d, n) == IF idx = num /\ d # 0 THEN sz + n ELSE sz
      Closed(d) == next \in {",", ""} \/ (d # 0 /\ next = "]")
      On(j, st, d, n) == CountChars(s, num, j, st, d, idx, n)
  IN  CASE c = "" \/ idx > num ->
             [ok |-> state # "quoted" /\ depth = 0 /\ idx >= num, sz |-> sz]
        [] state = "init" /\ c = "," /\ depth = 0 ->
             CountChars(s, num, i + 1, state, depth, idx + 1, sz)
        [] state = "init" /\ c \in {",", Quote, "["} ->
             On(i + 1, IF c = Quote THEN "quoted" ELSE state,
                IF c = "[" THEN depth + 1 ELSE depth, Plus(depth, 1))
        [] state = "init" /\ c = "]" /\ depth # 0 ->
             IF Closed(depth - 1) THEN On(last + 1, state, depth - 1, Plus(depth - 1, 1))
             ELSE [ok |-> FALSE, sz |-> 0]
        [] state = "init" ->
             IF c = " " THEN On(i + 1, state, depth, sz) ELSE On(i + 1, "unquoted", depth, Plus(1, 1))
        [] state = "quoted" /\ c = Quote ->
             IF Closed(depth) THEN On(last + 1, "init", depth, Plus(depth, 1))
             ELSE [ok |-> FALSE, sz |-> 0]
        [] state = "quoted" /\ c = Backslash /\ At(s, i + 1) = Quote ->
             On(i + 2, state, depth, Plus(1, IF depth # 0 THEN 2 ELSE 1))
        [] state = "unquoted" /\ (c = "," \/ (c = "]" /\ depth # 0)) -> On(i, "init", depth, sz)
        [] OTHER -> On(i + 1, state, depth, Plus(1, 1))

\* Mutant: the size of the buffer leaves no room for the terminating zero.
ParamWithoutZero(s, num) ==
  LET length == CountChars(s, num, 1, "init", 0, 1, 0)
  IN  IF length.ok THEN GetParam(s, num, length.sz) ELSE NoParam

\* get_param_dyn: measured first, then copied.
GetParamDyn(s, num) ==
  LET length == CountChars(s, num, 1, "init", 0, 1, 0)
  IN  IF length.ok THEN GetParam(s, num, length.sz + 1) ELSE NoParam

\* num_key_param, get_key_param: between the first [ and the last ].
InBrackets(key) ==
  LET l == Find(key, 1, {"["})
      closing == {i \in DOMAIN key : key[i] = "]"}
  IN  IF l <= Len(key) /\ \E r \in closing : r > l
      THEN [ok |-> TRUE, text |-> Cut(key, l + 1, Max(closing) - 1)] ELSE NoParam

NumKeyParam(key) == IF InBrackets(key).ok THEN NumParam(InBrackets(key).text) ELSE 0

GetKeyParam(key, num, size) ==
  IF InBrackets(key).ok THEN GetParam(InBrackets(key).text, num, size) ELSE NoParam

-----------------------------------------------------------------------------
(* replace_key_params_dyn: each parameter, as it is written, goes to a      *)
(* callback that may return another text; here it returns `to` for `from`.  *)

\* replace_key_param: l and i are the bounds, i the character after it.
ReplaceParam(s, l, i, from, to) ==
  IF Cut(s, l, i - 1) = from
  THEN [s |-> Cut(s, 1, l - 1) \o to \o Cut(s, i, Len(s)), i |-> l + Len(to)]
  ELSE [s |-> s, i |-> i]

RECURSIVE ReplaceFrom(_, _, _, _, _, _, _)
ReplaceFrom(s, i, l, state, level, from, to) ==
  LET c == At(s, i)
      Param(start, end) == ReplaceParam(s, start, end, from, to)
      empty == Param(i, i)
      unquoted == Param(l, i)
      quoted == Param(l, i + 1)
      On(t, j, m, st, lev) == ReplaceFrom(t, j, m, st, lev, from, to)
  IN  CASE c = "" -> [ok |-> level = 0, s |-> s]
        [] state = "new" /\ c = " " -> On(s, i + 1, l, state, level)
        [] state = "new" /\ c = "," -> On(empty.s, empty.i + 1, l, state, level)
        [] state = "new" /\ c = "[" ->
             IF level = 2 THEN [ok |-> FALSE, s |-> s] ELSE On(s, i + 1, l, state, level + 1)
        [] state = "new" /\ c = "]" -> On(empty.s, empty.i + 1, l, "end", level - 1)
        [] state = "new" -> On(s, i + 1, i, IF c = Quote THEN "quoted" ELSE "unquoted", level)
        [] state = "end" /\ c = " " -> On(s, i + 1, l, state, level)
        [] state = "end" /\ c = "," -> On(s, i + 1, l, "new", level)
        [] state = "end" ->
             IF c = "]" /\ level # 0 THEN On(s, i + 1, l, state, level - 1)
             ELSE [ok |-> FALSE, s |-> s]
        [] state = "unquoted" /\ c \in {"]", ","} -> On(unquoted.s, unquoted.i, l, "end", level)
        [] state = "quoted" /\ c = Quote /\ At(s, i - 1) # Backslash ->
             On(quoted.s, quoted.i, l, "end", level)
        [] OTHER -> On(s, i + 1, l, state, level)

ReplaceKeyParams(key, from, to) ==
  LET name == Skip(key, 1, KeyChar)
      renamed == ReplaceParam(key, 1, name, from, to)
  IN  IF name = 1 \/ At(key, name) \notin {"[", ""} THEN [ok |-> FALSE, s |-> key]
      ELSE ReplaceFrom(renamed.s, renamed.i, 1, "new", 0, from, to)

-----------------------------------------------------------------------------
\* parse_host_key: an optional host, then the key.
HostAndKey(s) ==
  LET colon == Skip(s, 1, HostnameChar)
  IN  IF At(s, colon) = ":" THEN [host |-> Cut(s, 1, colon - 1), key |-> Cut(s, colon + 1, Len(s))]
      ELSE [host |-> <<>>, key |-> s]

\* cmp_key_id: the same name, whatever the parameters.
SameKeyId(key1, key2) ==
  Cut(key1, 1, Find(key1, 1, {"["}) - 1) = Cut(key2, 1, Find(key2, 1, {"["}) - 1)

\* remove_param: what is kept of a list without its num-th parameter; it knows quotes but
\* no arrays.
RECURSIVE RemoveFrom(_, _, _, _, _)
RemoveFrom(s, num, i, quoted, idx) ==
  LET c == At(s, i)
      ends == ~quoted /\ c = ","
      now == IF ends THEN idx + 1 ELSE idx
      kept == now # num /\ ~(ends /\ idx = 1 /\ num = 1)
      toggles == c = Quote /\ (~quoted \/ At(s, i - 1) # Backslash)
  IN  IF c = "" THEN <<>>
      ELSE (IF kept THEN <<c>> ELSE <<>>)
             \o RemoveFrom(s, num, i + 1, IF toggles THEN ~quoted ELSE quoted, now)

RemoveParam(s, num) == RemoveFrom(s, num, 1, FALSE, 1)

\* The readers agree on every list num_param accepts: its number is the number of
\* parameters get_param finds, each as long as get_param_len says, the key with the list in
\* brackets ends where parse_key ends it, and a list without quotes and arrays has exactly
\* the parameters changed that were replaced or removed.
ReadersAgreeOn(params) ==
  LET n == NumParam(params)
      key == <<"k", "[">> \o params \o <<"]">>
      replaced == ReplaceKeyParams(key, <<"a">>, <<"b", "b">>)
      new == InBrackets(replaced.s).text
      Param(t, i) == GetParam(t, i, Len(t) + 1)
      All(t) == [i \in 1 .. NumParam(t) |-> Param(t, i)]
      Swapped(p) == IF p.text = <<"a">> THEN [p EXCEPT !.text = <<"b", "b">>] ELSE p
  IN  n # Refused =>
        /\ ParseKey(key, 1) = Len(key) + 1
        /\ NumKeyParam(key) = n
        /\ SameKeyId(key, <<"k">>)
        /\ HostAndKey(<<"h", ":">> \o key) = [host |-> <<"h">>, key |-> key]
        /\ \A i \in 1 .. n :
             /\ Param(params, i).ok
             /\ GetParamDyn(params, i) = Param(params, i)
             /\ GetKeyParam(key, i, Len(key)) = Param(params, i)
        /\ ~Param(params, n + 1).ok
        /\ replaced.ok
        /\ ToSet(params) \cap {Quote, "["} = {} =>
             /\ All(new) = [i \in 1 .. n |-> Swapped(Param(params, i))]
             /\ n > 1 => \A i \in 1 .. n : All(RemoveParam(params, i)) = RemoveAt(All(params), i)
=============================================================================
