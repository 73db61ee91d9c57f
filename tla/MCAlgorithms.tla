---------------------------- MODULE MCAlgorithms ----------------------------
(***************************************************************************)
(* The pure algorithms, asked about inputs one at a time: a state is a     *)
(* question, its first component names the algorithm.  The question        *)
(* "delays" runs Period, with integers of 6 bits.                          *)
(***************************************************************************)
EXTENDS TLC, Period, ItemIntervals, IpRange, TextLists, Utf8, LinkedList, Buffers, Markup,
        WorkerAnswers, Results

VARIABLE question

MCInputs ==
  {Undefined, [kind |-> "infinity", ms |-> 0]} \cup [kind : {"number"}, ms : -70 .. 140]

Upto(n, S) == UNION {[1 .. k -> S] : k \in 0 .. n}

-----------------------------------------------------------------------------
(* Instants at which checks are due: around the two changes of daylight    *)
(* saving time, the ends of months and the leap day.                       *)

NoFilters ==
  [mdays |-> <<>>, wdays |-> <<>>, hours |-> <<>>, minutes |-> <<>>, seconds |-> <<>>, level |-> 0]
From(start, end, step) == [start |-> start, end |-> end, step |-> step]
Exactly(n) == <<From(n, n, 1)>>

Schedules ==
  {[NoFilters EXCEPT !.hours = Exactly(2), !.minutes = Exactly(30), !.level = MinuteLevel],
   [NoFilters EXCEPT !.mdays = <<From(10, 31, 7)>>, !.wdays = Exactly(5), !.level = 1],
   [NoFilters EXCEPT !.mdays = Exactly(31), !.hours = Exactly(23), !.level = HourLevel],
   [NoFilters EXCEPT !.wdays = <<From(1, 1, 1), From(6, 7, 1)>>, !.minutes = <<From(0, 59, 20)>>,
                     !.level = MinuteLevel],
   [NoFilters EXCEPT !.hours = <<From(0, 20, 10), From(23, 23, 1)>>,
                     !.seconds = <<From(15, 15, 1), From(45, 59, 10)>>, !.level = SecondLevel],
   [NoFilters EXCEPT !.minutes = Exactly(5), !.level = MinuteLevel]}

Nows ==
  LET spring == Midnight(2023, 3, 26)
      autumn == Midnight(2023, 10, 29)
  IN  {spring + 2 * Hour - 1, spring + 1800, spring + Day - 1}
        \cup {autumn + 1800, autumn + Hour, autumn + 2 * Hour - 1, autumn + 5400, autumn + 9000}
        \cup {Midnight(2024, 2, 28) + 80000, Midnight(2023, 2, 28) + 86399, Midnight(2023, 6, 30) + 5}
        \cup {Midnight(2023, 12, 31) + 86395, Midnight(2023, 12, 31) + 82795}

In(startDay, endDay, startHour, endHour, every) ==
  [delay |-> every, period |-> [startDay |-> startDay, endDay |-> endDay,
                                startTime |-> startHour * Hour, endTime |-> endHour * Hour]]

Flexibles ==
  {<<>>, <<In(1, 5, 9, 18, 1800)>>, <<In(1, 5, 9, 18, 3600), In(6, 7, 0, 24, 0)>>,
   <<In(1, 7, 0, 24, 7200), In(3, 3, 10, 11, 600)>>, <<In(1, 7, 0, 24, 0)>>, <<In(2, 2, 5, 6, 3600)>>}

Customs ==
  {[flexible |-> f, scheduling |-> s] : f \in Flexibles,
     s \in {<<>>, <<CHOOSE i \in Schedules : i.mdays # <<>> /\ i.level = 1>>,
            <<CHOOSE i \in Schedules : i.hours = <<>> /\ i.wdays = <<>> /\ i.level = MinuteLevel>>}}

WeekOfMay == {Midnight(2023, 5, 1) + h * 20 * Hour + (h % 2) : h \in 0 .. 7}

ScheduleQuestions ==
  ({"interval"} \X Schedules \X Nows)
    \cup ({"item"} \X {4000} \X {0, 5 * 3600} \X Customs \X WeekOfMay)
    \cup ({"unreachable"} \X {0, 3600} \X Flexibles \X WeekOfMay)

-----------------------------------------------------------------------------
(* Texts of update intervals, valid and not. *)

N(n) == Number(n, IF n < 10 THEN 1 ELSE 2)
Delays == {<<N(0)>>, <<N(5), Sign("m")>>, <<N(30), Sign("h")>>, UserMacro, <<N(1), Sign("x")>>}

PeriodText(startDay, endDay, from, to) ==
  <<N(startDay), Sign("-"), N(endDay), Sign(","), N(from), Sign(":"), Number(0, 2), Sign("-"),
    N(to), Sign(":"), Number(0, 2)>>
Periods ==
  {PeriodText(1, 5, 9, 18), PeriodText(5, 1, 9, 18), PeriodText(1, 7, 0, 24), PeriodText(1, 1, 9, 9),
   UserMacro, <<>>}

Units == {"md", "wd", "h", "m", "s"}
Fragments ==
  {<<>>, <<N(5)>>, <<N(1), Sign("-"), N(7)>>, <<N(1), Sign("-"), N(7), Sign("/"), N(6)>>,
   <<N(1), Sign("-"), N(7), Sign("/"), N(7)>>, <<Sign("/"), N(2)>>, <<N(5), Sign("/"), N(1)>>}
Group1 == [unit : Units, fragments : {<<f>> : f \in Fragments} \cup {<<<<N(5)>>, <<N(7)>>>>}]
Groups2 ==
  {<<[unit |-> u, fragments |-> <<<<N(5)>>>>], [unit |-> v, fragments |-> <<<<N(6)>>>>]>> : u, v \in Units}

FlexibleParts == [digit : {TRUE}, delay : Delays, slash : BOOLEAN, period : Periods]
ScheduledParts == [digit : {FALSE}, groups : {<<g>> : g \in Group1} \cup Groups2]
OneScheduled == [digit |-> FALSE, groups |-> <<[unit |-> "h", fragments |-> <<<<N(5)>>>>]>>]

IntervalTexts ==
  [simple : Delays, parts : {<<>>} \cup {<<p>> : p \in FlexibleParts \cup ScheduledParts}
                              \cup {<<p, OneScheduled>> : p \in FlexibleParts}]

AskedTexts == {[simple |-> s, parts |-> p] :
  s \in {<<N(0)>>, <<N(5), Sign("m")>>, UserMacro}, p \in {<<>>} \cup
    {<<[digit |-> TRUE, delay |-> <<N(9), Sign("m")>>, slash |-> TRUE, period |-> q], r>> :
       q \in Periods, r \in ScheduledParts}}

AskedQuestions ==
  ({"asked"} \X AskedTexts \X {Midnight(2023, 5, 1) + 5, Midnight(2023, 5, 6) + 80000})
    \cup ({"periods"} \X Upto(3, Periods) \X WeekOfMay)

\* An item is checked at the first instant after now that its scheduling intervals, or the
\* simple or flexible delay in force at that instant, make due, over months, leap years and
\* changes of daylight saving time; which they are is read from a text in any order.
ChecksAreDue ==
  /\ question[1] = "interval" => FirstMatch(question[2], question[3])
  /\ question[1] = "item" => FirstDue(question[2], question[3], question[4], question[5])
  /\ question[1] = "unreachable" => DelayedAgain(question[2], question[3], question[4])
  /\ question[1] = "asked" => ItemIsAsked(4000, question[2], question[3], 3600)
  /\ question[1] = "periods" => PeriodsAgree(question[2], question[3])

\* An update interval is accepted by the validation exactly if the parser accepts it once its
\* user macros have values.
IntervalsAreRead == question[1] = "text" => ReadersAgree(question[2])

-----------------------------------------------------------------------------
(* Item keys, macros, functions, numbers, characters, lists and names in    *)
(* texts.                                                                  *)

KeyChars == {"a", ",", Quote, "[", "]", " ", Backslash}
ParamChars == {"a", ",", Quote, "}", ")", " ", Backslash}
\* First bytes of every length, those around what is refused, continuations.
ByteKinds == {65, 128, 160, 191, 193, 195, 224, 237, 240, 244, 254}
ByteTexts ==
  Upto(3, ByteKinds) \cup {b \o t : b \in {<<249, 160>>, <<253, 191, 160>>, <<195, 160>>, <<240, 157>>}, t \in Upto(2, ByteKinds)}
MarkupChars == {"a", "<", ">", "/", "&", Quote, "'", "l", "t", ";"}
Tags == {<<"t">>, <<"a">>}
EscapeChars == {"0", ".", ",", Quote, "'", Backslash}

TextQuestions ==
  ({"key"} \X Upto(5, KeyChars))
    \cup ({"tokens"} \X (Upto(3, Pieces) \cup {<<Open>> \o p : p \in Upto(4, Pieces)}))
    \cup ({"numbers"} \X Upto(4, Terms))
    \cup ({"functions"} \X Upto(4, FunctionTerms))
    \cup ({"quoting"} \X Upto(4, ParamChars) \X BOOLEAN)
    \cup ({"escaping"} \X Upto(4, EscapeChars))
    \cup ({"bytes"} \X ByteTexts \X {0, 1, 2, 3, 5})
    \cup ({"integers"} \X Upto(2, ({-12, -1, 0, 1, 2, 11} \X {-1, 0, 2, 12})) \X (-13 .. 13))
    \cup ({"words"} \X Upto(5, {"a", " ", ",", "\t"}))
    \cup ({"lines"} \X Upto(6, {"a", "c"}) \X (1 .. 4))
    \cup ({"case"} \X Upto(4, {"a", "A", "c"}) \X Upto(3, {"a", "A", "C"}))
    \cup ({"natural"} \X Upto(3, {"a", "1", "0", "."}) \X Upto(3, {"a", "1", "0", "-"}))
    \cup ({"hostname"} \X Upto(5, {"a", "-", ".", ",", "_"}))
    \cup ({"markup"} \X (Upto(2, MarkupChars) \cup Upto(4, {"&", Quote, "l", "t", ";"})) \X Tags \X Tags)
    \cup ({"server"} \X Upto(2, {"a", "-", ".", ":"}) \X {0, 1, 999, 1000})

\* Macros, numbers and functions are found in a text exactly where they stand.
TokensAreFound ==
  /\ question[1] = "tokens" => TokensFound(question[2])
  /\ question[1] = "numbers" => NumbersFound(question[2])
  /\ question[1] = "functions" => FunctionsFound(question[2])

\* The readers of one text agree: item key parameters are the same for all of them, what is quoted
\* or escaped comes back, also from XML, UTF-8 is cut between characters, and lists and names are what was written.
TextsAreRead ==
  /\ question[1] = "key" => ReadersAgreeOn(question[2])
  /\ question[1] = "quoting" => QuotingUndone(question[2], question[3])
  /\ question[1] = "escaping" => EscapingUndone(question[2])
  /\ question[1] = "bytes" => Utf8Judged(question[2]) /\ Utf8Cut(question[2], question[3])
  /\ question[1] = "markup" => MarkupUndone(question[2], question[3], question[4])
  /\ question[1] = "integers" => IntListSearched(question[2], question[3])
  /\ question[1] = "words" => ListTrimmed(question[2])
  /\ question[1] = "lines" => Wrapped(question[2], question[3])
  /\ question[1] = "case" => FoundInAnyCase(question[2], question[3])
  /\ question[1] = "natural" => NaturallyCompared(question[2], question[3])
  /\ question[1] = "hostname" => HostnameMade(question[2])
  /\ question[1] = "server" => ServerRead(question[2], question[3])

-----------------------------------------------------------------------------
(* Ranges of addresses, built of the parts that matter. *)

Dotted(parts, end) == Joined(parts, <<".">>) \o end
Colons(parts, end) == Joined(parts, <<":">>) \o end

Group4 ==
  {<<>>, <<"0">>, <<"1", "-", "3">>, <<"2", "5", "4", "-", "2", "5", "5">>, <<"2", "5", "6">>,
   <<"3", "-", "1">>, <<"1", "0", "0">>}
Masks4 == {<<>>, <<"/", "3", "0">>, <<"/", "2", "8">>, <<"/", "3", "1">>, <<" ">>}
Texts4 ==
  {Dotted(<<p[1], p[2], p[3], p[4]>>, p[5]) :
     p \in Group4 \X {<<"0">>, <<"1", "-", "3">>} \X Group4 \X Group4 \X Masks4}

Group6 == {<<>>, <<"f", "e">>, <<"a", "-", "c">>, <<"1", "-", "3">>, <<"g">>}
Texts6 ==
  LET start == [i \in 1 .. 6 |-> IF i = 6 THEN <<"0">> ELSE <<"f", "e">>]
  IN  {Colons(p, m) : p \in Upto(4, Group6) \cup {start \o q : q \in Upto(4, Group6)},
                      m \in {<<>>, <<"/", "1", "2", "6">>}}

Addresses4 ==
  {Dotted(<<p[1], <<"0">>, p[2], p[3]>>, <<>>) :
     p \in {<<"0">>, <<"1", "0", "0">>} \X {<<"0">>, <<"1", "0", "0">>} \X {<<"0">>, <<"1">>, <<"1", "0", "0">>}}
Other4 == Dotted(<<<<"1", "0", "0">>, <<"0">>, <<"1", "-", "3">>, <<"0">>>>, <<"/", "2", "8">>)

RangeQuestions ==
  ({"range"} \X (Texts4 \cup Texts6))
    \cup ({"list"} \X {t \in Texts4 : t[1] = "0"} \X {Other4} \X Addresses4)
    \cup ({"address"} \X (Upto(6, {"1", "f", ":", "."}) \cup Texts4 \cup Texts6))

\* A range of addresses stands for the same addresses wherever it is gone through, counted,
\* searched or read as a single one.
RangesAgree ==
  /\ question[1] = "range" => RangeEnumerated(question[2])
  /\ question[1] = "list" => ListSearched(question[2], question[3], question[4])
  /\ question[1] = "address" => AddressIsRange(question[2])

-----------------------------------------------------------------------------
(* What preprocessing steps read, and arrays. *)

Fields == Upto(2, {"a", ";", Quote, "\n"})
FewFields == {<<>>, <<"a">>, <<";", "a">>, <<Quote>>, <<"\r", "\n">>}
Rows(S, n) == Upto(n, S) \ {<<>>}
Tables ==
  Rows(Rows(FewFields, 2), 2) \cup Rows(Rows({<<>>, <<"a">>}, 2), 3)
    \cup {<<<<f>>, <<g>>>> : f, g \in Fields} \cup {<<<<<<"a">>, <<Quote>>, <<"a">>>>>>}

StepOutcomes == {[value |-> v, action |-> ""] : v \in {<<>>, <<"a", "b">>, <<"a", "b", "c", "\n", "e", "f">>}}
ErrorMessages ==
  {<<>>, <<"x", " ", "\n">>, [i \in 1 .. 5 |-> "x"], [i \in 1 .. 9 |-> "x"], [i \in 1 .. 40 |-> "x"]}

\* What expressions find in documents: nodes, texts, numbers as they are printed.
PrintedNumbers ==
  {<<"1", "0", ".", "5", "0">>, <<"-", "0", ".", "0", "0">>, <<"n", "a", "n">>, <<"i", "n", "f">>,
   <<"-", "i", "n", "f">>}
BlankTexts == {<<>>, <<" ">>, <<"\n">>, <<" ", "a">>}
FoundInXml ==
  [type : {"no document", "no expression", "unknown"}] \cup [type : {"boolean"}, truth : BOOLEAN]
    \cup [type : {"nodeset"}, nodes : Upto(3, BlankTexts \ {<<>>})] \cup [type : {"string"}, text : BlankTexts]
    \cup [type : {"number"}, text : PrintedNumbers]
FoundInJson ==
  [type : {"no document", "no expression"}] \cup [type : {"string"}, text : BlankTexts \cup {NoText}]

StepQuestions ==
  ({"xml"} \X BlankTexts \X FoundInXml) \cup ({"json"} \X BlankTexts \X FoundInJson)
    \cup ({"prometheus"} \X Upto(4, {"a", "\n"}) \X {f \in FoundInJson : f.type = "string" => f.text # NoText})
    \cup
  ({"number"} \X Upto(5, {"0", "1", "7", "9", "f", "g"}))
    \cup ({"trim"} \X Upto(4, {"a", "n", "\n", Backslash}) \X Upto(3, {"n", "\n", Backslash}))
    \cup ({"csv"} \X Tables \X [delim : {";", ","}, quote : {"", Quote}, header : BOOLEAN]
            \X {<<"\n">>, <<"\r", "\n">>} \X BOOLEAN \X BOOLEAN)
    \cup ({"error"} \X Upto(2, {"a", "\n"}) \X (Upto(4, StepOutcomes) \ {<<>>}) \X ErrorMessages)

\* The steps that read numbers, trim and convert CSV do it for every notation their parameters
\* allow, and the message of one that fails tells what it can of the value and the steps.
StepsReadTexts ==
  /\ question[1] = "number" => NumbersRead(question[2])
  /\ question[1] = "trim" => TrimmedExactly(question[2], question[3])
  /\ question[1] = "csv" =>
       CsvReadBack(question[2], question[3], question[4], question[5], question[6])
  /\ question[1] = "xml" => XmlSearched(question[2], question[3])
  /\ question[1] = "json" => JsonSearched(question[2], question[3])
  /\ question[1] = "prometheus" => PrometheusSplit(question[2], question[3])
  /\ question[1] = "error" => ErrorTold(question[2], question[3], question[4])

Appended ==
  [op : {"strncpy"}, text : {<<>>, <<"a">>, <<"a", "b", "c">>}, n : {0, 1, 4}]
    \cup [op : {"memcpy", "snprintf"}, text : {<<>>, <<"a">>, <<"a", "b", "c">>}, n : {0}]
    \cup {[op |-> "memcpy", text |-> <<"a", Nul>>, n |-> 0]}
Blocks ==
  {<<t, l, r>> : t \in {SubSeq(<<"a", "b", "c", "d">>, 1, n) : n \in 1 .. 4}, l \in 0 .. 3, r \in 0 .. 3}

ContainerQuestions ==
  ({"array"} \X Upto(5, [add : BOOLEAN, id : 1 .. 3])) \cup ({"linked"} \X Upto(5, Calls))
    \cup ({"grow"} \X (0 .. 3) \X Upto(3, Appended))
    \cup ({"block"} \X {b \in Blocks : b[2] <= b[3] /\ b[3] < Len(b[1])} \X Upto(4, {"x"}) \X (0 .. 2))
    \cup ({"cut"} \X Upto(3, {"a", "b"}) \X Upto(3, {"a", "b"}) \X (0 .. 5))

\* A sorted array is the set of what was added to it, the queue's linked list the sequence, and a
\* text in memory what was appended to it, replaced in it or cut off, whatever the memory at first.
ContainersAgree ==
  /\ question[1] = "array" => ArrayIsSet(question[2])
  /\ question[1] = "linked" => ListIsSequence(question[2])
  /\ question[1] = "grow" => TextsGrow(question[2], question[3])
  /\ question[1] = "block" =>
       BlocksReplaced(question[2][1], question[2][2], question[2][3], question[3], question[4])
  /\ question[1] = "cut" => CutToSize(question[2], question[3], question[4])

-----------------------------------------------------------------------------
(* Messages of the preprocessing processes, with every kind of value and   *)
(* with and without whatever is optional.                                  *)

MaybeText == {Null, <<>>, <<"a">>}
Variant(type, n, text) == [type |-> type, number |-> n, text |-> text]
VariantValues ==
  {Variant("none", 0, Null), Variant("ui64", 7, Null), Variant("dbl", 8, Null),
   Variant("str", 0, <<>>), Variant("str", 0, <<"a">>), Variant("bin", 0, <<>>)}

Time == [sec |-> 5, ns |-> 6]
Past(i, v) == [index |-> i, value |-> v, ts |-> Time]
Histories ==
  {<<>>} \cup {<<Past(1, v)>> : v \in VariantValues}
         \cup {<<Past(0, v), Past(2, w)>> : v, w \in VariantValues}
StepLists ==
  Upto(2, [type : {3}, params : MaybeText, error_handler : {1}, error_handler_params : {Null, <<>>}])

LogPart ==
  [value |-> <<>>, source |-> Null, timestamp |-> 1, severity |-> 2, logeventid |-> 3]
AgentResults ==
  [lastlogsize : {10}, ui64 : {11}, dbl : {12}, str : {Null, <<>>}, text : {Null, <<"a">>},
   msg : {Null}, type : {4}, mtime : {5}, log : {<<>>, <<LogPart>>}]
ItemValues ==
  [itemid : {1}, item_value_type : {2}, item_flags : {0}, state : {0}, error : MaybeText,
   ts : {<<>>, <<Time>>}, result : {<<>>} \cup {<<r>> : r \in AgentResults}]
Short == CHOOSE v \in ItemValues : v.result = <<>>
Long == CHOOSE v \in ItemValues : v.result # <<>>

\* Values on their way through a worker, and what the steps may leave of them.
WorkerTasks ==
  [itemid : {1}, value_type : {3}, ts : {<<Time>>}, history : {<<>>}, steps : {<<>>},
   value : {Variant("str", 0, t) : t \in {<<>>, <<"a", "\n">>, [i \in 1 .. 9 |-> "x"]}}]
WorkerRuns ==
  {[ok |-> last.ok, value |-> v, history |-> h, results |-> Append(r, [value |-> <<>>, action |-> last.action]),
    errmsg |-> IF last.ok THEN Null ELSE e] :
     last \in [ok : {FALSE}, action : {"default", "set_error", "force_error"}] \cup [ok : {TRUE}, action : {"default"}],
     v \in {Variant("none", 0, Null), Variant("str", 0, <<>>)},
     h \in {<<>>, <<Past(0, Variant("ui64", 7, Null))>>},
     r \in Upto(2, {[value |-> t, action |-> "default"] : t \in {<<"a">>, [i \in 1 .. 30 |-> "x"]}}),
     e \in {<<"x">>, [i \in 1 .. 40 |-> "x"]}}
TestRuns ==
  [results : Upto(2, [value : VariantValues, error : {Null, <<"a">>}, action : {"default"}]), history : {<<>>},
   errmsg : {Null, <<"a">>}]

MessageQuestions ==
  ({"worker"} \X WorkerTasks \X WorkerRuns)
    \cup ({"tester"} \X [value_type : {3}, value : {<<>>, <<"a">>}, ts : {Time}, history : {<<>>}, steps : {<<>>}]
            \X TestRuns)
    \cup ({"task"} \X [itemid : {1}, value_type : {3}, ts : {<<>>, <<Time>>}, value : VariantValues,
                history : Histories, steps : StepLists])
    \cup ({"result"} \X [value : VariantValues, history : Histories, error : MaybeText])
    \cup ({"test"} \X [value_type : {3}, value : MaybeText, ts : {Time}, history : Histories,
                       steps : StepLists])
    \cup ({"test result"} \X
            [results : Upto(2, [value : VariantValues, error : MaybeText, action : {2}]),
             history : {h \in Histories : Len(h) < 2}, error : MaybeText])
    \cup ({"values"} \X (Upto(2, ItemValues) \cup [1 .. 7 -> {Short, Long}]))

\* Every message arrives as it was sent, no text taken for none, and no value of a client is
\* lost or doubled however the values are cut into messages; a worker's answer tells what the
\* steps left, an error in its place.
MessagesArrive ==
  /\ question[1] = "task" => TaskArrives(question[2])
  /\ question[1] = "result" => ResultArrives(question[2])
  /\ question[1] = "test" => TestRequestArrives(question[2])
  /\ question[1] = "test result" => TestResultArrives(question[2])
  /\ question[1] = "worker" => AnswerTold(question[2], question[3])
  /\ question[1] = "tester" => TestTold(question[2], question[3])
  /\ question[1] = "values" => ValuesArrive(question[2])

-----------------------------------------------------------------------------
(* Answers of servers: tables, macros, configuration items. *)

MCParsed ==
  LET Asked(no, kind, keys, other, time) == [no |-> no, item |-> keys, items |-> other, time |-> time]
      none == NoKeys
      a == <<"a">>
      b == <<"b">>
  IN  <<"xml1">> :> [prefix |-> <<"my.">>, discovery |-> <<>>,
                     query |-> <<Asked(1, "query", <<a, b>>, none, "60"), Asked(2, "query", <<a>>, none, "30")>>,
                     multiquery |-> <<Asked(3, "multiquery", none, <<b>>, "60")>>]
      @@ <<"xml2">> :> [prefix |-> <<>>, discovery |-> <<Asked(4, "discovery", <<a>>, none, "60")>>,
                        query |-> <<Asked(5, "query", <<a>>, <<b>>, "60")>>, multiquery |-> <<>>]
      @@ <<"xml3">> :> [prefix |-> <<>>, discovery |-> <<>>, multiquery |-> <<>>,
                        query |-> <<Asked(6, "query", none, none, "60")>>]

\* The columns as a server sends them, and in another order.
AnswerItemFields == <<"itemid", "type", "hostid", "key_", "delay", "status", "value_type", "params">>
AnswerHostFields == <<"hostid", "proxyid", "host", "status", "name">>
ItemRow(id, host, key, status, params) == <<id, 2, host, key, 30, status, 0, params>>
HostRow(id, status) == <<id, 7, "host", status, "name">>

ConfigKey(db) == <<"pg.", "config", "[", "id", ",", db, "]">>
ItemKeyTexts ==
  {<<"load">>, ConfigKey("{$D}"), ConfigKey("db9"), <<"{$P}", "config", "[", "{$D}", "]">>}
ItemRows ==
  {ItemRow(id, host, key, status, params) :
     id \in {1}, host \in {"h1", "h2"}, key \in ItemKeyTexts, status \in {0, 1},
     params \in {<<"xml1">>, <<"{$P}">>, <<"xml3">>, <<>>}}
SecondRows == {ItemRow(2, "h1", ConfigKey("{$D}"), 0, <<"xml1">>), ItemRow(2, "h2", <<"load">>, 0, <<>>)}

MacroRow(host, macro, value) == <<host, macro, value>>
MacroTables ==
  {<<>>, <<MacroRow("h1", "{$D}", <<"db1">>)>>,
   <<MacroRow("h2", "{$D}", <<"db9">>), MacroRow("h1", "{$P}", <<"xml2">>), MacroRow("h1", "{$D}", <<"db2">>),
     MacroRow("h2", "{$P}", <<"x">>)>>}

Steps4 ==
  [fields |-> <<"item_preprocid", "itemid", "step", "type", "params">>,
   data |-> <<<<1, 1, 1, 3, "p">>, <<2, 2, 1, 4, "q">>, <<3, 1, 2, 5, "r">>>>]

Answer(items, hosts, macros) ==
  [items |-> [fields |-> AnswerItemFields, data |-> items],
   hosts |-> [fields |-> AnswerHostFields, data |-> hosts],
   hostmacro |-> [fields |-> <<"hostid", "macro", "value">>, data |-> macros],
   item_preproc |-> Steps4]

FirstAnswers ==
  {Answer(<<i, j>>, <<HostRow("h1", s1), HostRow("h2", s2)>>, m) :
     i \in ItemRows, j \in SecondRows, s1, s2 \in {0, 1}, m \in MacroTables}
OtherAnswers ==
  {Answer(<<ItemRow(1, "h1", ConfigKey("{$D}"), 0, <<"xml1">>)>>, <<HostRow("h1", 0)>>,
          <<MacroRow("h1", "{$D}", <<db>>)>>) : db \in {"db1", "db2"}}

ConfigurationQuestions ==
  ({"macros"} \X Upto(4, {"{$D}", "{$P}", "a"})
     \X Upto(2, [macro : {"{$D}", "{$P}"}, value : {<<>>, <<"b">>, <<"b", "{$P}">>, <<"$&">>}]))
    \cup ({"db"} \X Upto(2, {"pg.", "config", "[", ","}) \X (Upto(3, {<<>>, <<"a">>, <<"[">>, <<"a", "db1">>}) \ {<<>>}))
    \cup ({"answers"} \X {<<a, o>> : a \in FirstAnswers, o \in OtherAnswers})

\* Whenever the macros of the items in use are defined on their own hosts, the update goes through
\* and the configuration in use is what each server's answer says: enabled items with their macros
\* replaced, queries under their periods.
ConfigurationsAreConverted ==
  /\ question[1] = "macros" => MacrosResolved(question[2], question[3])
  /\ question[1] = "db" /\ IsName(Last(question[3])) => DbNamed(question[2], question[3])
  /\ question[1] = "answers" => ConfigurationConverted(question[2], <<{<<"db1">>, <<"db2">>}, {<<"db1">>}>>)

-----------------------------------------------------------------------------
(* Rows of queries, and the items of two hosts. *)

MCColumn == "%1" :> 1 @@ "%2" :> 2
MCSmallLetter == "A" :> "a"
MCNumber == "1" :> 1 @@ "2" :> 2

KeyTexts == {<<"a">>, <<"%1">>, <<"a", "%2">>, <<"b">>}
Cells == {<<"a">>, <<"A">>, <<"b">>, NullCell}
ResultRows == Upto(3, Cells) \ {<<>>}
ResultTables == Upto(1, ResultRows) \cup {<<r, s>> : r, s \in {t \in ResultRows : Len(t) = 2}}
ResultQueries ==
  [item : Upto(2, KeyTexts) \ {<<>>}, items : {NoKeys}, type : {"column"}, names : {NoKeys}]
    \cup UNION {{[item |-> [k \in DOMAIN keys |-> prefix \o keys[k]], items |-> given, type |-> "list", names |-> NoKeys] :
                    prefix \in {<<>>, <<"a">>}, given \in {keys, NoKeys}} :
                 keys \in Upto(2, {<<"a">>, <<"A">>, <<"b">>}) \ {<<>>}}
    \cup [item : {<<<<"a">>>>, <<<<"a">>, <<"b">>>>}, items : {NoKeys}, type : {"column"},
          names : {<<<<"a">>>>, <<<<"a">>, <<"b">>>>, <<<<"a">>, <<"%2">>, <<"A">>>>}]

OfHost(id, host, key) == [itemid |-> id, hostid |-> host, key_ |-> key]
ItemsOfHosts ==
  {<<OfHost(1, "h2", <<"a">>), OfHost(2, "h1", <<"b">>), OfHost(3, "h1", <<"a", "a">>), OfHost(4, "h1", <<"null">>),
     OfHost(5, "h1", <<"a">>)>>}

ColumnSets == [name : {"a", "b", "1", "2"}, cells : {<<<<"a">>>>, <<<<" ", "a", " ">>>>, <<<<"a">>, NullCell>>, <<>>}]

ResultQuestions ==
  ({"columns"} \X Upto(3, ColumnSets)) \cup ({"result rows"} \X ResultQueries \X ResultTables \X ItemsOfHosts \X {"h1", "h3"})

\* Every value a query returns reaches the item it is meant for, once and in order, whatever
\* columns, keys and items are missing or too much, and columns that are NULL cost no other value.
ResultsAreConverted ==
  /\ question[1] = "columns" => RowKept(question[2])
  /\ question[1] = "result rows" => ResultConverted(question[2], question[3], question[4], question[5])

-----------------------------------------------------------------------------
MCInit ==
  \/ question = <<"delays">> /\ Init
  \/ /\ \/ question \in {"text"} \X IntervalTexts
        \/ question \in TextQuestions
        \/ question \in RangeQuestions
        \/ question \in StepQuestions
        \/ question \in ContainerQuestions
        \/ question \in MessageQuestions
        \/ question \in ScheduleQuestions
        \/ question \in AskedQuestions
        \/ question \in ConfigurationQuestions
        \/ question \in ResultQuestions
     /\ period = MinDelay
     /\ delay = MinDelay
     /\ asked = Undefined

MCNext == question = <<"delays">> /\ Next /\ UNCHANGED question

MCSpec == MCInit /\ [][MCNext]_<<vars, question>>
=============================================================================
