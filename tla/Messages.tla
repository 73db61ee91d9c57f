------------------------------ MODULE Messages ------------------------------
(***************************************************************************)
(* The messages between the clients, the manager and the workers of the    *)
(* preprocessing code (zabbix_server/preprocessor/preprocessing.c).        *)
(* A message is a sequence of fields.  A reader takes the next field       *)
(* whatever it is: what it makes of one of another type is Lost.           *)
(***************************************************************************)
EXTENDS Integers, Sequences, SequencesExt

CONSTANT MaxLocal    \* values a client keeps: MAX_VALUES_LOCAL, 256

ASSUME MaxLocalAssumption == MaxLocal \in Nat

Null == <<"NULL">>    \* no text, which is not the empty one
Lost == -1

\* Mutant: the terminating zero is not counted, the empty string looks like none.
StringWithoutZero(text) ==
  [type |-> "str", length |-> IF text = Null THEN 0 ELSE Len(text), text |-> text]

\* PACKED_FIELD of some bytes, and of a string: its length counts the terminating zero.
Raw(type, data) == [type |-> type, data |-> data]
String(text) == [type |-> "str", length |-> IF text = Null THEN 0 ELSE Len(text) + 1, text |-> text]
Bytes(text) == [type |-> "bin", length |-> Len(text), text |-> text]

\* zbx_deserialize_*
Take(m, i, type) == IF i \in DOMAIN m /\ m[i].type = type THEN m[i].data ELSE Lost
TakeText(m, i, type) ==
  IF i \notin DOMAIN m \/ m[i].type # type \/ (type = "str" /\ m[i].length = 0) THEN Null ELSE m[i].text

-----------------------------------------------------------------------------
\* Packing.  A time is optional, a sequence of none or one.
PackTime(ts) == <<Raw("int", ts.sec), Raw("int", ts.ns)>>
PackOptional(option, Pack(_)) ==
  IF option = <<>> THEN <<Raw("char", 0)>> ELSE <<Raw("char", 1)>> \o Pack(option[1])

\* preprocessor_pack_value
PackLog(log) ==
  <<String(log.value), String(log.source), Raw("int", log.timestamp), Raw("int", log.severity),
    Raw("int", log.logeventid)>>
PackAgentResult(r) ==
  <<Raw("uint64", r.lastlogsize), Raw("uint64", r.ui64), Raw("double", r.dbl), String(r.str),
    String(r.text), String(r.msg), Raw("int", r.type), Raw("int", r.mtime)>>
    \o PackOptional(r.log, PackLog)
PackValue(v) ==
  <<Raw("uint64", v.itemid), Raw("char", v.item_value_type), Raw("char", v.item_flags),
    Raw("char", v.state), String(v.error)>>
    \o PackOptional(v.ts, PackTime) \o PackOptional(v.result, PackAgentResult)

\* preprocessor_pack_variant
VariantTypes == {"none", "str", "dbl", "ui64", "bin"}
PackVariant(v) ==
  <<Raw("variant", v.type)>> \o
  CASE v.type = "ui64" -> <<Raw("uint64", v.number)>>
    [] v.type = "dbl" -> <<Raw("double", v.number)>>
    [] v.type = "str" -> <<String(v.text)>>
    [] v.type = "bin" -> <<Bytes(v.text)>>
    [] OTHER -> <<>>

\* A number of records, and the records: PackEach of history, steps and results.
PackEach(seq, Pack(_)) ==
  <<Raw("int", Len(seq))>> \o FlattenSeq([i \in DOMAIN seq |-> Pack(seq[i])])

PackHistoryItem(h) == <<Raw("int", h.index)>> \o PackVariant(h.value) \o PackTime(h.ts)
PackHistory(history) == PackEach(history, PackHistoryItem)

\* preprocessor_pack_step
PackStep(step) ==
  <<Raw("char", step.type), String(step.params), Raw("char", step.error_handler),
    String(step.error_handler_params)>>
PackSteps(steps) == PackEach(steps, PackStep)

PackTask(t) ==
  <<Raw("uint64", t.itemid), Raw("char", t.value_type)>> \o PackOptional(t.ts, PackTime)
    \o PackVariant(t.value) \o PackHistory(t.history) \o PackSteps(t.steps)

PackResult(r) == PackVariant(r.value) \o PackHistory(r.history) \o <<String(r.error)>>

PackStepResult(r) == PackVariant(r.value) \o <<String(r.error), Raw("char", r.action)>>
PackTestResult(r) ==
  PackEach(r.results, PackStepResult) \o PackHistory(r.history) \o <<String(r.error)>>

PackTestRequest(r) ==
  <<Raw("char", r.value_type), String(r.value)>> \o PackTime(r.ts)
    \o PackHistory(r.history) \o PackSteps(r.steps)

-----------------------------------------------------------------------------
\* Unpacking: the value that begins at the field i, and the field after it.
Unpacked(value, next) == [value |-> value, next |-> next]

UnpackTime(m, i) == Unpacked([sec |-> Take(m, i, "int"), ns |-> Take(m, i + 1, "int")], i + 2)

UnpackOptional(m, i, Unpack(_, _)) ==
  LET inner == Unpack(m, i + 1)
  IN  IF Take(m, i, "char") = 0 THEN Unpacked(<<>>, i + 1) ELSE Unpacked(<<inner.value>>, inner.next)

\* zbx_preprocessor_unpack_value
UnpackLog(m, i) ==
  Unpacked([value |-> TakeText(m, i, "str"), source |-> TakeText(m, i + 1, "str"),
            timestamp |-> Take(m, i + 2, "int"), severity |-> Take(m, i + 3, "int"),
            logeventid |-> Take(m, i + 4, "int")], i + 5)
UnpackAgentResult(m, i) ==
  LET log == UnpackOptional(m, i + 8, UnpackLog)
  IN  Unpacked([lastlogsize |-> Take(m, i, "uint64"), ui64 |-> Take(m, i + 1, "uint64"),
                dbl |-> Take(m, i + 2, "double"), str |-> TakeText(m, i + 3, "str"),
                text |-> TakeText(m, i + 4, "str"), msg |-> TakeText(m, i + 5, "str"),
                type |-> Take(m, i + 6, "int"), mtime |-> Take(m, i + 7, "int"), log |-> log.value],
               log.next)
UnpackValue(m, i) ==
  LET ts == UnpackOptional(m, i + 5, UnpackTime)
      result == UnpackOptional(m, ts.next, UnpackAgentResult)
  IN  Unpacked([itemid |-> Take(m, i, "uint64"), item_value_type |-> Take(m, i + 1, "char"),
                item_flags |-> Take(m, i + 2, "char"), state |-> Take(m, i + 3, "char"),
                error |-> TakeText(m, i + 4, "str"), ts |-> ts.value, result |-> result.value],
               result.next)

\* preprocesser_unpack_variant
UnpackVariant(m, i) ==
  LET type == IF i \in DOMAIN m /\ m[i].type = "variant" THEN m[i].data ELSE "none"
      number == IF type = "ui64" THEN Take(m, i + 1, "uint64")
                ELSE IF type = "dbl" THEN Take(m, i + 1, "double") ELSE 0
      text == IF type \in {"str", "bin"} THEN TakeText(m, i + 1, type) ELSE Null
  IN  Unpacked([type |-> type, number |-> number, text |-> text],
               IF type = "none" THEN i + 1 ELSE i + 2)

\* As many records as the number says, one after the other.
UnpackEach(m, i, Unpack(_, _)) ==
  LET RECURSIVE Some(_, _)
      Some(j, n) ==
        IF n <= 0 \/ j > Len(m) THEN Unpacked(<<>>, j)
        ELSE LET first == Unpack(m, j)
                 rest == Some(first.next, n - 1)
             IN  Unpacked(<<first.value>> \o rest.value, rest.next)
  IN  Some(i + 1, Take(m, i, "int"))

UnpackHistoryItem(m, i) ==
  LET value == UnpackVariant(m, i + 1)
      ts == UnpackTime(m, value.next)
  IN  Unpacked([index |-> Take(m, i, "int"), value |-> value.value, ts |-> ts.value], ts.next)
UnpackHistory(m, i) == UnpackEach(m, i, UnpackHistoryItem)

UnpackStep(m, i) ==
  Unpacked([type |-> Take(m, i, "char"), params |-> TakeText(m, i + 1, "str"),
            error_handler |-> Take(m, i + 2, "char"),
            error_handler_params |-> TakeText(m, i + 3, "str")], i + 4)
UnpackSteps(m, i) == UnpackEach(m, i, UnpackStep)

UnpackTask(m) ==
  LET ts == UnpackOptional(m, 3, UnpackTime)
      value == UnpackVariant(m, ts.next)
      history == UnpackHistory(m, value.next)
  IN  [itemid |-> Take(m, 1, "uint64"), value_type |-> Take(m, 2, "char"), ts |-> ts.value,
       value |-> value.value, history |-> history.value, steps |-> UnpackSteps(m, history.next).value]

UnpackResult(m) ==
  LET value == UnpackVariant(m, 1)
      history == UnpackHistory(m, value.next)
  IN  [value |-> value.value, history |-> history.value, error |-> TakeText(m, history.next, "str")]

UnpackStepResult(m, i) ==
  LET value == UnpackVariant(m, i)
  IN  Unpacked([value |-> value.value, error |-> TakeText(m, value.next, "str"),
                action |-> Take(m, value.next + 1, "char")], value.next + 2)

UnpackTestResult(m) ==
  LET results == UnpackEach(m, 1, UnpackStepResult)
      history == UnpackHistory(m, results.next)
  IN  [results |-> results.value, history |-> history.value, error |-> TakeText(m, history.next, "str")]

UnpackTestRequest(m) ==
  LET ts == UnpackTime(m, 3)
      history == UnpackHistory(m, ts.next)
  IN  [value_type |-> Take(m, 1, "char"), value |-> TakeText(m, 2, "str"), ts |-> ts.value,
       history |-> history.value, steps |-> UnpackSteps(m, history.next).value]

-----------------------------------------------------------------------------
\* A client: the message that has not been sent, the values counted in it, the messages sent.
Client == [message |-> <<>>, values |-> 0, sent |-> <<>>]

\* Mutant: a message that is sent is not emptied.
FlushKeeps(client) ==
  IF client.message = <<>> THEN client
  ELSE [client EXCEPT !.values = 0, !.sent = Append(@, client.message)]

\* zbx_preprocessor_flush
Flush(client) ==
  IF client.message = <<>> THEN client
  ELSE [message |-> <<>>, values |-> 0, sent |-> Append(client.sent, client.message)]

\* zbx_preprocess_item_value
PreprocessItemValue(client, v) ==
  LET packed == [client EXCEPT !.message = @ \o PackValue(v), !.values = @ + 1]
  IN  IF MaxLocal < packed.values THEN Flush(packed) ELSE packed

\* The loop of preprocessor_add_request.
RECURSIVE ValuesFrom(_, _)
ValuesFrom(m, i) ==
  IF i > Len(m) THEN <<>>
  ELSE LET first == UnpackValue(m, i) IN <<first.value>> \o ValuesFrom(m, first.next)

-----------------------------------------------------------------------------
\* What arrives is what was sent, and the fields fit where they are collected: the numbers are
\* those the code allocates.
TaskArrives(t) ==
  /\ UnpackTask(PackTask(t)) = t
  /\ Len(PackTask(t)) <= 9 + Len(t.steps) * 4 + Len(t.history) * 5

ResultArrives(r) ==
  /\ UnpackResult(PackResult(r)) = r
  /\ Len(PackResult(r)) <= 4 + Len(r.history) * 5

TestResultArrives(r) ==
  /\ UnpackTestResult(PackTestResult(r)) = r
  /\ Len(PackTestResult(r)) <= 3 + Len(r.history) * 5 + Len(r.results) * 4

TestRequestArrives(r) ==
  /\ UnpackTestRequest(PackTestRequest(r)) = r
  /\ Len(PackTestRequest(r)) <= 6 + Len(r.steps) * 4 + Len(r.history) * 5

\* Values that are collected arrive all, once and in order, at most MaxLocal + 1 in a message.
ValuesArrive(values) ==
  LET client == Flush(FoldLeft(PreprocessItemValue, Client, values))
  IN  /\ FlattenSeq([k \in DOMAIN client.sent |-> ValuesFrom(client.sent[k], 1)]) = values
      /\ \A k \in DOMAIN client.sent : Len(ValuesFrom(client.sent[k], 1)) \in 1 .. (MaxLocal + 1)
      /\ \A k \in DOMAIN values : Len(PackValue(values[k])) <= 23
=============================================================================
