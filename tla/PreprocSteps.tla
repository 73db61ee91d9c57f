---------------------------- MODULE PreprocSteps ----------------------------
(***************************************************************************)
(* The preprocessing steps (zabbix_server/preprocessor/item_preproc.c).    *)
(* A step takes a value, its time and what the step remembers of the value *)
(* before, and gives a new value, what it remembers now, and an error.     *)
(* Times are whole seconds.                                                *)
(***************************************************************************)
EXTENDS Variants, Sequences

\* Error handlers of a step; "alt" is the value or the error they put in place.
Handlers == {"default", "discard", "set_value", "set_error"}

NoPast == [value |-> NoValue, ts |-> 0]
NoError == ""

Ok(v, past) == [ok |-> TRUE, value |-> v, past |-> past, error |-> NoError]
Fail(v, past, e) == [ok |-> FALSE, value |-> v, past |-> past, error |-> e]

\* zbx_item_preproc_convert_value_to_numeric; a double that is no uint64 stays a double.
ToNumeric(v, valueType) ==
  LET num == IF v.type = "str" THEN SetNumeric(v) ELSE v
  IN  IF valueType = "text" THEN num ELSE Convert(num, VariantOf(valueType))

\* item_preproc_multiplier, the products of uint64 modulo 2^64
Multiplier(valueType, v, past, op) ==
  LET num == ToNumeric(v, valueType)
      product == (num.num * op.param) \div Unit
  IN  IF ~IsNumber(v) THEN Fail(v, past, "not numeric")
      ELSE IF num.type = "dbl" THEN Ok(Dbl(product), past)
      ELSE IF IsUint64(op.param) THEN Ok(Ui64(product % ((MaxUint + 1) * Unit)), past)
      ELSE Ok(Ui64(Cut(product)), past)

\* item_preproc_delta_float and item_preproc_delta_uint64: nothing for a value below the
\* one before, or, of a speed, one that is not later.
Change(num, old, ts, past, speed) ==
  IF past.ts = 0 \/ old > num.num \/ (speed /\ past.ts >= ts) THEN NoValue
  ELSE LET diff == IF speed THEN (num.num - old) \div (ts - past.ts) ELSE num.num - old
       IN  [num EXCEPT !.num = IF num.type = "ui64" THEN Truncated(diff) ELSE diff]

\* Mutant: a difference is remembered in the place of the value.
DeltaRemembersResult(valueType, v, ts, past, speed, garbage) ==
  LET num == ToNumeric(v, valueType)
      change == IF past.value.type = "none" THEN NoValue
                ELSE Change(num, past.value.num, ts, past, speed)
  IN  IF ~IsNumber(v) THEN Fail(v, past, "not numeric")
      ELSE Ok(change, [value |-> IF change = NoValue THEN num ELSE change, ts |-> ts])

\* item_preproc_delta: remembers the value as a number, whatever comes of it.  The code does
\* not look whether the remembered value converts; if not, the bytes of a pointer are taken
\* for the number: garbage.
Delta(valueType, v, ts, past, speed, garbage) ==
  LET num == ToNumeric(v, valueType)
      type == IF "dbl" \in {num.type, past.value.type} THEN "dbl" ELSE "ui64"
      old == IF Convertible(past.value, type) THEN Convert(past.value, type).num ELSE garbage
      change == IF past.value.type = "none" THEN NoValue
                ELSE Change(Convert(num, type), old, ts, past, speed)
  IN  IF ~IsNumber(v) THEN Fail(v, past, "not numeric")
      ELSE Ok(change, [value |-> num, ts |-> ts])

\* item_preproc_throttle_value
Throttle(v, ts, past) ==
  IF Equal(v, past.value) THEN Ok(NoValue, [past EXCEPT !.value = v])
  ELSE Ok(v, [value |-> v, ts |-> ts])

\* Mutant: the period starts again with every value that is suppressed.
ThrottleTimedFromLast(v, ts, past, op) ==
  LET period == IF v.type # "none" THEN ts - past.ts ELSE 0
  IN  IF op.param < 0 THEN Fail(v, NoPast, "bad period")
      ELSE Ok(IF Equal(v, past.value) /\ period < op.param THEN NoValue ELSE v,
              [value |-> v, ts |-> ts])

\* item_preproc_throttle_timed_value; a negative parameter stands for one that is no time.
ThrottleTimed(v, ts, past, op) ==
  LET period == IF v.type # "none" THEN ts - past.ts ELSE 0
  IN  IF op.param < 0 THEN Fail(v, NoPast, "bad period")
      ELSE IF Equal(v, past.value) /\ period < op.param
           THEN Ok(NoValue, [past EXCEPT !.value = v])
           ELSE Ok(v, [value |-> v, ts |-> ts])

\* item_preproc_validate_range: at least param, at most alt, the value stays as it is.
ValidateRange(valueType, v, past, op) ==
  LET num == ToNumeric(v, valueType)
  IN  IF ~IsNumber(v) THEN Fail(v, past, "not numeric")
      ELSE IF Less(num, SetNumeric(Text(op.param))) \/ Less(SetNumeric(Text(op.max)), num)
      THEN Fail(v, past, "not in range")
      ELSE Ok(v, past)

\* The expressions of the steps that follow match words, and neither numbers nor the empty text.
Matches(v) == v.word \notin {NoWord, Blank.word}

\* item_preproc_validate_regex and item_preproc_validate_not_regex
ValidateRegex(v, past, matching) ==
  IF Matches(v) = matching THEN Ok(v, past) ELSE Fail(v, past, "regex")

\* item_preproc_regsub and item_preproc_jsonpath take a part out of a text, here a number out
\* of a word; the matching itself is not in this code.
Extract(v, past, op) ==
  IF ~Matches(v) THEN Fail(Convert(v, "str"), past, "no match")
  ELSE Ok(Text(op.param), past)

\* item_preproc_get_error_from_regex: the match becomes the error, and the step fails.
ErrorFromRegex(v, past) ==
  IF Matches(v) THEN Fail(v, past, v.word) ELSE Ok(v, past)

\* item_preproc_script: the compiled script is what the step remembers; a script that returns
\* its input and throws for words.
Script(v, past) ==
  LET compiled == [past EXCEPT !.value = Bin]
  IN  IF Matches(v) THEN Fail(Convert(v, "str"), compiled, "thrown")
      ELSE Ok(Convert(v, "str"), compiled)

\* zbx_item_preproc
StepResult(valueType, v, ts, op, past, garbage) ==
  CASE op.type = "multiplier" -> Multiplier(valueType, v, past, op)
    [] op.type = "delta" -> Delta(valueType, v, ts, past, FALSE, garbage)
    [] op.type = "speed" -> Delta(valueType, v, ts, past, TRUE, garbage)
    [] op.type = "throttle" -> Throttle(v, ts, past)
    [] op.type = "throttle_timed" -> ThrottleTimed(v, ts, past, op)
    [] op.type = "range" -> ValidateRange(valueType, v, past, op)
    [] op.type = "regex" -> ValidateRegex(v, past, TRUE)
    [] op.type = "not_regex" -> ValidateRegex(v, past, FALSE)
    [] op.type = "extract" -> Extract(v, past, op)
    [] op.type = "error_regex" -> ErrorFromRegex(v, past)
    [] op.type = "script" -> Script(v, past)
    [] OTHER -> Fail(v, past, "unknown operation")

\* Mutant: the error stays set beside the value that was put in its place.
HandleErrorKeepsError(r, op) ==
  CASE op.handler = "discard" -> [r EXCEPT !.ok = TRUE, !.value = NoValue]
    [] op.handler = "set_value" -> [r EXCEPT !.ok = TRUE, !.value = op.alt]
    [] op.handler = "set_error" -> [r EXCEPT !.error = op.alt.word]
    [] OTHER -> r

\* zbx_item_preproc_handle_error
HandleError(r, op) ==
  CASE op.handler = "discard" -> [r EXCEPT !.ok = TRUE, !.value = NoValue, !.error = NoError]
    [] op.handler = "set_value" -> [r EXCEPT !.ok = TRUE, !.value = op.alt, !.error = NoError]
    [] op.handler = "set_error" -> [r EXCEPT !.error = op.alt.word]
    [] OTHER -> r
=============================================================================
