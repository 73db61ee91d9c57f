--------------------------- MODULE Preprocessing ---------------------------
(***************************************************************************)
(* The values of an item on their way through its preprocessing steps, as  *)
(* the program runs them (getPreprocessedItem over the native binding) and *)
(* as Zabbix's own worker does (worker_item_preproc_execute), with the     *)
(* history each of them keeps from one value to the next.  Both get the    *)
(* same values at the same times.                                          *)
(***************************************************************************)
EXTENDS PreprocSteps, FiniteSets

CONSTANTS
  Inputs,          \* the values an item may have: texts
  Configurations,  \* the steps it may have: [valueType, steps]
  Gaps,            \* seconds between two values
  Words,           \* texts that are no numbers, errors among them
  Garbage,         \* numbers that the bytes of a pointer may be read as
  MaxValues,       \* bound: values between two configurations
  MaxChanges       \* bound: changes of the configuration

VARIABLES
  conf,       \* the configuration of the item
  changes,    \* number of changes
  now,        \* time of the last value
  past,       \* step -> what the manager keeps for it between values
  history,    \* getPreprocessedItem's history: step -> [value, ts], value NoValue for ""
  log         \* the values since the last change, with what became of them

vars == <<conf, changes, now, past, history, log>>

Texts == [type : {"str"}, num : Int, word : Words]

Errors == {"not numeric", "bad period", "not in range", "regex", "no match", "thrown",
           "unknown operation", "not suitable"}

\* A step of a known or an unknown type.
Operations ==
  [type : STRING, param : Int, max : Int, handler : Handlers, alt : Texts \cup {NoValue}]

\* A value or an error that is put in place of another is a text; the error is a word, as an
\* error is told from none by its word.
ASSUME PreprocessingAssumption ==
  /\ {NoWord, Blank.word, "Shit happens!"} \cup Errors \subseteq Words
  /\ Inputs \subseteq Texts
  /\ \A c \in Configurations :
       /\ c.valueType \in ValueTypes /\ c.steps \in Seq(Operations)
       /\ \A k \in DOMAIN c.steps :
            LET op == c.steps[k]
            IN  /\ op.handler \in {"set_value", "set_error"} => op.alt \in Texts
                /\ op.handler = "set_error" => op.alt.word # NoWord
  /\ Gaps \subseteq Nat /\ Garbage \subseteq Int
  /\ MaxValues \in Nat /\ MaxChanges \in Nat

NoPasts(c) == [k \in DOMAIN c.steps |-> NoPast]

-----------------------------------------------------------------------------
(* The worker.                                                             *)

\* One round of the loop in worker_item_preproc_execute: what the step remembers goes to the
\* new history, unless the step failed; an error, be it of a step that succeeds, or no value ends it.
ExecuteStep(c, ts, in, g, s, k) ==
  LET op == c.steps[k]
      r0 == StepResult(c.valueType, s.value, ts, op, in[k], g)
      r == IF r0.ok THEN r0 ELSE [HandleError(r0, op) EXCEPT !.past = NoPast]
      ok == r.ok /\ r.error = NoError
  IN  [value |-> r.value, error |-> r.error, num |-> k,
       past |-> IF ok /\ r.past.value.type # "none" THEN [s.past EXCEPT ![k] = r.past]
                ELSE s.past,
       running |-> ok /\ r.value.type # "none"]

Started(c, v) ==
  [value |-> v, error |-> NoError, num |-> 0, past |-> NoPasts(c), running |-> TRUE]

\* worker_item_preproc_execute; the history of a step that is not reached is gone.
Execute(c, v, ts, in, g) ==
  LET after[k \in 0 .. Len(c.steps)] ==
        IF k = 0 THEN Started(c, v)
        ELSE IF ~after[k - 1].running THEN after[k - 1]
        ELSE ExecuteStep(c, ts, in, g, after[k - 1], k)
  IN  after[Len(c.steps)]

Outcome(kind, v) == [kind |-> kind, value |-> v]

\* What worker_preprocess_value and worker_test_value send back: an error, no value, or what the
\* last step made of the value.
Answer(s) ==
  IF s.error # NoError THEN Outcome("error", Word(s.error))
  ELSE IF s.value.type = "none" THEN Outcome("discarded", NoValue)
  ELSE Outcome("value", s.value)

\* preprocessor_set_variant_result: what becomes of the value.
SetVariantResult(c, a) ==
  IF a.kind # "value" THEN a
  ELSE IF ~Convertible(a.value, VariantOf(c.valueType))
  THEN Outcome("error", Word("not suitable"))
  ELSE Outcome("value", Convert(a.value, VariantOf(c.valueType)))

\* Mutant: a test stops at a step that fails, handled or not.
TestStepUnhandled(c, ts, in, g, s, k) ==
  LET r == StepResult(c.valueType, s.value, ts, c.steps[k], in[k], g)
  IN  [value |-> r.value, error |-> r.error, num |-> k, past |-> s.past,
       running |-> r.ok /\ r.value.type # "none"]

\* One round of zbx_item_preproc_test: as ExecuteStep, but a failed step that has been
\* handled goes on with what it remembers.
TestStep(c, ts, in, g, s, k) ==
  LET op == c.steps[k]
      r0 == StepResult(c.valueType, s.value, ts, op, in[k], g)
      r == IF r0.ok THEN r0 ELSE HandleError(r0, op)
  IN  [value |-> r.value, error |-> r.error, num |-> k,
       past |-> IF r.ok /\ r.past.value.type # "none" THEN [s.past EXCEPT ![k] = r.past]
                ELSE s.past,
       running |-> r.ok /\ r.value.type # "none"]

\* zbx_item_preproc_test, on a copy of the history.
Test(c, v, ts, in, g) ==
  LET after[k \in 0 .. Len(c.steps)] ==
        IF k = 0 THEN Started(c, v)
        ELSE IF ~after[k - 1].running THEN after[k - 1]
        ELSE TestStep(c, ts, in, g, after[k - 1], k)
  IN  after[Len(c.steps)]

-----------------------------------------------------------------------------
(* The program.                                                            *)

Placeholder == Word("Shit happens!")

NeedsHistory(op) == op.type \in {"delta", "speed", "throttle", "throttle_timed", "script"}

\* Preproc in binding.cpp: throws without the history it needs, and takes an empty text for none;
\* the result of the error handler is not looked at, and no value becomes a text.
Binding(c, v, ts, op, h, g) ==
  LET r0 == StepResult(c.valueType, v, ts, op, h, g)
      r == IF r0.ok THEN r0 ELSE HandleError(r0, op)
      lacking == h.value \in {NoValue, Blank} \/ (op.type # "script" /\ h.ts <= 0)
  IN  IF NeedsHistory(op) /\ lacking
      THEN Outcome("thrown", NoValue)
      ELSE Outcome("value", IF r.value.type = "none" THEN Placeholder
                            ELSE Convert(r.value, "str"))

\* Mutant: history is written only when the step succeeds.
ReduceStepOnSuccess(c, ts, g, s, k) ==
  LET r == Binding(c, s.value, ts, c.steps[k], s.history[k], g)
  IN  [kind |-> r.kind, value |-> r.value,
       history |-> IF r.kind = "thrown" THEN s.history
                   ELSE [s.history EXCEPT ![k] = [value |-> s.value, ts |-> ts]]]

\* One round of the reduce in getPreprocessedItem; "finally" keeps what went into the step.
ReduceStep(c, ts, g, s, k) ==
  LET r == Binding(c, s.value, ts, c.steps[k], s.history[k], g)
  IN  [kind |-> r.kind, value |-> r.value,
       history |-> [s.history EXCEPT ![k] = [value |-> s.value, ts |-> ts]]]

\* History starts anew when the number of steps changed.
KeptHistory(c, h) == IF Len(h) # Len(c.steps) THEN NoPasts(c) ELSE h

\* getPreprocessedItem
GetPreprocessedItem(c, v, ts, h, g) ==
  LET after[k \in 0 .. Len(c.steps)] ==
        IF k = 0 THEN [kind |-> "value", value |-> v, history |-> KeptHistory(c, h)]
        ELSE IF after[k - 1].kind = "thrown" THEN after[k - 1]
        ELSE ReduceStep(c, ts, g, after[k - 1], k)
  IN  after[Len(c.steps)]

-----------------------------------------------------------------------------
\* A value of the item, preprocessed by both, and by a test of the same steps.
Value(v, gap, g) ==
  /\ Len(log) < MaxValues
  /\ now' = now + gap
  /\ \E worker \in {Execute(conf, v, now', past, g)},
        program \in {GetPreprocessedItem(conf, v, now', history, g)},
        test \in {Test(conf, v, now', past, g)} :
       /\ past' = worker.past
       /\ history' = program.history
       /\ log' = Append(log, [in |-> v, ts |-> now', at |-> worker.num,
                              worker |-> SetVariantResult(conf, Answer(worker)),
                              test |-> Answer(test),
                              sent |-> Outcome(program.kind, program.value)])
  /\ UNCHANGED <<conf, changes>>

\* New steps: the manager forgets what the old ones kept, the program looks at them with the
\* next value.
ChangeSteps(c) ==
  /\ changes < MaxChanges
  /\ c # conf
  /\ changes' = changes + 1
  /\ conf' = c
  /\ past' = NoPasts(c)
  /\ log' = <<>>
  /\ UNCHANGED <<now, history>>

Init ==
  /\ conf \in Configurations
  /\ changes = 0
  /\ now = 1
  /\ past = NoPasts(conf)
  /\ history = <<>>
  /\ log = <<>>

Next ==
  \/ \E v \in Inputs, gap \in Gaps, g \in Garbage : Value(v, gap, g)
  \/ \E c \in Configurations : ChangeSteps(c)

Spec == Init /\ [][Next]_vars

-----------------------------------------------------------------------------
Variant == [type : {"none", "ui64", "dbl", "str"}, num : Int, word : Words]

\* Every number that comes out is one its type can hold.
TypeOK ==
  /\ DOMAIN past = DOMAIN conf.steps
  /\ \A k \in DOMAIN log :
       LET v == log[k].worker.value
       IN  /\ v \in Variant
           /\ v.type = "ui64" => IsUint64(v.num)
           /\ log[k].worker.kind = "value" => v.type = VariantOf(conf.valueType)

Steps == conf.steps

Emitted(k) == log[k].worker.kind # "discarded"

\* The period has passed since the last value before the k-th that was let through.
PeriodPassed(k) ==
  /\ Steps[1].type = "throttle_timed"
  /\ \E j \in 1 .. k - 1 :
       /\ Emitted(j) /\ \A i \in j + 1 .. k - 1 : ~Emitted(i)
       /\ log[k].ts - log[j].ts >= Steps[1].param

\* Throttling lets through exactly the values that differ from the one before, and with a
\* period one value each time it has passed since the last that went through, although the
\* step remembers only the last value and one time.
ThrottleEmitsChanges ==
  /\ Len(Steps) = 1
  /\ Steps[1].type = "throttle" \/ (Steps[1].type = "throttle_timed" /\ Steps[1].param >= 0)
  =>
    \A k \in DOMAIN log :
      Emitted(k) <=> k = 1 \/ ~Equal(log[k].in, log[k - 1].in) \/ PeriodPassed(k)

\* What the multipliers before the last step make of an input: the number it counts as.
Counter(v) ==
  LET n == Len(Steps) - 1
      carried[k \in 0 .. n] ==
        IF k = 0 THEN v ELSE Multiplier(conf.valueType, carried[k - 1], NoPast, Steps[k]).value
  IN  ToNumeric(carried[n], conf.valueType).num

Sum(i, j) ==
  LET sum[k \in i .. j] == IF k = i THEN 0 ELSE sum[k - 1] + log[k].worker.value.num
  IN  sum[j]

\* Differences add up: over any stretch of numbers in which none was dropped, the differences
\* sum to the growth of the counter, so nothing is lost or counted twice between values.  An
\* unsigned item cannot count below 0; one of texts gets its differences printed, so they add
\* up to what the counter has before the last digit that is printed.
DifferencesAddUp ==
  /\ Steps # <<>>
  /\ Steps[Len(Steps)].type = "delta"
  /\ \A s \in 1 .. Len(Steps) - 1 : Steps[s].type = "multiplier"
  =>
    \A i, j \in DOMAIN log :
      /\ i < j
      /\ \A k \in i .. j : /\ IsNumber(log[k].in)
                           /\ conf.valueType = "uint" => Counter(log[k].in) >= 0
                           /\ conf.valueType = "text" => Counter(log[k].in) % Grain = 0
      /\ \A k \in i + 1 .. j : log[k].worker.kind = "value"
      => Sum(i, j) = Counter(log[j].in) - Counter(log[i].in)

\* An item whose steps all handle their errors gets no error of a step.
HandledNeverFails ==
  (\A k \in DOMAIN Steps : Steps[k].handler \in {"discard", "set_value"}) =>
    \A k \in DOMAIN log :
      log[k].worker.kind = "error" => log[k].worker.value = Word("not suitable")

\* The one value and time the worker remembers of each step are enough for throttling and
\* differences over any number of values, and error handlers cover every step.
WorkerIsSound == TypeOK /\ ThrottleEmitsChanges /\ DifferencesAddUp /\ HandledNeverFails

\* A test of the steps with the history at hand shows what the worker would make of the value:
\* what the item gets is the result of the test, converted to the item's type.
TestAgreesWithWorker ==
  \A k \in DOMAIN log : log[k].worker = SetVariantResult(conf, log[k].test)

\* The worker made something of every value up to k, but perhaps of the first, which the step
\* it came to had nothing to compare with.
Smooth(k) ==
  \A j \in 1 .. k :
    \/ log[j].worker.kind = "value"
    \/ j = 1 /\ log[j].worker.kind = "discarded" /\ Steps[log[j].at].type \in {"delta", "speed"}

\* A number that a text can hold on the way between two steps: for an item of doubles, as many
\* digits after the point as are printed.  For another item there are no fractions: the worker
\* remembers a number, the program a text, which does not convert to an unsigned number.
Plain(n) == IF conf.valueType = "float" THEN n % Grain = 0 ELSE IsUint64(n)

\* Only the last step makes numbers with more digits, by a multiplier with a fraction or a speed.
Whole(k) ==
  /\ \A j \in 1 .. k : Plain(log[j].in.num)
  /\ \A s \in DOMAIN Steps :
       LET op == Steps[s]
       IN  /\ Plain(op.alt.num)
           /\ op.type = "extract" => Plain(op.param)
           /\ s < Len(Steps) /\ conf.valueType = "float" =>
                op.type # "speed" /\ (op.type = "multiplier" => op.param % Unit = 0)

\* No empty text goes into a step: the program takes it for no history with the next value.
NeverBlank(k) ==
  /\ \A j \in 1 .. k : log[j].in # Blank
  /\ \A s \in DOMAIN Steps : Steps[s].alt # Blank

HistorySteps == Cardinality({k \in DOMAIN Steps : NeedsHistory(Steps[k])})

\* The program keeps history of its own form (the raw inputs of the steps, as texts), yet as
\* long as nothing fails, nothing is dropped and nothing is lost in a text, what it sends is what
\* the worker would have made of the same values, up to the digits that are printed, and each
\* step with history costs it one value, no more.
ProgramAgreesWithWorker ==
  changes = 0 =>
    \A k \in DOMAIN log :
      Smooth(k) /\ Whole(k) /\ NeverBlank(k) =>
                   \/ log[k].sent.kind = "thrown" /\ k <= HistorySteps
                   \/ /\ log[k].sent.kind = "value"
                      /\ Convert(log[k].sent.value, VariantOf(conf.valueType))
                           = Convert(Convert(log[k].worker.value, "str"), VariantOf(conf.valueType))

\* A value that throttling suppresses is not sent.
SuppressedIsNotSent == \A k \in DOMAIN log : log[k].sent.value # Placeholder
=============================================================================
