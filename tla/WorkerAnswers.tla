--------------------------- MODULE WorkerAnswers ---------------------------
(***************************************************************************)
(* What a preprocessing worker makes of a message (preproc_worker.c): it   *)
(* unpacks a task or a test, runs the steps, and packs its answer.  The    *)
(* steps themselves are in Preprocessing: "run" is what they left, [ok,    *)
(* value, history, results, errmsg], with a result for each step that was  *)
(* executed, [value, action], value the text of it.                        *)
(***************************************************************************)
EXTENDS Messages, ErrorTexts

\* The actions after which the error is shown as it is.
OwnErrors == {"set_error", "force_error"}

\* The error of the answer: what the step's handler set, or the message with value and steps.
AnswerError(task, run) ==
  IF run.ok THEN Null
  ELSE IF Last(run.results).action \in OwnErrors THEN run.errmsg
  ELSE FormatError(task.value.text, run.results, run.errmsg)

\* worker_preprocess_value
WorkerPreprocessValue(message, run) ==
  LET task == UnpackTask(message)
  IN  PackResult([value |-> run.value, history |-> run.history, error |-> AnswerError(task, run)])

\* worker_test_value: the value is a text in any case, every step's result and error is told, and
\* the error of the whole is the one of the step that ended it.
TestedValue(message) == [type |-> "str", number |-> 0, text |-> UnpackTestRequest(message).value]
WorkerTestValue(message, run) ==
  PackTestResult([results |-> run.results, history |-> run.history, error |-> run.errmsg])

\* preprocessing_worker_thread: messages of other kinds have no answer.
WorkerAnswer(code, message, run) ==
  CASE code = "request" -> <<WorkerPreprocessValue(message, run)>>
    [] code = "test_request" -> <<WorkerTestValue(message, run)>>
    [] OTHER -> <<>>

-----------------------------------------------------------------------------
\* What the manager learns of a value is what the steps left; it learns of an error exactly if a
\* step failed, in the words set for that step, or else in ones that fit the column and end with it.
AnswerTold(task, run) ==
  \A answers \in {WorkerAnswer("request", PackTask(task), run)} :
    /\ Len(answers) = 1
    /\ \A read \in {UnpackResult(answers[1])}, last \in {Last(run.results)} :
         /\ read.value = run.value /\ read.history = run.history
         /\ run.ok <=> read.error = Null
         /\ ~run.ok /\ last.action \in OwnErrors => read.error = run.errmsg
         /\ ~run.ok /\ last.action \notin OwnErrors =>
              /\ Len(read.error) <= ErrorLen
              /\ \/ IsSuffix(FormatFailed(Len(run.results), last, run.errmsg), read.error)
                 \/ IsSuffix(Dots, read.error)

\* A test learns of every step that was executed, and of the value it was asked about.
TestTold(request, run) ==
  \A answers \in {WorkerAnswer("test_request", PackTestRequest(request), run)} :
    /\ Len(answers) = 1
    /\ UnpackTestResult(answers[1]) = [results |-> run.results, history |-> run.history, error |-> run.errmsg]
    /\ TestedValue(PackTestRequest(request)).text = request.value
=============================================================================
