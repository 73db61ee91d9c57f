----------------------------- MODULE ErrorTexts -----------------------------
(***************************************************************************)
(* The message a preprocessing worker makes when a step fails              *)
(* (preproc_worker.c): the value, the steps as far as they fit, and the    *)
(* failed step.  A text is a sequence of characters, its fixed parts are   *)
(* one character each.                                                     *)
(***************************************************************************)
EXTENDS TLC, Integers, Sequences, SequencesExt

CONSTANTS
  PreviewLen,     \* ZBX_PREPROC_VALUE_PREVIEW_LEN
  ErrorLen        \* ITEM_ERROR_LEN

ASSUME LengthsAssumption == PreviewLen >= 3 /\ ErrorLen >= PreviewLen + 4

Control == {"\n", "\t"}
Dots == <<".", ".", ".">>
FirstChars(s, n) == SubSeq(s, 1, IF n < Len(s) THEN n ELSE Len(s))

\* worker_format_value
FormatValue(value) ==
  LET Visible(s) == [i \in DOMAIN s |-> IF s[i] \in Control THEN "." ELSE s[i]]
  IN  IF PreviewLen < Len(value) THEN Visible(FirstChars(value, PreviewLen - 3)) \o Dots
      ELSE Visible(value)

\* worker_format_result of a step that succeeded; what was done about the step is its action.
FormatResult(step, result) ==
  <<ToString(step), "Result", result.action>> \o FormatValue(result.value) \o <<"\n">>

\* And of the one that failed, without the blanks at its end.
FormatFailed(step, result, error) ==
  LET text == <<ToString(step), "Failed", result.action>> \o error \o <<"\n">>
  IN  FirstChars(text, Max({i \in DOMAIN text : text[i] \notin {" ", "\n", "\t"}}))

\* zbx_db_mock_field_append: the room that is left for a text if it fits.
RoomAfter(room, text) == IF Len(text) <= room THEN room - Len(text) ELSE room

\* The room for steps: the header and the dots are counted first.
RoomForSteps(header) == RoomAfter(RoomAfter(ErrorLen, header), Append(Dots, "\n"))

\* The steps from k downwards that fit into the room, in their order; the first that does not
\* ends it.
RECURSIVE FittingSteps(_, _, _)
FittingSteps(results, k, room) ==
  IF k = 0 THEN <<>>
  ELSE LET text == FormatResult(k, results[k])
       IN  IF Len(text) > room THEN <<>>
           ELSE Append(FittingSteps(results, k - 1, room - Len(text)), text)

\* worker_format_error: the failed step is in it in any case, and the end is cut if it is too
\* long for that.
FormatError(value, results, errmsg) ==
  LET n == Len(results)
      header == <<"failed for">> \o FormatValue(value) \o <<"\n">>
      room == RoomForSteps(header)
      failed == FormatFailed(n, results[n], errmsg)
      before == IF Len(failed) > room THEN <<>> ELSE FittingSteps(results, n - 1, room - Len(failed))
      dots == IF Len(before) + 1 < n THEN Append(Dots, "\n") ELSE <<>>
      text == header \o dots \o FlattenSeq(before) \o failed
  IN  IF ErrorLen < Len(text) THEN FirstChars(text, ErrorLen - 3) \o Dots ELSE text

-----------------------------------------------------------------------------
\* The message fits the column of the database.  It shows the value and ends with the failed
\* step, cut only if there is no room for all of it, and before it with as many of the last steps
\* as there is room for, with dots in place of the others.
ErrorTold(value, results, errmsg) ==
  LET n == Len(results)
      header == <<"failed for">> \o FormatValue(value) \o <<"\n">>
      failed == FormatFailed(n, results[n], errmsg)
      Steps(k) == FlattenSeq([i \in 1 .. n - k |-> FormatResult(k + i - 1, results[k + i - 1])]) \o failed
      From(k) == header \o (IF k = 1 THEN <<>> ELSE Append(Dots, "\n")) \o Steps(k)
      Fits(k) == Len(header) + Len(Dots) + 1 + Len(Steps(k)) <= ErrorLen
      first == CHOOSE k \in 1 .. n : (k = n \/ Fits(k)) /\ \A j \in 1 .. k - 1 : ~Fits(j)
  IN  \A text \in {FormatError(value, results, errmsg)} :
        /\ Len(text) <= ErrorLen
        /\ Control \cap ToSet(FormatValue(value)) = {}
        /\ text = From(first) \/ (Len(From(n)) > ErrorLen /\ first = n
                                    /\ text = FirstChars(From(n), ErrorLen - 3) \o Dots)
=============================================================================
