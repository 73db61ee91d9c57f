------------------------------- MODULE Markup -------------------------------
(***************************************************************************)
(* XML and JSON in values: the preprocessing steps that search a document  *)
(* or look for an error in it, the Prometheus steps (item_preproc.c), and  *)
(* texts written into and read out of XML (libs/zbxcommon/xml.c).          *)
(*                                                                         *)
(* What the parsers of XML, XPath, JSON and Prometheus make of a document  *)
(* and an expression is not in this code: it is the argument "found",      *)
(* [type, nodes, text].  Its type "no document" or "no expression" is one  *)
(* of them that cannot be parsed.  A value is a text; a number becomes one *)
(* first (zbx_variant_convert), but for ErrorFromJson.                     *)
(***************************************************************************)
EXTENDS Texts

ZbxWhitespace == {" ", "\t", "\r", "\n"}
NoText == <<"NULL">>     \* no text, which is not the empty one

\* What a step leaves: whether it succeeds, the value, the error it sets.
Passed(value) == [ok |-> TRUE, value |-> value, error |-> NoText]
Refusal(value, error) == [ok |-> FALSE, value |-> value, error |-> error]

-----------------------------------------------------------------------------
(* Searching a document. *)

\* The dump of the nodes that were found, one behind the other.
Dump(nodes) == FlattenSeq(nodes)
Truth(bool) == IF bool THEN <<"1">> ELSE <<"0">>

\* A number that was printed: not a number and infinity have no digit in front.
IsFinite(printed) == At(printed, IF At(printed, 1) = "-" THEN 2 ELSE 1) \in Digit

\* item_preproc_xpath: a number that is none costs the value.
XPath(value, found) ==
  CASE found.type = "no document" -> Refusal(value, <<"cannot parse xml value">>)
    [] found.type = "no expression" -> Refusal(value, <<"cannot parse xpath">>)
    [] found.type = "nodeset" -> Passed(Dump(found.nodes))
    [] found.type = "string" -> Passed(found.text)
    [] found.type = "boolean" -> Passed(Truth(found.truth))
    [] found.type = "number" ->
         IF IsFinite(found.text) THEN Passed(DelZeros(found.text))
         ELSE Refusal(NoText, <<"Invalid numeric value">>)
    [] OTHER -> Refusal(value, <<"Unknown result">>)

\* item_preproc_jsonpath: data that is missing is an error.
JsonPath(value, found) ==
  CASE found.type \in {"no document", "no expression"} -> Refusal(value, <<"json error">>)
    [] found.text = NoText -> Refusal(value, <<"no data matches">>)
    [] OTHER -> Passed(found.text)

\* The end of both steps that look for an error: one of blanks is none.
ErrorFound(value, error) ==
  LET trimmed == Lrtrim(error, ZbxWhitespace)
  IN  IF trimmed = <<>> THEN Passed(value) ELSE Refusal(value, trimmed)

\* item_preproc_get_error_from_xml: what is no document has no error in it.
ErrorFromXml(value, found) ==
  CASE found.type = "no document" -> Passed(value)
    [] found.type = "no expression" -> Refusal(value, <<"cannot parse xpath">>)
    [] found.type = "nodeset" ->
         IF found.nodes = <<>> THEN Passed(value) ELSE ErrorFound(value, Dump(found.nodes))
    [] found.type \in {"string", "number"} -> ErrorFound(value, found.text)
    [] found.type = "boolean" -> ErrorFound(value, Truth(found.truth))
    [] OTHER -> ErrorFound(value, <<"Unknown error">>)

\* item_preproc_get_error_from_json reads the value before it is converted: of a number the
\* bytes would be taken for an address, so the value is a text here.
ErrorFromJson(value, found) ==
  CASE found.type = "no document" -> Passed(value)
    [] found.type = "no expression" -> Refusal(value, <<"json error">>)
    [] found.text = NoText -> Passed(value)
    [] OTHER -> ErrorFound(value, found.text)

\* item_preproc_prometheus_pattern: pattern and label are the lines of the parameters.
PrometheusParams(params) == SplitOnce(params, "\n")
PrometheusPattern(value, params, found) ==
  IF ~PrometheusParams(params).found THEN Refusal(value, <<"cannot find second parameter">>)
  ELSE IF found.type = "string" THEN Passed(found.text)
  ELSE Refusal(value, <<"cannot apply Prometheus pattern">>)

\* item_preproc_prometheus_to_json
PrometheusToJson(value, found) ==
  IF found.type = "string" THEN Passed(found.text)
  ELSE Refusal(value, <<"cannot convert Prometheus data to JSON">>)

-----------------------------------------------------------------------------
(* Texts in XML. *)

Entities ==
  {[char |-> "<", text |-> <<"&", "l", "t", ";">>], [char |-> ">", text |-> <<"&", "g", "t", ";">>],
   [char |-> "&", text |-> <<"&", "a", "m", "p", ";">>],
   [char |-> Quote, text |-> <<"&", "q", "u", "o", "t", ";">>],
   [char |-> "'", text |-> <<"&", "a", "p", "o", "s", ";">>]}

\* xml_escape_dyn: the memory is counted first, with the final zero, then the text is written.
EscapedChar(c) ==
  LET entity == {e \in Entities : e.char = c}
  IN  IF entity = {} THEN <<c>> ELSE (CHOOSE e \in entity : TRUE).text
EscapedSize(s) ==
  LET Size(c) == CASE c \in {"<", ">"} -> 4 [] c = "&" -> 5 [] c \in {Quote, "'"} -> 6 [] OTHER -> 1
  IN  FoldLeft(LAMBDA size, c : size + Size(c), 1, s)
XmlEscape(s) == FlattenSeq([i \in DOMAIN s |-> EscapedChar(s[i])])

\* xml_escape_xpath, with the size of the memory: nothing is done to an empty text.
XPathSize(s) == FoldLeft(LAMBDA size, c : size + (IF c = Quote THEN 2 ELSE 1), 0, s)
XPathEscape(s) ==
  IF XPathSize(s) = 0 THEN s
  ELSE FlattenSeq([i \in DOMAIN s |-> IF s[i] = Quote THEN <<Quote, Quote>> ELSE <<s[i]>>])

\* strstr: the first place where a text stands in another, 0 if nowhere.
StrStr(s, sub) ==
  LET places == {i \in 1 .. (Len(s) - Len(sub) + 1) : Cut(s, i, i + Len(sub) - 1) = sub}
  IN  IF places = {} THEN 0 ELSE CHOOSE i \in places : \A j \in places : i <= j

Opening(tag) == <<"<">> \o tag \o <<">">>
Closing(tag) == <<"<", "/">> \o tag \o <<">">>

\* xml_get_data_dyn: from the first opening tag to the first closing one, if that is behind it.
XmlGetData(xml, tag) ==
  LET start == StrStr(xml, Opening(tag))
      end == StrStr(xml, Closing(tag))
  IN  IF start = 0 \/ end = 0 \/ end < start THEN [ok |-> FALSE, text |-> <<>>]
      ELSE [ok |-> TRUE, text |-> Cut(xml, start + Len(Opening(tag)), end - 1)]

-----------------------------------------------------------------------------
\* A document whose check for an error with some expression succeeds has nothing that the same
\* expression would extract; one that fails tells what would be extracted, or the expression
\* fails in both.
XmlSearched(value, found) ==
  \A extracted \in {XPath(value, found)}, checked \in {ErrorFromXml(value, found)} :
    /\ extracted.ok /\ checked.ok => Lrtrim(extracted.value, ZbxWhitespace) = <<>>
    /\ extracted.ok /\ ~checked.ok =>
         Lrtrim(extracted.value, ZbxWhitespace) \in {checked.error, DelZeros(checked.error)}
    /\ ~extracted.ok => (checked.ok <=> found.type = "no document")
    /\ ~checked.ok => checked.error # <<>>
    /\ checked.value = value

\* The same of JSON, where a missing error is none and missing data is one; and a step that
\* fails has not touched the value.
JsonSearched(value, found) ==
  LET extracted == JsonPath(value, found)
      checked == ErrorFromJson(value, found)
  IN  /\ extracted.ok => (checked.ok <=> Lrtrim(extracted.value, ZbxWhitespace) = <<>>)
      /\ ~extracted.ok => extracted.value = value /\ (checked.ok <=> found.type # "no expression")

\* The parameters of the pattern are its first line and all the others.
PrometheusSplit(params, found) ==
  LET p == PrometheusParams(params)
      result == PrometheusPattern(<<>>, params, found)
  IN  /\ result.ok => p.left \o <<"\n">> \o p.right = params /\ "\n" \notin ToSet(p.left)
      /\ "\n" \in ToSet(params) => result.ok = PrometheusToJson(<<>>, found).ok

\* The text that escaped text stands for.
RECURSIVE XmlText(_)
XmlText(s) ==
  IF s = <<>> THEN s
  ELSE LET entity == {e \in Entities : Cut(s, 1, Len(e.text)) = e.text}
       IN  IF entity = {} THEN <<s[1]>> \o XmlText(Tail(s))
           ELSE LET e == CHOOSE x \in entity : TRUE
                IN  <<e.char>> \o XmlText(Cut(s, Len(e.text) + 1, Len(s)))

\* A text comes back from XML as it was written, whatever it holds and however it looks like a
\* tag, and fills the memory that was counted for it.
MarkupUndone(s, tag, other) ==
  LET escaped == XmlEscape(s)
      element == Opening(tag) \o escaped \o Closing(tag)
      before == Opening(other) \o escaped \o Closing(other)
  IN  /\ XmlText(escaped) = s
      /\ EscapedSize(s) = Len(escaped) + 1
      /\ tag # other => XmlGetData(before \o element, tag) = [ok |-> TRUE, text |-> escaped]
      /\ XmlGetData(element \o before, tag) = [ok |-> TRUE, text |-> escaped]
      /\ ~XmlGetData(Closing(tag) \o element, tag).ok
      /\ ~XmlGetData(escaped, tag).ok
      /\ XPathSize(s) = Len(XPathEscape(s))
      /\ StringReplace(XPathEscape(s), <<Quote, Quote>>, <<Quote>>) = s
=============================================================================
