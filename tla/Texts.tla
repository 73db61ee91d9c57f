-------------------------------- MODULE Texts --------------------------------
(***************************************************************************)
(* The string functions of libs/zbxcommon/str.c that the other modules     *)
(* build on: cutting, escaping and quoting.  A text is a sequence of       *)
(* characters.                                                             *)
(***************************************************************************)
EXTENDS Integers, Sequences, SequencesExt

Quote == "\""
Backslash == "\\"

DigitValue == [c \in {"0", "1", "2", "3", "4", "5", "6", "7", "8", "9"} |->
  CASE c = "0" -> 0 [] c = "1" -> 1 [] c = "2" -> 2 [] c = "3" -> 3 [] c = "4" -> 4
    [] c = "5" -> 5 [] c = "6" -> 6 [] c = "7" -> 7 [] c = "8" -> 8 [] OTHER -> 9]
Digit == DOMAIN DigitValue
HexValue == [c \in Digit \cup {"a", "b", "c", "d", "e", "f", "A", "B", "C", "D", "E", "F"} |->
  CASE c \in Digit -> DigitValue[c] [] c \in {"a", "A"} -> 10 [] c \in {"b", "B"} -> 11
    [] c \in {"c", "C"} -> 12 [] c \in {"d", "D"} -> 13 [] c \in {"e", "E"} -> 14 [] OTHER -> 15]
UpperCase == {"A", "B", "C", "D", "E", "F", "K", "M", "G", "T", "U", "X"}
LowerCase == {"a", "b", "c", "d", "e", "f", "h", "k", "m", "n", "o", "r", "s", "t", "w", "x"}
Alpha == UpperCase \cup LowerCase

\* misc.c: what may stand in the name of a host, a key, a function, a macro.
HostnameChar == Alpha \cup Digit \cup {".", " ", "_", "-"}
KeyChar == Alpha \cup Digit \cup {".", "_", "-"}
FunctionChar == LowerCase
MacroChar == UpperCase \cup {".", "_"} \cup Digit

\* The character at i, "" past the end as C reads the terminating zero.
At(s, i) == IF i \in DOMAIN s THEN s[i] ELSE ""
Cut(s, l, r) == SubSeq(s, l, IF r < Len(s) THEN r ELSE Len(s))

\* The first position from i on whose character is not in the set.
Skip(s, i, chars) ==
  CHOOSE j \in i .. (Len(s) + 1) :
    /\ \A k \in i .. (j - 1) : s[k] \in chars
    /\ At(s, j) \notin chars

\* The first position from i on whose character is in the set, past the end if none.
Find(s, i, chars) ==
  CHOOSE j \in i .. (Len(s) + 1) :
    /\ \A k \in i .. (j - 1) : s[k] \notin chars
    /\ j = Len(s) + 1 \/ At(s, j) \in chars

\* zbx_ltrim, zbx_rtrim, zbx_lrtrim, zbx_remove_chars.
Ltrim(s, chars) == Cut(s, Skip(s, 1, chars), Len(s))
Rtrim(s, chars) == Reverse(Ltrim(Reverse(s), chars))
Lrtrim(s, chars) == Ltrim(Rtrim(s, chars), chars)
RemoveChars(s, chars) == SelectSeq(s, LAMBDA c : c \notin chars)

\* del_zeros: the zeros and the point at the end of a number with one point.
DelZeros(s) ==
  LET points == {i \in DOMAIN s : s[i] = "."}
      trimmed == Rtrim(s, {"0"})
  IN  IF ToSet(s) \cap {"e", "E"} # {} \/ Cardinality(points) # 1 THEN s
      ELSE IF At(trimmed, Len(trimmed)) = "." THEN Front(trimmed) ELSE trimmed

\* zbx_trim_number: blanks, one pair of quotes, for an integer a plus sign.
TrimNumber(s, strip) ==
  LET bare == Rtrim(Ltrim(s, {" "}), {" "})
      open == At(bare, 1) = Quote /\ At(bare, Len(bare)) = Quote /\ Len(bare) > 1
      inner == IF open THEN Cut(bare, 2, Len(bare) - 1) ELSE bare
  IN  IF strip /\ At(inner, 1) = "+" THEN Tail(inner) ELSE inner

\* string_replace: the occurrences of a sub-string, from the left, never inside
\* what has been replaced.
RECURSIVE StringReplace(_, _, _)
StringReplace(s, from, to) ==
  IF Len(s) < Len(from) THEN s
  ELSE IF Cut(s, 1, Len(from)) = from
  THEN to \o StringReplace(Cut(s, Len(from) + 1, Len(s)), from, to)
  ELSE <<s[1]>> \o StringReplace(Tail(s), from, to)

\* zbx_strsplit: left and right of the first delimiter, all of it without one.
SplitOnce(s, delimiter) ==
  LET at == Find(s, 1, {delimiter})
  IN  [left |-> Cut(s, 1, at - 1), right |-> Cut(s, at + 1, Len(s)), found |-> at <= Len(s)]

\* The items of a list, as strchr finds them one after the other.
RECURSIVE Split(_, _)
Split(s, delimiter) ==
  LET once == SplitOnce(s, delimiter)
  IN  IF once.found THEN <<once.left>> \o Split(once.right, delimiter) ELSE <<s>>

StrInList(list, value, delimiter) == value \in ToSet(Split(list, delimiter))

\* zbx_dyn_escape_string: a backslash before each of the characters.
EscapeString(s, chars) ==
  FlattenSeq([i \in DOMAIN s |-> IF s[i] \in chars THEN <<Backslash, s[i]>> ELSE <<s[i]>>])

\* zbx_dyn_escape_shell_single_quote: out of the quotes, an escaped one, back in.
EscapeShell(s) ==
  FlattenSeq([i \in DOMAIN s |-> IF s[i] = "'" THEN <<"'", Backslash, "'", "'">> ELSE <<s[i]>>])

\* What a backslash-escaped text between quotes stands for when \" is the only
\* escape: the loops of the unquoting functions.
RECURSIVE Unescape(_)
Unescape(s) ==
  IF s = <<>> THEN s
  ELSE IF At(s, 1) = Backslash /\ At(s, 2) = Quote
  THEN <<Quote>> \o Unescape(Cut(s, 3, Len(s)))
  ELSE <<s[1]>> \o Unescape(Tail(s))

Quoted(s) == <<Quote>> \o EscapeString(s, {Quote}) \o <<Quote>>

-----------------------------------------------------------------------------
\* zbx_user_macro_quote_context_dyn.
QuoteContext(s, force) ==
  IF force \/ At(s, 1) \in {Quote, " "} \/ "}" \in ToSet(s) THEN Quoted(s) ELSE s

\* zbx_user_macro_unquote_context_dyn: the last character of a quoted context
\* is its closing quote.
UnquoteContext(s) == IF At(s, 1) = Quote THEN Front(Unescape(Tail(s))) ELSE s

\* Mutant: a comma is no reason to quote a parameter.
QuoteFewParams(s, force) ==
  IF ~force /\ At(s, 1) \notin {Quote, " "} /\ ")" \notin ToSet(s)
  THEN [ok |-> TRUE, text |-> s]
  ELSE [ok |-> At(s, Len(s)) # Backslash, text |-> Quoted(s)]

\* zbx_function_param_quote: refused for a text that ends in a backslash.
QuoteFunctionParam(s, force) ==
  IF ~force /\ At(s, 1) \notin {Quote, " "} /\ ToSet(s) \cap {",", ")"} = {}
  THEN [ok |-> TRUE, text |-> s]
  ELSE [ok |-> At(s, Len(s)) # Backslash, text |-> Quoted(s)]

\* zbx_function_param_unquote_dyn.
UnquoteFunctionParam(s) ==
  IF At(s, 1) = Quote THEN Unescape(Cut(s, 2, Len(s) - 1)) ELSE s

\* zbx_str_extract: quoted with \" and \\, or as it is.
RECURSIVE Extracted(_)
Extracted(s) ==
  IF s = <<>> THEN [ok |-> TRUE, text |-> <<>>]
  ELSE LET escaped == s[1] = Backslash
           c == IF escaped THEN At(s, 2) ELSE s[1]
           rest == Extracted(Cut(s, IF escaped THEN 3 ELSE 2, Len(s)))
       IN  IF s[1] = Quote \/ (escaped /\ c \notin {Quote, Backslash})
           THEN [ok |-> FALSE, text |-> <<>>]
           ELSE [ok |-> rest.ok, text |-> <<c>> \o rest.text]

StrExtract(s) ==
  IF At(s, 1) # Quote THEN [ok |-> TRUE, text |-> s]
  ELSE IF Len(s) < 2 \/ At(s, Len(s)) # Quote THEN [ok |-> FALSE, text |-> <<>>]
  ELSE Extracted(Cut(s, 2, Len(s) - 1))

-----------------------------------------------------------------------------
\* What a shell makes of a text in single quotes, an escaped quote outside of them.
RECURSIVE ShellWord(_, _)
ShellWord(s, quoted) ==
  IF s = <<>> THEN s
  ELSE IF s[1] = "'" THEN ShellWord(Tail(s), ~quoted)
  ELSE IF ~quoted /\ s[1] = Backslash THEN <<At(s, 2)>> \o ShellWord(Cut(s, 3, Len(s)), quoted)
  ELSE <<s[1]>> \o ShellWord(Tail(s), quoted)

\* What is escaped comes back from its reader; replacing a character is splitting and joining
\* again, and undone by replacing the other way round; of a number only zeros behind its
\* fraction go, and dressing it changes nothing.
EscapingUndone(s) ==
  LET doubled == StringReplace(s, <<",">>, <<",", ",">>)
      short == DelZeros(s)
  IN  /\ StrExtract(<<Quote>> \o EscapeString(s, {Quote, Backslash}) \o <<Quote>>) = [ok |-> TRUE, text |-> s]
      /\ ShellWord(<<"'">> \o EscapeShell(s) \o <<"'">>, FALSE) = s
      /\ RemoveChars(doubled, {","}) = FlattenSeq(Split(s, ","))
      /\ StringReplace(doubled, <<",", ",">>, <<",">>) = s
      /\ StrInList(s \o <<",">>, <<>>, ",")
      /\ IsPrefix(short, s)
      /\ "." \in ToSet(short) => Last(short) # "0" \/ short = s
      /\ ToSet(Cut(s, Len(short) + 1, Len(s))) \subseteq {"0", "."}
      /\ {At(s, 1), At(s, Len(s))} \cap {Quote, " "} = {} =>
           TrimNumber(<<" ", Quote>> \o s \o <<Quote, " ">>, FALSE) = s
=============================================================================
