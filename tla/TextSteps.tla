------------------------------ MODULE TextSteps ------------------------------
(***************************************************************************)
(* The preprocessing steps that work on characters (item_preproc.c): trim, *)
(* boolean, octal and hexadecimal to decimal, CSV to JSON; and what they   *)
(* take from misc.c: numbers of every notation, sorted arrays.             *)
(* Texts are valid UTF-8, a character of any length is one element.        *)
(***************************************************************************)
EXTENDS Tokens

CONSTANT HexDigits    \* hexadecimal digits of the widest integer: 16

ASSUME HexDigitsAssumption == HexDigits \in Nat \ {0}

MaxNumber == 16 ^ HexDigits - 1

LowerOf == [c \in UpperCase |->
  CASE c = "A" -> "a" [] c = "B" -> "b" [] c = "C" -> "c" [] c = "D" -> "d" [] c = "E" -> "e"
    [] c = "F" -> "f" [] c = "K" -> "k" [] c = "M" -> "m" [] c = "G" -> "g" [] c = "T" -> "t"
    [] c = "U" -> "u" [] OTHER -> "x"]
Lower(s) == [i \in DOMAIN s |-> IF s[i] \in UpperCase THEN LowerOf[s[i]] ELSE s[i]]

-----------------------------------------------------------------------------
(* Numbers. *)

OctalDigit == {"0", "1", "2", "3", "4", "5", "6", "7"}
XDigit == DOMAIN HexValue

Unreadable == [ok |-> FALSE, value |-> 0]
Read(n) == [ok |-> TRUE, value |-> n]

\* is_uint_n_range: each digit is refused that would pass the widest integer.
RECURSIVE UintFrom(_, _)
UintFrom(s, n) ==
  IF s = <<>> THEN Read(n)
  ELSE IF s[1] \notin Digit \/ (MaxNumber - DigitValue[s[1]]) \div 10 < n THEN Unreadable
  ELSE UintFrom(Tail(s), n * 10 + DigitValue[s[1]])

InRange(number, min, max) ==
  IF number.ok /\ number.value \in min .. max THEN number ELSE Unreadable

IsUintRange(s, min, max) ==
  IF s = <<>> THEN Unreadable ELSE InRange(UintFrom(s, 0), min, max)

\* is_hex_n_range: past the width a digit is refused if the first ones are not zero.
RECURSIVE HexFrom(_, _, _)
HexFrom(s, n, len) ==
  IF s = <<>> THEN Read(n)
  ELSE IF s[1] \notin XDigit \/ (HexDigits < len + 1 /\ MaxNumber \div 16 < n) THEN Unreadable
  ELSE HexFrom(Tail(s), (n * 16 + HexValue[s[1]]) % (MaxNumber + 1), len + 1)

IsHexRange(s, min, max) ==
  IF s = <<>> THEN Unreadable ELSE InRange(HexFrom(s, 0, 0), min, max)

\* suffix2factor
SuffixFactor(c) ==
  CASE c = "K" -> 1024 [] c = "M" -> 1024 ^ 2 [] c = "G" -> 1024 ^ 3 [] c = "T" -> 1024 ^ 4
    [] c = "m" -> 60 [] c = "h" -> 3600 [] c = "d" -> 86400 [] c = "w" -> 604800
    [] OTHER -> 1

\* str2uint64: the product with the factor is not checked.
Str2Uint64(s, suffixes) ==
  LET suffixed == At(s, Len(s)) \in suffixes
      number == IsUintRange(IF suffixed THEN Front(s) ELSE s, 0, MaxNumber)
      factor == IF suffixed THEN SuffixFactor(Last(s)) ELSE 1
  IN  [number EXCEPT !.value = (@ * factor) % (MaxNumber + 1)]

\* is_double_suffix
IsDoubleSuffix(s, suffixAllowed) ==
  LET end == NumberParse(s, IF At(s, 1) = "-" THEN 2 ELSE 1)
  IN  /\ end # Refused
      /\ \/ end = Len(s) + 1
         \/ end = Len(s) /\ suffixAllowed /\ Last(s) \in UnitSymbols

\* is_double_valid_syntax
IsDouble(s) ==
  LET Unsigned(i) == IF At(s, i) \in {"-", "+"} THEN i + 1 ELSE i
      end == NumberParse(s, Unsigned(1))
      exponent == Unsigned(end + 1)
  IN  /\ end # Refused
      /\ \/ end = Len(s) + 1
         \/ /\ At(s, end) \in {"e", "E"}
            /\ At(s, exponent) \in Digit
            /\ Skip(s, exponent, Digit) = Len(s) + 1

\* Whether a text that IsDouble is zero.
IsZero(s) == ToSet(Cut(s, 1, Find(s, 1, {"e", "E"}) - 1)) \cap (Digit \ {"0"}) = {}

Truths == {<<"t">>, <<"y">>, <<"o", "n">>, <<"u", "p">>, <<"o", "k">>, <<"y", "e", "s">>,
  <<"t", "r", "u", "e">>, <<"r", "u", "n", "n", "i", "n", "g">>, <<"m", "a", "s", "t", "e", "r">>,
  <<"e", "n", "a", "b", "l", "e", "d">>, <<"a", "v", "a", "i", "l", "a", "b", "l", "e">>}
Falsehoods == {<<"f">>, <<"n">>, <<"n", "o">>, <<"e", "r", "r">>, <<"o", "f", "f">>,
  <<"d", "o", "w", "n">>, <<"f", "a", "l", "s", "e">>, <<"u", "n", "u", "s", "e", "d">>,
  <<"d", "i", "s", "a", "b", "l", "e", "d">>, <<"s", "l", "a", "v", "e">>,
  <<"u", "n", "a", "v", "a", "i", "l", "a", "b", "l", "e">>}

\* is_boolean
IsBoolean(s) ==
  IF IsDouble(s) THEN Read(IF IsZero(s) THEN 0 ELSE 1)
  ELSE IF Lower(s) \in Truths THEN Read(1)
  ELSE IF Lower(s) \in Falsehoods THEN Read(0)
  ELSE Unreadable

\* is_uoct, is_uhex
IsDigitsOf(s, digits) ==
  LET start == Skip(s, 1, {" "})
      end == Skip(s, start, digits)
  IN  end > start /\ Skip(s, end, {" "}) = Len(s) + 1

\* is_hex_string: pairs of digits, one blank or line break between two of them.
IsHexString(s) ==
  /\ s # <<>>
  /\ Len(s) % 3 = 2
  /\ \A i \in DOMAIN s : IF i % 3 = 0 THEN s[i] \in {" ", "\n"} ELSE s[i] \in XDigit

\* sscanf: blanks, then digits; more than the width holds give the largest number.
ScanNumber(s, base) ==
  LET digits == RemoveChars(s, {" "})
      n == FoldLeft(LAMBDA sum, c : IF sum > MaxNumber THEN sum ELSE base * sum + HexValue[c], 0, digits)
  IN  Read(IF n > MaxNumber THEN MaxNumber ELSE n)

\* item_preproc_2dec
ToDecimal(value, op) ==
  LET s == Rtrim(Ltrim(value, {" ", Quote}), {" ", Quote, "\n", "\r"})
  IN  CASE op = "bool2dec" -> IsBoolean(s)
        [] op = "oct2dec" -> IF IsDigitsOf(s, OctalDigit) THEN ScanNumber(s, 8) ELSE Unreadable
        [] OTHER -> IF IsDigitsOf(s, XDigit) THEN ScanNumber(s, 16)
                    ELSE IF IsHexString(s) THEN ScanNumber(RemoveChars(s, {" ", "\n"}), 16)
                    ELSE Unreadable

-----------------------------------------------------------------------------
(* Trimming. *)

Escapes == [c \in {"s", "r", "n", "t"} |->
  CASE c = "s" -> " " [] c = "r" -> "\r" [] c = "n" -> "\n" [] OTHER -> "\t"]

\* unescape_trim_params: a backslash before any other character stands for itself.
RECURSIVE UnescapeTrimParams(_)
UnescapeTrimParams(s) ==
  IF s = <<>> THEN s
  ELSE IF s[1] = Backslash /\ At(s, 2) \in DOMAIN Escapes
  THEN <<Escapes[s[2]]>> \o UnescapeTrimParams(Cut(s, 3, Len(s)))
  ELSE <<s[1]>> \o UnescapeTrimParams(Tail(s))

\* str_printable_dyn
StrPrintable(s) ==
  FlattenSeq([i \in DOMAIN s |->
    CASE s[i] = "\n" -> <<Backslash, "n">> [] s[i] = "\t" -> <<Backslash, "t">>
      [] s[i] = "\r" -> <<Backslash, "r">> [] OTHER -> <<s[i]>>])

\* item_preproc_trim
Trim(value, op, params) ==
  LET chars == ToSet(UnescapeTrimParams(params))
      left == IF op \in {"ltrim", "trim"} THEN Ltrim(value, chars) ELSE value
  IN  IF op \in {"rtrim", "trim"} THEN Rtrim(left, chars) ELSE left

-----------------------------------------------------------------------------
(* CSV to JSON.  A parameter p has the delimiter, "" if it is not given,   *)
(* the quote, "" for none, and whether the first row is a header.          *)

\* What item_preproc_csv_to_json reads of its three lines of parameters.
CsvParams(params) ==
  LET first == SplitOnce(params, "\n")
      second == SplitOnce(first.right, "\n")
      Character(s) == IF s = <<>> THEN "" ELSE s[1]
  IN  [ok |-> /\ first.found /\ second.found
              /\ Len(first.left) <= 1 /\ Len(second.left) <= 1,
       delim |-> Character(first.left), quote |-> Character(second.left),
       header |-> At(second.right, 1) = "1"]

\* The line sep=c before the data: where the data begins, and the delimiter.  After a "\r" a
\* "\n" is taken for granted: without one a character is lost, or the end is passed.
SepLine(s) ==
  LET end == Find(s, 5, {"\r", "\n"})
  IN  IF Lower(Cut(s, 1, 4)) = <<"s", "e", "p", "=">> /\ end = 6
      THEN [from |-> CASE At(s, end) = "" -> end [] At(s, end) = "\r" -> end + 2 [] OTHER -> end + 1,
            delim |-> s[5]]
      ELSE [from |-> 1, delim |-> ","]

\* Mutant: the name of a column is compared with the one before it only.
AddFieldAfterLast(st, p) ==
  LET row == Append(st.row, st.field)
  IN  [st EXCEPT !.row = row, !.field = <<>>, !.mode = "delim",
         !.ok = @ /\ (p.header => IF st.names # <<>> THEN Len(row) <= Len(st.names)
                                  ELSE st.row = <<>> \/ Last(st.row) # st.field)]

\* item_preproc_csv_to_json_add_field, of names while the header has not ended.
AddField(st, p) ==
  LET row == Append(st.row, st.field)
  IN  [st EXCEPT !.row = row, !.field = <<>>, !.mode = "delim",
         !.ok = @ /\ (p.header => IF st.names # <<>> THEN Len(row) <= Len(st.names)
                                  ELSE \A i \in 1 .. (Len(row) - 1) : row[i] # st.field)]

\* A row as an object; with a header the fields that are missing are empty.
ObjectOf(row, names, p) ==
  IF p.header
  THEN [i \in DOMAIN names |-> [name |-> names[i], value |-> IF i \in DOMAIN row THEN row[i] ELSE <<>>]]
  ELSE [i \in DOMAIN row |-> [name |-> <<i>>, value |-> row[i]]]

\* The end of a line: without a header an empty one is an empty object.
EndOfRow(st, p) ==
  LET ended == AddField(st, p)
  IN  IF st.mode # "field" /\ ~p.header /\ st.row = <<>>
      THEN [st EXCEPT !.objects = Append(@, <<>>)]
      ELSE IF p.header /\ st.names = <<>>
      THEN [ended EXCEPT !.names = ended.row, !.row = <<>>]
      ELSE [ended EXCEPT !.objects = Append(@, ObjectOf(ended.row, st.names, p)), !.row = <<>>]

\* The loop over the characters, the terminating zero included.
RECURSIVE CsvFrom(_, _, _, _)
CsvFrom(s, i, st, p) ==
  LET c == At(s, i)
      next == At(s, i + 1)
      endsField == next \in {"\r", "\n", "", p.delim}
      Go(n, state) == CsvFrom(s, i + n, state, p)
  IN  IF i > Len(s) + 1 \/ ~st.ok THEN st
      ELSE IF st.mode # "quoted"
      THEN CASE c = "\r" /\ next \notin {"\n", ""} -> [st EXCEPT !.ok = FALSE]
             [] c = "\r" -> Go(2, EndOfRow(st, p))
             [] c \in {"\n", ""} -> Go(1, EndOfRow(st, p))
             [] c = p.delim -> Go(1, AddField(st, p))
             [] c = p.quote /\ st.mode = "delim" -> Go(1, [st EXCEPT !.mode = "quoted"])
             [] OTHER -> Go(1, [st EXCEPT !.mode = "field", !.field = Append(@, c)])
      ELSE CASE c # p.quote -> Go(1, [st EXCEPT !.field = Append(@, c)])
             [] c = p.quote /\ next = p.quote -> Go(2, [st EXCEPT !.field = Append(@, c)])
             [] OTHER -> Go(1, [st EXCEPT !.mode = "field", !.ok = endsField])

\* item_preproc_csv_to_json
CsvToJson(s, params) ==
  LET given == CsvParams(params)
      line == SepLine(s)
      p == IF given.delim = "" THEN [given EXCEPT !.delim = line.delim] ELSE given
      start == [mode |-> "delim", field |-> <<>>, row |-> <<>>, names |-> <<>>, objects |-> <<>>, ok |-> TRUE]
      Rows(end) == [ok |-> end.ok /\ end.mode # "quoted", objects |-> end.objects]
  IN  IF ~given.ok THEN [ok |-> FALSE, objects |-> <<>>]
      ELSE IF line.from > Len(s) THEN [ok |-> TRUE, objects |-> <<>>]
      ELSE Rows(CsvFrom(s, line.from, start, p))

-----------------------------------------------------------------------------
(* Sorted arrays. *)

\* get_nearestindex, between two indexes of the array.
RECURSIVE NearestBetween(_, _, _, _)
NearestBetween(values, id, first, last) ==
  LET index == first + (last - first) \div 2
  IN  IF values[index] = id THEN index
      ELSE IF first = last THEN IF values[index] < id THEN index + 1 ELSE index
      ELSE IF values[index] < id THEN NearestBetween(values, id, index + 1, last)
      ELSE NearestBetween(values, id, first, index)

NearestIndex(values, id) ==
  IF values = <<>> THEN 1 ELSE NearestBetween(values, id, 1, Len(values))

\* uint64_array_exists, uint64_array_add, uint64_array_remove of one value.
ArrayExists(values, id) ==
  LET index == NearestIndex(values, id) IN index \in DOMAIN values /\ values[index] = id

ArrayAdd(values, id) ==
  IF ArrayExists(values, id) THEN values ELSE InsertAt(values, NearestIndex(values, id), id)

ArrayRemove(values, id) ==
  IF ArrayExists(values, id) THEN RemoveAt(values, NearestIndex(values, id)) ELSE values

-----------------------------------------------------------------------------
(* Statements about one question each. *)

Written(s, digits, base) ==
  LET n == FoldLeft(LAMBDA sum, c : base * sum + HexValue[c], 0, s)
  IN  IF s = <<>> \/ ~(ToSet(s) \subseteq digits) THEN Unreadable ELSE Read(n)

Capped(number) == [number EXCEPT !.value = IF @ > MaxNumber THEN MaxNumber ELSE @]

\* A text is read as the number it is written for, in any notation: one too large is refused,
\* or in a preprocessing step becomes the largest; hexadecimal pairs are read as one number.
NumbersRead(s) ==
  LET dressed == <<Quote, " ">> \o s \o <<Quote, "\r", "\n">>
      hex == Written(s, XDigit, 16)
      pairs == FlattenSeq([i \in DOMAIN s |-> IF i % 2 = 1 /\ i > 1 THEN <<" ", s[i]>> ELSE <<s[i]>>])
  IN  /\ IsUintRange(s, 0, MaxNumber) = InRange(Written(s, Digit, 10), 0, MaxNumber)
      /\ IsHexRange(s, 0, MaxNumber) = InRange(hex, 0, MaxNumber)
      /\ ToDecimal(dressed, "oct2dec") = Capped(Written(s, OctalDigit, 8))
      /\ ToDecimal(dressed, "hex2dec") = Capped(hex)
      /\ Len(s) % 2 = 0 => ToDecimal(pairs, "hex2dec") = Capped(hex)
      /\ ToDecimal(dressed, "bool2dec") =
           (IF s # <<>> /\ ToSet(s) \subseteq Digit THEN Read(IF ToSet(s) = {"0"} THEN 0 ELSE 1)
            ELSE IF s = <<"f">> THEN Read(0) ELSE Unreadable)

\* Exactly the characters at the ends are trimmed that the parameter stands for, with a line
\* break or a tab written as an escape sequence; a backslash is one if no sequence follows.
TrimmedExactly(value, chars) ==
  LET result == Trim(value, "trim", StrPrintable(chars))
      In(i, j) == ToSet(SubSeq(value, i, j)) \subseteq ToSet(chars)
  IN  (\A i \in DOMAIN chars : chars[i] = Backslash => At(chars, i + 1) \notin DOMAIN Escapes \cup {"\n", "\r", "\t"})
      => /\ \E i \in 1 .. (Len(value) + 1), j \in 0 .. Len(value) :
              result = SubSeq(value, i, j) /\ In(1, i - 1) /\ In(j + 1, Len(value))
         /\ result # <<>> => {result[1], Last(result)} \cap ToSet(chars) = {}
         /\ result = Trim(Trim(value, "rtrim", StrPrintable(chars)), "ltrim", StrPrintable(chars))

\* A field that has to be quoted.
Delicate(field, p) == At(field, 1) = p.quote \/ ToSet(field) \cap {p.delim, "\r", "\n"} # {}

CsvField(field, p, always) ==
  IF always \/ Delicate(field, p)
  THEN <<p.quote>> \o FlattenSeq([i \in DOMAIN field |->
                        IF field[i] = p.quote THEN <<p.quote, p.quote>> ELSE <<field[i]>>]) \o <<p.quote>>
  ELSE field

Joined(texts, separator) ==
  FlattenSeq([i \in DOMAIN texts |-> IF i = 1 THEN texts[i] ELSE separator \o texts[i]])

\* A table that is written as CSV comes back row by row and field by field, whatever is in its
\* fields, and is refused only for two columns of one name or a row longer than the header.
CsvReadBack(rows, p, eol, always, sep) ==
  LET Row(row) == Joined([i \in DOMAIN row |-> CsvField(row[i], p, always)], <<p.delim>>)
      line == IF sep THEN <<"s", "E", "p", "=", p.delim>> \o eol ELSE <<>>
      text == line \o Joined([k \in DOMAIN rows |-> Row(rows[k])], eol)
      params == (IF sep THEN <<>> ELSE <<p.delim>>) \o <<"\n">> \o (IF p.quote = "" THEN <<>> ELSE <<p.quote>>)
                  \o <<"\n">> \o (IF p.header THEN <<"1">> ELSE <<>>)
      width == Len(rows[1])
      data == IF p.header THEN Tail(rows) ELSE rows
      writable == /\ p.quote = "" => ~always /\ \A k \in DOMAIN rows, i \in 1 .. 2 :
                                       i <= Len(rows[k]) => ~Delicate(rows[k][i], p)
                  /\ ~always => \A k \in DOMAIN rows : rows[k] # <<<<>>>>
      regular == p.header => /\ \A i, j \in 1 .. width : i # j => rows[1][i] # rows[1][j]
                             /\ \A k \in DOMAIN rows : Len(rows[k]) <= width
  IN  writable => \A got \in {CsvToJson(text, params)} :
        /\ got.ok = regular
        /\ regular => /\ Len(got.objects) = Len(data)
                      /\ \A k \in DOMAIN data :
                           /\ Len(got.objects[k]) = IF p.header THEN width ELSE Len(data[k])
                           /\ \A i \in DOMAIN got.objects[k] :
                                got.objects[k][i] =
                                  [name |-> IF p.header THEN rows[1][i] ELSE <<i>>,
                                   value |-> IF i <= Len(data[k]) THEN data[k][i] ELSE <<>>]

\* However often numbers are added and removed, the array is the sorted set of them.
ArrayIsSet(calls) ==
  LET array == FoldLeft(LAMBDA a, c : IF c.add THEN ArrayAdd(a, c.id) ELSE ArrayRemove(a, c.id), <<>>, calls)
      set == FoldLeft(LAMBDA a, c : IF c.add THEN a \cup {c.id} ELSE a \ {c.id}, {}, calls)
      ids == {calls[i].id : i \in DOMAIN calls}
  IN  /\ ToSet(array) = set
      /\ \A i \in 2 .. Len(array) : array[i - 1] < array[i]
      /\ \A id \in ids : ArrayExists(array, id) = (id \in set)
=============================================================================
