-------------------------------- MODULE Tokens --------------------------------
(***************************************************************************)
(* The macros, functions and numbers libs/zbxcommon/str.c finds in a text: *)
(* {$USER:context}, {#LLD}, {MACRO}, {17}, {host:key.func(params)}, and    *)
(* functions of macros.  Positions start at 1, Refused stands for FAIL.    *)
(***************************************************************************)
EXTENDS ItemKeys

Blank == {" "}

\* A quote ends a quoted text unless a backslash stands before it: the position of the
\* one that ends the text begun before i, past the end if there is none.
ClosingQuote(s, i) ==
  CHOOSE j \in i .. (Len(s) + 1) :
    /\ j = Len(s) + 1 \/ (s[j] = Quote /\ s[j - 1] # Backslash)
    /\ \A k \in i .. (j - 1) : ~(s[k] = Quote /\ s[k - 1] # Backslash)

-----------------------------------------------------------------------------
(* User macros. *)

NoMacro == [r |-> Refused, cl |-> 0, cr |-> 0]

\* zbx_user_macro_parse of the macro at i: its last position and those of its context.
UserMacroParse(s, i) ==
  LET name == Skip(s, i + 2, MacroChar)
      context == Skip(s, name + 1, Blank)
      close == ClosingQuote(s, context + 1)
      last == IF At(s, context) = Quote
              THEN IF close > Len(s) THEN 0 ELSE Skip(s, close + 1, Blank)
              ELSE Find(s, context, {"}"})
  IN  CASE name = i + 2 \/ At(s, name) \notin {"}", ":"} -> NoMacro
        [] At(s, name) = "}" -> [NoMacro EXCEPT !.r = name]
        [] OTHER ->
             IF At(s, last) # "}" THEN NoMacro
             ELSE [r |-> last, cl |-> context,
                   cr |-> IF At(s, context) = Quote THEN close ELSE last - 1]

\* zbx_token_parse_user_macro: the positions of the macro, its name and its context, the name
\* without the colon and the blanks behind it.
UserMacroToken(s, i) ==
  LET Data(macro) ==
        IF macro.cl = 0 THEN [r |-> macro.r, name |-> <<i + 2, macro.r - 1>>, context |-> <<0, 0>>]
        ELSE [r |-> macro.r, context |-> <<macro.cl, macro.cr>>,
              name |-> <<i + 2, i - 2 + Len(Rtrim(Cut(s, i, macro.cl - 1), Blank))>>]
  IN  Data(UserMacroParse(s, i))

\* zbx_user_macro_parse_dyn: the macro without its context, and the context unquoted.
UserMacroParseDyn(s) ==
  LET Colon(cl) == Len(Rtrim(Cut(s, 1, cl - 1), Blank))
      Parts(macro) ==
        IF macro.cl # 0
        THEN [name |-> Cut(s, 1, Colon(macro.cl) - 1) \o <<"}">>, length |-> macro.r,
              context |-> UnquoteContext(Cut(s, macro.cl, macro.cr))]
        ELSE [name |-> Cut(s, 1, macro.r), length |-> macro.r, context |-> <<>>]
  IN  Parts(UserMacroParse(s, 1))

-----------------------------------------------------------------------------
(* Functions. *)

\* zbx_function_param_parse of a list that is known to be valid.
FunctionParamParse(s, i) ==
  LET start == Skip(s, i, Blank)
      close == ClosingQuote(s, start + 1)
      comma == Find(s, i, {")", ","})
  IN  IF At(s, start) = Quote
      THEN [param |-> Cut(s, start, close), sep |-> Skip(s, close + 1, Blank)]
      ELSE [param |-> Cut(s, start, comma - 1), sep |-> comma]

\* zbx_function_get_param_dyn.
RECURSIVE FunctionParamFrom(_, _, _)
FunctionParamFrom(s, i, n) ==
  LET next == FunctionParamParse(s, i)
  IN  IF i > Len(s) + 1 THEN NoParam
      ELSE IF n = 1 THEN [ok |-> TRUE, text |-> UnquoteFunctionParam(next.param)]
      ELSE FunctionParamFrom(s, next.sep + 1, n - 1)

FunctionGetParamDyn(s, n) == FunctionParamFrom(s, 1, n)

\* function_validate_parameters: where the terminator stands outside of quotes.
RECURSIVE ParametersEnd(_, _, _, _)
ParametersEnd(s, i, terminator, state) ==
  LET c == At(s, i)
      On(next) == ParametersEnd(s, i + 1, terminator, next)
  IN  CASE c = terminator /\ state # "quoted" -> i
        [] c = "" -> Refused
        [] state = "next" ->
             On(IF c = Quote THEN "quoted" ELSE IF c \in {" ", ","} THEN "next" ELSE "unquoted")
        [] state = "quoted" /\ c = Quote /\ At(s, i - 1) # Backslash -> On("postquoted")
        [] state \in {"unquoted", "postquoted"} /\ c = "," -> On("next")
        [] state = "postquoted" /\ c # " " -> Refused
        [] OTHER -> On(state)

\* zbx_function_validate_parameters, for a list that ends with the text.
FunctionValidateParameters(s) == ParametersEnd(s, 1, "", "next")

\* function_parse_name: where the name ends, and whether it is one.
FunctionParseName(s, i) ==
  LET l == Skip(s, i, FunctionChar) IN [ok |-> l # i /\ At(s, l) = "(", l |-> l]

\* function_match_parenthesis
MatchParenthesis(s, l) == ParametersEnd(s, l + 1, ")", "next")

\* zbx_function_validate: name(params) at i; par_l is where the name ends in any case.
FunctionValidate(s, i) ==
  LET name == FunctionParseName(s, i)
  IN  [par_l |-> name.l, par_r |-> IF name.ok THEN MatchParenthesis(s, name.l) ELSE Refused]

-----------------------------------------------------------------------------
(* Tokens: each operator gives the position of the closing brace. *)

Braced(s, r) == IF At(s, r) = "}" THEN r ELSE Refused

\* zbx_token_parse_lld_macro, zbx_token_parse_objectid.
LldMacro(s, i) ==
  LET r == Skip(s, i + 2, MacroChar) IN IF r = i + 2 THEN Refused ELSE Braced(s, r)
ObjectId(s, i) ==
  LET r == Skip(s, i + 1, Digit) IN IF r = i + 1 THEN Refused ELSE Braced(s, r)

\* zbx_token_parse_macro_segment: plain, or between quotes with \" and \\.
RECURSIVE SegmentEnd(_, _)
SegmentEnd(s, i) ==
  CASE At(s, i) = "" -> Refused
    [] At(s, i) = Quote -> i
    [] At(s, i) = Backslash ->
         IF At(s, i + 1) \in {Backslash, Quote} THEN SegmentEnd(s, i + 2) ELSE Refused
    [] OTHER -> SegmentEnd(s, i + 1)

MacroSegment(s, i) ==
  LET plain == Skip(s, i, Alpha \cup Digit \cup {"_"})
      close == SegmentEnd(s, i + 1)
  IN  IF At(s, i) # Quote
      THEN [ok |-> plain > i, next |-> plain,
            strict |-> ToSet(Cut(s, i, plain - 1)) \cap LowerCase = {}]
      ELSE [ok |-> close > i + 1, next |-> close + 1, strict |-> FALSE]

\* zbx_token_parse_macro_name: segments between dots, only the last may be in lower
\* case or quoted, and not if it is the first.
RECURSIVE MacroNameEnd(_, _, _)
MacroNameEnd(s, first, i) ==
  LET segment == MacroSegment(s, i)
  IN  IF ~segment.ok \/ (~segment.strict /\ i = first) THEN Refused
      ELSE IF At(s, segment.next) # "." \/ ~segment.strict THEN segment.next
      ELSE MacroNameEnd(s, first, segment.next + 1)

\* zbx_token_parse_macro.  (At the end of the text, where a simple macro lacks its key, the
\* code reads on behind it; here it refuses.)
Macro(s, i) == IF i > Len(s) THEN Refused ELSE Braced(s, MacroNameEnd(s, i + 1, i + 1))

\* Mutant: no blank may stand before the brace.
FuncMacroTight(s, func) ==
  LET r == FunctionValidate(s, func).par_r
  IN  IF r = Refused THEN Refused ELSE Braced(s, r + 1)

\* zbx_token_parse_func_macro: a function, blanks, the brace.
FuncMacro(s, func) ==
  LET r == FunctionValidate(s, func).par_r
  IN  IF r = Refused THEN Refused ELSE Braced(s, Skip(s, r + 1, Blank))

\* zbx_token_parse_simple_macro_key: a key without parameters has taken the name of the
\* function with it, up to the last dot.  (Without any dot before, the code reads on in
\* front of the text; here it refuses.)
SimpleMacroKey(s, key) ==
  LET AfterMacro(r) == IF r = Refused THEN Refused ELSE r + 1
      End(plain) == IF plain # Refused THEN plain ELSE AfterMacro(Macro(s, key))
      LastDot(end) == LET dots == {j \in 1 .. (end - 1) : s[j] = "."}
                      IN  IF At(s, end) # "(" THEN end ELSE IF dots = {} THEN Refused ELSE Max(dots)
      Function(dot) ==
        IF dot \in {Refused, key} \/ dot > Len(s) THEN Refused ELSE FuncMacro(s, dot + 1)
  IN  Function(LastDot(End(ParseKey(s, key))))

\* zbx_token_parse_simple_macro.
SimpleMacro(s, i) ==
  LET colon == Skip(s, i + 1, HostnameChar)
  IN  IF At(s, colon) # ":" \/ colon = i + 1 THEN Refused ELSE SimpleMacroKey(s, colon + 1)

\* zbx_token_parse_nested_macro: {{#M}.f()}, {{M}.f()} and {{M}:key.f()}.
NestedMacro(s, i) ==
  LET lld == At(s, i + 2) = "#"
      Around(inner) ==
        CASE inner = Refused -> [type |-> "none", r |-> Refused]
          [] At(s, inner + 1) = "." ->
               [type |-> IF lld THEN "lld_func_macro" ELSE "func_macro", r |-> FuncMacro(s, inner + 2)]
          [] At(s, inner + 1) = ":" /\ ~lld ->
               [type |-> "simple_macro", r |-> SimpleMacroKey(s, inner + 2)]
          [] OTHER -> [type |-> "none", r |-> Refused]
  IN  Around(IF lld THEN LldMacro(s, i + 1) ELSE Macro(s, i + 1))

NoToken == [type |-> "none", l |-> 0, r |-> Refused]

\* What zbx_token_find takes the brace at i for.
TokenAt(s, i) ==
  LET c == At(s, i + 1)
      Token(type, r) == IF r = Refused THEN NoToken ELSE [type |-> type, l |-> i, r |-> r]
      Nested(macro) == Token(macro.type, macro.r)
  IN  CASE c = "" -> NoToken
        [] c = "$" -> Token("user_macro", UserMacroToken(s, i).r)
        [] c = "#" -> Token("lld_macro", LldMacro(s, i))
        [] c = "{" -> Nested(NestedMacro(s, i))
        [] c \in Digit /\ ObjectId(s, i) # Refused -> Token("objectid", ObjectId(s, i))
        [] OTHER -> IF Macro(s, i) # Refused THEN Token("macro", Macro(s, i))
                    ELSE Token("simple_macro", SimpleMacro(s, i))

\* zbx_token_find: the first token from pos on, with references also $1 to $9 and $0.
TokenFind(s, pos, references) ==
  LET Reference(i) == [type |-> "reference", l |-> i, r |-> i + 1]
      tokens == {TokenAt(s, i) : i \in {j \in pos .. Len(s) : s[j] = "{"}} \ {NoToken}
      dollars == {Reference(i) : i \in {j \in pos .. Len(s) : s[j] = "$" /\ At(s, j + 1) \in Digit}}
      First(found) ==
        IF found = {} THEN NoToken ELSE CHOOSE t \in found : \A u \in found : t.l <= u.l
  IN  First(tokens \cup IF references THEN dollars ELSE {})

\* All of them, found as the comment of zbx_token_find says.
RECURSIVE TokensFrom(_, _)
TokensFrom(s, pos) ==
  LET From(token) == IF token.r = Refused THEN <<>> ELSE <<token>> \o TokensFrom(s, token.r + 1)
  IN  From(TokenFind(s, pos, TRUE))

-----------------------------------------------------------------------------
(* Formulas of calculated items. *)

UnitSymbols == {"K", "M", "G", "T", "s", "m", "h", "d", "w"}
Operators == {<<"a", "n", "d">>, <<"n", "o", "t">>, <<"o", "r">>}
Whitespace == {" "}

\* zbx_no_function: the first position from i on where a function may begin.
RECURSIVE NoFunction(_, _, _)
NoFunction(s, start, i) ==
  LET c == At(s, i)
      user == IF c = "{" /\ At(s, i + 1) = "$" THEN UserMacroParse(s, i).r ELSE Refused
      lld == IF c = "{" /\ At(s, i + 1) = "{" /\ At(s, i + 2) = "#" THEN NestedMacro(s, i).r
             ELSE Refused
      operator == {o \in Operators : /\ Cut(s, i, i + Len(o) - 1) = o
                                     /\ At(s, i + Len(o)) \in {"(", ")", ""} \cup Whitespace}
      On(j) == NoFunction(s, start, j)
  IN  CASE c = "" -> i
        [] user # Refused -> On(user + 1)
        [] lld # Refused -> On(lld + 1)
        [] c \notin FunctionChar -> On(i + 1)
        [] operator # {} -> On(i + Len(CHOOSE o \in operator : TRUE))
        [] i > start /\ At(s, i - 1) \in Digit /\ c \in UnitSymbols -> On(i + 1)
        [] OTHER -> i

\* zbx_function_find: the first function, none as soon as a name is no function.
NoFunctionFound == [ok |-> FALSE, func |-> 0, par_r |-> 0]

FunctionFind(s, i) ==
  LET Found(at, par_r) ==
        IF at > Len(s) \/ par_r = Refused THEN NoFunctionFound
        ELSE [ok |-> TRUE, func |-> at, par_r |-> par_r]
      FunctionAt(at) == Found(at, FunctionValidate(s, at).par_r)
  IN  FunctionAt(NoFunction(s, i, i))

RECURSIVE FunctionsFrom(_, _)
FunctionsFrom(s, i) ==
  LET From(found) ==
        IF ~found.ok THEN <<>>
        ELSE <<Cut(s, found.func, found.par_r)>> \o FunctionsFrom(s, found.par_r + 1)
  IN  From(FunctionFind(s, i))

\* zbx_number_parse, zbx_suffixed_number_parse: the position after the number at i.
NumberParse(s, i) ==
  LET end == Skip(s, i, Digit \cup {"."})
      text == Cut(s, i, end - 1)
  IN  IF ToSet(text) \subseteq {"."} \/ Len(SelectSeq(text, LAMBDA c : c = ".")) > 1 THEN Refused
      ELSE end

SuffixedNumberParse(s, i) ==
  LET end == NumberParse(s, i)
  IN  IF end # Refused /\ At(s, end) \in UnitSymbols THEN end + 1 ELSE end

\* zbx_number_find, with the minus in front unless it subtracts from what ends before it.
NoNumber == [l |-> 0, r |-> 0]

\* Mutant: a number with a suffix is no number to subtract from.
UnaryAfterSuffix(s, pos, i) ==
  /\ i > pos /\ At(s, i - 1) = "-"
  /\ i > 2 => At(s, i - 2) \notin {"}", ")", "."} \cup Digit

UnaryMinus(s, pos, i) ==
  LET suffixed == i > 3 /\ At(s, i - 2) \in UnitSymbols
      before == IF suffixed THEN i - 3 ELSE i - 2
  IN  /\ i > pos /\ At(s, i - 1) = "-"
      /\ i > 2 => At(s, before) \notin {"}", ")", "."} \cup Digit

RECURSIVE NumberFrom(_, _, _)
NumberFrom(s, pos, i) ==
  LET end == SuffixedNumberParse(s, i)
      brace == Find(s, i, {"}"})
  IN  IF i > Len(s) THEN NoNumber
      ELSE IF s[i] \notin Digit /\ ~(s[i] = "." /\ At(s, i + 1) \in Digit)
      THEN NumberFrom(s, pos, i + 1)
      ELSE IF At(s, i - 1) = "{" /\ brace <= Len(s) THEN NumberFrom(s, pos, brace + 1)
      ELSE IF end = Refused THEN NumberFrom(s, pos, i + 1)
      ELSE [l |-> IF UnaryMinus(s, pos, i) THEN i - 1 ELSE i, r |-> end - 1]

NumberFind(s, pos) == NumberFrom(s, pos, pos)

RECURSIVE NumbersFrom(_, _)
NumbersFrom(s, pos) ==
  LET number == NumberFind(s, pos)
  IN  IF number.r = 0 THEN <<>>
      ELSE <<Cut(s, number.l, number.r)>> \o NumbersFrom(s, number.r + 1)
-----------------------------------------------------------------------------
(* Texts put together from pieces, and what stands in them. *)

Open == <<"{">>
Close == <<"}">>
UserStart == <<"{", "$", "A">>
MacroA == <<"{", "A", "}">>
LldA == <<"{", "#", "A", "}">>
NameA == <<"A">>
Seven == <<"7">>
Key == <<":", "k", ".", "h">>
Call == <<".", "f", "(", Quote, ")", Quote, ",", "a", ")">>
Space == <<" ">>
Dollar == <<"$", "1">>
Pieces == {Open, Close, UserStart, MacroA, LldA, NameA, Seven, Key, Call, Space, Dollar}

\* The pieces that close the first brace, with what must stand between.
IsUserMacro(p) ==
  LET start == IF p[1] = Open /\ Len(p) > 1 THEN <<p[1], p[2]>> ELSE <<p[1]>>
      keys == {k \in DOMAIN p : p[k] = Key}
      nameEnd == IF keys = {} THEN Len(p) - 1 ELSE Min(keys) - 1
  IN  /\ start[1] = UserStart \/ start = <<Open, Dollar>>
      /\ nameEnd >= Len(start)
      /\ \A k \in (Len(start) + 1) .. nameEnd : p[k] \in {NameA, Seven}
      /\ \A k \in 2 .. (Len(p) - 1) : p[k] \notin {Close, MacroA, LldA}
      /\ p[Len(p)] \in IF keys = {} THEN {Close} ELSE {Close, MacroA, LldA}

\* pieces[k], ..., all in the set.
All(p, l, r, set) == \A k \in l .. r : p[k] \in set

CallEnds(p, k) == /\ p[k] = Call /\ Last(p) = Close
                  /\ k < Len(p) /\ All(p, k + 1, Len(p) - 1, {Space})

IsSimpleMacro(p) ==
  /\ p[1] = Open
  /\ \E colon, call \in 3 .. Len(p) :
       /\ p[colon] = Key
       /\ (colon = 3 /\ p[2] = MacroA) \/ All(p, 2, colon - 1, {NameA, Seven, Space})
       /\ colon < call /\ All(p, colon + 1, call - 1, {NameA, Seven})
       /\ CallEnds(p, call)

TypeOf(p) ==
  CASE p = <<Dollar>> -> "reference"
    [] p = <<MacroA>> -> "macro"
    [] p = <<LldA>> -> "lld_macro"
    [] IsUserMacro(p) -> "user_macro"
    [] Len(p) < 3 \/ p[1] # Open -> "none"
    [] Last(p) = Close /\ All(p, 2, Len(p) - 1, {Seven}) -> "objectid"
    [] Last(p) = Close /\ All(p, 2, Len(p) - 1, {Seven, NameA}) -> "macro"
    [] p[2] = MacroA /\ CallEnds(p, 3) -> "func_macro"
    [] p[2] = LldA /\ CallEnds(p, 3) -> "lld_func_macro"
    [] IsSimpleMacro(p) -> "simple_macro"
    [] OTHER -> "none"

RECURSIVE TokensOf(_, _)
TokensOf(p, before) ==
  LET ends == {k \in DOMAIN p : TypeOf(Cut(p, 1, k)) # "none"}
      first == Len(FlattenSeq(Cut(p, 1, Min(ends))))
  IN  IF p = <<>> THEN <<>>
      ELSE IF ends = {} THEN TokensOf(Tail(p), before + Len(p[1]))
      ELSE <<[type |-> TypeOf(Cut(p, 1, Min(ends))), l |-> before + 1, r |-> before + first]>>
             \o TokensOf(Cut(p, Min(ends) + 1, Len(p)), before + first)

\* Every token is found where it stands, once, with its type, and nothing else is.
TokensFound(pieces) == TokensFrom(FlattenSeq(pieces), 1) = TokensOf(pieces, 0)

\* A number is what is written as one and no id of a function, with its sign.
Terms == {<<"1", "2">>, <<"1", ".", "5", "K">>, <<"{", "1", "7", "}">>, <<"-">>, <<"+">>, <<"(">>, <<")">>}
IsNumberTerm(t) == t[1] = "1"
Signed(terms, k) ==
  /\ k > 1 /\ terms[k - 1] = <<"-">>
  /\ k > 2 => terms[k - 2] \in {<<"-">>, <<"+">>, <<"(">>}

RECURSIVE NumbersOf(_, _)
NumbersOf(terms, k) ==
  IF k > Len(terms) THEN <<>>
  ELSE (IF IsNumberTerm(terms[k])
        THEN <<(IF Signed(terms, k) THEN <<"-">> ELSE <<>>) \o terms[k]>> ELSE <<>>)
         \o NumbersOf(terms, k + 1)

\* Two numbers without anything between them are one.
NumbersFound(terms) ==
  (\A k \in 2 .. Len(terms) : ~(IsNumberTerm(terms[k]) /\ IsNumberTerm(terms[k - 1])))
    => NumbersFrom(FlattenSeq(terms), 1) = NumbersOf(terms, 1)

\* A function is what is neither in a macro nor an operator.
FunctionTerms ==
  {<<"f", "(", ")">>, <<"f", "(", Quote, ")", Quote, ",", "a", ")">>, <<"1", "s">>,
   <<" ", "a", "n", "d", " ">>, <<"n", "o", "t", "(">>,
   <<"{", "$", "A", ":", "f", "(", ")", "}">>, <<"{", "{", "#", "A", "}", ".", "f", "(", ")", "}">>}

\* Functions are found wherever they stand among numbers with suffixes and operators, and not
\* inside of macros.
FunctionsFound(terms) ==
  FunctionsFrom(FlattenSeq(terms), 1) = SelectSeq(terms, LAMBDA t : t[1] = "f")

\* What was quoted comes back: the context of a user macro, and each parameter of a function
\* that could be quoted, in the middle of the list as well.
QuotingUndone(text, force) ==
  LET macro == <<"{", "$", "A", ":">> \o QuoteContext(text, force) \o <<"}">>
      quoted == QuoteFunctionParam(text, force)
      params == quoted.text \o <<",">> \o quoted.text \o <<",", "f">>
      function == <<"f", "(">> \o params \o <<")">>
      Read(s, range) == Cut(s, range[1], range[2])
  IN  /\ At(text, Len(text)) # Backslash =>
           /\ UserMacroParseDyn(macro \o <<"a", "}">>) =
                [name |-> <<"{", "$", "A", "}">>, length |-> Len(macro), context |-> text]
           /\ \A token \in {UserMacroToken(<<" ">> \o macro, 2)} :
                /\ token.r = Len(macro) + 1
                /\ Read(<<" ">> \o macro, token.name) = <<"A">>
                /\ UnquoteContext(Read(<<" ">> \o macro, token.context)) = text
      /\ quoted.ok =>
           /\ FunctionValidate(function \o <<")">>, 1) = [par_l |-> 2, par_r |-> Len(function)]
           /\ FunctionValidateParameters(params) = Len(params) + 1
           /\ \A n \in {1, 2} : FunctionGetParamDyn(params, n) = [ok |-> TRUE, text |-> text]
           /\ FunctionGetParamDyn(params, 3).text = <<"f">>
           /\ ~FunctionGetParamDyn(params, 4).ok
=============================================================================
