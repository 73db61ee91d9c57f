------------------------------ MODULE Variants ------------------------------
(***************************************************************************)
(* Variant values of the preprocessing code (libs/zbxcommon/variant.c).    *)
(* A number is kept as an integer count of 1/Unit, so that values with a   *)
(* fraction exist; a text is either the text of a number, as it is after   *)
(* trimming and del_zeros, or a word that is no number.                    *)
(***************************************************************************)
EXTENDS Integers

CONSTANTS
  Unit,      \* fractions are multiples of 1/Unit
  Grain,     \* that many of them are the 10^-6 to which doubles are printed and compared
  MaxUint,   \* the largest uint64
  OutOfRange \* what the processor makes of a double no uint64 can hold, undefined in C

NoWord == ""
NoValue == [type |-> "none", num |-> 0, word |-> NoWord]
Ui64(n) == [type |-> "ui64", num |-> n, word |-> NoWord]
Dbl(n) == [type |-> "dbl", num |-> n, word |-> NoWord]
Text(n) == [type |-> "str", num |-> n, word |-> NoWord]
Bin == [type |-> "bin", num |-> 0, word |-> NoWord]
Word(w) == [type |-> "str", num |-> 0, word |-> w]
Blank == Word("blank")   \* the empty text

IsNumber(v) == v.type \notin {"none", "bin"} /\ v.word = NoWord

\* is_uint64
IsUint64(n) == n >= 0 /\ n % Unit = 0 /\ n <= MaxUint * Unit

ASSUME VariantAssumption ==
  /\ Unit \in Nat \ {0} /\ MaxUint \in Nat
  /\ Grain \in Nat \ {0} /\ Grain < Unit /\ Unit % Grain = 0
  /\ OutOfRange \in {"wraps", "saturates"}

Truncated(n) == n - (n % Unit)

\* A whole number that is no uint64, made one: undefined in C, on AArch64 the nearest, on
\* x86-64 a negative one wraps around, as far as a signed number goes.
Outside(n) ==
  IF OutOfRange = "saturates" THEN IF n < 0 THEN 0 ELSE MaxUint * Unit
  ELSE IF n >= 0 THEN 0
  ELSE LET half == ((MaxUint + 1) \div 2) * Unit
       IN  IF n < -half THEN half ELSE n % ((MaxUint + 1) * Unit)

\* A double as a uint64.
Cut(n) ==
  IF n <= -Unit THEN Outside(-Truncated(-n))
  ELSE IF n < 0 THEN 0
  ELSE IF Truncated(n) <= MaxUint * Unit THEN Truncated(n)
  ELSE Outside(Truncated(n))

\* variant_to_ui64 (cuts a double, but not a text with a fraction), variant_to_dbl and
\* variant_to_str: whether they succeed.
Convertible(v, type) ==
  CASE type = "ui64" -> \/ v.type = "ui64"
                        \/ v.type = "dbl" /\ v.num >= 0
                        \/ v.type = "str" /\ IsNumber(v) /\ IsUint64(v.num)
    [] type = "dbl" -> IsNumber(v)
    [] OTHER -> v.type \notin {"none", "bin"}

\* A double as printf writes it: to six digits after the point, from halfway to the even one.
\* (One that rounds to -0 counts as 0.)
Printed(n) ==
  LET below == n - (n % Grain)
  IN  IF 2 * (n % Grain) < Grain \/ (2 * (n % Grain) = Grain /\ below % (2 * Grain) = 0)
      THEN below ELSE below + Grain

\* zbx_variant_convert: a value that cannot be converted is left as it was.
Convert(v, type) ==
  IF ~Convertible(v, type) THEN v
  ELSE CASE type = "ui64" -> Ui64(Cut(v.num))
         [] type = "dbl" -> Dbl(v.num)
         [] type = "str" /\ v.type = "dbl" -> Text(Printed(v.num))
         [] OTHER -> [v EXCEPT !.type = "str"]

\* zbx_variant_set_numeric: the smallest type that holds the number of a text.
SetNumeric(v) == IF IsUint64(v.num) THEN Ui64(v.num) ELSE Dbl(v.num)

\* zbx_variant_compare(v, w) = 0: no value equals no value only, bytes equal bytes only; two
\* uint64 are compared as they are, other numbers and texts of numbers as doubles, which are
\* equal up to 10^-6, everything else as text.
Equal(v, w) ==
  IF {v.type, w.type} \cap {"none", "bin"} # {} THEN v.type = w.type
  ELSE IF {v.type, w.type} = {"ui64"} THEN v.num = w.num
  ELSE IF IsNumber(v) /\ IsNumber(w) THEN v.num - w.num \in -Grain .. Grain
  ELSE v.word = w.word

\* zbx_variant_compare(v, w) < 0 of two numbers.
Less(v, w) == v.num < w.num /\ ~Equal(v, w)

ValueTypes == {"float", "uint", "text"}

VariantOf(valueType) ==
  CASE valueType = "float" -> "dbl" [] valueType = "uint" -> "ui64" [] OTHER -> "str"
=============================================================================
