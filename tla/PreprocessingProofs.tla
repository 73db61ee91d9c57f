------------------------ MODULE PreprocessingProofs ------------------------
(***************************************************************************)
(* Proofs about Preprocessing, for any steps, values and times: that what  *)
(* the worker remembers of one value is enough, that a test of the steps   *)
(* shows what the worker makes of a value, and that the program, with its  *)
(* own kind of history, agrees with the worker.  First the values, then    *)
(* one step, then a run over all the steps of an item, then the runs one   *)
(* after the other; last the program beside the worker, in the same order. *)
(***************************************************************************)
EXTENDS Preprocessing, TLAPS, WellFoundedInduction, FiniteSetTheorems

-----------------------------------------------------------------------------
(* Loops                                                                   *)

\* A set of numbers that is not empty has a least one.
LEMMA Least ==
  ASSUME NEW T, T \subseteq Nat, T # {}
  PROVE  \E x \in T : \A y \in T : x <= y
<1> DEFINE R == OpToRel(<, Nat)
<1>1. IsWellFoundedOn(R, Nat)
  BY NatLessThanWellFounded
<1>2. \A x, y \in Nat : <<x, y>> \in R <=> x < y
  BY DEF OpToRel
<1> HIDE DEF R
<1>3. PICK x \in T : \A y \in T : ~(<<y, x>> \in R)
  BY <1>1, WFMin
<1>4. \A y \in T : ~(y < x)
  BY <1>2, <1>3
<1> QED BY <1>3, <1>4

\* A property of the first number that each number hands on to the next holds of all.
LEMMA Upwards ==
  ASSUME NEW a \in Nat, NEW b \in Nat, NEW S, a \in S,
         \A k \in a .. b - 1 : k \in S => k + 1 \in S
  PROVE  \A k \in a .. b : k \in S
<1> SUFFICES ASSUME NEW z \in a .. b, z \notin S PROVE FALSE
  OBVIOUS
<1> DEFINE Bad == {k \in Nat : k \in a .. b /\ k \notin S}
<1>2. Bad \subseteq Nat /\ z \in Bad
  OBVIOUS
<1> HIDE DEF Bad
<1>3. PICK x \in Bad : \A y \in Bad : x <= y
  BY <1>2, Least
<1>4. x \in Nat /\ x \in a .. b /\ x \notin S /\ x # a
  BY <1>3 DEF Bad
<1>5. x - 1 \in Nat /\ x - 1 \in a .. b - 1 /\ (x - 1) + 1 = x /\ x - 1 < x
  BY <1>4
<1>6. x - 1 \in S
  BY <1>3, <1>4, <1>5 DEF Bad
<1> QED BY <1>4, <1>5, <1>6

\* What a loop over 1 .. n makes of s0, step by step.
Loop(f, n, s0, Step) ==
  f = [k \in 0 .. n |-> IF k = 0 THEN s0 ELSE Step[k][f[k - 1]]]

\* A loop whose steps do not leave a set exists, and none of its values leaves it.
LEMMA LoopExists ==
  ASSUME NEW n \in Nat, NEW S, NEW s0 \in S, NEW Step,
         \A k \in 1 .. n : \A s \in S : Step[k][s] \in S
  PROVE  \E f : Loop(f, n, s0, Step) /\ f \in [0 .. n -> S]
<1> DEFINE Fn(m) == {f \in [0 .. m -> S] :
                       f[0] = s0 /\ \A k \in 1 .. m : f[k] = Step[k][f[k - 1]]}
           T == {m \in 0 .. n : Fn(m) # {}}
<1>1. 0 \in T
  <2>1. [k \in 0 .. 0 |-> s0] \in Fn(0)
    OBVIOUS
  <2> QED BY <2>1
<1>2. \A m \in 0 .. n - 1 : m \in T => m + 1 \in T
  <2> SUFFICES ASSUME NEW m \in 0 .. n - 1, Fn(m) # {} PROVE m + 1 \in 0 .. n /\ Fn(m + 1) # {}
    OBVIOUS
  <2>1. PICK f : f \in Fn(m)
    OBVIOUS
  <2> DEFINE last == Step[m + 1][f[m]]
             g == [k \in 0 .. m + 1 |-> IF k <= m THEN f[k] ELSE last]
  <2>2. m \in Nat /\ m + 1 \in 1 .. n /\ m + 1 \in 0 .. n
    OBVIOUS
  <2>3. last \in S
    BY <2>1, <2>2
  <2> HIDE DEF last
  <2>4. g \in [0 .. m + 1 -> S]
    BY <2>1, <2>3
  <2>5. g[0] = s0
    BY <2>1, <2>2
  <2>6. \A k \in 1 .. m + 1 : g[k] = Step[k][g[k - 1]]
    <3> SUFFICES ASSUME NEW k \in 1 .. m + 1 PROVE g[k] = Step[k][g[k - 1]]
      OBVIOUS
    <3>1. CASE k <= m
      <4>1. k \in 1 .. m /\ k \in 0 .. m + 1 /\ k - 1 \in 0 .. m + 1 /\ k - 1 <= m
        BY <3>1, <2>2
      <4>2. g[k] = f[k] /\ g[k - 1] = f[k - 1]
        BY <3>1, <4>1
      <4> QED BY <4>1, <4>2, <2>1
    <3>2. CASE k = m + 1
      <4>1. g[k] = last /\ g[k - 1] = f[m]
        BY <3>2, <2>2
      <4> QED BY <4>1, <3>2 DEF last
    <3> QED BY <3>1, <3>2, <2>2
  <2> HIDE DEF g
  <2>7. g \in Fn(m + 1)
    BY <2>4, <2>5, <2>6
  <2> QED BY <2>2, <2>7
<1> HIDE DEF T
<1>3. n \in T
  <2>1. \A k \in 0 .. n : k \in T
    BY <1>1, <1>2, Upwards
  <2> QED BY <2>1
<1>4. PICK f : f \in Fn(n)
  BY <1>3 DEF T
<1>5. \A k \in 0 .. n : f[k] = IF k = 0 THEN s0 ELSE Step[k][f[k - 1]]
  <2> SUFFICES ASSUME NEW k \in 0 .. n, k # 0 PROVE k \in 1 .. n
    BY <1>4
  <2> QED OBVIOUS
<1>6. f = [k \in 0 .. n |-> IF k = 0 THEN s0 ELSE Step[k][f[k - 1]]]
  BY <1>4, <1>5
<1> QED BY <1>4, <1>6 DEF Loop

-----------------------------------------------------------------------------
(* Numbers                                                                 *)

\* Multiples of a number.
LEMMA Multiples ==
  ASSUME NEW d \in Nat \ {0}, NEW n \in Int
  PROVE  /\ n % d \in 0 .. d - 1 /\ n - (n % d) = d * (n \div d) /\ n \div d \in Int
         /\ n % d = 0 => n = d * (n \div d)
         /\ (d * n) % d = 0
  OBVIOUS
LEMMA TruncatedIs ==
  ASSUME NEW n \in Int
  PROVE  /\ Truncated(n) \in Int /\ Truncated(n) % Unit = 0 /\ Truncated(n) <= n
         /\ n >= 0 => Truncated(n) >= 0
         /\ n % Unit = 0 => Truncated(n) = n
<1>1. Unit \in Nat \ {0}
  BY VariantAssumption
<1>2. n \div Unit \in Int /\ n % Unit \in 0 .. Unit - 1 /\ n - (n % Unit) = Unit * (n \div Unit)
  BY <1>1, Multiples
<1>3. (Unit * (n \div Unit)) % Unit = 0
  BY <1>1, <1>2, Multiples
<1>4. n >= 0 => n - (n % Unit) >= 0
  BY <1>1
<1> QED BY <1>1, <1>2, <1>3, <1>4 DEF Truncated

LEMMA MultiplesNegated ==
  ASSUME NEW m \in Int, m % Unit = 0 PROVE (-m) % Unit = 0
<1>1. Unit \in Nat \ {0} /\ -m \in Int
  BY VariantAssumption
<1>2. m = Unit * (m \div Unit) /\ m \div Unit \in Int
  BY <1>1, Multiples
<1> DEFINE a == m \div Unit
<1>3. -m = Unit * (-a) /\ -a \in Int
  BY <1>1, <1>2
<1> HIDE DEF a
<1> QED BY <1>1, <1>3, Multiples

\* A remainder of a multiple of Unit is a uint64.
LEMMA RemainderIs ==
  ASSUME NEW n \in Int, n % Unit = 0
  PROVE  LET r == n % ((MaxUint + 1) * Unit)
         IN  r \in Int /\ IsUint64(r)
<1> DEFINE m == (MaxUint + 1) * Unit
           r == n % m
           q == n \div m
           c == n \div Unit
<1>1. Unit \in Nat \ {0} /\ MaxUint \in Nat /\ m \in Nat \ {0}
  BY VariantAssumption
<1>2. n = Unit * c /\ c \in Int
  BY <1>1, Multiples
<1>3. r \in 0 .. m - 1 /\ q \in Int /\ n - r = m * q
  <2> HIDE DEF m
  <2> QED BY <1>1, Multiples
<1> HIDE DEF r, q, c
<1>4. r = Unit * (c - (MaxUint + 1) * q) /\ c - (MaxUint + 1) * q \in Int
  BY <1>1, <1>2, <1>3
<1> DEFINE d == c - (MaxUint + 1) * q
<1>5. r = Unit * d /\ d \in Int
  BY <1>4
<1> HIDE DEF d
<1>6. r % Unit = 0
  BY <1>1, <1>5, Multiples
<1>7. d < MaxUint + 1
  BY <1>1, <1>3, <1>5
<1>8. r <= MaxUint * Unit
  BY <1>1, <1>5, <1>7
<1> HIDE DEF m
<1> QED BY <1>3, <1>6, <1>8 DEF IsUint64, r, m

LEMMA OutsideIs ==
  ASSUME NEW n \in Int, n % Unit = 0
  PROVE  Outside(n) \in Int /\ IsUint64(Outside(n))
<1>1. Unit \in Nat \ {0} /\ MaxUint \in Nat
  BY VariantAssumption
<1> DEFINE half == ((MaxUint + 1) \div 2) * Unit
           r == n % ((MaxUint + 1) * Unit)
<1>2. IsUint64(0) /\ MaxUint * Unit \in Int /\ IsUint64(MaxUint * Unit)
  <2>1. 0 = Unit * 0 /\ MaxUint * Unit = Unit * MaxUint /\ MaxUint * Unit \in Nat
    BY <1>1
  <2>2. (Unit * 0) % Unit = 0 /\ (Unit * MaxUint) % Unit = 0
    BY <1>1, Multiples
  <2> QED BY <2>1, <2>2 DEF IsUint64
<1>3. half \in Int /\ IsUint64(half)
  <2> DEFINE a == (MaxUint + 1) \div 2
  <2>1. a \in Nat /\ a <= MaxUint
    BY <1>1
  <2> HIDE DEF a
  <2>2. half = Unit * a /\ half \in Nat /\ half <= MaxUint * Unit
    BY <1>1, <2>1 DEF a
  <2>3. (Unit * a) % Unit = 0
    BY <1>1, <2>1, Multiples
  <2> QED BY <2>2, <2>3 DEF IsUint64
<1>4. r \in Int /\ IsUint64(r)
  BY RemainderIs
<1> HIDE DEF half, r
<1>5. Outside(n) \in {0, MaxUint * Unit, half, r}
  BY DEF Outside, half, r
<1> QED BY <1>2, <1>3, <1>4, <1>5

\* A double cut to a uint64 is one, and a uint64 stays what it is.
LEMMA CutIs ==
  ASSUME NEW n \in Int
  PROVE  /\ Cut(n) \in Int /\ IsUint64(Cut(n))
         /\ IsUint64(n) => Cut(n) = n
<1>1. Unit \in Nat \ {0} /\ MaxUint \in Nat
  BY VariantAssumption
<1>2. \A m \in Int : m % Unit = 0 => Outside(m) \in Int /\ IsUint64(Outside(m))
  BY OutsideIs
<1>3. MaxUint * Unit \in Nat /\ 0 % Unit = 0 /\ -Unit \in Int /\ -n \in Int
  BY <1>1
<1>4. IsUint64(0)
  BY <1>3 DEF IsUint64
<1> DEFINE w == -Truncated(-n)
<1>11. w \in Int /\ w % Unit = 0
  <2>1. Truncated(-n) \in Int /\ Truncated(-n) % Unit = 0
    BY <1>3, TruncatedIs
  <2>2. \A m \in Int : m % Unit = 0 => (-m) % Unit = 0
    BY <1>1, MultiplesNegated
  <2> QED BY <2>1, <2>2
<1> HIDE DEF w
<1> DEFINE t == Truncated(n)
<1>5. t \in Int /\ t % Unit = 0 /\ (n >= 0 => t >= 0) /\ (n % Unit = 0 => t = n)
  BY TruncatedIs
<1>6. ASSUME n >= 0, t <= MaxUint * Unit PROVE IsUint64(t)
  BY <1>5, <1>6 DEF IsUint64
<1> HIDE DEF t
<1>7. Cut(n) = IF n <= -Unit THEN Outside(w) ELSE IF n < 0 THEN 0
               ELSE IF t <= MaxUint * Unit THEN t ELSE Outside(t)
  BY DEF Cut, t, w
<1>8. IsUint64(n) => n >= 0 /\ n % Unit = 0 /\ n <= MaxUint * Unit
  BY DEF IsUint64
<1>9. Cut(n) \in Int /\ IsUint64(Cut(n))
  <2>1. Outside(w) \in Int /\ IsUint64(Outside(w)) /\ Outside(t) \in Int /\ IsUint64(Outside(t))
    BY <1>2, <1>5, <1>11
  <2> QED BY <1>1, <1>3, <1>4, <1>5, <1>6, <1>7, <2>1
<1>10. IsUint64(n) => Cut(n) = n
  BY <1>1, <1>3, <1>5, <1>7, <1>8
<1> QED BY <1>9, <1>10

-----------------------------------------------------------------------------
(* Values                                                                  *)

\* The values between the steps: a uint64 is one, and only a text has words.
Values ==
  {v \in Variant : /\ v.type = "ui64" => IsUint64(v.num)
                   /\ v.type # "str" => v.word = NoWord
                   /\ v.type = "none" => v = NoValue}

Numerics == {v \in Values : v.type \in {"ui64", "dbl"}}

\* Numbers are printed with the digits there are for them, those that have no more as they are.
LEMMA PrintedIs ==
  ASSUME NEW n \in Int
  PROVE  /\ Printed(n) \in Int /\ Printed(n) % Grain = 0
         /\ n % Grain = 0 => Printed(n) = n
<1>1. Grain \in Nat \ {0}
  BY VariantAssumption
<1> DEFINE q == n \div Grain
<1>2. n % Grain \in 0 .. Grain - 1 /\ n - (n % Grain) = Grain * q /\ q \in Int
  BY <1>1, Multiples
<1>3. Printed(n) \in {Grain * q, Grain * q + Grain}
  BY <1>2 DEF Printed
<1> HIDE DEF q
<1>4. Grain * q + Grain = Grain * (q + 1) /\ q + 1 \in Int
  BY <1>1, <1>2
<1>5. (Grain * q) % Grain = 0 /\ (Grain * (q + 1)) % Grain = 0
  BY <1>1, <1>2, <1>4, Multiples
<1>6. Grain * q \in Int /\ Grain * (q + 1) \in Int
  BY <1>1, <1>2, <1>4
<1>7. ASSUME n % Grain = 0 PROVE Printed(n) = n
  <2>1. 2 * (n % Grain) < Grain /\ n - (n % Grain) = n
    BY <1>1, <1>7
  <2> QED BY <2>1 DEF Printed
<1> QED BY <1>3, <1>4, <1>5, <1>6, <1>7

LEMMA SomeValues ==
  /\ NoValue \in Values /\ Texts \subseteq Values /\ Values \subseteq Variant
  /\ \A n \in Int : Dbl(n) \in Numerics /\ Text(n) \in Texts
  /\ \A n \in Int : IsUint64(n) => Ui64(n) \in Numerics
  /\ \A w \in Words : Word(w) \in Texts
<1>1. NoWord \in Words
  BY PreprocessingAssumption
<1>2. NoValue \in Values /\ Texts \subseteq Values /\ Values \subseteq Variant
  BY <1>1 DEF NoValue, Texts, Values, Variant
<1>3. \A n \in Int : Dbl(n) \in Numerics
  BY <1>1 DEF Dbl, Numerics, Values, Variant
<1>4. \A n \in Int : Text(n) \in Texts
  BY <1>1 DEF Text, Texts
<1>5. \A n \in Int : IsUint64(n) => Ui64(n) \in Numerics
  BY <1>1 DEF Ui64, Numerics, Values, Variant
<1>6. \A w \in Words : Word(w) \in Texts
  BY DEF Word, Texts
<1> QED BY <1>2, <1>3, <1>4, <1>5, <1>6

\* zbx_variant_convert keeps values values.
LEMMA ConvertIs ==
  ASSUME NEW v \in Values, NEW type \in {"ui64", "dbl", "str"}
  PROVE  /\ Convert(v, type) \in Values
         /\ Convertible(v, type) => Convert(v, type).type = type
         /\ ~Convertible(v, type) => Convert(v, type) = v
         /\ type = "dbl" => Convert(v, type).num = v.num
         /\ type = "str" /\ (v.type = "dbl" => v.num % Grain = 0) => Convert(v, type).num = v.num
         /\ type = "str" => Convert(v, type).word = v.word
<1>1. v \in Variant /\ v = [type |-> v.type, num |-> v.num, word |-> v.word] /\ v.num \in Int
  BY DEF Values, Variant
<1>2. Cut(v.num) \in Int /\ IsUint64(Cut(v.num))
  BY <1>1, CutIs
<1>3. CASE type = "ui64"
  BY <1>2, <1>3, SomeValues DEF Convert, Numerics, Ui64
<1>4. CASE type = "dbl"
  BY <1>1, <1>4, SomeValues DEF Convert, Numerics, Dbl
<1>5. CASE type = "str" /\ v.type # "dbl"
  BY <1>1, <1>5, SomeValues DEF Convert, Values, Variant, Convertible, Text
<1>6. CASE type = "str" /\ v.type = "dbl"
  <2>1. Convertible(v, type) /\ Convert(v, type) = Text(Printed(v.num)) /\ v.word = NoWord
    BY <1>6 DEF Convert, Convertible, Values
  <2>2. Printed(v.num) \in Int /\ (v.num % Grain = 0 => Printed(v.num) = v.num)
    BY <1>1, PrintedIs
  <2>3. \A n \in Int : Text(n) \in Values
    BY SomeValues
  <2> QED BY <1>6, <2>1, <2>2, <2>3 DEF Text
<1> QED BY <1>3, <1>4, <1>5, <1>6

\* A number becomes a numeric value, a double for an item of doubles.
LEMMA ToNumericIs ==
  ASSUME NEW v \in Values, IsNumber(v), NEW valueType \in ValueTypes
  PROVE  /\ ToNumeric(v, valueType) \in Numerics
         /\ valueType = "float" => ToNumeric(v, valueType) = Dbl(v.num)
         /\ valueType = "text" => ToNumeric(v, valueType).num = v.num
<1> DEFINE num == IF v.type = "str" THEN SetNumeric(v) ELSE v
<1>1. v \in Variant /\ v.num \in Int /\ v.type \in {"ui64", "dbl", "str"}
  BY DEF Values, Variant, IsNumber
<1>2. num \in Numerics /\ num.num = v.num
  BY <1>1, SomeValues DEF Numerics, SetNumeric, Ui64, Dbl
<1> HIDE DEF num
<1>3. num \in Values /\ IsNumber(num)
  BY <1>2 DEF Numerics, Values, IsNumber
<1>4. ToNumeric(v, valueType)
        = IF valueType = "text" THEN num ELSE Convert(num, VariantOf(valueType))
  BY DEF ToNumeric, num
<1>5. CASE valueType = "text"
  BY <1>2, <1>4, <1>5
<1>6. CASE valueType = "float"
  <2>1. Convert(num, "dbl") = Dbl(num.num)
    BY <1>3 DEF Convert, Convertible
  <2> QED BY <1>1, <1>2, <1>4, <1>6, <2>1, SomeValues DEF VariantOf
<1>7. CASE valueType = "uint"
  <2>1. Convert(num, "ui64") \in Values
    BY <1>3, ConvertIs
  <2>2. Convert(num, "ui64").type \in {"ui64", "dbl"}
    BY <1>2, <1>3, ConvertIs DEF Numerics
  <2> QED BY <1>4, <1>7, <2>1, <2>2 DEF VariantOf, Numerics
<1> QED BY <1>5, <1>6, <1>7 DEF ValueTypes

-----------------------------------------------------------------------------
(* Steps                                                                   *)

Memories == [value : Values \cup {Bin}, ts : Int]

Changes == {"delta", "speed"}

\* What a step may remember: differences are taken from numbers.
Fits(op, mem) ==
  mem \in Memories /\ (op.type \in Changes => mem.value \in Numerics \cup {NoValue})

Results == [ok : BOOLEAN, value : Variant, past : Memories, error : Words]

\* A result of a step: an error if it failed, and a value and a memory that can be relied on
\* if the memory it began with could.
Sound(op, mem, r) ==
  /\ r \in Results
  /\ r.ok <=> r.error = NoError
  /\ Fits(op, mem) => r.value \in Values /\ Fits(op, r.past)

\* Steps that leave the memory as it is.
LEMMA KeepsMemory ==
  ASSUME NEW op, NEW mem \in Memories, NEW v \in Values
  PROVE  /\ Sound(op, mem, Ok(v, mem))
         /\ \A e \in Words : e # NoError => Sound(op, mem, Fail(v, mem, e))
<1>1. NoError \in Words
  BY PreprocessingAssumption DEF NoError, NoWord
<1> QED BY <1>1, SomeValues DEF Sound, Results, Ok, Fail

LEMMA WholeQuotient ==
  ASSUME NEW a \in Int, NEW b \in Int, IsUint64(a), IsUint64(b), b <= a, NEW d \in Nat \ {0}
  PROVE  /\ IsUint64(a - b)
         /\ (a - b) \div d \in Int /\ Truncated((a - b) \div d) \in Int
         /\ IsUint64(Truncated((a - b) \div d))
<1>1. Unit \in Nat \ {0} /\ MaxUint \in Nat
  BY VariantAssumption
<1>2. a = Unit * (a \div Unit) /\ b = Unit * (b \div Unit) /\ a \div Unit \in Int /\ b \div Unit \in Int
  BY <1>1, Multiples DEF IsUint64
<1>3. a - b = Unit * ((a \div Unit) - (b \div Unit))
  BY <1>1, <1>2
<1> DEFINE c == (a \div Unit) - (b \div Unit)
<1>4. (Unit * c) % Unit = 0
  <2>1. c \in Int
    BY <1>2
  <2> HIDE DEF c
  <2> QED BY <1>1, <2>1, Multiples
<1>5. a >= 0 /\ b >= 0 /\ a <= MaxUint * Unit
  BY DEF IsUint64
<1>6. IsUint64(a - b)
  BY <1>1, <1>3, <1>4, <1>5 DEF IsUint64
<1> DEFINE q == (a - b) \div d
<1>7. a - b \in Nat
  BY <1>5
<1>8. q \in Int /\ q >= 0 /\ q <= a - b
  BY <1>7
<1> HIDE DEF q
<1>9. Truncated(q) \in Int /\ Truncated(q) % Unit = 0 /\ Truncated(q) <= q /\ Truncated(q) >= 0
  BY <1>8, TruncatedIs
<1>10. IsUint64(Truncated(q))
  BY <1>1, <1>5, <1>8, <1>9 DEF IsUint64
<1> QED BY <1>6, <1>8, <1>9, <1>10 DEF q

\* item_preproc_multiplier
LEMMA MultiplierIs ==
  ASSUME NEW valueType \in ValueTypes, NEW v \in Values, NEW op \in Operations,
         NEW mem \in Memories, NEW r, r = Multiplier(valueType, v, mem, op)
  PROVE  /\ Sound(op, mem, r)
         /\ IsNumber(v) => /\ r.ok /\ r.past = mem /\ r.value \in Numerics
                           /\ valueType = "float" => r.value.type = "dbl"
<1> DEFINE num == ToNumeric(v, valueType)
           product == (num.num * op.param) \div Unit
<1>1. "not numeric" \in Words /\ "not numeric" # NoError
  BY PreprocessingAssumption DEF Errors, NoError
<1>2. CASE ~IsNumber(v)
  <2>1. r = Fail(v, mem, "not numeric")
    BY <1>2 DEF Multiplier
  <2> QED BY <1>1, <1>2, <2>1, KeepsMemory
<1>3. CASE IsNumber(v)
  <2>1. Unit \in Nat \ {0} /\ MaxUint \in Nat /\ op.param \in Int
    BY VariantAssumption DEF Operations
  <2>2. num \in Numerics /\ (valueType = "float" => num.type = "dbl")
    BY <1>3, ToNumericIs DEF Dbl
  <2>3. num.num \in Int /\ num.type \in {"ui64", "dbl"} /\ (num.type = "ui64" => IsUint64(num.num))
    BY <2>2 DEF Numerics, Values, Variant
  <2> HIDE DEF num
  <2>4. num.num * op.param \in Int /\ product \in Int
    BY <2>1, <2>3
  <2>5. r = IF num.type = "dbl" THEN Ok(Dbl(product), mem)
            ELSE IF IsUint64(op.param) THEN Ok(Ui64(product % ((MaxUint + 1) * Unit)), mem)
            ELSE Ok(Ui64(Cut(product)), mem)
    BY <1>3 DEF Multiplier, num
  <2>6. CASE num.type = "dbl"
    <3>1. Dbl(product) \in Numerics /\ Dbl(product).type = "dbl"
      BY <2>4, SomeValues DEF Dbl
    <3> HIDE DEF product
    <3>2. r = Ok(Dbl(product), mem)
      BY <2>5, <2>6
    <3> QED BY <1>3, <3>1, <3>2, KeepsMemory DEF Numerics, Ok
  <2>7. CASE num.type = "ui64" /\ IsUint64(op.param)
    <3> DEFINE m == (MaxUint + 1) * Unit
    <3>1. m \in Nat \ {0}
      BY <2>1
    <3>2. product % m \in 0 .. m - 1
      <4> HIDE DEF m, product
      <4> QED BY <2>4, <3>1, Multiples
    <3>3. product = Unit * ((num.num \div Unit) * (op.param \div Unit))
      <4>1. /\ num.num = Unit * (num.num \div Unit) /\ num.num \div Unit \in Int
            /\ op.param = Unit * (op.param \div Unit) /\ op.param \div Unit \in Int
        BY <2>1, <2>3, <2>7, Multiples DEF IsUint64
      <4> DEFINE a == num.num \div Unit
                 b == op.param \div Unit
      <4>2. num.num * op.param = Unit * (Unit * (a * b)) /\ a * b \in Int
        BY <2>1, <4>1
      <4> HIDE DEF a, b
      <4>3. (Unit * (Unit * (a * b))) \div Unit = Unit * (a * b)
        BY <2>1, <4>2
      <4> QED BY <4>2, <4>3 DEF a, b
    <3>4. product % Unit = 0
      <4> DEFINE c == (num.num \div Unit) * (op.param \div Unit)
      <4>1. c \in Int /\ product = Unit * c
        BY <2>1, <2>3, <3>3
      <4> HIDE DEF c, product
      <4> QED BY <2>1, <4>1, Multiples
    <3> HIDE DEF product
    <3>5. IsUint64(product % m)
      BY <2>4, <3>4, RemainderIs
    <3>6. Ui64(product % m) \in Numerics
      BY <3>1, <3>2, <3>5, SomeValues
    <3>7. r = Ok(Ui64(product % m), mem)
      BY <2>5, <2>7
    <3> HIDE DEF m
    <3> QED BY <1>3, <2>2, <2>7, <3>6, <3>7, KeepsMemory DEF Numerics, Ok
  <2>8. CASE num.type = "ui64" /\ ~IsUint64(op.param)
    <3>1. Ui64(Cut(product)) \in Numerics
      BY <2>4, CutIs, SomeValues
    <3> HIDE DEF product
    <3>2. r = Ok(Ui64(Cut(product)), mem)
      BY <2>5, <2>8
    <3> QED BY <1>3, <2>2, <2>8, <3>1, <3>2, KeepsMemory DEF Numerics, Ok
  <2> QED BY <2>3, <2>6, <2>7, <2>8
<1> QED BY <1>2, <1>3

\* The change of two numbers, or nothing.
LEMMA ChangeIs ==
  ASSUME NEW n \in Numerics, NEW old \in Int, NEW ts \in Int, NEW mem \in Memories,
         NEW speed \in BOOLEAN, NEW c, c = Change(n, old, ts, mem, speed)
  PROVE  /\ c \in Variant /\ c.type \in {"none", n.type}
         /\ IsUint64(old) \/ n.type = "dbl" => c \in Values
<1>1. n \in Variant /\ n.num \in Int /\ n.type \in {"ui64", "dbl"} /\ n.word = NoWord
      /\ (n.type = "ui64" => IsUint64(n.num))
  BY DEF Numerics, Values, Variant
<1>2. mem.ts \in Int
  BY DEF Memories
<1>3. NoValue \in Values /\ NoValue \in Variant
  BY SomeValues
<1> DEFINE none == mem.ts = 0 \/ old > n.num \/ (speed /\ mem.ts >= ts)
           diff == IF speed THEN (n.num - old) \div (ts - mem.ts) ELSE n.num - old
           d == IF n.type = "ui64" THEN Truncated(diff) ELSE diff
<1>4. CASE none
  BY <1>3, <1>4 DEF Change, NoValue
<1>5. CASE ~none
  <2>1. c = [n EXCEPT !.num = d]
    BY <1>5 DEF Change
  <2>2. n.num - old \in Nat
    BY <1>1, <1>5
  <2>3. speed => ts - mem.ts \in Nat \ {0}
    BY <1>2, <1>5
  <2>4. diff \in Int
    <3>1. CASE speed
      <4> DEFINE a == n.num - old
                 b == ts - mem.ts
      <4>1. a \in Int /\ b \in Nat \ {0}
        BY <2>2, <2>3, <3>1
      <4> HIDE DEF a, b
      <4>2. a \div b \in Int
        BY <4>1
      <4> QED BY <3>1, <4>2 DEF a, b
    <3>2. CASE ~speed
      BY <2>2, <3>2
    <3> QED BY <3>1, <3>2
  <2>5. ASSUME n.type = "ui64", IsUint64(old) PROVE IsUint64(Truncated(diff))
    <3>1. IsUint64(n.num - old) /\ n.num - old \in Int
      BY <1>1, <1>5, <2>5, WholeQuotient
    <3>2. CASE speed
      <4>1. ts - mem.ts \in Nat \ {0} /\ old <= n.num
        BY <1>1, <1>5, <2>3, <3>2
      <4>2. IsUint64(Truncated((n.num - old) \div (ts - mem.ts)))
        BY <1>1, <2>5, <4>1, WholeQuotient
      <4> QED BY <3>2, <4>2
    <3>3. CASE ~speed
      <4>1. Truncated(n.num - old) = n.num - old
        BY <3>1, TruncatedIs DEF IsUint64
      <4> QED BY <3>1, <3>3, <4>1
    <3> QED BY <3>2, <3>3
  <2>6. Truncated(diff) \in Int
    BY <2>4, TruncatedIs
  <2> HIDE DEF diff
  <2>7. d \in Int
    BY <2>4, <2>6
  <2>8. c = [type |-> n.type, num |-> d, word |-> NoWord]
    BY <1>1, <2>1 DEF Variant
  <2>9. c \in Variant
    <3>1. NoWord \in Words
      BY PreprocessingAssumption
    <3> HIDE DEF d
    <3> QED BY <1>1, <2>7, <2>8, <3>1 DEF Variant
  <2>10. ASSUME IsUint64(old) \/ n.type = "dbl" PROVE n.type = "ui64" => IsUint64(d)
    BY <1>1, <2>5, <2>10
  <2> HIDE DEF d
  <2>11. c.type = n.type /\ c.num = d /\ c.word = NoWord
    BY <2>8
  <2> QED BY <1>1, <2>9, <2>10, <2>11 DEF Values
<1> QED BY <1>4, <1>5

\* item_preproc_delta remembers the number, and gives nothing if it remembered none.
LEMMA DeltaIs ==
  ASSUME NEW valueType \in ValueTypes, NEW v \in Values, NEW ts \in Int, NEW op,
         NEW mem \in Memories, NEW speed \in BOOLEAN, NEW g \in Int,
         NEW r, r = Delta(valueType, v, ts, mem, speed, g), op.type \in Changes
  PROVE  /\ Sound(op, mem, r)
         /\ IsNumber(v) =>
              /\ r.ok /\ r.past = [value |-> ToNumeric(v, valueType), ts |-> ts]
              /\ mem.value = NoValue => r.value = NoValue
<1> DEFINE num == ToNumeric(v, valueType)
           type == IF "dbl" \in {num.type, mem.value.type} THEN "dbl" ELSE "ui64"
           old == IF Convertible(mem.value, type) THEN Convert(mem.value, type).num ELSE g
           change == IF mem.value.type = "none" THEN NoValue
                     ELSE Change(Convert(num, type), old, ts, mem, speed)
<1>1. "not numeric" \in Words /\ "not numeric" # NoError /\ NoError \in Words
  BY PreprocessingAssumption DEF Errors, NoError, NoWord
<1>2. CASE ~IsNumber(v)
  <2>1. r = Fail(v, mem, "not numeric")
    BY <1>2 DEF Delta
  <2> QED BY <1>1, <1>2, <2>1, KeepsMemory
<1>3. CASE IsNumber(v)
  <2>1. num \in Numerics
    BY <1>3, ToNumericIs
  <2> HIDE DEF num
  <2>2. type \in {"ui64", "dbl"} /\ num \in Values /\ num.type \in {"ui64", "dbl"}
    BY <2>1 DEF Numerics
  <2>3. Convertible(num, type) /\ Convert(num, type) \in Numerics /\ Convert(num, type).type = type
    <3>1. Convertible(num, type)
      BY <2>1 DEF Convertible, IsNumber, Numerics, Values
    <3> HIDE DEF type
    <3> QED BY <2>2, <3>1, ConvertIs DEF Numerics
  <2>4. mem.value \in Values \/ mem.value = Bin
    BY DEF Memories
  <2>5. old \in Int
    <3>1. mem.value \in Values => Convert(mem.value, type).num \in Int
      <4> HIDE DEF type
      <4> QED BY <2>2, ConvertIs DEF Values, Variant
    <3>2. Convert(Bin, type) = Bin /\ Bin.num \in Int
      BY <2>2 DEF Convert, Convertible, Bin, IsNumber
    <3> HIDE DEF type
    <3> QED BY <2>4, <3>1, <3>2
  <2>6. ASSUME mem.value \in Numerics PROVE IsUint64(old) \/ type = "dbl"
    <3>1. CASE type = "ui64"
      <4>1. mem.value.type = "ui64" /\ Convertible(mem.value, "ui64")
        BY <2>6, <3>1 DEF Convertible, Numerics
      <4>2. old = Convert(mem.value, "ui64").num
        BY <3>1, <4>1
      <4>3. Convert(mem.value, "ui64") \in Values /\ Convert(mem.value, "ui64").type = "ui64"
        BY <2>6, <4>1, ConvertIs DEF Numerics
      <4> HIDE DEF old
      <4> QED BY <4>2, <4>3 DEF Values
    <3> HIDE DEF type
    <3> QED BY <2>2, <3>1
  <2>7. r = Ok(change, [value |-> num, ts |-> ts])
    BY <1>3 DEF Delta, num
  <2> HIDE DEF old, type
  <2>8. /\ change \in Variant
        /\ mem.value \in Numerics \cup {NoValue} => change \in Values
    <3>1. CASE mem.value.type = "none"
      BY <3>1, SomeValues
    <3>2. CASE mem.value.type # "none"
      <4>1. change = Change(Convert(num, type), old, ts, mem, speed)
        BY <3>2
      <4> HIDE DEF change
      <4>2. mem.value # NoValue
        BY <3>2 DEF NoValue
      <4> QED BY <2>2, <2>3, <2>5, <2>6, <4>1, <4>2, ChangeIs
    <3> QED BY <3>1, <3>2
  <2>9. mem.value = NoValue => change = NoValue
    BY DEF NoValue
  <2> HIDE DEF change
  <2>10. [value |-> num, ts |-> ts] \in Memories /\ Fits(op, [value |-> num, ts |-> ts])
    BY <2>1 DEF Fits, Memories, Numerics
  <2>11. Sound(op, mem, r)
    <3> DEFINE p == [value |-> num, ts |-> ts]
    <3>1. p \in Memories /\ Fits(op, p)
      BY <2>10
    <3> HIDE DEF p
    <3>2. r = [ok |-> TRUE, value |-> change, past |-> p, error |-> NoError]
      BY <2>7 DEF Ok, p
    <3>3. Fits(op, mem) => mem.value \in Numerics \cup {NoValue}
      BY DEF Fits
    <3>4. /\ r.ok = TRUE /\ r.value = change /\ r.past = p /\ r.error = NoError
      BY <3>2
    <3>5. r \in Results
      <4>1. NoError \in Words /\ change \in Variant /\ p \in Memories
        BY <1>1, <2>8, <3>1
      <4>2. [ok |-> TRUE, value |-> change, past |-> p, error |-> NoError] \in Results
        BY <4>1 DEF Results
      <4> QED BY <3>2, <4>2
    <3> QED BY <2>8, <3>1, <3>3, <3>4, <3>5 DEF Sound
  <2> QED BY <2>7, <2>9, <2>11 DEF Ok, num
<1> QED BY <1>2, <1>3

\* item_preproc_throttle_value and item_preproc_throttle_timed_value
LEMMA ThrottleIs ==
  ASSUME NEW v \in Values, NEW ts \in Int, NEW op \in Operations, op.type \notin Changes,
         NEW mem \in Memories
  PROVE  Sound(op, mem, Throttle(v, ts, mem)) /\ Sound(op, mem, ThrottleTimed(v, ts, mem, op))
<1>1. NoError \in Words /\ "bad period" \in Words /\ "bad period" # NoError
  BY PreprocessingAssumption DEF Errors, NoError, NoWord
<1>2. NoValue \in Values /\ Values \subseteq Variant
  BY SomeValues
<1>3. [value |-> v, ts |-> ts] \in Memories /\ [mem EXCEPT !.value = v] \in Memories
  BY DEF Memories
<1>4. NoPast \in Memories
  BY <1>2 DEF Memories, NoPast
<1>5. \A u \in Values, p \in Memories : Sound(op, mem, Ok(u, p))
  BY <1>1, <1>2 DEF Sound, Results, Ok, Fits
<1>6. Sound(op, mem, Fail(v, NoPast, "bad period"))
  BY <1>1, <1>2, <1>4 DEF Sound, Results, Fail, Fits
<1>7. Sound(op, mem, Throttle(v, ts, mem))
  BY <1>2, <1>3, <1>5 DEF Throttle
<1>8. Sound(op, mem, ThrottleTimed(v, ts, mem, op))
  BY <1>2, <1>3, <1>5, <1>6 DEF ThrottleTimed
<1> QED BY <1>7, <1>8

\* zbx_item_preproc
LEMMA StepIs ==
  ASSUME NEW valueType \in ValueTypes, NEW v \in Values, v.type # "none", NEW ts \in Int,
         NEW op \in Operations, NEW mem \in Memories, NEW g \in Int
  PROVE  Sound(op, mem, StepResult(valueType, v, ts, op, mem, g))
<1> DEFINE r == StepResult(valueType, v, ts, op, mem, g)
<1>1. Errors \subseteq Words /\ \A e \in Errors : e # NoError
  BY PreprocessingAssumption DEF Errors, NoError
<1>2. \A u \in Values, e \in Errors : Sound(op, mem, Ok(u, mem)) /\ Sound(op, mem, Fail(u, mem, e))
  BY <1>1, KeepsMemory
<1>3. CASE op.type = "multiplier"
  BY <1>3, MultiplierIs DEF StepResult
<1>4. CASE op.type = "delta"
  <2>1. r = Delta(valueType, v, ts, mem, FALSE, g)
    BY <1>4 DEF StepResult
  <2>2. op.type \in Changes
    BY <1>4 DEF Changes
  <2> HIDE DEF r
  <2>3. Sound(op, mem, r)
    BY <2>1, <2>2, DeltaIs
  <2> QED BY <2>3 DEF r
<1>5. CASE op.type = "speed"
  <2>1. r = Delta(valueType, v, ts, mem, TRUE, g)
    BY <1>5 DEF StepResult
  <2>2. op.type \in Changes
    BY <1>5 DEF Changes
  <2> HIDE DEF r
  <2>3. Sound(op, mem, r)
    BY <2>1, <2>2, DeltaIs
  <2> QED BY <2>3 DEF r
<1>6. CASE op.type \in {"throttle", "throttle_timed"}
  <2>1. r = IF op.type = "throttle" THEN Throttle(v, ts, mem) ELSE ThrottleTimed(v, ts, mem, op)
    BY <1>6 DEF StepResult
  <2> QED BY <1>6, <2>1, ThrottleIs DEF Changes
<1>7. CASE op.type = "range"
  <2>1. r = ValidateRange(valueType, v, mem, op)
    BY <1>7 DEF StepResult
  <2>2. r \in {Ok(v, mem), Fail(v, mem, "not numeric"), Fail(v, mem, "not in range")}
    BY <2>1 DEF ValidateRange
  <2> QED BY <1>2, <2>2 DEF Errors
<1>8. CASE op.type \in {"regex", "not_regex"}
  <2>1. r = IF op.type = "regex" THEN ValidateRegex(v, mem, TRUE) ELSE ValidateRegex(v, mem, FALSE)
    BY <1>8 DEF StepResult
  <2>2. r \in {Ok(v, mem), Fail(v, mem, "regex")}
    BY <2>1 DEF ValidateRegex
  <2> QED BY <1>2, <2>2 DEF Errors
<1>9. Convert(v, "str") \in Values
  BY ConvertIs
<1>10. CASE op.type = "extract"
  <2>1. r = Extract(v, mem, op)
    BY <1>10 DEF StepResult
  <2>2. Text(op.param) \in Values
    BY SomeValues DEF Operations
  <2>3. r \in {Ok(Text(op.param), mem), Fail(Convert(v, "str"), mem, "no match")}
    BY <2>1 DEF Extract
  <2> QED BY <1>2, <1>9, <2>2, <2>3 DEF Errors
<1>11. CASE op.type = "error_regex"
  <2>1. r = ErrorFromRegex(v, mem)
    BY <1>11 DEF StepResult
  <2>2. r = Ok(v, mem) \/ (v.word # NoError /\ r = Fail(v, mem, v.word))
    BY <2>1 DEF ErrorFromRegex, Matches, NoError, NoWord
  <2>3. v.word \in Words
    BY DEF Values, Variant
  <2> QED BY <1>2, <2>2, <2>3, KeepsMemory
<1>12. CASE op.type = "script"
  <2> DEFINE compiled == [mem EXCEPT !.value = Bin]
  <2>1. r = Script(v, mem)
    BY <1>12 DEF StepResult
  <2>2. r = Ok(Convert(v, "str"), compiled) \/ r = Fail(Convert(v, "str"), compiled, "thrown")
    BY <2>1 DEF Script
  <2>3. compiled \in Memories
    BY DEF Memories
  <2>4. Fits(op, compiled)
    BY <1>12, <2>3 DEF Fits, Changes
  <2>5. NoError \in Words /\ "thrown" \in Errors
    BY PreprocessingAssumption DEF Errors, NoError, NoWord
  <2> HIDE DEF compiled, r
  <2>6. Sound(op, mem, Ok(Convert(v, "str"), compiled))
    BY <1>9, <2>3, <2>4, <2>5, SomeValues DEF Sound, Results, Ok
  <2>7. Sound(op, mem, Fail(Convert(v, "str"), compiled, "thrown"))
    BY <1>1, <1>9, <2>3, <2>4, <2>5, SomeValues DEF Sound, Results, Fail
  <2> QED BY <2>2, <2>6, <2>7 DEF r
<1>13. CASE op.type \notin {"multiplier", "delta", "speed", "throttle", "throttle_timed", "range",
                            "regex", "not_regex", "extract", "error_regex", "script"}
  <2>1. r = Fail(v, mem, "unknown operation")
    BY <1>13 DEF StepResult
  <2> QED BY <1>2, <2>1 DEF Errors
<1> QED BY <1>3, <1>4, <1>5, <1>6, <1>7, <1>8, <1>10, <1>11, <1>12, <1>13

\* A handled result.
Handled(op, r) == IF r.ok THEN r ELSE HandleError(r, op)

\* zbx_item_preproc_handle_error: what is put in place of an error succeeds, any other fails.
LEMMA HandledIs ==
  ASSUME NEW op \in Operations, op.handler \in {"set_value", "set_error"} => op.alt \in Texts,
         op.handler = "set_error" => op.alt.word # NoWord,
         NEW mem, NEW r, Sound(op, mem, r), NEW h, h = Handled(op, r)
  PROVE  /\ Sound(op, mem, h) /\ h.past = r.past
         /\ r.ok => h = r
         /\ op.handler \in {"discard", "set_value"} => h.ok
         /\ ~r.ok /\ h.ok => \/ op.handler = "discard" /\ h.value = NoValue
                             \/ op.handler = "set_value" /\ h.value = op.alt
         /\ ~r.ok /\ ~h.ok => h.value = r.value
<1>1. r \in Results /\ (r.ok <=> r.error = NoError)
  BY DEF Sound
<1>2. r = [ok |-> r.ok, value |-> r.value, past |-> r.past, error |-> r.error]
  BY <1>1 DEF Results
<1>3. NoError \in Words /\ NoValue \in Values /\ Texts \subseteq Values /\ Values \subseteq Variant
  BY PreprocessingAssumption, SomeValues DEF NoError, NoWord
<1>4. CASE r.ok
  BY <1>4 DEF Handled
<1>5. CASE ~r.ok /\ op.handler = "discard"
  <2>1. h = [ok |-> TRUE, value |-> NoValue, past |-> r.past, error |-> NoError]
    BY <1>2, <1>5 DEF Handled, HandleError
  <2> QED BY <1>1, <1>3, <1>5, <2>1 DEF Sound, Results
<1>6. CASE ~r.ok /\ op.handler = "set_value"
  <2>1. h = [ok |-> TRUE, value |-> op.alt, past |-> r.past, error |-> NoError]
    BY <1>2, <1>6 DEF Handled, HandleError
  <2> QED BY <1>1, <1>3, <1>6, <2>1 DEF Sound, Results
<1>7. CASE ~r.ok /\ op.handler = "set_error"
  <2>1. h = [ok |-> FALSE, value |-> r.value, past |-> r.past, error |-> op.alt.word]
    <3>1. h = [r EXCEPT !.error = op.alt.word]
      BY <1>7 DEF Handled, HandleError
    <3>2. \A e : [r EXCEPT !.error = e]
                   = [ok |-> r.ok, value |-> r.value, past |-> r.past, error |-> e]
      BY <1>2, <1>1 DEF Results
    <3>3. r.ok = FALSE
      BY <1>1, <1>7 DEF Results
    <3> QED BY <3>1, <3>2, <3>3
  <2>2. op.alt.word \in Words /\ op.alt.word # NoError
    BY <1>7 DEF Texts, NoError, NoWord
  <2> QED BY <1>1, <1>3, <1>7, <2>1, <2>2 DEF Sound, Results
<1>8. CASE ~r.ok /\ op.handler = "default"
  <2>1. h = r
    BY <1>8 DEF Handled, HandleError
  <2> QED BY <1>8, <2>1
<1> QED BY <1>4, <1>5, <1>6, <1>7, <1>8 DEF Operations, Handlers

-----------------------------------------------------------------------------
(* Runs of the worker and of a test                                        *)

Pasts(c) ==
  {p \in [DOMAIN c.steps -> Memories] : \A k \in DOMAIN c.steps : Fits(c.steps[k], p[k])}

\* Where a run over the steps may be: it ends with the first error or with no value.
Runs(c) ==
  {s \in [value : Values, error : Words, num : 0 .. Len(c.steps), past : Pasts(c),
          running : BOOLEAN] : s.running <=> s.error = NoError /\ s.value.type # "none"}

LEMMA ConfigurationIs ==
  ASSUME NEW c \in Configurations
  PROVE  /\ c.valueType \in ValueTypes /\ VariantOf(c.valueType) \in {"ui64", "dbl", "str"}
         /\ Len(c.steps) \in Nat /\ DOMAIN c.steps = 1 .. Len(c.steps)
         /\ \A k \in 1 .. Len(c.steps) :
              /\ c.steps[k] \in Operations
              /\ c.steps[k].handler \in {"set_value", "set_error"} => c.steps[k].alt \in Texts
              /\ c.steps[k].handler = "set_error" => c.steps[k].alt.word # NoWord
<1>1. c.valueType \in ValueTypes /\ c.steps \in Seq(Operations)
  BY PreprocessingAssumption
<1>2. VariantOf(c.valueType) \in {"ui64", "dbl", "str"}
  BY DEF VariantOf
<1>3. Len(c.steps) \in Nat /\ DOMAIN c.steps = 1 .. Len(c.steps)
  BY <1>1
<1>4. \A k \in 1 .. Len(c.steps) : c.steps[k] \in Operations
  BY <1>1
<1>5. \A k \in DOMAIN c.steps :
        /\ c.steps[k].handler \in {"set_value", "set_error"} => c.steps[k].alt \in Texts
        /\ c.steps[k].handler = "set_error" => c.steps[k].alt.word # NoWord
  BY PreprocessingAssumption
<1> QED BY <1>1, <1>2, <1>3, <1>4, <1>5

LEMMA NoPastsFit ==
  ASSUME NEW c \in Configurations
  PROVE  NoPasts(c) \in Pasts(c)
<1>1. NoPast \in Memories /\ NoPast.value = NoValue
  BY SomeValues DEF NoPast, Memories
<1> QED BY <1>1 DEF NoPasts, Pasts, Fits

LEMMA StartedIs ==
  ASSUME NEW c \in Configurations, NEW v \in Texts
  PROVE  Started(c, v) \in Runs(c)
<1>1. NoError \in Words /\ v \in Values /\ v.type = "str" /\ 0 \in 0 .. Len(c.steps)
  <2>1. NoError \in Words
    BY PreprocessingAssumption DEF NoError, NoWord
  <2>2. v \in Values /\ v.type = "str"
    BY SomeValues DEF Texts
  <2> QED BY <2>1, <2>2, ConfigurationIs
<1>2. NoPasts(c) \in Pasts(c)
  BY NoPastsFit
<1> QED BY <1>1, <1>2 DEF Started, Runs

\* What the worker remembers after a step: something new only of one that succeeded.
Remembered(s, k, r) ==
  IF r.ok /\ r.past.value.type # "none" THEN [s.past EXCEPT ![k] = r.past] ELSE s.past

\* What comes of the k-th step and of its error handler.
Raw(c, v, ts, in, g, k) == StepResult(c.valueType, v, ts, c.steps[k], in[k], g)
HandledStep(c, v, ts, in, g, k) == Handled(c.steps[k], Raw(c, v, ts, in, g, k))

\* One round: a test differs from the worker in what it remembers of a handled step only.
Round(c, ts, in, g, s, k) ==
  LET op == c.steps[k]
      r == Raw(c, s.value, ts, in, g, k)
      h == HandledStep(c, s.value, ts, in, g, k)
      w == ExecuteStep(c, ts, in, g, s, k)
      t == TestStep(c, ts, in, g, s, k)
  IN  /\ Sound(op, in[k], r) /\ Sound(op, in[k], h) /\ Fits(op, in[k])
      /\ w \in Runs(c) /\ w.value = h.value /\ w.error = h.error /\ w.num = k
      /\ w.past = Remembered(s, k, r)
      /\ t \in Runs(c) /\ t.value = h.value /\ t.error = h.error /\ t.num = k
      /\ t.running = w.running

LEMMA RoundIs ==
  ASSUME NEW c \in Configurations, NEW ts \in Int, NEW in \in Pasts(c), NEW g \in Int,
         NEW s \in Runs(c), s.running, NEW k \in 1 .. Len(c.steps)
  PROVE  Round(c, ts, in, g, s, k)
<1> DEFINE op == c.steps[k]
           r == Raw(c, s.value, ts, in, g, k)
           h == HandledStep(c, s.value, ts, in, g, k)
           w == ExecuteStep(c, ts, in, g, s, k)
           t == TestStep(c, ts, in, g, s, k)
<1>a. /\ op = c.steps[k] /\ r = StepResult(c.valueType, s.value, ts, op, in[k], g)
      /\ h = Handled(op, r) /\ w = ExecuteStep(c, ts, in, g, s, k)
      /\ t = TestStep(c, ts, in, g, s, k)
  BY DEF Raw, HandledStep
<1> HIDE DEF op, r, h, w, t
<1>1. /\ op \in Operations /\ (op.handler \in {"set_value", "set_error"} => op.alt \in Texts)
      /\ (op.handler = "set_error" => op.alt.word # NoWord)
      /\ c.valueType \in ValueTypes /\ k \in DOMAIN c.steps
  BY <1>a, ConfigurationIs
<1>2. in[k] \in Memories /\ Fits(op, in[k])
  BY <1>1, <1>a DEF Pasts
<1>3. s.value \in Values /\ s.value.type # "none" /\ s.past \in Pasts(c)
  BY DEF Runs
<1>4. Sound(op, in[k], r)
  BY <1>a, <1>1, <1>2, <1>3, StepIs
<1>5. Sound(op, in[k], h) /\ (r.ok => h = r)
  BY <1>a, <1>1, <1>4, HandledIs
<1>6. r \in Results /\ h \in Results
  BY <1>4, <1>5 DEF Sound
<1>7. /\ r.ok \in BOOLEAN /\ h.ok \in BOOLEAN /\ (r.ok <=> r.error = NoError)
      /\ (h.ok <=> h.error = NoError) /\ h.value \in Values /\ h.error \in Words
      /\ Fits(op, h.past) /\ Fits(op, r.past) /\ h.past \in Memories /\ r.past \in Memories
  BY <1>2, <1>4, <1>5, <1>6 DEF Sound, Results
<1>8. \A p : p \in Memories /\ Fits(op, p) => [s.past EXCEPT ![k] = p] \in Pasts(c)
  BY <1>a, <1>1, <1>3 DEF Pasts
<1> DEFINE r1 == IF r.ok THEN r ELSE [HandleError(r, op) EXCEPT !.past = NoPast]
           ok == r1.ok /\ r1.error = NoError
<1>9. /\ r1.ok = h.ok /\ r1.error = h.error /\ r1.value = h.value
      /\ r1.past = IF r.ok THEN r.past ELSE NoPast
  BY <1>5, <1>6, <1>a DEF Handled, Results
<1>10. w = [value |-> r1.value, error |-> r1.error, num |-> k,
            past |-> IF ok /\ r1.past.value.type # "none" THEN [s.past EXCEPT ![k] = r1.past]
                     ELSE s.past,
            running |-> ok /\ r1.value.type # "none"]
  BY <1>a DEF ExecuteStep
<1>11. t = [value |-> h.value, error |-> h.error, num |-> k,
            past |-> IF h.ok /\ h.past.value.type # "none" THEN [s.past EXCEPT ![k] = h.past]
                     ELSE s.past,
            running |-> h.ok /\ h.value.type # "none"]
  BY <1>a DEF TestStep, Handled
<1> HIDE DEF r1
<1>12. NoPast.value.type = "none"
  BY DEF NoPast, NoValue
<1>13. w.past = Remembered(s, k, r)
  BY <1>5, <1>7, <1>9, <1>10, <1>12 DEF Remembered
<1>14. w.past \in Pasts(c)
  BY <1>3, <1>7, <1>8, <1>13 DEF Remembered
<1>15. t.past \in Pasts(c)
  BY <1>3, <1>7, <1>8, <1>11
<1>16. k \in 0 .. Len(c.steps)
  BY ConfigurationIs
<1>17. /\ w.value = h.value /\ w.error = h.error /\ w.num = k
       /\ w.running = (h.ok /\ h.value.type # "none")
  BY <1>7, <1>9, <1>10
<1>18. /\ t.value = h.value /\ t.error = h.error /\ t.num = k
       /\ t.running = (h.ok /\ h.value.type # "none")
  BY <1>11
<1>19. w = [value |-> w.value, error |-> w.error, num |-> w.num, past |-> w.past,
            running |-> w.running]
  BY <1>10
<1>20. t = [value |-> t.value, error |-> t.error, num |-> t.num, past |-> t.past,
            running |-> t.running]
  BY <1>11
<1> HIDE DEF ok
<1>21. w \in Runs(c)
  BY <1>7, <1>14, <1>16, <1>17, <1>19 DEF Runs
<1>22. t \in Runs(c)
  BY <1>7, <1>15, <1>16, <1>18, <1>20 DEF Runs
<1> QED BY <1>2, <1>4, <1>5, <1>13, <1>17, <1>18, <1>21, <1>22 DEF Round, op, r, h, w, t

\* The result of a step and what its error handler makes of it.
LEMMA HandledStepFits ==
  ASSUME NEW c \in Configurations, NEW ts \in Int, NEW in \in Pasts(c), NEW g \in Int,
         NEW v \in Values, v.type # "none", NEW k \in 1 .. Len(c.steps)
  PROVE  LET r == Raw(c, v, ts, in, g, k)
             h == HandledStep(c, v, ts, in, g, k)
         IN  Sound(c.steps[k], in[k], r) /\ Sound(c.steps[k], in[k], h) /\ Fits(c.steps[k], in[k])
<1> DEFINE r == Raw(c, v, ts, in, g, k)
           h == HandledStep(c, v, ts, in, g, k)
           op == c.steps[k]
<1>1. /\ op \in Operations /\ (op.handler \in {"set_value", "set_error"} => op.alt \in Texts)
      /\ (op.handler = "set_error" => op.alt.word # NoWord)
      /\ c.valueType \in ValueTypes /\ k \in DOMAIN c.steps
  BY ConfigurationIs
<1>2. in[k] \in Memories /\ Fits(op, in[k])
  BY <1>1 DEF Pasts
<1>3. r = StepResult(c.valueType, v, ts, op, in[k], g) /\ h = Handled(op, r)
  BY DEF Raw, HandledStep
<1> HIDE DEF r, h, op
<1>4. Sound(op, in[k], r)
  BY <1>1, <1>2, <1>3, StepIs
<1>5. Sound(op, in[k], h)
  BY <1>1, <1>3, <1>4, HandledIs
<1> QED BY <1>2, <1>4, <1>5 DEF r, h, op

LEMMA HandledStepGoesOn ==
  ASSUME NEW c \in Configurations, NEW ts \in Int, NEW in \in Pasts(c), NEW g \in Int,
         NEW v \in Values, v.type # "none", NEW k \in 1 .. Len(c.steps)
  PROVE  LET r == Raw(c, v, ts, in, g, k)
             h == HandledStep(c, v, ts, in, g, k)
             op == c.steps[k]
         IN  /\ h.ok \in BOOLEAN /\ r.ok \in BOOLEAN
             /\ r.ok => h = r
             /\ op.handler \in {"discard", "set_value"} => h.ok
             /\ ~r.ok /\ h.ok => \/ op.handler = "discard" /\ h.value = NoValue
                                 \/ op.handler = "set_value" /\ h.value = op.alt
<1> DEFINE r == Raw(c, v, ts, in, g, k)
           h == HandledStep(c, v, ts, in, g, k)
           op == c.steps[k]
<1>1. /\ op \in Operations /\ (op.handler \in {"set_value", "set_error"} => op.alt \in Texts)
      /\ (op.handler = "set_error" => op.alt.word # NoWord)
      /\ c.valueType \in ValueTypes /\ k \in DOMAIN c.steps
  BY ConfigurationIs
<1>2. in[k] \in Memories /\ Fits(op, in[k])
  BY <1>1 DEF Pasts
<1>3. r = StepResult(c.valueType, v, ts, op, in[k], g) /\ h = Handled(op, r)
  BY DEF Raw, HandledStep
<1> HIDE DEF r, h, op
<1>4. Sound(op, in[k], r)
  BY <1>1, <1>2, <1>3, StepIs
<1>5. /\ Sound(op, in[k], h) /\ (r.ok => h = r)
      /\ op.handler \in {"discard", "set_value"} => h.ok
      /\ ~r.ok /\ h.ok => \/ op.handler = "discard" /\ h.value = NoValue
                          \/ op.handler = "set_value" /\ h.value = op.alt
  BY <1>1, <1>3, <1>4, HandledIs
<1>6. h.ok \in BOOLEAN /\ r.ok \in BOOLEAN
  BY <1>4, <1>5 DEF Sound, Results
<1> QED BY <1>5, <1>6 DEF r, h, op

LEMMA ExecuteStepIs ==
  ASSUME NEW c \in Configurations, NEW ts \in Int, NEW in \in Pasts(c), NEW g \in Int,
         NEW s \in Runs(c), s.running, NEW k \in 1 .. Len(c.steps)
  PROVE  LET h == HandledStep(c, s.value, ts, in, g, k)
             w == ExecuteStep(c, ts, in, g, s, k)
         IN  /\ w \in Runs(c) /\ w.value = h.value /\ w.error = h.error /\ w.num = k
             /\ w.past = Remembered(s, k, Raw(c, s.value, ts, in, g, k))
<1>1. Round(c, ts, in, g, s, k)
  BY RoundIs
<1> QED BY <1>1 DEF Round

LEMMA TestStepIs ==
  ASSUME NEW c \in Configurations, NEW ts \in Int, NEW in \in Pasts(c), NEW g \in Int,
         NEW s \in Runs(c), s.running, NEW k \in 1 .. Len(c.steps)
  PROVE  LET h == HandledStep(c, s.value, ts, in, g, k)
             t == TestStep(c, ts, in, g, s, k)
         IN  t \in Runs(c) /\ t.value = h.value /\ t.error = h.error
<1>1. Round(c, ts, in, g, s, k)
  BY RoundIs
<1> QED BY <1>1 DEF Round

\* The states a run of the worker or of a test goes through, from step to step.
ExecuteTrace(f, c, v, ts, in, g) ==
  /\ f \in [0 .. Len(c.steps) -> Runs(c)] /\ f[0] = Started(c, v)
  /\ \A k \in 1 .. Len(c.steps) :
       f[k] = IF ~f[k - 1].running THEN f[k - 1] ELSE ExecuteStep(c, ts, in, g, f[k - 1], k)

TestTrace(f, c, v, ts, in, g) ==
  /\ f \in [0 .. Len(c.steps) -> Runs(c)] /\ f[0] = Started(c, v)
  /\ \A k \in 1 .. Len(c.steps) :
       f[k] = IF ~f[k - 1].running THEN f[k - 1] ELSE TestStep(c, ts, in, g, f[k - 1], k)

LEMMA ExecuteRuns ==
  ASSUME NEW c \in Configurations, NEW v \in Texts, NEW ts \in Int, NEW in \in Pasts(c),
         NEW g \in Int
  PROVE  \E f : ExecuteTrace(f, c, v, ts, in, g) /\ Execute(c, v, ts, in, g) = f[Len(c.steps)]
<1> DEFINE n == Len(c.steps)
           S == Runs(c)
           s0 == Started(c, v)
           Step == [k \in 1 .. n |->
                      [s \in S |-> IF ~s.running THEN s ELSE ExecuteStep(c, ts, in, g, s, k)]]
           Def(f) == f = [k \in 0 .. Len(c.steps) |->
                            IF k = 0 THEN Started(c, v)
                            ELSE IF ~f[k - 1].running THEN f[k - 1]
                            ELSE ExecuteStep(c, ts, in, g, f[k - 1], k)]
           after == CHOOSE f : Def(f)
<1>1. n \in Nat
  BY ConfigurationIs
<1>2. s0 \in S
  BY StartedIs
<1>3. \A k \in 1 .. n : \A s \in S : Step[k][s] \in S
  <2> SUFFICES ASSUME NEW k \in 1 .. n, NEW s \in S, s.running
               PROVE  ExecuteStep(c, ts, in, g, s, k) \in S
    OBVIOUS
  <2> QED BY ExecuteStepIs
<1>4. \E f : Def(f) /\ f \in [0 .. n -> S]
  <2>1. PICK f : Loop(f, n, s0, Step) /\ f \in [0 .. n -> S]
    <3> HIDE DEF Step, S, s0, n
    <3> QED BY <1>1, <1>2, <1>3, LoopExists
  <2>2. \A k \in 0 .. n : k # 0 => /\ k \in 1 .. n /\ f[k - 1] \in S
                                   /\ Step[k][f[k - 1]] = IF ~f[k - 1].running THEN f[k - 1]
                                                          ELSE ExecuteStep(c, ts, in, g, f[k - 1], k)
    <3> SUFFICES ASSUME NEW k \in 0 .. n, k # 0
                 PROVE  /\ k \in 1 .. n /\ f[k - 1] \in S
                        /\ Step[k][f[k - 1]] = IF ~f[k - 1].running THEN f[k - 1]
                                               ELSE ExecuteStep(c, ts, in, g, f[k - 1], k)
      OBVIOUS
    <3>1. k \in 1 .. n /\ k - 1 \in 0 .. n
      BY <1>1
    <3>2. f[k - 1] \in S
      BY <2>1, <3>1
    <3> HIDE DEF S, n
    <3> QED BY <3>1, <3>2
  <2>3. Def(f)
    <3> HIDE DEF Step, S
    <3> QED BY <2>1, <2>2 DEF Loop
  <2> HIDE DEF Def
  <2> QED BY <2>1, <2>3
<1>5. Def(after)
  <2> HIDE DEF Def
  <2> QED BY <1>4
<1>6. Execute(c, v, ts, in, g) = after[n]
  BY DEF Execute
<1> HIDE DEF after
<1>7. /\ after[0] = s0
      /\ \A k \in 1 .. n : after[k] = IF ~after[k - 1].running THEN after[k - 1]
                                      ELSE ExecuteStep(c, ts, in, g, after[k - 1], k)
  <2>1. \A k \in 0 .. n : after[k] = IF k = 0 THEN Started(c, v)
                                     ELSE IF ~after[k - 1].running THEN after[k - 1]
                                     ELSE ExecuteStep(c, ts, in, g, after[k - 1], k)
    BY <1>5
  <2>2. 0 \in 0 .. n /\ \A k \in 1 .. n : k \in 0 .. n /\ k # 0
    BY <1>1
  <2> QED BY <2>1, <2>2
<1>8. \A k \in 0 .. n : after[k] \in S
  <2> DEFINE T == {k \in 0 .. n : after[k] \in S}
  <2>1. 0 \in T
    BY <1>1, <1>2, <1>7
  <2>2. \A k \in 0 .. n - 1 : k \in T => k + 1 \in T
    <3> SUFFICES ASSUME NEW k \in 0 .. n - 1, after[k] \in S PROVE k + 1 \in 0 .. n /\ after[k + 1] \in S
      BY <1>1
    <3>1. k + 1 \in 1 .. n /\ k + 1 \in 0 .. n /\ (k + 1) - 1 = k
      BY <1>1
    <3>2. after[k + 1] = Step[k + 1][after[k]]
      <4>1. after[k + 1] = IF ~after[k].running THEN after[k]
                           ELSE ExecuteStep(c, ts, in, g, after[k], k + 1)
        BY <1>7, <3>1
      <4> HIDE DEF S, n
      <4> QED BY <3>1, <4>1
    <3> HIDE DEF Step, S
    <3> QED BY <1>3, <3>1, <3>2
  <2> HIDE DEF T
  <2>3. \A k \in 0 .. n : k \in T
    BY <1>1, <2>1, <2>2, Upwards
  <2> QED BY <2>3 DEF T
<1>9. after \in [0 .. n -> S]
  <2>1. after = [k \in 0 .. n |-> after[k]]
    BY <1>5
  <2> HIDE DEF S
  <2> QED BY <1>8, <2>1
<1> QED BY <1>6, <1>7, <1>9 DEF ExecuteTrace

LEMMA TestRuns ==
  ASSUME NEW c \in Configurations, NEW v \in Texts, NEW ts \in Int, NEW in \in Pasts(c),
         NEW g \in Int
  PROVE  \E f : TestTrace(f, c, v, ts, in, g) /\ Test(c, v, ts, in, g) = f[Len(c.steps)]
<1> DEFINE n == Len(c.steps)
           S == Runs(c)
           s0 == Started(c, v)
           Step == [k \in 1 .. n |->
                      [s \in S |-> IF ~s.running THEN s ELSE TestStep(c, ts, in, g, s, k)]]
           Def(f) == f = [k \in 0 .. Len(c.steps) |->
                            IF k = 0 THEN Started(c, v)
                            ELSE IF ~f[k - 1].running THEN f[k - 1]
                            ELSE TestStep(c, ts, in, g, f[k - 1], k)]
           after == CHOOSE f : Def(f)
<1>1. n \in Nat
  BY ConfigurationIs
<1>2. s0 \in S
  BY StartedIs
<1>3. \A k \in 1 .. n : \A s \in S : Step[k][s] \in S
  <2> SUFFICES ASSUME NEW k \in 1 .. n, NEW s \in S, s.running
               PROVE  TestStep(c, ts, in, g, s, k) \in S
    OBVIOUS
  <2> QED BY TestStepIs
<1>4. \E f : Def(f) /\ f \in [0 .. n -> S]
  <2>1. PICK f : Loop(f, n, s0, Step) /\ f \in [0 .. n -> S]
    <3> HIDE DEF Step, S, s0, n
    <3> QED BY <1>1, <1>2, <1>3, LoopExists
  <2>2. \A k \in 0 .. n : k # 0 => /\ k \in 1 .. n /\ f[k - 1] \in S
                                   /\ Step[k][f[k - 1]] = IF ~f[k - 1].running THEN f[k - 1]
                                                          ELSE TestStep(c, ts, in, g, f[k - 1], k)
    <3> SUFFICES ASSUME NEW k \in 0 .. n, k # 0
                 PROVE  /\ k \in 1 .. n /\ f[k - 1] \in S
                        /\ Step[k][f[k - 1]] = IF ~f[k - 1].running THEN f[k - 1]
                                               ELSE TestStep(c, ts, in, g, f[k - 1], k)
      OBVIOUS
    <3>1. k \in 1 .. n /\ k - 1 \in 0 .. n
      BY <1>1
    <3>2. f[k - 1] \in S
      BY <2>1, <3>1
    <3> HIDE DEF S, n
    <3> QED BY <3>1, <3>2
  <2>3. Def(f)
    <3> HIDE DEF Step, S
    <3> QED BY <2>1, <2>2 DEF Loop
  <2> HIDE DEF Def
  <2> QED BY <2>1, <2>3
<1>5. Def(after)
  <2> HIDE DEF Def
  <2> QED BY <1>4
<1>6. Test(c, v, ts, in, g) = after[n]
  BY DEF Test
<1> HIDE DEF after
<1>7. /\ after[0] = s0
      /\ \A k \in 1 .. n : after[k] = IF ~after[k - 1].running THEN after[k - 1]
                                      ELSE TestStep(c, ts, in, g, after[k - 1], k)
  <2>1. \A k \in 0 .. n : after[k] = IF k = 0 THEN Started(c, v)
                                     ELSE IF ~after[k - 1].running THEN after[k - 1]
                                     ELSE TestStep(c, ts, in, g, after[k - 1], k)
    BY <1>5
  <2>2. 0 \in 0 .. n /\ \A k \in 1 .. n : k \in 0 .. n /\ k # 0
    BY <1>1
  <2> QED BY <2>1, <2>2
<1>8. \A k \in 0 .. n : after[k] \in S
  <2> DEFINE T == {k \in 0 .. n : after[k] \in S}
  <2>1. 0 \in T
    BY <1>1, <1>2, <1>7
  <2>2. \A k \in 0 .. n - 1 : k \in T => k + 1 \in T
    <3> SUFFICES ASSUME NEW k \in 0 .. n - 1, after[k] \in S PROVE k + 1 \in 0 .. n /\ after[k + 1] \in S
      BY <1>1
    <3>1. k + 1 \in 1 .. n /\ k + 1 \in 0 .. n /\ (k + 1) - 1 = k
      BY <1>1
    <3>2. after[k + 1] = Step[k + 1][after[k]]
      <4>1. after[k + 1] = IF ~after[k].running THEN after[k]
                           ELSE TestStep(c, ts, in, g, after[k], k + 1)
        BY <1>7, <3>1
      <4> HIDE DEF S, n
      <4> QED BY <3>1, <4>1
    <3> HIDE DEF Step, S
    <3> QED BY <1>3, <3>1, <3>2
  <2> HIDE DEF T
  <2>3. \A k \in 0 .. n : k \in T
    BY <1>1, <2>1, <2>2, Upwards
  <2> QED BY <2>3 DEF T
<1>9. after \in [0 .. n -> S]
  <2>1. after = [k \in 0 .. n |-> after[k]]
    BY <1>5
  <2> HIDE DEF S
  <2> QED BY <1>8, <2>1
<1> QED BY <1>6, <1>7, <1>9 DEF TestTrace

\* What becomes of a value, from the run of the worker to the item.
WorkerOutcome(c, s) == SetVariantResult(c, Answer(s))

\* zbx_item_preproc_test on the history of worker_item_preproc_execute: every step finds the
\* same value.
LEMMA TestIsExecute ==
  ASSUME NEW c \in Configurations, NEW v \in Texts, NEW ts \in Int, NEW in \in Pasts(c),
         NEW g \in Int
  PROVE  Answer(Test(c, v, ts, in, g)) = Answer(Execute(c, v, ts, in, g))
<1> DEFINE n == Len(c.steps)
<1>1. n \in Nat
  BY ConfigurationIs
<1>2. PICK f : ExecuteTrace(f, c, v, ts, in, g) /\ Execute(c, v, ts, in, g) = f[n]
  BY ExecuteRuns
<1>3. PICK t : TestTrace(t, c, v, ts, in, g) /\ Test(c, v, ts, in, g) = t[n]
  BY TestRuns
<1> DEFINE T == {k \in 0 .. n : /\ t[k].value = f[k].value /\ t[k].error = f[k].error
                                /\ t[k].running = f[k].running}
<1>4. 0 \in T
  BY <1>1, <1>2, <1>3 DEF ExecuteTrace, TestTrace
<1>5. \A k \in 0 .. n - 1 : k \in T => k + 1 \in T
  <2> SUFFICES ASSUME NEW k \in 0 .. n - 1, k \in T PROVE k + 1 \in T
    OBVIOUS
  <2>1. k + 1 \in 1 .. n /\ k + 1 \in 0 .. n /\ (k + 1) - 1 = k /\ k \in 0 .. n
    BY <1>1
  <2>2. f[k] \in Runs(c) /\ f[k + 1] = IF ~f[k].running THEN f[k] ELSE ExecuteStep(c, ts, in, g, f[k], k + 1)
    BY <1>2, <2>1 DEF ExecuteTrace
  <2>3. t[k] \in Runs(c) /\ t[k + 1] = IF ~t[k].running THEN t[k] ELSE TestStep(c, ts, in, g, t[k], k + 1)
    BY <1>3, <2>1 DEF TestTrace
  <2>4. CASE f[k].running
    <3> DEFINE h == HandledStep(c, f[k].value, ts, in, g, k + 1)
               w == ExecuteStep(c, ts, in, g, f[k], k + 1)
               u == TestStep(c, ts, in, g, t[k], k + 1)
    <3>1. w \in Runs(c) /\ w.value = h.value /\ w.error = h.error
      BY <2>1, <2>2, <2>4, ExecuteStepIs
    <3>2. u \in Runs(c) /\ u.value = h.value /\ u.error = h.error
      <4>1. t[k].value = f[k].value /\ t[k].running
        BY <2>4
      <4>2. LET hh == HandledStep(c, t[k].value, ts, in, g, k + 1)
            IN  u \in Runs(c) /\ u.value = hh.value /\ u.error = hh.error
        BY <2>1, <2>3, <4>1, TestStepIs
      <4> QED BY <4>1, <4>2
    <3>3. f[k + 1] = w /\ t[k + 1] = u
      BY <2>2, <2>3, <2>4
    <3> HIDE DEF h, w, u
    <3>4. w.running = u.running
      BY <3>1, <3>2 DEF Runs
    <3>5. /\ t[k + 1].value = f[k + 1].value /\ t[k + 1].error = f[k + 1].error
          /\ t[k + 1].running = f[k + 1].running
      BY <3>1, <3>2, <3>3, <3>4
    <3> QED BY <2>1, <3>5
  <2>5. CASE ~f[k].running
    BY <2>1, <2>2, <2>3, <2>5
  <2> QED BY <2>4, <2>5
<1> HIDE DEF T
<1>6. \A k \in 0 .. n : k \in T
  BY <1>1, <1>4, <1>5, Upwards
<1>7. n \in T
  BY <1>1, <1>6
<1>8. t[n].value = f[n].value /\ t[n].error = f[n].error
  BY <1>7 DEF T
<1> HIDE DEF n
<1> QED BY <1>2, <1>3, <1>8 DEF Answer

-----------------------------------------------------------------------------
(* Runs of the program                                                     *)

\* What the program keeps of a step: a text, or nothing.
Kept == [value : Texts \cup {NoValue}, ts : Int]

Histories(c) == [DOMAIN c.steps -> Kept]

Reduces(c) ==
  {s \in [kind : {"value", "thrown"}, value : Texts \cup {NoValue}, history : Histories(c)] :
     s.kind = "value" => s.value \in Texts}

Begun(c, v, old) == [kind |-> "value", value |-> v, history |-> KeptHistory(c, old)]

LEMMA BegunIs ==
  ASSUME NEW c \in Configurations, NEW v \in Texts, NEW old \in Seq(Kept)
  PROVE  KeptHistory(c, old) \in Histories(c) /\ Begun(c, v, old) \in Reduces(c)
<1>1. NoPast \in Kept
  BY DEF NoPast, Kept
<1>2. KeptHistory(c, old) \in Histories(c)
  <2>1. NoPasts(c) \in Histories(c)
    BY <1>1 DEF NoPasts, Histories
  <2>2. Len(old) = Len(c.steps) => old \in Histories(c)
    <3>1. DOMAIN c.steps = 1 .. Len(c.steps)
      BY ConfigurationIs
    <3>2. old \in [1 .. Len(old) -> Kept]
      OBVIOUS
    <3> QED BY <3>1, <3>2 DEF Histories
  <2> QED BY <2>1, <2>2 DEF KeptHistory
<1> QED BY <1>2 DEF Begun, Reduces

\* A step throws for want of history, or makes a text.
LEMMA BindingIs ==
  ASSUME NEW c \in Configurations, NEW v \in Texts, NEW ts \in Int, NEW k \in 1 .. Len(c.steps),
         NEW h \in Kept, NEW g \in Int,
         NEW r, r = Binding(c, v, ts, c.steps[k], h, g)
  PROVE  /\ r.kind \in {"value", "thrown"} /\ r.value \in Texts \cup {NoValue}
         /\ r.kind = "value" => r.value \in Texts
<1> DEFINE op == c.steps[k]
           r0 == StepResult(c.valueType, v, ts, op, h, g)
           r1 == Handled(op, r0)
<1>1. /\ op \in Operations /\ (op.handler \in {"set_value", "set_error"} => op.alt \in Texts)
      /\ (op.handler = "set_error" => op.alt.word # NoWord) /\ c.valueType \in ValueTypes
  BY ConfigurationIs
<1> HIDE DEF op
<1>2. v \in Values /\ v.type # "none"
  BY SomeValues DEF Texts
<1>3. h \in Memories
  BY SomeValues DEF Kept, Memories
<1>4. Sound(op, h, r0)
  BY <1>1, <1>2, <1>3, StepIs
<1> HIDE DEF r0
<1>5. Sound(op, h, r1)
  BY <1>1, <1>4, HandledIs
<1>6. r1.value \in Variant
  BY <1>5 DEF Sound, Results
<1>7. r = IF NeedsHistory(op) /\ (h.value \in {NoValue, Blank} \/ (op.type # "script" /\ h.ts <= 0))
          THEN Outcome("thrown", NoValue)
          ELSE Outcome("value", IF r1.value.type = "none" THEN Placeholder
                                ELSE Convert(r1.value, "str"))
  BY DEF Binding, Handled, op, r0
<1> HIDE DEF r1
<1>8. Placeholder \in Texts
  <2>1. "Shit happens!" \in Words
    BY PreprocessingAssumption
  <2> QED BY <2>1, SomeValues DEF Placeholder
<1>9. r1.value.type # "none" => Convert(r1.value, "str") \in Texts
  <2>1. r1.value.num \in Int
    BY <1>6 DEF Variant
  <2>2. Text(Printed(r1.value.num)) \in Texts
    BY <2>1, PrintedIs, SomeValues
  <2> QED BY <1>6, <2>2 DEF Convert, Convertible, Variant, Texts
<1>10. r = Outcome("thrown", NoValue) \/ \E u \in Texts : r = Outcome("value", u)
  BY <1>7, <1>8, <1>9
<1>11. CASE r = Outcome("thrown", NoValue)
  BY <1>11 DEF Outcome
<1>12. ASSUME NEW u \in Texts, r = Outcome("value", u) PROVE r.kind = "value" /\ r.value = u
  BY <1>12 DEF Outcome
<1> QED BY <1>10, <1>11, <1>12

LEMMA ReduceStepIs ==
  ASSUME NEW c \in Configurations, NEW ts \in Int, NEW g \in Int,
         NEW s \in Reduces(c), s.kind # "thrown", NEW k \in 1 .. Len(c.steps)
  PROVE  LET r == Binding(c, s.value, ts, c.steps[k], s.history[k], g)
             t == ReduceStep(c, ts, g, s, k)
         IN  /\ t \in Reduces(c) /\ t.kind = r.kind /\ t.value = r.value
             /\ t.history = [s.history EXCEPT ![k] = [value |-> s.value, ts |-> ts]]
             /\ s.value \in Texts /\ s.history[k] \in Kept
<1> DEFINE r == Binding(c, s.value, ts, c.steps[k], s.history[k], g)
           t == ReduceStep(c, ts, g, s, k)
           new == [s.history EXCEPT ![k] = [value |-> s.value, ts |-> ts]]
<1>1. DOMAIN c.steps = 1 .. Len(c.steps)
  BY ConfigurationIs
<1>2. s.value \in Texts /\ s.history \in Histories(c) /\ s.history[k] \in Kept
  BY <1>1 DEF Reduces, Histories
<1>3. /\ r.kind \in {"value", "thrown"} /\ r.value \in Texts \cup {NoValue}
      /\ r.kind = "value" => r.value \in Texts
  BY <1>2, BindingIs
<1>4. [value |-> s.value, ts |-> ts] \in Kept
  BY <1>2 DEF Kept
<1>5. new \in Histories(c)
  BY <1>1, <1>2, <1>4 DEF Histories
<1>6. t = [kind |-> r.kind, value |-> r.value, history |-> new]
  BY DEF ReduceStep
<1> HIDE DEF r, new
<1>7. t.kind = r.kind /\ t.value = r.value /\ t.history = new
  BY <1>6
<1>8. t \in Reduces(c)
  BY <1>3, <1>5, <1>6 DEF Reduces
<1> QED BY <1>2, <1>7, <1>8 DEF r, new

ReduceTrace(f, c, v, ts, old, g) ==
  /\ f \in [0 .. Len(c.steps) -> Reduces(c)] /\ f[0] = Begun(c, v, old)
  /\ \A k \in 1 .. Len(c.steps) :
       f[k] = IF f[k - 1].kind = "thrown" THEN f[k - 1] ELSE ReduceStep(c, ts, g, f[k - 1], k)

LEMMA ReduceRuns ==
  ASSUME NEW c \in Configurations, NEW v \in Texts, NEW ts \in Int, NEW old \in Seq(Kept),
         NEW g \in Int
  PROVE  \E f : ReduceTrace(f, c, v, ts, old, g) /\ GetPreprocessedItem(c, v, ts, old, g) = f[Len(c.steps)]
<1> DEFINE n == Len(c.steps)
           S == Reduces(c)
           s0 == Begun(c, v, old)
           Step == [k \in 1 .. n |->
                      [s \in S |-> IF s.kind = "thrown" THEN s ELSE ReduceStep(c, ts, g, s, k)]]
           Def(f) == f = [k \in 0 .. Len(c.steps) |->
                            IF k = 0 THEN Begun(c, v, old)
                            ELSE IF f[k - 1].kind = "thrown" THEN f[k - 1]
                            ELSE ReduceStep(c, ts, g, f[k - 1], k)]
           after == CHOOSE f : Def(f)
<1>1. n \in Nat
  BY ConfigurationIs
<1>2. s0 \in S
  BY BegunIs
<1>3. \A k \in 1 .. n : \A s \in S : Step[k][s] \in S
  <2> SUFFICES ASSUME NEW k \in 1 .. n, NEW s \in S, s.kind # "thrown"
               PROVE  ReduceStep(c, ts, g, s, k) \in S
    OBVIOUS
  <2> QED BY ReduceStepIs
<1>4. \E f : Def(f) /\ f \in [0 .. n -> S]
  <2>1. PICK f : Loop(f, n, s0, Step) /\ f \in [0 .. n -> S]
    <3> HIDE DEF Step, S, s0, n
    <3> QED BY <1>1, <1>2, <1>3, LoopExists
  <2>2. \A k \in 0 .. n : k # 0 => /\ k \in 1 .. n /\ f[k - 1] \in S
                                   /\ Step[k][f[k - 1]] = IF f[k - 1].kind = "thrown" THEN f[k - 1]
                                                          ELSE ReduceStep(c, ts, g, f[k - 1], k)
    <3> SUFFICES ASSUME NEW k \in 0 .. n, k # 0
                 PROVE  /\ k \in 1 .. n /\ f[k - 1] \in S
                        /\ Step[k][f[k - 1]] = IF f[k - 1].kind = "thrown" THEN f[k - 1]
                                               ELSE ReduceStep(c, ts, g, f[k - 1], k)
      OBVIOUS
    <3>1. k \in 1 .. n /\ k - 1 \in 0 .. n
      BY <1>1
    <3>2. f[k - 1] \in S
      BY <2>1, <3>1
    <3> HIDE DEF S, n
    <3> QED BY <3>1, <3>2
  <2>3. Def(f)
    <3> HIDE DEF Step, S
    <3> QED BY <2>1, <2>2 DEF Loop
  <2> HIDE DEF Def
  <2> QED BY <2>1, <2>3
<1>5. Def(after)
  <2> HIDE DEF Def
  <2> QED BY <1>4
<1>6. GetPreprocessedItem(c, v, ts, old, g) = after[n]
  BY DEF GetPreprocessedItem, Begun
<1> HIDE DEF after
<1>7. /\ after[0] = s0
      /\ \A k \in 1 .. n : after[k] = IF after[k - 1].kind = "thrown" THEN after[k - 1]
                                      ELSE ReduceStep(c, ts, g, after[k - 1], k)
  <2>1. \A k \in 0 .. n : after[k] = IF k = 0 THEN Begun(c, v, old)
                                     ELSE IF after[k - 1].kind = "thrown" THEN after[k - 1]
                                     ELSE ReduceStep(c, ts, g, after[k - 1], k)
    BY <1>5
  <2>2. 0 \in 0 .. n /\ \A k \in 1 .. n : k \in 0 .. n /\ k # 0
    BY <1>1
  <2> QED BY <2>1, <2>2
<1>8. \A k \in 0 .. n : after[k] \in S
  <2> DEFINE T == {k \in 0 .. n : after[k] \in S}
  <2>1. 0 \in T
    BY <1>1, <1>2, <1>7
  <2>2. \A k \in 0 .. n - 1 : k \in T => k + 1 \in T
    <3> SUFFICES ASSUME NEW k \in 0 .. n - 1, after[k] \in S PROVE k + 1 \in 0 .. n /\ after[k + 1] \in S
      BY <1>1
    <3>1. k + 1 \in 1 .. n /\ k + 1 \in 0 .. n /\ (k + 1) - 1 = k
      BY <1>1
    <3>2. after[k + 1] = Step[k + 1][after[k]]
      <4>1. after[k + 1] = IF after[k].kind = "thrown" THEN after[k]
                           ELSE ReduceStep(c, ts, g, after[k], k + 1)
        BY <1>7, <3>1
      <4> HIDE DEF S, n
      <4> QED BY <3>1, <4>1
    <3> HIDE DEF Step, S
    <3> QED BY <1>3, <3>1, <3>2
  <2> HIDE DEF T
  <2>3. \A k \in 0 .. n : k \in T
    BY <1>1, <2>1, <2>2, Upwards
  <2> QED BY <2>3 DEF T
<1>9. after \in [0 .. n -> S]
  <2>1. after = [k \in 0 .. n |-> after[k]]
    BY <1>5
  <2> HIDE DEF S
  <2> QED BY <1>8, <2>1
<1> QED BY <1>6, <1>7, <1>9 DEF ReduceTrace

-----------------------------------------------------------------------------
(* Types                                                                   *)

Outcomes(c) ==
  {o \in [kind : {"value", "error", "discarded"}, value : Values] :
     o.kind = "value" => o.value.type = VariantOf(c.valueType)}

Answers == [kind : {"value", "error", "discarded"}, value : Values]

Entries(c) ==
  [in : Texts, ts : Nat \ {0}, at : Nat, worker : Outcomes(c), test : Answers,
   sent : [kind : {"value", "thrown"}, value : Texts \cup {NoValue}]]

TypeInv ==
  /\ conf \in Configurations /\ changes \in Nat /\ now \in Nat \ {0}
  /\ past \in Pasts(conf) /\ history \in Seq(Kept) /\ log \in Seq(Entries(conf))

LEMMA AnswerIs ==
  ASSUME NEW c \in Configurations, NEW s \in Runs(c)
  PROVE  Answer(s) \in Answers
<1>1. s.value \in Values /\ s.error \in Words
  BY DEF Runs
<1>2. NoValue \in Values /\ Word(s.error) \in Values
  BY <1>1, SomeValues
<1> QED BY <1>1, <1>2 DEF Answer, Answers, Outcome

LEMMA OutcomeIs ==
  ASSUME NEW c \in Configurations, NEW s \in Runs(c)
  PROVE  WorkerOutcome(c, s) \in Outcomes(c)
<1> DEFINE type == VariantOf(c.valueType)
           o == WorkerOutcome(c, s)
<1>1. s.value \in Values /\ s.error \in Words /\ type \in {"ui64", "dbl", "str"}
  BY ConfigurationIs DEF Runs
<1>2. o = IF s.error # NoError THEN Outcome("error", Word(s.error))
          ELSE IF s.value.type = "none" THEN Outcome("discarded", NoValue)
          ELSE IF ~Convertible(s.value, type) THEN Outcome("error", Word("not suitable"))
          ELSE Outcome("value", Convert(s.value, type))
  BY DEF WorkerOutcome, SetVariantResult, Answer, Outcome
<1> HIDE DEF type, o
<1>3. "not suitable" \in Words
  BY PreprocessingAssumption DEF Errors
<1>4. NoValue \in Values /\ \A w \in Words : Word(w) \in Values
  BY SomeValues
<1>5. Convertible(s.value, type) => Convert(s.value, type) \in Values /\ Convert(s.value, type).type = type
  BY <1>1, ConvertIs
<1>6. \A u \in Values : Outcome("error", u) \in Outcomes(c) /\ Outcome("discarded", u) \in Outcomes(c)
  BY DEF Outcome, Outcomes
<1>7. \A u \in Values : u.type = type => Outcome("value", u) \in Outcomes(c)
  BY DEF Outcome, Outcomes, type
<1>8. o \in Outcomes(c)
  BY <1>1, <1>2, <1>3, <1>4, <1>5, <1>6, <1>7
<1> QED BY <1>8 DEF o

LEMMA OutcomeOfRun ==
  ASSUME NEW c \in Configurations, NEW s \in Runs(c), s.error = NoError,
         NEW o, o = WorkerOutcome(c, s)
  PROVE  LET type == VariantOf(c.valueType)
         IN  \/ s.value.type = "none" /\ o.kind = "discarded" /\ o.value = NoValue
             \/ /\ s.value.type # "none" /\ ~Convertible(s.value, type)
                /\ o.kind = "error" /\ o.value = Word("not suitable")
             \/ /\ s.value.type # "none" /\ Convertible(s.value, type)
                /\ o.kind = "value" /\ o.value = Convert(s.value, type)
<1> DEFINE type == VariantOf(c.valueType)
<1>1. o = IF s.value.type = "none" THEN Outcome("discarded", NoValue)
          ELSE IF ~Convertible(s.value, type) THEN Outcome("error", Word("not suitable"))
          ELSE Outcome("value", Convert(s.value, type))
  BY DEF WorkerOutcome, SetVariantResult, Answer, Outcome
<1> HIDE DEF type
<1>2. \A kind, u : Outcome(kind, u).kind = kind /\ Outcome(kind, u).value = u
  BY DEF Outcome
<1>3. CASE s.value.type = "none"
  BY <1>1, <1>2, <1>3
<1>4. CASE s.value.type # "none" /\ ~Convertible(s.value, type)
  <2>1. o = Outcome("error", Word("not suitable"))
    BY <1>1, <1>4
  <2>2. o.kind = "error" /\ o.value = Word("not suitable")
    BY <2>1, <1>2
  <2> QED BY <1>4, <2>2 DEF type
<1>5. CASE s.value.type # "none" /\ Convertible(s.value, type)
  BY <1>1, <1>2, <1>5 DEF type
<1> QED BY <1>3, <1>4, <1>5 DEF type

\* A value that is preprocessed, with the states the worker and the program go through and
\* what is noted of it.
Noted(v, g, f, p, e) ==
  LET n == Len(conf.steps)
  IN  /\ ExecuteTrace(f, conf, v, now', past, g) /\ f[n] \in Runs(conf) /\ past' = f[n].past
      /\ ReduceTrace(p, conf, v, now', history, g) /\ p[n] \in Reduces(conf)
      /\ history' = p[n].history
      /\ e \in Entries(conf) /\ e.in = v /\ e.ts = now' /\ e.at = f[n].num
      /\ e.worker = WorkerOutcome(conf, f[n]) /\ e.worker = SetVariantResult(conf, e.test)
      /\ e.sent = Outcome(p[n].kind, p[n].value)
      /\ log' = Append(log, e)

\* The log with a new entry.
Grown(e) ==
  /\ Len(log) \in Nat /\ DOMAIN log = 1 .. Len(log) /\ DOMAIN log' = 1 .. Len(log) + 1
  /\ Len(log') = Len(log) + 1
  /\ log'[Len(log) + 1] = e /\ \A k \in 1 .. Len(log) : log'[k] = log[k]
  /\ \A k \in 1 .. Len(log) : log[k] \in Entries(conf)

LEMMA ValueTypes1 ==
  ASSUME TypeInv, NEW v \in Inputs, NEW gap \in Gaps, NEW g \in Garbage, Value(v, gap, g)
  PROVE  /\ v \in Texts /\ g \in Int /\ now' \in Nat \ {0} /\ now' \in Int /\ now' = now + gap
         /\ gap \in Nat
         /\ conf \in Configurations /\ past \in Pasts(conf) /\ history \in Seq(Kept)
         /\ conf' = conf /\ changes' = changes /\ Len(conf.steps) \in Nat
<1>1. v \in Texts /\ g \in Int /\ gap \in Nat
  BY PreprocessingAssumption
<1>2. now' = now + gap /\ now' \in Nat \ {0} /\ now' \in Int
  BY <1>1 DEF Value, TypeInv
<1>3. conf \in Configurations /\ past \in Pasts(conf) /\ history \in Seq(Kept)
  BY DEF TypeInv
<1>4. Len(conf.steps) \in Nat
  BY <1>3, ConfigurationIs
<1>5. conf' = conf /\ changes' = changes
  BY DEF Value
<1> QED BY <1>1, <1>2, <1>3, <1>4, <1>5

LEMMA ValueIsNoted ==
  ASSUME TypeInv, NEW v \in Inputs, NEW gap \in Gaps, NEW g \in Garbage, Value(v, gap, g)
  PROVE  \E f, p, e : Noted(v, g, f, p, e) /\ Grown(e)
<1>1. /\ v \in Texts /\ g \in Int /\ now' \in Nat \ {0} /\ now' \in Int
      /\ conf \in Configurations /\ past \in Pasts(conf) /\ history \in Seq(Kept)
      /\ Len(conf.steps) \in Nat
  BY ValueTypes1
<1> DEFINE worker == Execute(conf, v, now', past, g)
           program == GetPreprocessedItem(conf, v, now', history, g)
           test == Test(conf, v, now', past, g)
           n == Len(conf.steps)
           e == [in |-> v, ts |-> now', at |-> worker.num,
                 worker |-> SetVariantResult(conf, Answer(worker)),
                 test |-> Answer(test),
                 sent |-> Outcome(program.kind, program.value)]
<1>2. past' = worker.past /\ history' = program.history /\ log' = Append(log, e)
  BY DEF Value
<1>3. Answer(test) = Answer(worker)
  BY <1>1, TestIsExecute
<1>4. PICK f : ExecuteTrace(f, conf, v, now', past, g) /\ worker = f[n]
  BY <1>1, ExecuteRuns
<1>5. PICK p : ReduceTrace(p, conf, v, now', history, g) /\ program = p[n]
  BY <1>1, ReduceRuns
<1>6. /\ e.in = v /\ e.ts = now' /\ e.at = worker.num
      /\ e.worker = WorkerOutcome(conf, worker) /\ e.test = Answer(worker)
      /\ e.worker = SetVariantResult(conf, e.test)
      /\ e.sent = Outcome(program.kind, program.value)
  BY <1>3 DEF WorkerOutcome
<1>7. e = [in |-> e.in, ts |-> e.ts, at |-> e.at, worker |-> e.worker, test |-> e.test,
           sent |-> e.sent]
  OBVIOUS
<1> HIDE DEF worker, program, test, e
<1>8. worker \in Runs(conf) /\ program \in Reduces(conf)
  <2>1. f \in [0 .. n -> Runs(conf)]
    BY <1>4 DEF ExecuteTrace
  <2>2. p \in [0 .. n -> Reduces(conf)]
    BY <1>5 DEF ReduceTrace
  <2>3. n \in 0 .. n
    BY <1>1
  <2> HIDE DEF n
  <2> QED BY <1>4, <1>5, <2>1, <2>2, <2>3
<1>9. e \in Entries(conf)
  <2>1. WorkerOutcome(conf, worker) \in Outcomes(conf) /\ Answer(worker) \in Answers
    BY <1>1, <1>8, OutcomeIs, AnswerIs
  <2>2. Outcome(program.kind, program.value) \in [kind : {"value", "thrown"}, value : Texts \cup {NoValue}]
    BY <1>8 DEF Reduces, Outcome
  <2>3. worker.num \in Nat
    BY <1>1, <1>8 DEF Runs
  <2> QED BY <1>1, <1>6, <1>7, <2>1, <2>2, <2>3 DEF Entries
<1>10. Noted(v, g, f, p, e)
  BY <1>2, <1>4, <1>5, <1>6, <1>8, <1>9 DEF Noted
<1>11. Grown(e)
  <2>1. log \in Seq(Entries(conf))
    BY DEF TypeInv
  <2> QED BY <1>2, <2>1 DEF Grown
<1> QED BY <1>10, <1>11

LEMMA TypeInit == Init => TypeInv
<1> SUFFICES ASSUME Init PROVE TypeInv
  OBVIOUS
<1>1. conf \in Configurations /\ changes = 0 /\ now = 1 /\ past = NoPasts(conf)
      /\ history = <<>> /\ log = <<>>
  BY DEF Init
<1>2. past \in Pasts(conf)
  BY <1>1, NoPastsFit
<1>3. history \in Seq(Kept) /\ log \in Seq(Entries(conf))
  BY <1>1
<1> QED BY <1>1, <1>2, <1>3 DEF TypeInv

LEMMA TypeStep == TypeInv /\ [Next]_vars => TypeInv'
<1> SUFFICES ASSUME TypeInv, [Next]_vars PROVE TypeInv'
  OBVIOUS
<1>1. ASSUME NEW v \in Inputs, NEW gap \in Gaps, NEW g \in Garbage, Value(v, gap, g)
      PROVE  TypeInv'
  <2> DEFINE n == Len(conf.steps)
  <2>1. PICK f, p, e : Noted(v, g, f, p, e) /\ Grown(e)
    BY <1>1, ValueIsNoted
  <2>2. /\ now' \in Nat \ {0} /\ conf' = conf /\ changes' = changes /\ n \in Nat
        /\ conf \in Configurations
    BY <1>1, ValueTypes1
  <2>3. changes \in Nat /\ log \in Seq(Entries(conf))
    BY DEF TypeInv
  <2>4. past' \in Pasts(conf)
    BY <2>1 DEF Noted, Runs
  <2>5. history' \in Seq(Kept)
    <3>1. history' \in [1 .. n -> Kept]
      BY <2>1, <2>2, ConfigurationIs DEF Noted, Reduces, Histories
    <3> HIDE DEF n
    <3> QED BY <2>2, <3>1
  <2>6. log' \in Seq(Entries(conf))
    BY <2>1, <2>3 DEF Noted
  <2> QED BY <2>2, <2>3, <2>4, <2>5, <2>6 DEF TypeInv
<1>2. ASSUME NEW c \in Configurations, ChangeSteps(c)
      PROVE  TypeInv'
  <2>1. conf' = c /\ changes' = changes + 1 /\ past' = NoPasts(c) /\ log' = <<>> /\ now' = now
        /\ history' = history
    BY <1>2 DEF ChangeSteps
  <2>2. past' \in Pasts(c)
    BY <2>1, NoPastsFit
  <2> QED BY <2>1, <2>2 DEF TypeInv
<1>3. CASE UNCHANGED vars
  <2>1. conf' = conf /\ changes' = changes /\ past' = past /\ log' = log /\ now' = now
        /\ history' = history
    BY <1>3 DEF vars
  <2> QED BY <2>1 DEF TypeInv
<1> QED BY <1>1, <1>2, <1>3 DEF Next
\* Every number that comes out is one its type can hold.
LEMMA TypesHold == TypeInv => TypeOK
<1> SUFFICES ASSUME TypeInv PROVE TypeOK
  OBVIOUS
<1>1. DOMAIN past = DOMAIN conf.steps
  BY DEF TypeInv, Pasts
<1>2. ASSUME NEW k \in DOMAIN log
      PROVE  LET v == log[k].worker.value
             IN  /\ v \in Variant
                 /\ v.type = "ui64" => IsUint64(v.num)
                 /\ log[k].worker.kind = "value" => v.type = VariantOf(conf.valueType)
  <2>1. log[k] \in Entries(conf)
    BY DEF TypeInv
  <2>2. log[k].worker \in Outcomes(conf)
    BY <2>1 DEF Entries
  <2>3. /\ log[k].worker.value \in Values
        /\ log[k].worker.kind = "value" => log[k].worker.value.type = VariantOf(conf.valueType)
    BY <2>2 DEF Outcomes
  <2> QED BY <2>3 DEF Values
<1> QED BY <1>1, <1>2 DEF TypeOK

\* A test of the steps with the history at hand shows what the worker would make of the value.
LEMMA TestStays == TypeInv /\ TestAgreesWithWorker /\ [Next]_vars => TestAgreesWithWorker'
<1> SUFFICES ASSUME TypeInv, TestAgreesWithWorker, [Next]_vars PROVE TestAgreesWithWorker'
  OBVIOUS
<1>1. ASSUME NEW v \in Inputs, NEW gap \in Gaps, NEW g \in Garbage, Value(v, gap, g)
      PROVE  TestAgreesWithWorker'
  <2>1. PICK f, p, e : Noted(v, g, f, p, e) /\ Grown(e)
    BY <1>1, ValueIsNoted
  <2>2. /\ e.worker = SetVariantResult(conf, e.test) /\ log'[Len(log) + 1] = e
        /\ DOMAIN log = 1 .. Len(log) /\ DOMAIN log' = 1 .. Len(log) + 1 /\ Len(log) \in Nat
        /\ \A k \in 1 .. Len(log) : log'[k] = log[k]
    BY <2>1 DEF Noted, Grown
  <2>3. ASSUME NEW k \in DOMAIN log' PROVE log'[k].worker = SetVariantResult(conf, log'[k].test)
    <3>1. k \in 1 .. Len(log) \/ k = Len(log) + 1
      BY <2>2
    <3>2. \A j \in 1 .. Len(log) : log[j].worker = SetVariantResult(conf, log[j].test)
      BY <2>2 DEF TestAgreesWithWorker
    <3> QED BY <2>2, <3>1, <3>2
  <2>4. conf' = conf
    BY <1>1, ValueTypes1
  <2>5. \A k \in DOMAIN log' : log'[k].worker = SetVariantResult(conf', log'[k].test)
    BY <2>3, <2>4
  <2> QED BY <2>5 DEF TestAgreesWithWorker
<1>2. ASSUME NEW c \in Configurations, ChangeSteps(c)
      PROVE  TestAgreesWithWorker'
  BY <1>2 DEF ChangeSteps, TestAgreesWithWorker
<1>3. CASE UNCHANGED vars
  BY <1>3 DEF vars, TestAgreesWithWorker
<1> QED BY <1>1, <1>2, <1>3 DEF Next

\* A run over steps that all handle their errors has none.
LEMMA HandledRun ==
  ASSUME NEW c \in Configurations, NEW v \in Texts, NEW ts \in Int, NEW in \in Pasts(c),
         NEW g \in Int, NEW f, ExecuteTrace(f, c, v, ts, in, g),
         \A k \in DOMAIN c.steps : c.steps[k].handler \in {"discard", "set_value"}
  PROVE  f[Len(c.steps)].error = NoError
<1> DEFINE n == Len(c.steps)
           T == {k \in 0 .. n : f[k].error = NoError}
<1>1. n \in Nat /\ DOMAIN c.steps = 1 .. n
  BY ConfigurationIs
<1>2. 0 \in T
  BY <1>1 DEF ExecuteTrace, Started
<1>3. \A k \in 0 .. n - 1 : k \in T => k + 1 \in T
  <2> SUFFICES ASSUME NEW k \in 0 .. n - 1, k \in T PROVE k + 1 \in T
    OBVIOUS
  <2>1. k + 1 \in 1 .. n /\ k + 1 \in 0 .. n /\ (k + 1) - 1 = k /\ k \in 0 .. n
    BY <1>1
  <2>2. f[k] \in Runs(c) /\ f[k + 1] = IF ~f[k].running THEN f[k] ELSE ExecuteStep(c, ts, in, g, f[k], k + 1)
    BY <2>1 DEF ExecuteTrace
  <2>3. CASE f[k].running
    <3> DEFINE h == HandledStep(c, f[k].value, ts, in, g, k + 1)
               w == ExecuteStep(c, ts, in, g, f[k], k + 1)
    <3>a. Round(c, ts, in, g, f[k], k + 1)
      BY <2>1, <2>2, <2>3, RoundIs
    <3>1. w.error = h.error
      BY <3>a DEF Round
    <3>2. f[k].value \in Values /\ f[k].value.type # "none"
      BY <2>2, <2>3 DEF Runs
    <3>3. c.steps[k + 1].handler \in {"discard", "set_value"}
      BY <1>1, <2>1
    <3>4. Sound(c.steps[k + 1], in[k + 1], h) /\ h.ok
      BY <2>1, <3>2, <3>3, HandledStepFits, HandledStepGoesOn
    <3>5. h.error = NoError
      BY <3>4 DEF Sound
    <3> HIDE DEF h, w
    <3> QED BY <2>1, <2>2, <2>3, <3>1, <3>5 DEF w
  <2>4. CASE ~f[k].running
    BY <2>1, <2>2, <2>4
  <2> QED BY <2>3, <2>4
<1> HIDE DEF T
<1>4. \A k \in 0 .. n : k \in T
  BY <1>1, <1>2, <1>3, Upwards
<1> QED BY <1>1, <1>4 DEF T

\* An item whose steps all handle their errors gets no error of a step.
LEMMA HandledStays == TypeInv /\ HandledNeverFails /\ [Next]_vars => HandledNeverFails'
<1> SUFFICES ASSUME TypeInv, HandledNeverFails, [Next]_vars PROVE HandledNeverFails'
  OBVIOUS
<1>1. ASSUME NEW v \in Inputs, NEW gap \in Gaps, NEW g \in Garbage, Value(v, gap, g)
      PROVE  HandledNeverFails'
  <2> SUFFICES ASSUME \A k \in DOMAIN conf'.steps : conf'.steps[k].handler \in {"discard", "set_value"},
                      NEW k \in DOMAIN log', log'[k].worker.kind = "error"
               PROVE  log'[k].worker.value = Word("not suitable")
    BY DEF HandledNeverFails, Steps
  <2> DEFINE n == Len(conf.steps)
  <2>1. PICK f, p, e : Noted(v, g, f, p, e) /\ Grown(e)
    BY <1>1, ValueIsNoted
  <2>2. /\ v \in Texts /\ g \in Int /\ now' \in Int /\ conf' = conf
        /\ conf \in Configurations /\ past \in Pasts(conf)
    BY <1>1, ValueTypes1
  <2>3. f[n].error = NoError
    BY <2>1, <2>2, HandledRun DEF Noted
  <2>4. e.worker = WorkerOutcome(conf, f[n]) /\ f[n] \in Runs(conf)
    BY <2>1 DEF Noted
  <2>6. e.worker.kind = "error" => e.worker.value = Word("not suitable")
    BY <2>2, <2>3, <2>4, OutcomeOfRun
  <2>7. /\ log'[Len(log) + 1] = e /\ DOMAIN log' = 1 .. Len(log) + 1
        /\ DOMAIN log = 1 .. Len(log) /\ Len(log) \in Nat
        /\ \A j \in 1 .. Len(log) : log'[j] = log[j]
    BY <2>1 DEF Grown
  <2>8. CASE k \in 1 .. Len(log)
    <3>1. log'[k] = log[k] /\ k \in DOMAIN log
      BY <2>7, <2>8
    <3> QED BY <2>2, <3>1 DEF HandledNeverFails, Steps
  <2>9. CASE k = Len(log) + 1
    BY <2>6, <2>7, <2>9
  <2>10. k \in 1 .. Len(log) \/ k = Len(log) + 1
    BY <2>7
  <2> QED BY <2>8, <2>9, <2>10
<1>2. ASSUME NEW c \in Configurations, ChangeSteps(c)
      PROVE  HandledNeverFails'
  <2>1. log' = <<>>
    BY <1>2 DEF ChangeSteps
  <2>2. DOMAIN log' = {}
    BY <2>1
  <2> QED BY <2>2 DEF HandledNeverFails
<1>3. CASE UNCHANGED vars
  BY <1>3 DEF vars, HandledNeverFails, Steps
<1> QED BY <1>1, <1>2, <1>3 DEF Next

-----------------------------------------------------------------------------
(* Throttling                                                              *)

Throttles ==
  /\ Len(Steps) = 1
  /\ Steps[1].type = "throttle" \/ (Steps[1].type = "throttle_timed" /\ Steps[1].param >= 0)

\* The step remembers the last value, and the time of the last one that was let through.
ThrottleInv ==
  Throttles =>
    /\ log = <<>> => past[1] = NoPast
    /\ log # <<>> =>
         /\ Emitted(1)
         /\ past[1].value = log[Len(log)].in
         /\ \E j \in DOMAIN log :
              /\ Emitted(j) /\ \A i \in j + 1 .. Len(log) : ~Emitted(i)
              /\ past[1].ts = log[j].ts
    /\ \A k \in DOMAIN log :
         Emitted(k) <=> k = 1 \/ ~Equal(log[k].in, log[k - 1].in) \/ PeriodPassed(k)

\* What a run of one throttling step does.
LEMMA ThrottleRun ==
  ASSUME NEW c \in Configurations, NEW v \in Texts, NEW ts \in Int, NEW in \in Pasts(c),
         NEW g \in Int, NEW f, ExecuteTrace(f, c, v, ts, in, g),
         Len(c.steps) = 1, NEW op, op = c.steps[1],
         op.type = "throttle" \/ (op.type = "throttle_timed" /\ op.param >= 0),
         NEW o, o = WorkerOutcome(c, f[1])
  PROVE  /\ f[1].past[1].value = v
         /\ o.kind = "discarded" <=>
              Equal(v, in[1].value) /\ (op.type = "throttle_timed" => ts - in[1].ts < op.param)
         /\ o.kind = "discarded" => f[1].past[1].ts = in[1].ts
         /\ o.kind # "discarded" => f[1].past[1].ts = ts
<1>1. 1 \in 1 .. Len(c.steps) /\ DOMAIN c.steps = 1 .. 1
  BY ConfigurationIs
<1>2. f[0] = Started(c, v) /\ f[0] \in Runs(c) /\ f[0].running /\ f[0].value = v
      /\ f[1] = ExecuteStep(c, ts, in, g, f[0], 1)
  <2>1. f[0] = Started(c, v) /\ Started(c, v).running /\ Started(c, v).value = v
    BY DEF ExecuteTrace, Started
  <2>2. f[1] = IF ~f[1 - 1].running THEN f[1 - 1] ELSE ExecuteStep(c, ts, in, g, f[1 - 1], 1)
    BY <1>1 DEF ExecuteTrace
  <2>3. 1 - 1 = 0
    OBVIOUS
  <2> QED BY <2>1, <2>2, <2>3, StartedIs
<1> DEFINE r == Raw(c, v, ts, in, g, 1)
           h == HandledStep(c, v, ts, in, g, 1)
           none == Equal(v, in[1].value) /\ (op.type = "throttle_timed" => ts - in[1].ts < op.param)
<1>3. v.type = "str" /\ v \in Values
  BY SomeValues DEF Texts
<1>4. /\ f[1].value = h.value /\ f[1].error = h.error /\ f[1] \in Runs(c)
      /\ f[1].past = Remembered(f[0], 1, r)
  BY <1>1, <1>2, ExecuteStepIs
<1>5. in[1] \in Memories
  BY <1>1, ConfigurationIs DEF Pasts
<1>6. r = IF none THEN Ok(NoValue, [in[1] EXCEPT !.value = v])
          ELSE Ok(v, [value |-> v, ts |-> ts])
  <2>1. op \in Operations /\ op.param \in Int
    BY <1>1, ConfigurationIs DEF Operations
  <2>2. r = StepResult(c.valueType, v, ts, op, in[1], g)
    BY DEF Raw
  <2>3. CASE op.type = "throttle"
    <3>1. r = Throttle(v, ts, in[1])
      BY <2>2, <2>3 DEF StepResult
    <3> QED BY <2>3, <3>1 DEF Throttle
  <2>4. CASE op.type = "throttle_timed"
    <3>1. r = ThrottleTimed(v, ts, in[1], op)
      BY <2>2, <2>4 DEF StepResult
    <3>2. op.param >= 0 /\ v.type # "none"
      BY <1>3, <2>4
    <3>3. ~(op.param < 0)
      BY <2>1, <3>2
    <3> QED BY <2>4, <3>1, <3>2, <3>3 DEF ThrottleTimed
  <2> QED BY <2>3, <2>4
<1> HIDE DEF none
<1>7. /\ r.ok = TRUE /\ r.error = NoError /\ r.past.value = v
      /\ r.value = IF none THEN NoValue ELSE v
      /\ r.past.ts = IF none THEN in[1].ts ELSE ts
  BY <1>5, <1>6 DEF Ok, Memories
<1>8. h = r
  BY <1>1, <1>3, <1>7, HandledStepGoesOn
<1> HIDE DEF r, h
<1>9. f[1].past = [f[0].past EXCEPT ![1] = r.past]
  BY <1>3, <1>4, <1>7 DEF Remembered
<1>10. f[1].past[1] = r.past
  <2>1. 1 \in DOMAIN f[0].past
    BY <1>1, <1>2 DEF Runs, Pasts
  <2> QED BY <1>9, <2>1
<1>11. f[1].error = NoError /\ f[1].value = IF none THEN NoValue ELSE v
  BY <1>4, <1>7, <1>8
<1>12. o.kind = "discarded" <=> f[1].value.type = "none"
  BY <1>4, <1>11, OutcomeOfRun
<1>13. o.kind = "discarded" <=> none
  BY <1>3, <1>11, <1>12 DEF NoValue
<1> QED BY <1>7, <1>10, <1>13 DEF none

LEMMA TextIsNotNothing == \A v \in Texts : ~Equal(v, NoValue) /\ ~Equal(v, Bin)
<1> SUFFICES ASSUME NEW v \in Texts PROVE ~Equal(v, NoValue) /\ ~Equal(v, Bin)
  OBVIOUS
<1>1. v.type = "str" /\ NoValue.type = "none" /\ Bin.type = "bin"
  BY DEF Texts, NoValue, Bin
<1>2. "none" \in {v.type, NoValue.type} \cap {"none", "bin"}
  BY <1>1
<1>3. "bin" \in {v.type, Bin.type} \cap {"none", "bin"}
  BY <1>1
<1>4. {v.type, NoValue.type} \cap {"none", "bin"} # {} /\ {v.type, Bin.type} \cap {"none", "bin"} # {}
  BY <1>2, <1>3
<1> QED BY <1>1, <1>4 DEF Equal

LEMMA ThrottleValue ==
  ASSUME TypeInv, ThrottleInv,
         NEW v \in Inputs, NEW gap \in Gaps, NEW g \in Garbage, Value(v, gap, g)
  PROVE  ThrottleInv'
<1>1. PICK f, p, e : Noted(v, g, f, p, e) /\ Grown(e)
  BY ValueIsNoted
<1>2. /\ v \in Texts /\ g \in Int /\ now' \in Int /\ conf' = conf
      /\ conf \in Configurations /\ past \in Pasts(conf)
  BY ValueTypes1
<1>0. PICK L : L = Len(log)
  OBVIOUS
<1>3. /\ L \in Nat /\ DOMAIN log = 1 .. L /\ DOMAIN log' = 1 .. L + 1 /\ Len(log') = L + 1
      /\ log'[L + 1] = e /\ \A k \in 1 .. L : log'[k] = log[k] /\ log[k] \in Entries(conf)
  BY <1>0, <1>1 DEF Grown
<1>4. Throttles' <=> Throttles
  BY <1>2 DEF Throttles, Steps
<1> SUFFICES ASSUME Throttles PROVE ThrottleInv'
  BY <1>4 DEF ThrottleInv
<1> DEFINE op == conf.steps[1]
           none == /\ Equal(v, past[1].value)
                   /\ op.type = "throttle_timed" => now' - past[1].ts < op.param
<1>5. /\ Len(conf.steps) = 1
      /\ op.type = "throttle" \/ (op.type = "throttle_timed" /\ op.param >= 0)
  BY DEF Throttles, Steps
<1>6. /\ past'[1].value = v
      /\ e.worker.kind = "discarded" <=> none
      /\ e.worker.kind = "discarded" => past'[1].ts = past[1].ts
      /\ e.worker.kind # "discarded" => past'[1].ts = now'
  <2>1. /\ ExecuteTrace(f, conf, v, now', past, g) /\ past' = f[1].past
        /\ e.worker = WorkerOutcome(conf, f[1])
    BY <1>1, <1>5 DEF Noted
  <2> QED BY <1>2, <1>5, <2>1, ThrottleRun
<1>7. e.in = v /\ e.ts = now' /\ e \in Entries(conf)
  BY <1>1 DEF Noted
<1>8. log' # <<>>
  BY <1>3
<1>9. \A k \in 1 .. L : Emitted(k)' <=> Emitted(k)
  BY <1>3 DEF Emitted
<1>10. Emitted(L + 1)' <=> ~none
  BY <1>3, <1>6 DEF Emitted
<1>11. \A k \in 1 .. L : PeriodPassed(k)' <=> PeriodPassed(k)
  <2> SUFFICES ASSUME NEW k \in 1 .. L PROVE PeriodPassed(k)' <=> PeriodPassed(k)
    OBVIOUS
  <2>1. \A j \in 1 .. k : j \in 1 .. L /\ log'[j] = log[j] /\ (Emitted(j)' <=> Emitted(j))
    BY <1>3, <1>9
  <2>2. Steps' = Steps
    BY <1>2 DEF Steps
  <2>3. \A j \in 1 .. k - 1 : j \in 1 .. k /\ \A i \in j + 1 .. k - 1 : i \in 1 .. k
    BY <1>3
  <2>4. k \in 1 .. k
    BY <1>3
  <2> QED BY <2>1, <2>2, <2>3, <2>4 DEF PeriodPassed
<1>12. log = <<>> <=> L = 0
  BY <1>3
<1>13. past[1] \in Memories
  <2>1. 1 \in DOMAIN conf.steps
    BY <1>2, <1>5, ConfigurationIs
  <2> QED BY <1>2, <2>1 DEF Pasts
<1> HIDE DEF none, op
<1>14. CASE L = 0
  <2>1. past[1] = NoPast
    BY <1>12, <1>14 DEF ThrottleInv
  <2>2. ~none
    <3>1. ~Equal(v, NoValue)
      BY <1>2, TextIsNotNothing
    <3> QED BY <2>1, <3>1 DEF none, NoPast
  <2>3. Emitted(1)' /\ DOMAIN log' = {1} /\ log'[1] = e /\ Len(log') = 1
    BY <1>3, <1>10, <1>14, <2>2
  <2>4. past'[1].value = log'[1].in /\ past'[1].ts = log'[1].ts
    BY <1>6, <1>7, <2>2, <2>3
  <2>5. \A i \in 1 + 1 .. 1 : FALSE
    OBVIOUS
  <2> QED BY <1>8, <2>3, <2>4, <2>5 DEF ThrottleInv
<1>15. CASE L # 0
  <2>1. /\ log # <<>> /\ Emitted(1) /\ past[1].value = log[L].in
        /\ \A k \in DOMAIN log :
             Emitted(k) <=> k = 1 \/ ~Equal(log[k].in, log[k - 1].in) \/ PeriodPassed(k)
    BY <1>0, <1>12, <1>15 DEF ThrottleInv
  <2>2. PICK j \in 1 .. L : /\ Emitted(j) /\ \A i \in j + 1 .. L : ~Emitted(i)
                            /\ past[1].ts = log[j].ts
    BY <1>0, <1>3, <1>12, <1>15 DEF ThrottleInv
  <2>3. 1 \in 1 .. L /\ L \in 1 .. L /\ L + 1 # 1 /\ (L + 1) - 1 = L
    BY <1>3, <1>15
  <2>4. Emitted(1)'
    BY <1>9, <2>1, <2>3
  <2>5. past'[1].value = log'[L + 1].in
    BY <1>3, <1>6, <1>7
  <2>6. \E m \in DOMAIN log' : /\ Emitted(m)' /\ \A i \in m + 1 .. L + 1 : ~Emitted(i)'
                               /\ past'[1].ts = log'[m].ts
    <3>1. CASE none
      <4>1. j \in DOMAIN log' /\ Emitted(j)' /\ past'[1].ts = log'[j].ts
        BY <1>3, <1>6, <1>9, <2>2, <3>1
      <4>2. \A i \in j + 1 .. L + 1 : ~Emitted(i)'
        <5>1. \A i \in j + 1 .. L + 1 : i = L + 1 \/ (i \in j + 1 .. L /\ i \in 1 .. L)
          BY <1>3
        <5> QED BY <1>9, <1>10, <2>2, <3>1, <5>1
      <4> QED BY <4>1, <4>2
    <3>2. CASE ~none
      <4>1. L + 1 \in DOMAIN log' /\ Emitted(L + 1)' /\ past'[1].ts = log'[L + 1].ts
        BY <1>3, <1>6, <1>7, <1>10, <3>2
      <4>2. \A i \in (L + 1) + 1 .. L + 1 : FALSE
        BY <1>3
      <4> QED BY <4>1, <4>2
    <3> QED BY <3>1, <3>2
  <2>7. PeriodPassed(L + 1)' <=> op.type = "throttle_timed" /\ now' - past[1].ts >= op.param
    <3>1. Steps'[1] = op
      BY <1>2 DEF Steps, op
    <3>2. ASSUME NEW m \in 1 .. L, Emitted(m), \A i \in m + 1 .. L : ~Emitted(i)
          PROVE  m = j
      <4>1. ~(m < j)
        <5>1. m < j => j \in m + 1 .. L
          BY <1>3
        <5> QED BY <2>2, <3>2, <5>1
      <4>2. ~(j < m)
        <5>1. j < m => m \in j + 1 .. L
          BY <1>3
        <5> QED BY <2>2, <3>2, <5>1
      <4> QED BY <1>3, <4>1, <4>2
    <3>3. \A m \in 1 .. L :
            (Emitted(m)' /\ \A i \in m + 1 .. L : ~Emitted(i)') <=> m = j
      <4> SUFFICES ASSUME NEW m \in 1 .. L
                   PROVE  (Emitted(m)' /\ \A i \in m + 1 .. L : ~Emitted(i)') <=> m = j
        OBVIOUS
      <4>1. \A i \in m + 1 .. L : i \in 1 .. L
        BY <1>3
      <4> QED BY <1>9, <2>2, <3>2, <4>1
    <3>4. PeriodPassed(L + 1)' <=>
            /\ op.type = "throttle_timed"
            /\ \E m \in 1 .. L : /\ Emitted(m)' /\ \A i \in m + 1 .. L : ~Emitted(i)'
                                 /\ log'[L + 1].ts - log'[m].ts >= op.param
      BY <2>3, <3>1 DEF PeriodPassed
    <3>5. log'[L + 1].ts = now' /\ log'[j].ts = past[1].ts
      BY <1>3, <1>7, <2>2
    <3> QED BY <3>3, <3>4, <3>5
  <2>8. Emitted(L + 1)' <=> ~Equal(log'[L + 1].in, log'[L].in) \/ PeriodPassed(L + 1)'
    <3>1. log'[L + 1].in = v /\ log'[L].in = past[1].value
      BY <1>3, <1>7, <2>1, <2>3
    <3>2. op.type = "throttle_timed" =>
            (now' - past[1].ts < op.param <=> ~(now' - past[1].ts >= op.param))
      <4>1. op.param \in Int /\ past[1].ts \in Int
        <5>1. 1 \in 1 .. Len(conf.steps)
          BY <1>5
        <5> QED BY <1>2, <1>13, <5>1, ConfigurationIs DEF op, Operations, Memories
      <4> QED BY <1>2, <4>1
    <3> QED BY <1>10, <2>7, <3>1, <3>2 DEF none
  <2>9. ASSUME NEW k \in DOMAIN log'
        PROVE  Emitted(k)' <=> k = 1 \/ ~Equal(log'[k].in, log'[k - 1].in) \/ PeriodPassed(k)'
    <3>1. CASE k = L + 1
      BY <2>3, <2>8, <3>1
    <3>2. CASE k = 1
      BY <2>4, <3>2
    <3>3. CASE k \in 1 .. L /\ k # 1
      <4>1. k - 1 \in 1 .. L
        BY <1>3, <3>3
      <4> QED BY <1>3, <1>9, <1>11, <2>1, <3>3, <4>1
    <3> QED BY <1>3, <3>1, <3>2, <3>3
  <2>10. DOMAIN log' = 1 .. L + 1 /\ Len(log') = L + 1
    BY <1>3
  <2> QED BY <1>8, <2>4, <2>5, <2>6, <2>9, <2>10 DEF ThrottleInv
<1> QED BY <1>14, <1>15

LEMMA ThrottleStays == TypeInv /\ ThrottleInv /\ [Next]_vars => ThrottleInv'
<1> SUFFICES ASSUME TypeInv, ThrottleInv, [Next]_vars PROVE ThrottleInv'
  OBVIOUS
<1>1. ASSUME NEW v \in Inputs, NEW gap \in Gaps, NEW g \in Garbage, Value(v, gap, g)
      PROVE  ThrottleInv'
  BY <1>1, ThrottleValue
<1>2. ASSUME NEW c \in Configurations, ChangeSteps(c)
      PROVE  ThrottleInv'
  <2>1. log' = <<>> /\ past' = NoPasts(c) /\ conf' = c
    BY <1>2 DEF ChangeSteps
  <2>2. DOMAIN log' = {}
    BY <2>1
  <2>3. Throttles' => past'[1] = NoPast
    <3>1. Len(c.steps) = 1 => 1 \in DOMAIN c.steps
      BY ConfigurationIs
    <3> QED BY <2>1, <3>1 DEF Throttles, Steps, NoPasts
  <2> QED BY <2>1, <2>2, <2>3 DEF ThrottleInv
<1>3. CASE UNCHANGED vars
  <2>1. conf' = conf /\ past' = past /\ log' = log
    BY <1>3 DEF vars
  <2> QED BY <2>1 DEF ThrottleInv, Throttles, Steps, Emitted, PeriodPassed
<1> QED BY <1>1, <1>2, <1>3 DEF Next

LEMMA ThrottleInit == Init => ThrottleInv
<1> SUFFICES ASSUME Init PROVE ThrottleInv
  OBVIOUS
<1>1. log = <<>> /\ past = NoPasts(conf) /\ conf \in Configurations
  BY DEF Init
<1>2. Throttles => past[1] = NoPast
  <2>1. Len(conf.steps) = 1 => 1 \in DOMAIN conf.steps
    BY <1>1, ConfigurationIs
  <2> QED BY <1>1, <2>1 DEF Throttles, Steps, NoPasts
<1>3. DOMAIN log = {}
  BY <1>1
<1> QED BY <1>1, <1>2, <1>3 DEF ThrottleInv

LEMMA ThrottleHolds == ThrottleInv => ThrottleEmitsChanges
  BY DEF ThrottleInv, ThrottleEmitsChanges, Throttles

-----------------------------------------------------------------------------
(* Differences                                                             *)

Numbers == {u \in Values : IsNumber(u)}

LEMMA NumericsAreNumbers == Numerics \subseteq Numbers
  BY DEF Numerics, Numbers, Values, IsNumber

\* Multipliers before a difference.
Differs(c) ==
  /\ Len(c.steps) # 0
  /\ c.steps[Len(c.steps)].type = "delta"
  /\ \A s \in 1 .. Len(c.steps) - 1 : c.steps[s].type = "multiplier"

\* What the multipliers make of a number, one after the other.
Carries(q, c, v) ==
  /\ q \in [0 .. Len(c.steps) - 1 -> Numbers] /\ q[0] = v
  /\ \A k \in 1 .. Len(c.steps) - 1 :
       q[k] = Multiplier(c.valueType, q[k - 1], NoPast, c.steps[k]).value

LEMMA MultiplierCarries ==
  ASSUME NEW valueType \in ValueTypes, NEW v \in Numbers, NEW op \in Operations,
         NEW mem \in Memories
  PROVE  /\ Multiplier(valueType, v, mem, op).value \in Numbers
         /\ Multiplier(valueType, v, mem, op).value = Multiplier(valueType, v, NoPast, op).value
<1>1. v \in Values /\ IsNumber(v)
  BY DEF Numbers
<1>2. Multiplier(valueType, v, mem, op).value \in Numerics
  BY <1>1, MultiplierIs
<1>3. \A u, p : Ok(u, p).value = u
  BY DEF Ok
<1>4. Multiplier(valueType, v, mem, op).value = Multiplier(valueType, v, NoPast, op).value
  BY <1>1, <1>3 DEF Multiplier
<1> QED BY <1>2, <1>4, NumericsAreNumbers

\* What the multipliers before the last step make of an input, as a number.
CounterOf(c, v) ==
  LET n == Len(c.steps) - 1
      carried[k \in 0 .. n] ==
        IF k = 0 THEN v ELSE Multiplier(c.valueType, carried[k - 1], NoPast, c.steps[k]).value
  IN  ToNumeric(carried[n], c.valueType).num

LEMMA CounterIsOf == \A v : Counter(v) = CounterOf(conf, v)
  BY DEF Counter, CounterOf, Steps

LEMMA CounterIs ==
  ASSUME NEW c \in Configurations, Differs(c), NEW v \in Texts, IsNumber(v)
  PROVE  \E q : /\ Carries(q, c, v)
                /\ CounterOf(c, v) = ToNumeric(q[Len(c.steps) - 1], c.valueType).num
<1> DEFINE n == Len(c.steps) - 1
           Step == [k \in 1 .. n |->
                      [u \in Numbers |-> Multiplier(c.valueType, u, NoPast, c.steps[k]).value]]
           Def(q) == q = [k \in 0 .. n |->
                            IF k = 0 THEN v
                            ELSE Multiplier(c.valueType, q[k - 1], NoPast, c.steps[k]).value]
           carried == CHOOSE q : Def(q)
<1>1. Len(c.steps) \in Nat /\ n \in Nat 
  BY ConfigurationIs DEF Differs
<1>2. v \in Numbers
  BY SomeValues DEF Numbers
<1>3. NoPast \in Memories
  BY SomeValues DEF NoPast, Memories
<1>4. \A k \in 1 .. n : \A u \in Numbers : Step[k][u] \in Numbers
  <2> SUFFICES ASSUME NEW k \in 1 .. n, NEW u \in Numbers
               PROVE  Multiplier(c.valueType, u, NoPast, c.steps[k]).value \in Numbers
    OBVIOUS
  <2>1. c.steps[k] \in Operations /\ c.valueType \in ValueTypes
    BY <1>1, ConfigurationIs
  <2> QED BY <1>3, <2>1, MultiplierCarries
<1>5. \E q : Def(q) /\ q \in [0 .. n -> Numbers]
  <2>1. PICK q : Loop(q, n, v, Step) /\ q \in [0 .. n -> Numbers]
    <3> HIDE DEF Step, n
    <3> QED BY <1>1, <1>2, <1>4, LoopExists
  <2>2. \A k \in 0 .. n : k # 0 =>
          Step[k][q[k - 1]] = Multiplier(c.valueType, q[k - 1], NoPast, c.steps[k]).value
    <3> SUFFICES ASSUME NEW k \in 0 .. n, k # 0
                 PROVE  Step[k][q[k - 1]]
                          = Multiplier(c.valueType, q[k - 1], NoPast, c.steps[k]).value
      OBVIOUS
    <3>1. k \in 1 .. n /\ k - 1 \in 0 .. n
      BY <1>1
    <3>2. q[k - 1] \in Numbers
      BY <2>1, <3>1
    <3> HIDE DEF n
    <3> QED BY <3>1, <3>2
  <2>3. Def(q)
    <3> HIDE DEF Step
    <3> QED BY <2>1, <2>2 DEF Loop
  <2> HIDE DEF Def
  <2> QED BY <2>1, <2>3
<1>6. Def(carried)
  <2> HIDE DEF Def
  <2> QED BY <1>5
<1>7. CounterOf(c, v) = ToNumeric(carried[n], c.valueType).num
  BY DEF CounterOf
<1> HIDE DEF carried
<1>8. \A k \in 0 .. n : carried[k] = IF k = 0 THEN v
                                     ELSE Multiplier(c.valueType, carried[k - 1], NoPast, c.steps[k]).value
  BY <1>6
<1>9. carried[0] = v /\ \A k \in 1 .. n :
        carried[k] = Multiplier(c.valueType, carried[k - 1], NoPast, c.steps[k]).value
  <2>1. 0 \in 0 .. n /\ \A k \in 1 .. n : k \in 0 .. n /\ k # 0
    BY <1>1
  <2> QED BY <1>8, <2>1
<1>10. \A k \in 0 .. n : carried[k] \in Numbers
  <2> DEFINE T == {k \in 0 .. n : carried[k] \in Numbers}
  <2>1. 0 \in T
    BY <1>1, <1>2, <1>9
  <2>2. \A k \in 0 .. n - 1 : k \in T => k + 1 \in T
    <3> SUFFICES ASSUME NEW k \in 0 .. n - 1, carried[k] \in Numbers
                 PROVE  k + 1 \in 0 .. n /\ carried[k + 1] \in Numbers
      BY <1>1
    <3>1. k + 1 \in 1 .. n /\ k + 1 \in 0 .. n /\ (k + 1) - 1 = k
      BY <1>1
    <3>2. carried[k + 1] = Multiplier(c.valueType, carried[k], NoPast, c.steps[k + 1]).value
      BY <1>9, <3>1
    <3>3. carried[k + 1] = Step[k + 1][carried[k]]
      BY <3>1, <3>2
    <3> HIDE DEF Step
    <3> QED BY <1>4, <3>1, <3>3
  <2> HIDE DEF T
  <2>3. \A k \in 0 .. n : k \in T
    BY <1>1, <2>1, <2>2, Upwards
  <2> QED BY <2>3 DEF T
<1>11. carried \in [0 .. n -> Numbers]
  <2>1. carried = [k \in 0 .. n |-> carried[k]]
    BY <1>6
  <2> QED BY <1>10, <2>1
<1>12. Carries(carried, c, v)
  BY <1>9, <1>11 DEF Carries
<1> QED BY <1>7, <1>12

\* What a delta step makes of a value.
Difference(valueType, v, ts, mem, g) == Delta(valueType, v, ts, mem, FALSE, g).value

\* A worker's run f over a number, and what its multipliers make of it.
Differencing(f, q, c, v, ts, in, g) ==
  /\ c \in Configurations /\ Differs(c) /\ v \in Texts /\ IsNumber(v) /\ ts \in Int
  /\ in \in Pasts(c) /\ g \in Int
  /\ ExecuteTrace(f, c, v, ts, in, g) /\ Carries(q, c, v)

\* A run over multipliers and a difference, of a number.
LEMMA DifferenceRun ==
  ASSUME NEW f, NEW q, NEW c, NEW v, NEW ts, NEW in, NEW g, Differencing(f, q, c, v, ts, in, g),
         NEW N, N = Len(c.steps)
  PROVE  /\ f[N].past[N].value = ToNumeric(q[N - 1], c.valueType) /\ f[N].past[N].ts = ts
         /\ f[N].error = NoError
         /\ f[N].value = Difference(c.valueType, q[N - 1], ts, in[N], g)
<1> USE DEF Differencing
<1>1. N \in Nat /\ N # 0 /\ DOMAIN c.steps = 1 .. N
  BY ConfigurationIs DEF Differs
<1> DEFINE T == {k \in 0 .. N - 1 : f[k].running /\ f[k].value = q[k]}
<1>2. f[0] = Started(c, v) /\ f[0].running /\ f[0].value = v
  BY DEF ExecuteTrace, Started
<1>3. 0 \in T
  BY <1>1, <1>2 DEF Carries
<1>4. \A k \in 1 .. N : f[k - 1] \in Runs(c)
  <2> SUFFICES ASSUME NEW k \in 1 .. N PROVE f[k - 1] \in Runs(c)
    OBVIOUS
  <2>1. k - 1 \in 0 .. N
    BY <1>1
  <2> QED BY <2>1 DEF ExecuteTrace
<1>5. \A k \in 0 .. (N - 1) - 1 : k \in T => k + 1 \in T
  <2> SUFFICES ASSUME NEW k \in 0 .. (N - 1) - 1, k \in T PROVE k + 1 \in T
    OBVIOUS
  <2>1. k + 1 \in 1 .. N /\ k + 1 \in 0 .. N - 1 /\ (k + 1) - 1 = k /\ k \in 0 .. N - 1
        /\ k + 1 \in 1 .. N - 1
    BY <1>1
  <2> DEFINE r == Raw(c, q[k], ts, in, g, k + 1)
             h == HandledStep(c, q[k], ts, in, g, k + 1)
  <2>2. f[k] \in Runs(c) /\ f[k].running /\ f[k].value = q[k]
        /\ f[k + 1] = ExecuteStep(c, ts, in, g, f[k], k + 1)
    BY <1>4, <2>1 DEF ExecuteTrace
  <2>3. f[k + 1] \in Runs(c) /\ f[k + 1].value = h.value /\ f[k + 1].error = h.error
    <3>1. LET hh == HandledStep(c, f[k].value, ts, in, g, k + 1)
              w == ExecuteStep(c, ts, in, g, f[k], k + 1)
          IN  w \in Runs(c) /\ w.value = hh.value /\ w.error = hh.error
      <4>1. f[k] \in Runs(c) /\ f[k].running /\ k + 1 \in 1 .. Len(c.steps)
        BY <2>1, <2>2
      <4>2. PICK m : m = k + 1
        OBVIOUS
      <4>3. m \in 1 .. Len(c.steps)
        BY <4>1, <4>2
      <4>4. PICK s : s = f[k]
        OBVIOUS
      <4>5. s \in Runs(c) /\ s.running
        BY <4>1, <4>4
      <4>6. LET hh == HandledStep(c, s.value, ts, in, g, m)
                w == ExecuteStep(c, ts, in, g, s, m)
            IN  w \in Runs(c) /\ w.value = hh.value /\ w.error = hh.error
        BY <4>3, <4>5, ExecuteStepIs
      <4> QED BY <4>2, <4>4, <4>6
    <3> QED BY <2>2, <3>1
  <2>4. q[k] \in Numbers /\ q[k] \in Values /\ IsNumber(q[k]) /\ q[k].type # "none"
    BY <2>1 DEF Carries, Numbers, IsNumber
  <2>5. c.steps[k + 1].type = "multiplier" /\ c.steps[k + 1] \in Operations
        /\ c.valueType \in ValueTypes /\ in[k + 1] \in Memories
    BY <1>1, <2>1, ConfigurationIs DEF Differs, Pasts
  <2>6. r = Multiplier(c.valueType, q[k], in[k + 1], c.steps[k + 1])
    BY <2>5 DEF Raw, StepResult
  <2>7. r.ok /\ r.value \in Numbers /\ Sound(c.steps[k + 1], in[k + 1], r)
    BY <2>4, <2>5, <2>6, MultiplierIs, MultiplierCarries
  <2>8. r.value = q[k + 1]
    <3>1. q[k + 1] = Multiplier(c.valueType, q[k], NoPast, c.steps[k + 1]).value
      BY <1>1, <2>1 DEF Carries
    <3> QED BY <2>4, <2>5, <2>6, <3>1, MultiplierCarries
  <2>9. h = r
    BY <2>1, <2>4, <2>7, HandledStepGoesOn
  <2> HIDE DEF r, h
  <2>10. r.error = NoError /\ r.value.type # "none"
    BY <2>7 DEF Sound, Numbers, IsNumber
  <2>11. f[k + 1].running
    BY <2>3, <2>9, <2>10 DEF Runs
  <2> QED BY <2>1, <2>3, <2>8, <2>9, <2>11
<1> HIDE DEF T
<1>6. \A k \in 0 .. N - 1 : k \in T
  <2>1. N - 1 \in Nat
    BY <1>1
  <2> QED BY <1>3, <1>5, <2>1, Upwards
<1>7. N - 1 \in T /\ N \in 1 .. N /\ N - 1 \in 0 .. N - 1
  BY <1>1, <1>6
<1> DEFINE s == f[N - 1]
           u == q[N - 1]
           r == Raw(c, u, ts, in, g, N)
           h == HandledStep(c, u, ts, in, g, N)
<1>8. s.running /\ s.value = u /\ s \in Runs(c) /\ f[N] = ExecuteStep(c, ts, in, g, s, N)
  BY <1>4, <1>7 DEF T, ExecuteTrace
<1>9. u \in Values /\ IsNumber(u) /\ u.type # "none"
  BY <1>1, <1>7 DEF Carries, Numbers, IsNumber
<1>10. /\ f[N].value = h.value /\ f[N].error = h.error /\ f[N] \in Runs(c)
       /\ f[N].past = Remembered(s, N, r)
  <2> HIDE DEF s, u
  <2>1. LET hh == HandledStep(c, s.value, ts, in, g, N)
            w == ExecuteStep(c, ts, in, g, s, N)
        IN  /\ w \in Runs(c) /\ w.value = hh.value /\ w.error = hh.error
            /\ w.past = Remembered(s, N, Raw(c, s.value, ts, in, g, N))
    <3>1. s \in Runs(c) /\ s.running /\ N \in 1 .. Len(c.steps)
      BY <1>7, <1>8
    <3> QED BY <3>1, ExecuteStepIs
  <2> QED BY <1>8, <2>1
<1>11. c.steps[N].type = "delta" /\ c.valueType \in ValueTypes /\ in[N] \in Memories
  BY <1>1, <1>7, ConfigurationIs DEF Differs, Pasts
<1>12. r = Delta(c.valueType, u, ts, in[N], FALSE, g)
  BY <1>11 DEF Raw, StepResult
<1> HIDE DEF s, u
<1>13. /\ r.ok /\ r.past = [value |-> ToNumeric(u, c.valueType), ts |-> ts]
       /\ Sound(c.steps[N], in[N], r)
  <2> HIDE DEF r
  <2>1. c.steps[N].type \in Changes /\ FALSE \in BOOLEAN
    BY <1>11 DEF Changes
  <2> DEFINE op == c.steps[N]
  <2>2. op.type \in Changes /\ in[N] \in Memories
    BY <1>11, <2>1
  <2> HIDE DEF op
  <2>3. r.ok /\ r.past = [value |-> ToNumeric(u, c.valueType), ts |-> ts]
    <3>1. IsNumber(u)
      BY <1>9
    <3> QED BY <1>12, <3>1 DEF Delta, Ok
  <2>4. Sound(op, in[N], r)
    BY <1>9, <1>11, <1>12, <2>1, <2>2, DeltaIs
  <2> QED BY <2>3, <2>4 DEF op
<1>14. h = r
  BY <1>7, <1>9, <1>13, HandledStepGoesOn
<1> HIDE DEF r, h
<1>15. r.error = NoError
  BY <1>13 DEF Sound
<1>16. r.past.value.type # "none"
  BY <1>9, <1>11, <1>13, ToNumericIs DEF Numerics
<1>17. f[N].past = [s.past EXCEPT ![N] = r.past]
  BY <1>10, <1>13, <1>16 DEF Remembered
<1>18. N \in DOMAIN s.past
  BY <1>1, <1>7, <1>8 DEF Runs, Pasts
<1>19. f[N].past[N] = r.past
  BY <1>17, <1>18
<1>20. /\ f[N].past[N].value = ToNumeric(q[N - 1], c.valueType) /\ f[N].past[N].ts = ts
       /\ f[N].error = NoError
  BY <1>10, <1>13, <1>14, <1>15, <1>19 DEF u
<1>21. f[N].value = Difference(c.valueType, q[N - 1], ts, in[N], g)
  BY <1>10, <1>12, <1>13, <1>14 DEF u, Difference
<1> QED BY <1>20, <1>21

\* The number that is kept of a text: of an unsigned item a uint64, unless it is below 0.
LEMMA CountedAs ==
  ASSUME NEW v \in Numbers, NEW valueType \in ValueTypes, NEW m, m = ToNumeric(v, valueType)
  PROVE  /\ m \in Numerics /\ m.num \in Int
         /\ valueType = "float" => m.type = "dbl"
         /\ valueType = "uint" /\ m.num >= 0 => m.type = "ui64"
<1>1. v \in Values /\ IsNumber(v)
  BY DEF Numbers
<1>2. m \in Numerics /\ (valueType = "float" => m.type = "dbl")
  BY <1>1, ToNumericIs DEF Dbl
<1>3. m.num \in Int
  BY <1>2 DEF Numerics, Values, Variant
<1>4. ASSUME valueType = "uint", m.num >= 0 PROVE m.type = "ui64"
  <2> DEFINE num == IF v.type = "str" THEN SetNumeric(v) ELSE v
  <2>1. m = Convert(num, "ui64")
    BY <1>4 DEF ToNumeric, VariantOf
  <2>2. num \in Numerics
    <3>1. v.num \in Int /\ v.type \in {"ui64", "dbl", "str"}
      BY <1>1 DEF Values, Variant, IsNumber
    <3> QED BY <1>1, <3>1, SomeValues DEF Numerics, SetNumeric
  <2> HIDE DEF num
  <2>3. num \in Values /\ num.type \in {"ui64", "dbl"}
    BY <2>2 DEF Numerics
  <2>4. CASE Convertible(num, "ui64")
    BY <2>1, <2>3, <2>4, ConvertIs
  <2>5. CASE ~Convertible(num, "ui64")
    <3>1. m = num
      BY <2>1, <2>3, <2>5, ConvertIs
    <3> QED BY <1>4, <2>3, <2>5, <3>1 DEF Convertible
  <2> QED BY <2>4, <2>5
<1> QED BY <1>2, <1>3, <1>4

\* A difference of two numbers is a number again, of an unsigned item a uint64.
LEMMA DifferenceIs ==
  ASSUME NEW valueType \in ValueTypes, NEW u \in Numbers, NEW ts \in Int,
         NEW mem \in Memories, mem.value \in Numerics, mem.ts # 0, NEW g \in Int,
         valueType = "float" => mem.value.type = "dbl",
         NEW m, m = ToNumeric(u, valueType),
         valueType = "uint" => m.num >= 0 /\ mem.value.type = "ui64",
         NEW d, d = Difference(valueType, u, ts, mem, g)
  PROVE  \/ d = NoValue
         \/ /\ d \in Numerics /\ d.num = m.num - mem.value.num
            /\ valueType = "uint" => d.type = "ui64"
<1>1. /\ m \in Numerics /\ m.num \in Int
      /\ valueType = "float" => m.type = "dbl"
      /\ valueType = "uint" => m.type = "ui64"
  BY CountedAs
<1>2. IsNumber(u) /\ u \in Values
  BY DEF Numbers
<1> DEFINE old == mem.value
           type == IF "dbl" \in {m.type, old.type} THEN "dbl" ELSE "ui64"
           num == Convert(m, type)
           before == IF Convertible(old, type) THEN Convert(old, type).num ELSE g
           change == Change(num, before, ts, mem, FALSE)
<1>3. /\ m.type \in {"ui64", "dbl"} /\ old.type \in {"ui64", "dbl"} /\ old.num \in Int
      /\ m.word = NoWord /\ old.word = NoWord
      /\ m = [type |-> m.type, num |-> m.num, word |-> m.word]
      /\ m.type = "ui64" => IsUint64(m.num)
      /\ old.type = "ui64" => IsUint64(old.num)
  BY <1>1 DEF Numerics, Values, Variant
<1>4. d = change
  BY <1>2, <1>3 DEF Difference, Delta, Ok
<1>5. num.num = m.num /\ num.type = type /\ num.word = NoWord
      /\ num = [type |-> num.type, num |-> num.num, word |-> num.word]
  <2>1. CASE type = "dbl"
    BY <1>3, <2>1 DEF Convert, Convertible, IsNumber, Dbl
  <2>2. CASE type = "ui64"
    <3>1. m.type = "ui64"
      BY <1>3, <2>2
    <3>2. Cut(m.num) = m.num
      BY <1>1, <1>3, <3>1, CutIs
    <3> QED BY <1>3, <2>2, <3>1, <3>2 DEF Convert, Convertible, Ui64
  <2> QED BY <2>1, <2>2
<1>6. before = old.num
  <2>1. CASE type = "dbl"
    BY <1>3, <2>1 DEF Convert, Convertible, IsNumber, Dbl
  <2>2. CASE type = "ui64"
    <3>1. old.type = "ui64"
      BY <1>3, <2>2
    <3>2. Cut(old.num) = old.num
      BY <1>3, <3>1, CutIs
    <3> QED BY <1>3, <2>2, <3>1, <3>2 DEF Convert, Convertible, Ui64
  <2> QED BY <2>1, <2>2
<1>7. type \in {"dbl", "ui64"} /\ (type = "ui64" => m.type = "ui64" /\ old.type = "ui64")
      /\ (m.type = "ui64" /\ old.type = "ui64" => type = "ui64")
  BY <1>3
<1> HIDE DEF num, before, type
<1> DEFINE diff == num.num - before
           e == IF num.type = "ui64" THEN Truncated(diff) ELSE diff
<1>8. change = IF before > num.num THEN NoValue ELSE [num EXCEPT !.num = e]
  BY DEF Change
<1>9. CASE before > num.num
  BY <1>4, <1>8, <1>9
<1>10. CASE ~(before > num.num)
  <2>1. old.num <= m.num /\ diff = m.num - old.num /\ diff \in Int
    BY <1>1, <1>3, <1>5, <1>6, <1>10
  <2>2. type = "ui64" => IsUint64(diff)
    BY <1>1, <1>3, <1>7, <2>1, WholeQuotient
  <2>3. type = "ui64" => Truncated(diff) = diff
    BY <2>1, <2>2, TruncatedIs DEF IsUint64
  <2>4. e = diff
    BY <1>5, <2>3
  <2>5. change = [num EXCEPT !.num = diff]
    BY <1>8, <1>10, <2>4
  <2> HIDE DEF diff, change, e
  <2>6. change = [type |-> type, num |-> diff, word |-> NoWord]
    BY <1>5, <2>5
  <2>7. change = IF type = "ui64" THEN Ui64(diff) ELSE Dbl(diff)
    BY <1>7, <2>6 DEF Ui64, Dbl
  <2>8. change \in Numerics
    BY <2>1, <2>2, <2>7, SomeValues
  <2>9. change.num = diff /\ change.type = type
    BY <2>6
  <2>10. valueType = "uint" => change.type = "ui64"
    BY <1>1, <1>7, <2>9
  <2> QED BY <1>4, <2>1, <2>8, <2>9, <2>10
<1> QED BY <1>9, <1>10

\* A number of which differences are counted.
Counted(k) ==
  /\ IsNumber(log[k].in)
  /\ conf.valueType = "uint" => CounterOf(conf, log[k].in) >= 0
  /\ conf.valueType = "text" => CounterOf(conf, log[k].in) % Grain = 0

\* The last step remembers what the last number counts as, and a difference is the one from
\* the number before.
DifferenceInv ==
  Differs(conf) =>
    /\ log # <<>> /\ IsNumber(log[Len(log)].in) =>
         LET kept == past[Len(conf.steps)]
             last == CounterOf(conf, log[Len(log)].in)
         IN  /\ kept.value \in Numerics /\ kept.value.num = last /\ kept.ts # 0
             /\ conf.valueType = "float" => kept.value.type = "dbl"
             /\ conf.valueType = "uint" /\ last >= 0 => kept.value.type = "ui64"
    /\ \A k \in DOMAIN log :
         IsNumber(log[k].in) => CounterOf(conf, log[k].in) \in Int
    /\ \A k \in DOMAIN log :
         k # 1 /\ Counted(k) /\ Counted(k - 1) /\ log[k].worker.kind = "value" =>
           log[k].worker.value.num = CounterOf(conf, log[k].in) - CounterOf(conf, log[k - 1].in)

LEMMA GrainsDiffer ==
  ASSUME NEW a \in Int, NEW b \in Int, a % Grain = 0, b % Grain = 0
  PROVE  (a - b) % Grain = 0
<1> DEFINE p == a \div Grain
           q == b \div Grain
<1>1. Grain \in Nat \ {0}
  BY VariantAssumption
<1>2. a = Grain * p /\ b = Grain * q /\ p \in Int /\ q \in Int
  BY <1>1, Multiples
<1> HIDE DEF p, q
<1>3. a - b = Grain * (p - q) /\ p - q \in Int
  BY <1>1, <1>2
<1>4. (Grain * (p - q)) % Grain = 0
  BY <1>1, <1>3, Multiples
<1> QED BY <1>3, <1>4

LEMMA OutcomeOfDifference ==
  ASSUME NEW c \in Configurations, NEW s \in Runs(c), s.error = NoError,
         s.value = NoValue \/ s.value \in Numerics,
         c.valueType = "uint" => s.value.type # "dbl",
         c.valueType = "text" /\ s.value \in Numerics => s.value.num % Grain = 0,
         NEW o, o = WorkerOutcome(c, s), o.kind = "value"
  PROVE  s.value \in Numerics /\ o.value.num = s.value.num
<1> DEFINE type == VariantOf(c.valueType)
<1>1. s.value.type # "none" /\ Convertible(s.value, type) /\ o.value = Convert(s.value, type)
  BY OutcomeOfRun
<1>2. s.value \in Numerics
  BY <1>1 DEF NoValue
<1>3. /\ s.value \in Values /\ s.value.num \in Int /\ s.value.type \in {"ui64", "dbl"}
      /\ s.value.type = "ui64" => IsUint64(s.value.num)
  BY <1>2 DEF Numerics, Values, Variant
<1>4. /\ type \in {"ui64", "dbl", "str"} /\ (type = "ui64" => c.valueType = "uint")
      /\ type = "str" => c.valueType = "text"
  BY ConfigurationIs DEF VariantOf, ValueTypes
<1> HIDE DEF type
<1>5. CASE type # "ui64"
  BY <1>1, <1>2, <1>3, <1>4, <1>5, ConvertIs
<1>6. CASE type = "ui64"
  <2>1. s.value.type = "ui64"
    BY <1>3, <1>4, <1>6
  <2>2. Cut(s.value.num) = s.value.num
    BY <1>3, <2>1, CutIs
  <2>3. o.value = Ui64(Cut(s.value.num))
    BY <1>1, <1>6 DEF Convert
  <2> QED BY <1>2, <2>2, <2>3 DEF Ui64
<1> QED BY <1>5, <1>6

LEMMA DifferenceValue ==
  ASSUME TypeInv, DifferenceInv,
         NEW v \in Inputs, NEW gap \in Gaps, NEW g \in Garbage, Value(v, gap, g)
  PROVE  DifferenceInv'
<1>1. PICK f, p, e : Noted(v, g, f, p, e) /\ Grown(e)
  BY ValueIsNoted
<1>2. /\ v \in Texts /\ g \in Int /\ now' \in Nat \ {0} /\ now' \in Int /\ conf' = conf
      /\ conf \in Configurations /\ past \in Pasts(conf)
  BY ValueTypes1
<1>0. PICK L : L = Len(log)
  OBVIOUS
<1>3. /\ L \in Nat /\ DOMAIN log = 1 .. L /\ DOMAIN log' = 1 .. L + 1 /\ Len(log') = L + 1
      /\ log'[L + 1] = e /\ \A k \in 1 .. L : log'[k] = log[k] /\ log[k] \in Entries(conf)
  BY <1>0, <1>1 DEF Grown
<1> SUFFICES ASSUME Differs(conf) PROVE DifferenceInv'
  BY <1>2 DEF DifferenceInv
<1>4. PICK N : N = Len(conf.steps)
  OBVIOUS
<1>5. N \in Nat /\ N # 0 /\ DOMAIN conf.steps = 1 .. N /\ N \in 1 .. N /\ N - 1 \in 0 .. N - 1
  BY <1>2, <1>4, ConfigurationIs DEF Differs
<1>7. e.in = v /\ e.ts = now'
  BY <1>1 DEF Noted
<1> DEFINE kept == past'[N]
<1>8. ASSUME IsNumber(v)
      PROVE  /\ kept.value \in Numerics /\ kept.value.num = CounterOf(conf, v) /\ kept.ts = now'
             /\ conf.valueType = "float" => kept.value.type = "dbl"
             /\ conf.valueType = "uint" /\ CounterOf(conf, v) >= 0 => kept.value.type = "ui64"
             /\ CounterOf(conf, v) \in Int
             /\ /\ e.worker.kind = "value" /\ past[N].value \in Numerics /\ past[N].ts # 0
                /\ conf.valueType = "float" => past[N].value.type = "dbl"
                /\ conf.valueType = "uint" => CounterOf(conf, v) >= 0 /\ past[N].value.type = "ui64"
                /\ conf.valueType = "text" =>
                     CounterOf(conf, v) % Grain = 0 /\ past[N].value.num % Grain = 0
                => e.worker.value.num = CounterOf(conf, v) - past[N].value.num
  <2>1. PICK q : Carries(q, conf, v) /\ CounterOf(conf, v) = ToNumeric(q[N - 1], conf.valueType).num
    BY <1>2, <1>4, <1>8, CounterIs
  <2> DEFINE u == q[N - 1]
             m == ToNumeric(u, conf.valueType)
  <2>2. u \in Numbers
    BY <1>4, <1>5, <2>1 DEF Carries
  <2>3. conf.valueType \in ValueTypes
    BY <1>2, ConfigurationIs
  <2>4. /\ ExecuteTrace(f, conf, v, now', past, g) /\ past' = f[N].past /\ f[N] \in Runs(conf)
        /\ e.worker = WorkerOutcome(conf, f[N])
    BY <1>1, <1>4 DEF Noted
  <2>5. /\ f[N].past[N].value = ToNumeric(u, conf.valueType) /\ f[N].past[N].ts = now'
        /\ f[N].error = NoError
        /\ f[N].value = Difference(conf.valueType, u, now', past[N], g)
    <3>1. PICK t : t = now'
      OBVIOUS
    <3>2. PICK in : in = past
      OBVIOUS
    <3>3. ExecuteTrace(f, conf, v, t, in, g) /\ t \in Int /\ in \in Pasts(conf)
      BY <1>2, <2>4, <3>1, <3>2
    <3>4. PICK c : c = conf
      OBVIOUS
    <3>5. /\ c \in Configurations /\ Differs(c) /\ Carries(q, c, v) /\ N = Len(c.steps)
          /\ ExecuteTrace(f, c, v, t, in, g) /\ in \in Pasts(c)
      BY <1>2, <1>4, <2>1, <3>3, <3>4
    <3>6. /\ f[N].past[N].value = ToNumeric(q[N - 1], c.valueType) /\ f[N].past[N].ts = t
          /\ f[N].error = NoError
          /\ f[N].value = Difference(c.valueType, q[N - 1], t, in[N], g)
      <4>1. /\ c \in Configurations /\ Differs(c) /\ v \in Texts /\ IsNumber(v) /\ t \in Int
            /\ in \in Pasts(c) /\ g \in Int
        BY <1>2, <1>8, <3>3, <3>5
      <4>2. ExecuteTrace(f, c, v, t, in, g) /\ Carries(q, c, v) /\ N = Len(c.steps)
        BY <3>5
      <4> HIDE DEF u, m, kept
      <4>3. Differencing(f, q, c, v, t, in, g)
        BY <4>1, <4>2 DEF Differencing
      <4> QED BY <4>2, <4>3, DifferenceRun
    <3> QED BY <3>1, <3>2, <3>4, <3>6
  <2> HIDE DEF u
  <2>6. /\ m \in Numerics /\ m.num \in Int /\ m.num = CounterOf(conf, v)
        /\ conf.valueType = "float" => m.type = "dbl"
        /\ conf.valueType = "uint" /\ m.num >= 0 => m.type = "ui64"
    BY <2>1, <2>2, <2>3, CountedAs DEF u
  <2>7. kept.value = m /\ kept.ts = now'
    BY <2>4, <2>5
  <2>8. ASSUME e.worker.kind = "value", past[N].value \in Numerics, past[N].ts # 0,
               conf.valueType = "float" => past[N].value.type = "dbl",
               conf.valueType = "uint" => CounterOf(conf, v) >= 0 /\ past[N].value.type = "ui64",
               conf.valueType = "text" =>
                 CounterOf(conf, v) % Grain = 0 /\ past[N].value.num % Grain = 0
        PROVE  e.worker.value.num = CounterOf(conf, v) - past[N].value.num
    <3>1. past[N] \in Memories
      BY <1>2, <1>5 DEF Pasts
    <3> DEFINE d == Difference(conf.valueType, u, now', past[N], g)
               old == past[N]
    <3>2. d = NoValue \/ /\ d \in Numerics /\ d.num = m.num - old.value.num
                         /\ conf.valueType = "uint" => d.type = "ui64"
      <4>1. /\ old \in Memories /\ old.value \in Numerics /\ old.ts # 0
            /\ conf.valueType = "float" => old.value.type = "dbl"
            /\ conf.valueType = "uint" => m.num >= 0 /\ old.value.type = "ui64"
        BY <2>6, <2>8, <3>1
      <4>2. m = ToNumeric(u, conf.valueType)
            /\ d = Difference(conf.valueType, u, now', old, g)
        OBVIOUS
      <4> HIDE DEF m, d, old
      <4>3. PICK t : t = now'
        OBVIOUS
      <4>4. PICK type : type = conf.valueType
        OBVIOUS
      <4>5. /\ t \in Int /\ type \in ValueTypes
            /\ type = "float" => old.value.type = "dbl"
            /\ type = "uint" => m.num >= 0 /\ old.value.type = "ui64"
            /\ m = ToNumeric(u, type) /\ d = Difference(type, u, t, old, g)
        BY <1>2, <2>3, <4>1, <4>2, <4>3, <4>4
      <4>6. old \in Memories /\ old.value \in Numerics /\ old.ts # 0
        BY <4>1
      <4>7. \/ d = NoValue
            \/ /\ d \in Numerics /\ d.num = m.num - old.value.num
               /\ type = "uint" => d.type = "ui64"
        <5>1. /\ g \in Int /\ u \in Numbers /\ old \in Memories /\ old.value \in Numerics
              /\ old.ts # 0 /\ t \in Int /\ type \in ValueTypes
          BY <1>2, <2>2, <4>5, <4>6
        <5>2. m = ToNumeric(u, type) /\ d = Difference(type, u, t, old, g)
          BY <4>5
        <5>3. type = "float" => old.value.type = "dbl"
          BY <4>5
        <5>4. type = "uint" => m.num >= 0 /\ old.value.type = "ui64"
          BY <4>5
        <5> HIDE DEF kept
        <5> QED BY <5>1, <5>2, <5>3, <5>4, DifferenceIs, SMTT(60)
      <4> QED BY <4>4, <4>7
    <3> HIDE DEF d
    <3>3. f[N].value = d
      BY <2>5 DEF d
    <3> HIDE DEF m
    <3>4. conf.valueType = "uint" => f[N].value.type # "dbl"
      BY <3>2, <3>3 DEF NoValue
    <3>7. conf.valueType = "text" /\ f[N].value \in Numerics => f[N].value.num % Grain = 0
      <4> SUFFICES ASSUME conf.valueType = "text", f[N].value \in Numerics
                   PROVE  f[N].value.num % Grain = 0
        OBVIOUS
      <4>1. d # NoValue
        BY <3>3 DEF Numerics, NoValue
      <4>2. d.num = m.num - past[N].value.num /\ m.num % Grain = 0 /\ m.num \in Int
        BY <2>6, <2>8, <3>2, <4>1
      <4>3. past[N].value.num \in Int /\ past[N].value.num % Grain = 0
        BY <2>8 DEF Numerics, Values, Variant
      <4> QED BY <3>3, <4>2, <4>3, GrainsDiffer
    <3>5. f[N].value \in Numerics /\ e.worker.value.num = f[N].value.num
      <4>1. f[N].value = NoValue \/ f[N].value \in Numerics
        BY <3>2, <3>3
      <4> HIDE DEF old
      <4> QED BY <1>2, <2>4, <2>5, <2>8, <3>4, <3>7, <4>1, OutcomeOfDifference
    <3>6. f[N].value # NoValue
      BY <3>5 DEF Numerics, NoValue
    <3> QED BY <2>6, <3>2, <3>3, <3>5, <3>6
  <2> HIDE DEF m, kept
  <2> QED BY <2>6, <2>7, <2>8
<1>9. now' # 0
  BY <1>2
<1> HIDE DEF kept
<1>10. /\ log' # <<>> /\ log'[Len(log')] = e /\ log'[Len(log')].in = v
       /\ past'[Len(conf'.steps)] = kept
  BY <1>2, <1>3, <1>4, <1>7 DEF kept
<1>11. IsNumber(v) =>
         /\ kept.value \in Numerics /\ kept.value.num = CounterOf(conf, v) /\ kept.ts # 0
         /\ conf.valueType = "float" => kept.value.type = "dbl"
         /\ conf.valueType = "uint" /\ CounterOf(conf, v) >= 0 => kept.value.type = "ui64"
  BY <1>8, <1>9
<1>12. ASSUME NEW k \in DOMAIN log', IsNumber(log'[k].in) PROVE CounterOf(conf, log'[k].in) \in Int
  <2>1. CASE k = L + 1
    BY <1>3, <1>7, <1>8, <1>12, <2>1
  <2>2. CASE k \in 1 .. L
    BY <1>3, <1>12, <2>2 DEF DifferenceInv
  <2> QED BY <1>3, <2>1, <2>2
<1>13. ASSUME NEW k \in DOMAIN log', k # 1, log'[k].worker.kind = "value",
              IsNumber(log'[k].in), IsNumber(log'[k - 1].in),
              conf.valueType = "uint" =>
                CounterOf(conf, log'[k].in) >= 0 /\ CounterOf(conf, log'[k - 1].in) >= 0,
              conf.valueType = "text" =>
                /\ CounterOf(conf, log'[k].in) % Grain = 0
                /\ CounterOf(conf, log'[k - 1].in) % Grain = 0
       PROVE  log'[k].worker.value.num
                = CounterOf(conf, log'[k].in) - CounterOf(conf, log'[k - 1].in)
  <2>1. CASE k = L + 1
    <3>1. L \in 1 .. L /\ k - 1 = L /\ log'[L] = log[L] /\ log # <<>>
      BY <1>3, <1>13, <2>1
    <3>2. log'[k] = e /\ e.worker.kind = "value" /\ IsNumber(v) /\ IsNumber(log[L].in)
      BY <1>3, <1>7, <1>13, <2>1, <3>1
    <3>3. /\ past[N].value \in Numerics /\ past[N].value.num = CounterOf(conf, log[L].in)
          /\ past[N].ts # 0
          /\ conf.valueType = "float" => past[N].value.type = "dbl"
          /\ conf.valueType = "uint" /\ CounterOf(conf, log[L].in) >= 0 =>
               past[N].value.type = "ui64"
      BY <1>0, <1>4, <3>1, <3>2 DEF DifferenceInv
    <3>4. conf.valueType = "uint" => CounterOf(conf, v) >= 0 /\ CounterOf(conf, log[L].in) >= 0
      BY <1>7, <1>13, <3>1, <3>2
    <3>6. conf.valueType = "text" =>
            CounterOf(conf, v) % Grain = 0 /\ CounterOf(conf, log[L].in) % Grain = 0
      BY <1>7, <1>13, <3>1, <3>2
    <3>5. e.worker.value.num = CounterOf(conf, v) - past[N].value.num
      BY <1>8, <3>2, <3>3, <3>4, <3>6
    <3> QED BY <1>7, <3>1, <3>2, <3>3, <3>5
  <2>2. CASE k \in 1 .. L
    <3>1. k \in DOMAIN log /\ k - 1 \in DOMAIN log /\ log'[k] = log[k] /\ log'[k - 1] = log[k - 1]
      BY <1>3, <1>13, <2>2
    <3>2. Counted(k) /\ Counted(k - 1) /\ log[k].worker.kind = "value"
      BY <1>13, <3>1 DEF Counted
    <3> QED BY <1>13, <3>1, <3>2 DEF DifferenceInv
  <2> QED BY <1>3, <2>1, <2>2
<1>14. \A k : Counted(k)' <=>
         /\ IsNumber(log'[k].in)
         /\ conf.valueType = "uint" => CounterOf(conf, log'[k].in) >= 0
         /\ conf.valueType = "text" => CounterOf(conf, log'[k].in) % Grain = 0
  BY <1>2 DEF Counted
<1>15. \A k : Counted(k - 1)' <=>
         /\ IsNumber(log'[k - 1].in)
         /\ conf.valueType = "uint" => CounterOf(conf, log'[k - 1].in) >= 0
         /\ conf.valueType = "text" => CounterOf(conf, log'[k - 1].in) % Grain = 0
  BY <1>2 DEF Counted
<1> QED BY <1>2, <1>10, <1>11, <1>12, <1>13, <1>14, <1>15 DEF DifferenceInv

LEMMA DifferenceStays == TypeInv /\ DifferenceInv /\ [Next]_vars => DifferenceInv'
<1> SUFFICES ASSUME TypeInv, DifferenceInv, [Next]_vars PROVE DifferenceInv'
  OBVIOUS
<1>1. ASSUME NEW v \in Inputs, NEW gap \in Gaps, NEW g \in Garbage, Value(v, gap, g)
      PROVE  DifferenceInv'
  BY <1>1, DifferenceValue
<1>2. ASSUME NEW c \in Configurations, ChangeSteps(c)
      PROVE  DifferenceInv'
  <2>1. log' = <<>>
    BY <1>2 DEF ChangeSteps
  <2>2. DOMAIN log' = {}
    BY <2>1
  <2> QED BY <2>1, <2>2 DEF DifferenceInv
<1>3. CASE UNCHANGED vars
  <2>1. conf' = conf /\ past' = past /\ log' = log
    BY <1>3 DEF vars
  <2> QED BY <2>1 DEF DifferenceInv, Counted
<1> QED BY <1>1, <1>2, <1>3 DEF Next

LEMMA DifferenceInit == Init => DifferenceInv
<1> SUFFICES ASSUME Init PROVE DifferenceInv
  OBVIOUS
<1>1. log = <<>>
  BY DEF Init
<1>2. DOMAIN log = {}
  BY <1>1
<1> QED BY <1>1, <1>2 DEF DifferenceInv

\* Differences of neighbours add up over any stretch.
LEMMA DifferenceHolds == TypeInv /\ DifferenceInv => DifferencesAddUp
<1> SUFFICES ASSUME TypeInv, DifferenceInv,
                    Steps # <<>>, Steps[Len(Steps)].type = "delta",
                    \A s \in 1 .. Len(Steps) - 1 : Steps[s].type = "multiplier",
                    NEW i \in DOMAIN log, NEW j \in DOMAIN log, i < j,
                    \A k \in i .. j : /\ IsNumber(log[k].in)
                                      /\ conf.valueType = "uint" => Counter(log[k].in) >= 0
                                      /\ conf.valueType = "text" => Counter(log[k].in) % Grain = 0,
                    \A k \in i + 1 .. j : log[k].worker.kind = "value"
             PROVE  Sum(i, j) = Counter(log[j].in) - Counter(log[i].in)
  BY DEF DifferencesAddUp
<1> DEFINE C(k) == CounterOf(conf, log[k].in)
           D(k) == log[k].worker.value.num
           Def(s) == s = [k \in i .. j |->
                            IF k = i THEN 0 ELSE s[k - 1] + log[k].worker.value.num]
           sum == CHOOSE s : Def(s)
<1>1. /\ Len(log) \in Nat /\ DOMAIN log = 1 .. Len(log) /\ i \in Nat /\ j \in Nat
      /\ \A k \in 1 .. Len(log) : log[k] \in Entries(conf)
  BY DEF TypeInv
<1>2. Differs(conf)
  <2>1. conf.steps \in Seq(Operations)
    BY PreprocessingAssumption DEF TypeInv
  <2>2. Len(conf.steps) # 0
    BY <2>1 DEF Steps
  <2> QED BY <2>2 DEF Differs, Steps
<1>3. \A k \in i .. j : k \in DOMAIN log /\ Counted(k) /\ C(k) \in Int
  <2> SUFFICES ASSUME NEW k \in i .. j PROVE k \in DOMAIN log /\ Counted(k) /\ C(k) \in Int
    OBVIOUS
  <2>1. k \in DOMAIN log
    BY <1>1
  <2>2. IsNumber(log[k].in) /\ Counted(k)
    BY CounterIsOf DEF Counted
  <2> QED BY <1>2, <2>1, <2>2 DEF DifferenceInv
<1>4. \A k \in i + 1 .. j : D(k) = C(k) - C(k - 1)
  <2> SUFFICES ASSUME NEW k \in i + 1 .. j PROVE D(k) = C(k) - C(k - 1)
    OBVIOUS
  <2>1. k \in i .. j /\ k - 1 \in i .. j /\ k # 1
    BY <1>1
  <2>2. k \in DOMAIN log /\ Counted(k) /\ Counted(k - 1) /\ log[k].worker.kind = "value"
    BY <1>3, <2>1
  <2> QED BY <1>2, <2>1, <2>2 DEF DifferenceInv
<1>5. Def([k \in i .. j |-> C(k) - C(i)])
  <2> DEFINE w == [k \in i .. j |-> C(k) - C(i)]
  <2>1. \A k \in i .. j : w[k] = IF k = i THEN 0 ELSE w[k - 1] + D(k)
    <3> SUFFICES ASSUME NEW k \in i .. j PROVE w[k] = IF k = i THEN 0 ELSE w[k - 1] + D(k)
      OBVIOUS
    <3>1. i \in i .. j /\ C(i) \in Int /\ C(k) \in Int
      BY <1>1, <1>3
    <3>2. CASE k = i
      <4>1. w[k] = C(i) - C(i)
        BY <3>2
      <4> HIDE DEF C, w
      <4> QED BY <3>1, <3>2, <4>1
    <3>3. CASE k # i
      <4>1. k - 1 \in i .. j /\ k \in i + 1 .. j
        BY <1>1, <3>3
      <4>2. w[k] = C(k) - C(i) /\ w[k - 1] = C(k - 1) - C(i)
        BY <4>1
      <4>3. C(k - 1) \in Int /\ D(k) = C(k) - C(k - 1)
        BY <1>3, <1>4, <4>1
      <4> HIDE DEF C, D, w
      <4> QED BY <3>1, <3>3, <4>2, <4>3
    <3> QED BY <3>2, <3>3
  <2> HIDE DEF C
  <2> QED BY <2>1
<1>6. Def(sum)
  <2> HIDE DEF Def
  <2> QED BY <1>5
<1>7. Sum(i, j) = sum[j]
  BY DEF Sum
<1> HIDE DEF sum
<1>8. \A k \in i .. j : sum[k] = IF k = i THEN 0 ELSE sum[k - 1] + D(k)
  BY <1>6
<1> HIDE DEF C, D
<1> DEFINE T == {k \in i .. j : sum[k] = C(k) - C(i)}
<1>9. i \in T
  <2>1. i \in i .. j
    BY <1>1
  <2>2. C(i) \in Int /\ sum[i] = 0
    BY <1>3, <1>8, <2>1
  <2> QED BY <2>1, <2>2
<1>10. \A k \in i .. j - 1 : k \in T => k + 1 \in T
  <2> SUFFICES ASSUME NEW k \in i .. j - 1, sum[k] = C(k) - C(i)
               PROVE  k + 1 \in i .. j /\ sum[k + 1] = C(k + 1) - C(i)
    BY <1>1
  <2>1. k + 1 \in i .. j /\ k \in i .. j /\ k + 1 \in i + 1 .. j /\ k + 1 # i /\ (k + 1) - 1 = k
        /\ i \in i .. j
    BY <1>1
  <2>2. sum[k + 1] = sum[k] + D(k + 1) /\ D(k + 1) = C(k + 1) - C(k)
    BY <1>4, <1>8, <2>1
  <2>3. C(k) \in Int /\ C(k + 1) \in Int /\ C(i) \in Int
    BY <1>3, <2>1
  <2> QED BY <2>1, <2>2, <2>3
<1> HIDE DEF T
<1>11. \A k \in i .. j : k \in T
  BY <1>1, <1>9, <1>10, Upwards
<1>12. sum[j] = C(j) - C(i)
  <2>1. j \in i .. j
    BY <1>1
  <2> QED BY <1>11, <2>1 DEF T
<1> QED BY <1>7, <1>12, CounterIsOf DEF C

-----------------------------------------------------------------------------
(* The program beside the worker: values and steps                         *)

\* What a number is between the steps of an item, if fractions are left to doubles.
NumberType(c) == IF c.valueType = "float" THEN "dbl" ELSE "ui64"

\* A number that a text holds: Plain, of any configuration.
Held(c, n) == IF c.valueType = "float" THEN n % Grain = 0 ELSE IsUint64(n)

\* A value of the worker and the text the program has in its place, the same number or word.
Same(c, v, x) ==
  /\ v \in Values /\ x \in Texts /\ v.num = x.num /\ v.word = x.word
  /\ v.type \in {"str", NumberType(c)}
  /\ Held(c, v.num) /\ x # Blank

\* A value of the worker and what the program prints for it, perhaps with less digits.
Shown(c, v, x) ==
  /\ v \in Values /\ v.type \in {"str", NumberType(c)}
  /\ x = Convert(v, "str") /\ x # Blank
  /\ v.type # "dbl" => Held(c, v.num)

\* After the k-th step both have the same, unless it is the last.
Carried(c, k, v, x) == Shown(c, v, x) /\ (k < Len(c.steps) => Same(c, v, x))

LEMMA SameText ==
  ASSUME NEW c \in Configurations, NEW v \in Values, v.type \in {"str", NumberType(c)},
         Held(c, v.num), NEW x, x = Convert(v, "str"), x # Blank
  PROVE  Same(c, v, x)
<1>1. x \in Values /\ x.type = "str" /\ x.word = v.word
  <2>1. Convertible(v, "str")
    BY DEF Convertible, NumberType
  <2> QED BY <2>1, ConvertIs
<1>2. x \in Texts
  BY <1>1 DEF Texts, Values, Variant
<1>3. v.type = "dbl" => v.num % Grain = 0
  BY DEF Held, NumberType
<1>4. x.num = v.num
  BY <1>3, ConvertIs
<1> QED BY <1>1, <1>2, <1>4 DEF Same

\* They count as the same number.
LEMMA SameIs ==
  ASSUME NEW c \in Configurations, NEW v, NEW x, Same(c, v, x)
  PROVE  /\ v.type # "none" /\ x.type = "str" /\ x \in Values
         /\ Convert(v, "str") = x /\ Convert(x, "str") = x /\ Same(c, x, x)
         /\ IsNumber(v) <=> IsNumber(x)
         /\ IsNumber(v) => /\ ToNumeric(v, c.valueType) = ToNumeric(x, c.valueType)
                           /\ ToNumeric(v, c.valueType) \in Numerics
                           /\ ToNumeric(v, c.valueType).type = NumberType(c)
                           /\ ToNumeric(v, c.valueType).num = v.num
<1>1. /\ v \in Values /\ x \in Texts /\ v.num = x.num /\ v.word = x.word
      /\ v.type \in {"str", NumberType(c)} /\ (c.valueType # "float" => IsUint64(v.num))
      /\ Held(c, v.num) /\ x # Blank /\ (v.type = "dbl" => v.num % Grain = 0)
  BY DEF Same, NumberType, Held
<1>2. v.type # "none" /\ v.type # "bin" /\ x.type = "str" /\ x \in Values
  BY <1>1, SomeValues DEF Texts, NumberType
<1>3. v = [type |-> v.type, num |-> v.num, word |-> v.word] /\ v.num \in Int /\ v.word \in Words
      /\ x = [type |-> "str", num |-> x.num, word |-> x.word]
  BY <1>1 DEF Values, Variant, Texts
<1>4. Convert(v, "str") = [v EXCEPT !.type = "str"] /\ Convert(x, "str") = [x EXCEPT !.type = "str"]
  <2>1. Convertible(v, "str") /\ Convertible(x, "str")
    BY <1>2 DEF Convertible
  <2>2. v.type = "dbl" => Convert(v, "str") = [v EXCEPT !.type = "str"]
    <3> SUFFICES ASSUME v.type = "dbl" PROVE Convert(v, "str") = [v EXCEPT !.type = "str"]
      OBVIOUS
    <3>1. Printed(v.num) = v.num
      BY <1>1, <1>3, PrintedIs
    <3>2. v.word = NoWord
      BY <1>1 DEF Values
    <3>3. [v EXCEPT !.type = "str"] = [type |-> "str", num |-> v.num, word |-> v.word]
      BY <1>3
    <3> QED BY <2>1, <3>1, <3>2, <3>3 DEF Convert, Text
  <2>3. v.type # "dbl" => Convert(v, "str") = [v EXCEPT !.type = "str"]
    BY <2>1 DEF Convert
  <2>4. Convert(x, "str") = [x EXCEPT !.type = "str"]
    BY <1>2, <2>1 DEF Convert
  <2> QED BY <2>2, <2>3, <2>4
<1>5. [v EXCEPT !.type = "str"] = x /\ [x EXCEPT !.type = "str"] = x
  BY <1>1, <1>3
<1>6. Same(c, x, x)
  BY <1>1, <1>2, <1>3 DEF Same
<1>7. IsNumber(v) <=> IsNumber(x)
  BY <1>1, <1>2 DEF IsNumber
<1>8. ASSUME IsNumber(v)
      PROVE  /\ ToNumeric(v, c.valueType) = ToNumeric(x, c.valueType)
             /\ ToNumeric(v, c.valueType) \in Numerics
             /\ ToNumeric(v, c.valueType).type = NumberType(c)
             /\ ToNumeric(v, c.valueType).num = v.num
  <2>1. c.valueType \in ValueTypes
    BY ConfigurationIs
  <2>2. CASE c.valueType = "float"
    <3>1. ToNumeric(v, "float") = Dbl(v.num) /\ ToNumeric(x, "float") = Dbl(x.num)
      BY <1>1, <1>2, <1>7, <1>8, <2>1, <2>2, ToNumericIs
    <3> QED BY <1>1, <1>3, <2>2, <3>1, SomeValues DEF Dbl, NumberType
  <2>3. CASE c.valueType # "float"
    <3>1. IsUint64(v.num) /\ Cut(v.num) = v.num /\ Ui64(v.num) \in Numerics
      BY <1>1, <1>3, <2>3, CutIs, SomeValues
    <3>2. v.word = NoWord
      BY <1>8 DEF IsNumber
    <3>3. SetNumeric(x) = Ui64(v.num) /\ SetNumeric(v) = Ui64(v.num)
      BY <1>1, <3>1 DEF SetNumeric
    <3>4. v.type = "ui64" => v = Ui64(v.num)
      BY <1>3, <3>2 DEF Ui64
    <3>5. Convert(Ui64(v.num), VariantOf(c.valueType)) = Ui64(v.num) \/ c.valueType = "text"
      BY <2>1, <2>3, <3>1 DEF Convert, Convertible, VariantOf, ValueTypes, Ui64
    <3>6. ToNumeric(v, c.valueType) = Ui64(v.num) /\ ToNumeric(x, c.valueType) = Ui64(v.num)
      BY <1>1, <1>2, <2>3, <3>3, <3>4, <3>5 DEF ToNumeric, NumberType
    <3> QED BY <2>3, <3>1, <3>6 DEF Ui64, NumberType
  <2> QED BY <2>2, <2>3
<1> QED BY <1>2, <1>4, <1>5, <1>6, <1>7, <1>8

\* Values that are the same are shown, and those shown whose digits a text holds are the same.
LEMMA ShownIs ==
  ASSUME NEW c \in Configurations, NEW v, NEW x
  PROVE  /\ Same(c, v, x) => \A k : Carried(c, k, v, x)
         /\ Shown(c, v, x) /\ Held(c, v.num) => Same(c, v, x)
<1>1. ASSUME Same(c, v, x) PROVE Shown(c, v, x)
  BY <1>1, SameIs DEF Same, Shown
<1>2. ASSUME Shown(c, v, x), Held(c, v.num) PROVE Same(c, v, x)
  BY <1>2, SameText DEF Shown
<1> QED BY <1>1, <1>2 DEF Carried

\* A number the worker makes of a type of its own.
LEMMA NumberIsCarried ==
  ASSUME NEW c \in Configurations, NEW k, NEW v \in Numerics, v.type = NumberType(c),
         k < Len(c.steps) /\ c.valueType = "float" => v.num % Grain = 0, NEW x, x = Convert(v, "str")
  PROVE  v.type # "none" /\ Carried(c, k, v, x)
<1>1. /\ v \in Values /\ v.word = NoWord /\ v.type # "none"
      /\ c.valueType # "float" => Held(c, v.num)
      /\ k < Len(c.steps) => Held(c, v.num)
  BY DEF Numerics, Values, NumberType, Held
<1>2. x # Blank
  <2>1. x.word = NoWord
    BY <1>1, ConvertIs
  <2>2. Blank.word # NoWord
    BY DEF Blank, Word, NoWord
  <2> QED BY <2>1, <2>2
<1>3. v.type # "dbl" => Held(c, v.num)
  BY <1>1 DEF NumberType, Held, Values
<1>4. Shown(c, v, x)
  BY <1>1, <1>2, <1>3 DEF Shown
<1> QED BY <1>1, <1>4, ShownIs DEF Carried

\* What the worker makes of a value converts, as it is printed, to what the text converts to.
LEMMA ShownConverted ==
  ASSUME NEW c \in Configurations, NEW v, NEW x, Shown(c, v, x), NEW type, type = VariantOf(c.valueType),
         Convertible(v, type)
  PROVE  Convert(x, type) = Convert(Convert(Convert(v, type), "str"), type)
<1>1. /\ v \in Values /\ v.type \in {"str", NumberType(c)} /\ x = Convert(v, "str")
      /\ v.type # "dbl" => Held(c, v.num)
  BY DEF Shown
<1>2. c.valueType \in ValueTypes
  BY ConfigurationIs
<1>3. v = [type |-> v.type, num |-> v.num, word |-> v.word] /\ v.num \in Int
  BY <1>1 DEF Values, Variant
<1>4. x \in Values /\ x.type = "str" /\ Convertible(x, "str") /\ Convert(x, "str") = x
  <2>1. Convertible(v, "str") /\ v.type \notin {"none", "bin"}
    BY <1>1 DEF Convertible, NumberType
  <2>2. x \in Values /\ x.type = "str"
    BY <1>1, <2>1, ConvertIs
  <2>3. x = [type |-> "str", num |-> x.num, word |-> x.word]
    BY <2>2 DEF Values, Variant
  <2>4. [x EXCEPT !.type = "str"] = x
    BY <2>3
  <2> QED BY <2>2, <2>4 DEF Convert, Convertible
<1>5. CASE type = "str"
  BY <1>1, <1>4, <1>5
<1>6. CASE type = "dbl"
  <2>1. c.valueType = "float"
    BY <1>2, <1>6 DEF VariantOf
  <2>2. v.word = NoWord /\ Convert(v, "dbl") = Dbl(v.num)
    BY <1>6 DEF Convertible, Convert, IsNumber
  <2>3. x = Text(Printed(v.num))
    <3>1. CASE v.type = "dbl"
      BY <1>1, <2>2, <3>1 DEF Convert, Convertible
    <3>2. CASE v.type = "str"
      <4>1. Printed(v.num) = v.num
        BY <1>1, <1>3, <2>1, <3>2, PrintedIs DEF Held
      <4>2. v = Text(v.num)
        BY <1>3, <2>2, <3>2 DEF Text
      <4>3. x = [v EXCEPT !.type = "str"]
        BY <1>1, <3>2 DEF Convert, Convertible
      <4>4. [v EXCEPT !.type = "str"] = v
        BY <1>3, <3>2
      <4> QED BY <4>1, <4>2, <4>3, <4>4
    <3> QED BY <1>1, <2>1, <3>1, <3>2 DEF NumberType
  <2>4. Convert(Dbl(v.num), "str") = Text(Printed(v.num))
    <3>1. Dbl(v.num).type = "dbl" /\ Dbl(v.num).num = v.num
      BY DEF Dbl
    <3> QED BY <3>1 DEF Convert, Convertible
  <2> QED BY <1>6, <2>2, <2>3, <2>4
<1>7. CASE type = "ui64"
  <2>1. c.valueType # "float" /\ v.type \in {"str", "ui64"} /\ IsUint64(v.num)
    BY <1>1, <1>2, <1>7 DEF VariantOf, NumberType, Held
  <2>2. v.word = NoWord
    BY <1>1, <1>7, <2>1 DEF Convertible, IsNumber, Values
  <2>3. Cut(v.num) = v.num
    BY <1>3, <2>1, CutIs
  <2>4. Convert(v, "ui64") = Ui64(v.num)
    BY <1>7, <2>1, <2>3 DEF Convert
  <2>5. x = Text(v.num)
    <3>1. x = [v EXCEPT !.type = "str"]
      BY <1>1, <2>1 DEF Convert, Convertible
    <3>2. [v EXCEPT !.type = "str"] = [type |-> "str", num |-> v.num, word |-> v.word]
      BY <1>3
    <3> QED BY <2>2, <3>1, <3>2 DEF Text
  <2>6. Convert(Ui64(v.num), "str") = Text(v.num)
    <3>1. Ui64(v.num) = [type |-> "ui64", num |-> v.num, word |-> NoWord]
      BY DEF Ui64
    <3>2. [Ui64(v.num) EXCEPT !.type = "str"] = [type |-> "str", num |-> v.num, word |-> NoWord]
      BY <3>1
    <3>3. Ui64(v.num).type = "ui64"
      BY <3>1
    <3> QED BY <3>2, <3>3 DEF Convert, Convertible, Text
  <2> QED BY <1>7, <2>4, <2>5, <2>6
<1> QED BY <1>2, <1>5, <1>6, <1>7 DEF VariantOf, ValueTypes

\* Whole numbers are equal or further apart than what counts as equal.
LEMMA WholeApart ==
  ASSUME NEW m \in Int, NEW n \in Int, m % Unit = 0, n % Unit = 0
  PROVE  m = n <=> m - n \in -Grain .. Grain
<1>1. Unit \in Nat \ {0} /\ Grain \in Nat \ {0} /\ Grain < Unit
  BY VariantAssumption
<1>2. PICK a \in Int, b \in Int : m = Unit * a /\ n = Unit * b
  BY <1>1, Multiples
<1>3. m - n = Unit * (a - b)
  BY <1>1, <1>2
<1>4. PICK d \in Int : d = a - b /\ m - n = Unit * d
  BY <1>3
<1>5. d >= 1 => Unit * d >= Unit
  BY <1>1
<1>6. d <= -1 => Unit * d <= -Unit
  BY <1>1
<1>7. d = 0 => Unit * d = 0
  BY <1>1
<1> QED BY <1>1, <1>4, <1>5, <1>6, <1>7

LEMMA SameEqual ==
  ASSUME NEW c \in Configurations, NEW v, NEW x, Same(c, v, x), NEW u, NEW y, Same(c, u, y)
  PROVE  Equal(v, u) <=> Equal(x, y)
<1>1. /\ v.num = x.num /\ v.word = x.word /\ u.num = y.num /\ u.word = y.word
      /\ v.type # "bin" /\ u.type # "bin" /\ v.num \in Int /\ u.num \in Int
  BY DEF Same, NumberType, Values, Variant
<1>2. /\ v.type # "none" /\ u.type # "none" /\ x.type = "str" /\ y.type = "str"
      /\ (IsNumber(v) <=> IsNumber(x)) /\ (IsNumber(u) <=> IsNumber(y))
  BY SameIs
<1>3. Equal(x, y) <=> IF IsNumber(x) /\ IsNumber(y) THEN x.num - y.num \in -Grain .. Grain
                      ELSE x.word = y.word
  BY <1>2 DEF Equal
<1>4. CASE {v.type, u.type} = {"ui64"}
  <2>1. v.type = "ui64" /\ u.type = "ui64"
    BY <1>4
  <2>2. v.word = NoWord /\ u.word = NoWord /\ IsUint64(v.num) /\ IsUint64(u.num)
    BY <2>1 DEF Same, Values
  <2>3. IsNumber(v) /\ IsNumber(u)
    BY <2>1, <2>2 DEF IsNumber
  <2>4. Equal(v, u) <=> v.num = u.num
    BY <2>1 DEF Equal
  <2>5. v.num = u.num <=> v.num - u.num \in -Grain .. Grain
    BY <1>1, <2>2, WholeApart DEF IsUint64
  <2> QED BY <1>1, <1>2, <1>3, <2>3, <2>4, <2>5
<1>5. CASE {v.type, u.type} # {"ui64"}
  BY <1>1, <1>2, <1>3, <1>5 DEF Equal
<1> QED BY <1>4, <1>5

\* What the worker and the program remember of a step, so that it does the same in both.
Alike(c, op, h, mem) ==
  /\ op.type \in Changes =>
       \/ mem.value = NoValue
       \/ /\ Same(c, h.value, h.value) /\ IsNumber(h.value)
          /\ mem.value = ToNumeric(h.value, c.valueType) /\ mem.ts = h.ts
  /\ op.type = "throttle" \/ (op.type = "throttle_timed" /\ op.param >= 0) =>
       mem.ts = h.ts /\ Same(c, mem.value, h.value)

\* What Whole and NeverBlank ask of the k-th step.
WholeStep(c, k) ==
  LET op == c.steps[k]
  IN  /\ Held(c, op.alt.num) /\ op.alt # Blank
      /\ op.type = "extract" => Held(c, op.param)
      /\ k < Len(c.steps) /\ c.valueType = "float" =>
           op.type # "speed" /\ (op.type = "multiplier" => op.param % Unit = 0)

\* The same step, with the same value and history, in the worker and in the program.
Beside(c, k, v, x, mem, h) ==
  /\ Same(c, v, x) /\ mem \in Memories /\ Fits(c.steps[k], mem) /\ h \in Kept
  /\ WholeStep(c, k)
  /\ NeedsHistory(c.steps[k]) =>
       h.value \notin {NoValue, Blank} /\ h.ts \in Nat \ {0} /\ Alike(c, c.steps[k], h, mem)

\* Results that both fail, or are the same values where the worker goes on.
Agree(c, k, a, b) ==
  /\ a.ok = b.ok
  /\ a.ok /\ a.value.type # "none" =>
       b.value.type # "none" /\ Carried(c, k, a.value, Convert(b.value, "str"))

\* A multiplier that is whole makes no more digits.
LEMMA WholeProduct ==
  ASSUME NEW m \in Int, NEW w \in Int, m % Grain = 0, w % Unit = 0
  PROVE  ((m * w) \div Unit) % Grain = 0
<1>1. Unit \in Nat \ {0} /\ Grain \in Nat \ {0}
  BY VariantAssumption
<1>2. PICK a \in Int, b \in Int : m = Grain * a /\ w = Unit * b
  BY <1>1, Multiples
<1>3. PICK d \in Int : d = a * b
  BY <1>2
<1>4. m * w = Unit * (Grain * d)
  BY <1>1, <1>2, <1>3
<1>5. (m * w) \div Unit = Grain * d
  <2>1. PICK e \in Int : e = Grain * d
    BY <1>1, <1>3
  <2>2. (Unit * e) \div Unit = e
    BY <1>1
  <2> QED BY <1>4, <2>1, <2>2
<1>6. PICK e \in Int : e = Grain * d
  BY <1>1, <1>3
<1>7. e % Grain = 0
  BY <1>1, <1>3, <1>6, Multiples
<1> QED BY <1>5, <1>6, <1>7

LEMMA MultipliersAgree ==
  ASSUME NEW c \in Configurations, NEW k \in 1 .. Len(c.steps), NEW v, NEW x, NEW mem, NEW h,
         Beside(c, k, v, x, mem, h), NEW op, op = c.steps[k], op.type = "multiplier"
  PROVE  Agree(c, k, Multiplier(c.valueType, v, mem, op), Multiplier(c.valueType, x, h, op))
<1> DEFINE a == Multiplier(c.valueType, v, mem, op)
           b == Multiplier(c.valueType, x, h, op)
           num == ToNumeric(v, c.valueType)
<1>1. /\ Same(c, v, x) /\ v \in Values /\ mem \in Memories /\ op \in Operations
      /\ c.valueType \in ValueTypes /\ WholeStep(c, k) /\ Held(c, v.num) /\ op.param \in Int
  BY ConfigurationIs DEF Beside, Same, Operations
<1>2. /\ IsNumber(v) <=> IsNumber(x)
      /\ IsNumber(v) => /\ num = ToNumeric(x, c.valueType) /\ num \in Numerics
                        /\ num.type = NumberType(c) /\ num.num = v.num
  BY <1>1, SameIs
<1> HIDE DEF num
<1>3. CASE ~IsNumber(v)
  <2>1. a.ok = FALSE /\ b.ok = FALSE
    BY <1>2, <1>3 DEF Multiplier, Fail
  <2> QED BY <2>1 DEF Agree
<1>4. CASE IsNumber(v)
  <2>1. a.ok = TRUE /\ b.ok = TRUE /\ a.value = b.value /\ a.value.type = num.type
    <3>1. num = ToNumeric(x, c.valueType) /\ IsNumber(x) /\ num.type \in {"ui64", "dbl"}
      BY <1>2, <1>4 DEF Numerics
    <3> QED BY <1>4, <3>1 DEF Multiplier, Ok, Dbl, Ui64, num
  <2>2. a.value \in Numerics
    BY <1>1, <1>4, MultiplierIs
  <2>4. ASSUME k < Len(c.steps), c.valueType = "float"
        PROVE  a.value.num % Grain = 0
    <3>1. a.value = Dbl((num.num * op.param) \div Unit)
      BY <1>2, <1>4, <2>4 DEF Multiplier, Ok, NumberType, num
    <3>2. op.param % Unit = 0 /\ num.num % Grain = 0 /\ num.num \in Int
      BY <1>1, <1>2, <1>4, <2>4 DEF WholeStep, Held, Values, Variant
    <3>3. ((num.num * op.param) \div Unit) % Grain = 0
      BY <1>1, <3>2, WholeProduct
    <3> QED BY <3>1, <3>3 DEF Dbl
  <2> HIDE DEF a, b
  <2>3. a.value.type = NumberType(c)
    BY <1>2, <1>4, <2>1
  <2>5. Carried(c, k, a.value, Convert(a.value, "str"))
    BY <2>2, <2>3, <2>4, NumberIsCarried
  <2>6. a.value.type # "none"
    BY <2>3 DEF NumberType
  <2>7. Agree(c, k, a, b)
    BY <2>1, <2>5, <2>6 DEF Agree
  <2> QED BY <2>7 DEF a, b
<1> QED BY <1>3, <1>4

\* A number in the place of the one before.
LEMMA OldIs ==
  ASSUME NEW c \in Configurations, NEW h \in Kept, Same(c, h.value, h.value), IsNumber(h.value),
         NEW mem \in Memories, mem.value = ToNumeric(h.value, c.valueType)
  PROVE  LET type == NumberType(c)
         IN  /\ Convertible(mem.value, type) /\ Convert(mem.value, type).num = h.value.num
             /\ Convertible(h.value, type) /\ Convert(h.value, type).num = h.value.num
             /\ mem.value.type = type /\ h.value.type = "str"
<1> DEFINE u == mem.value
<1>1. /\ u \in Numerics /\ u.type = NumberType(c) /\ u.num = h.value.num /\ h.value.type = "str"
  BY SameIs
<1>2. /\ h.value.num \in Int /\ h.value.word = NoWord
      /\ c.valueType # "float" => IsUint64(h.value.num)
  BY DEF Same, IsNumber, Values, Variant, Held
<1>3. u.word = NoWord
  BY <1>1 DEF Numerics, Values
<1>4. CASE c.valueType = "float"
  BY <1>1, <1>2, <1>3, <1>4 DEF NumberType, Convertible, Convert, IsNumber, Dbl
<1>5. CASE c.valueType # "float"
  <2>1. Cut(h.value.num) = h.value.num
    BY <1>2, <1>5, CutIs
  <2> QED BY <1>1, <1>2, <1>5, <2>1 DEF NumberType, Convertible, Convert, IsNumber, Ui64
<1> QED BY <1>4, <1>5

LEMMA ChangesAgree ==
  ASSUME NEW c \in Configurations, NEW k \in 1 .. Len(c.steps), NEW v, NEW x, NEW mem, NEW h,
         Beside(c, k, v, x, mem, h), NEW op, op = c.steps[k], op.type \in Changes,
         NEW ts \in Int, NEW speed \in BOOLEAN, speed <=> op.type = "speed", NEW g \in Int,
         NEW a, a = Delta(c.valueType, v, ts, mem, speed, g), Sound(op, mem, a),
         NEW b, b = Delta(c.valueType, x, ts, h, speed, g)
  PROVE  Agree(c, k, a, b)
<1> DEFINE num == ToNumeric(v, c.valueType)
<1>1. /\ Same(c, v, x) /\ v \in Values /\ mem \in Memories /\ op \in Operations
      /\ c.valueType \in ValueTypes /\ h \in Kept /\ Alike(c, op, h, mem) /\ Fits(op, mem)
      /\ WholeStep(c, k) /\ Held(c, v.num)
  BY ConfigurationIs DEF Beside, Same, NeedsHistory, Changes
<1>2. /\ IsNumber(v) <=> IsNumber(x)
      /\ IsNumber(v) => /\ num = ToNumeric(x, c.valueType) /\ num \in Numerics
                        /\ num.type = NumberType(c) /\ num.num = v.num
  BY <1>1, SameIs
<1>3. CASE ~IsNumber(v)
  <2>1. a.ok = FALSE /\ b.ok = FALSE
    BY <1>2, <1>3 DEF Delta, Fail
  <2> QED BY <2>1 DEF Agree
<1>4. IsNumber(v) /\ mem.value = NoValue => a.value = NoValue
  <2> SUFFICES ASSUME IsNumber(v), mem.value = NoValue PROVE a.value = NoValue
    OBVIOUS
  <2>1. mem.value.type = "none"
    BY DEF NoValue
  <2>2. a = Ok(NoValue, [value |-> num, ts |-> ts])
    BY <2>1 DEF Delta
  <2> QED BY <2>2 DEF Ok
<1> HIDE DEF num
<1>5. CASE IsNumber(v) /\ mem.value = NoValue
  <2>1. a.ok = TRUE /\ b.ok = TRUE
    BY <1>2, <1>5 DEF Delta, Ok
  <2>2. a.value.type = "none"
    BY <1>4, <1>5 DEF NoValue
  <2> QED BY <2>1, <2>2 DEF Agree
<1>6. CASE IsNumber(v) /\ mem.value # NoValue
  <2>1. /\ Same(c, h.value, h.value) /\ IsNumber(h.value)
        /\ mem.value = ToNumeric(h.value, c.valueType) /\ mem.ts = h.ts
    BY <1>1, <1>6 DEF Alike
  <2> DEFINE type == NumberType(c)
             change == Change(Convert(num, type), h.value.num, ts, mem, speed)
  <2>2. /\ Convertible(mem.value, type) /\ Convert(mem.value, type).num = h.value.num
        /\ Convertible(h.value, type) /\ Convert(h.value, type).num = h.value.num
        /\ mem.value.type = type /\ h.value.type = "str"
    BY <1>1, <2>1, OldIs
  <2>3. Change(Convert(num, type), h.value.num, ts, h, speed) = change
    BY <2>1 DEF Change
  <2>4. type \in {"ui64", "dbl"} /\ num.type = type /\ num = ToNumeric(x, c.valueType) /\ IsNumber(x)
    BY <1>2, <1>6 DEF NumberType
  <2> HIDE DEF type
  <2>5. a = Ok(change, [value |-> num, ts |-> ts])
    BY <1>6, <2>2, <2>4 DEF Delta, num
  <2>6. b = Ok(change, [value |-> num, ts |-> ts])
    BY <1>6, <2>2, <2>3, <2>4 DEF Delta, num
  <2>7. a.ok = TRUE /\ b.ok = TRUE /\ a.value = b.value /\ a.value = change
    BY <2>5, <2>6 DEF Ok
  <2>8. a.value \in Values
    BY <1>1, <1>4 DEF Sound
  <2>9. change.type \in {"none", type}
    <3>1. Convert(num, type).type = type
      <4>1. Convertible(num, type) /\ num \in Values
        BY <1>2, <1>6, <2>4 DEF Convertible, IsNumber, Numerics, Values
      <4> QED BY <2>4, <4>1, ConvertIs
    <3> DEFINE m == Convert(num, type)
    <3>2. m \in Values
      <4>1. num \in Values
        BY <1>2, <1>6 DEF Numerics
      <4> QED BY <2>4, <4>1, ConvertIs
    <3>5. m.type = type
      BY <3>1
    <3> HIDE DEF m
    <3>3. ASSUME NEW d, change = [m EXCEPT !.num = d] PROVE change.type = type
      <4>1. m = [type |-> m.type, num |-> m.num, word |-> m.word]
        BY <3>2 DEF Values, Variant
      <4>2. [m EXCEPT !.num = d] = [type |-> m.type, num |-> d, word |-> m.word]
        BY <4>1
      <4> HIDE DEF change
      <4>3. change = [type |-> m.type, num |-> d, word |-> m.word]
        BY <3>3, <4>2
      <4> QED BY <3>5, <4>3
    <3>4. change = NoValue \/ \E d : change = [m EXCEPT !.num = d]
      BY DEF Change, m
    <3> HIDE DEF change
    <3> QED BY <3>3, <3>4, <3>5 DEF NoValue
  <2>12. ASSUME k < Len(c.steps), c.valueType = "float", change.type # "none"
         PROVE  change.num % Grain = 0
    <3> DEFINE w == Convert(num, type)
               d == w.num - h.value.num
    <3>1. ~speed /\ type = "dbl"
      BY <1>1, <2>12 DEF WholeStep, type, NumberType
    <3>2. w.num = num.num /\ w.type = "dbl" /\ w \in Values
      <4>1. Convertible(num, "dbl") /\ num \in Values
        BY <1>2, <1>6, <2>4, <3>1 DEF Convertible, IsNumber, Numerics, Values
      <4> QED BY <3>1, <4>1, ConvertIs
    <3>3. num.num \in Int /\ h.value.num \in Int /\ num.num % Grain = 0 /\ h.value.num % Grain = 0
      BY <1>1, <1>2, <1>6, <2>1, <2>12 DEF Held, Same, Values, Variant
    <3>4. d % Grain = 0
      BY <3>2, <3>3, GrainsDiffer
    <3>5. w = [type |-> w.type, num |-> w.num, word |-> w.word]
      BY <3>2 DEF Values, Variant
    <3>6. NoValue.type = "none"
      BY DEF NoValue
    <3>7. change = [w EXCEPT !.num = d]
      <4>1. PICK w1, o : w1 = w /\ o = h.value.num
        OBVIOUS
      <4>2. change = Change(w1, o, ts, mem, speed) /\ w1.type = "dbl" /\ d = w1.num - o
        BY <3>2, <4>1
      <4> HIDE DEF w, d, change
      <4>3. change = [w1 EXCEPT !.num = w1.num - o]
        BY <2>12, <3>1, <3>6, <4>2 DEF Change
      <4> QED BY <4>1, <4>2, <4>3
    <3> HIDE DEF w, d, change
    <3>8. change.num = d
      BY <3>5, <3>7
    <3> QED BY <3>4, <3>8
  <2> HIDE DEF change
  <2>10. ASSUME a.value.type # "none"
         PROVE  Carried(c, k, a.value, Convert(a.value, "str"))
    <3>1. a.value.type = NumberType(c) /\ a.value \in Numerics
      BY <2>7, <2>8, <2>9, <2>10 DEF type, Numerics, NumberType
    <3>2. k < Len(c.steps) /\ c.valueType = "float" => a.value.num % Grain = 0
      BY <2>7, <2>10, <2>12
    <3> QED BY <3>1, <3>2, NumberIsCarried
  <2>11. a.value.type # "none" => b.value.type # "none"
    BY <2>7
  <2> QED BY <2>7, <2>10, <2>11 DEF Agree
<1> QED BY <1>3, <1>5, <1>6

LEMMA ThrottlesAgree ==
  ASSUME NEW c \in Configurations, NEW k \in 1 .. Len(c.steps), NEW v, NEW x, NEW mem, NEW h,
         Beside(c, k, v, x, mem, h), NEW op, op = c.steps[k],
         op.type \in {"throttle", "throttle_timed"}, NEW ts \in Int,
         NEW a, a = IF op.type = "throttle" THEN Throttle(v, ts, mem) ELSE ThrottleTimed(v, ts, mem, op),
         NEW b, b = IF op.type = "throttle" THEN Throttle(x, ts, h) ELSE ThrottleTimed(x, ts, h, op)
  PROVE  Agree(c, k, a, b)
<1>1. Same(c, v, x) /\ op \in Operations /\ Alike(c, op, h, mem)
  BY ConfigurationIs DEF Beside, NeedsHistory
<1>2. v.type # "none" /\ x.type = "str" /\ Convert(x, "str") = x
  BY <1>1, SameIs
<1>3. CASE op.type = "throttle_timed" /\ op.param < 0
  <2>1. a.ok = FALSE /\ b.ok = FALSE
    BY <1>3 DEF ThrottleTimed, Fail
  <2> QED BY <2>1 DEF Agree
<1>4. CASE ~(op.type = "throttle_timed" /\ op.param < 0)
  <2>1. op.type = "throttle" \/ (op.type = "throttle_timed" /\ op.param >= 0)
    BY <1>1, <1>4 DEF Operations
  <2>2. mem.ts = h.ts /\ Same(c, mem.value, h.value)
    BY <1>1, <2>1 DEF Alike
  <2> DEFINE none == Equal(v, mem.value) /\ (op.type = "throttle_timed" => ts - mem.ts < op.param)
  <2>3. Equal(v, mem.value) <=> Equal(x, h.value)
    BY <1>1, <2>2, SameEqual
  <2>4. a = IF none THEN Ok(NoValue, [mem EXCEPT !.value = v]) ELSE Ok(v, [value |-> v, ts |-> ts])
    BY <1>2, <1>4 DEF Throttle, ThrottleTimed
  <2>5. b = IF none THEN Ok(NoValue, [h EXCEPT !.value = x]) ELSE Ok(x, [value |-> x, ts |-> ts])
    BY <1>2, <1>4, <2>2, <2>3 DEF Throttle, ThrottleTimed
  <2> HIDE DEF none
  <2>6. CASE none
    <3>1. a.ok = TRUE /\ b.ok = TRUE /\ a.value = NoValue
      BY <2>4, <2>5, <2>6 DEF Ok
    <3>2. a.value.type = "none"
      BY <3>1 DEF NoValue
    <3> QED BY <3>1, <3>2 DEF Agree
  <2>7. CASE ~none
    <3>1. a.ok = TRUE /\ b.ok = TRUE /\ a.value = v /\ b.value = x
      BY <2>4, <2>5, <2>7 DEF Ok
    <3> QED BY <1>1, <1>2, <3>1, ShownIs DEF Agree
  <2> QED BY <2>6, <2>7
<1> QED BY <1>3, <1>4

\* Steps that leave the value as it is, or fail.
LEMMA ValidationsAgree ==
  ASSUME NEW c \in Configurations, NEW k \in 1 .. Len(c.steps), NEW v, NEW x, NEW mem, NEW h,
         Beside(c, k, v, x, mem, h), NEW op, op = c.steps[k]
  PROVE  /\ Agree(c, k, ValidateRange(c.valueType, v, mem, op), ValidateRange(c.valueType, x, h, op))
         /\ \A matching : Agree(c, k, ValidateRegex(v, mem, matching), ValidateRegex(x, h, matching))
         /\ Agree(c, k, ErrorFromRegex(v, mem), ErrorFromRegex(x, h))
<1>1. Same(c, v, x) /\ v.word = x.word
  BY DEF Beside, Same
<1>2. /\ v.type # "none" /\ x.type = "str" /\ Convert(x, "str") = x
      /\ IsNumber(v) <=> IsNumber(x)
      /\ IsNumber(v) => ToNumeric(v, c.valueType) = ToNumeric(x, c.valueType)
  BY <1>1, SameIs
<1>3. Agree(c, k, Ok(v, mem), Ok(x, h))
  <2>1. Ok(v, mem).ok = TRUE /\ Ok(x, h).ok = TRUE /\ Ok(v, mem).value = v /\ Ok(x, h).value = x
    BY DEF Ok
  <2> QED BY <1>1, <1>2, <2>1, ShownIs DEF Agree
<1>4. \A e, d : Agree(c, k, Fail(v, mem, e), Fail(x, h, d))
  <2> SUFFICES ASSUME NEW e, NEW d PROVE Agree(c, k, Fail(v, mem, e), Fail(x, h, d))
    OBVIOUS
  <2>1. Fail(v, mem, e).ok = FALSE /\ Fail(x, h, d).ok = FALSE
    BY DEF Fail
  <2> QED BY <2>1 DEF Agree
<1>5. Agree(c, k, ValidateRange(c.valueType, v, mem, op), ValidateRange(c.valueType, x, h, op))
  BY <1>2, <1>3, <1>4 DEF ValidateRange
<1>6. \A matching : Agree(c, k, ValidateRegex(v, mem, matching), ValidateRegex(x, h, matching))
  BY <1>1, <1>3, <1>4 DEF ValidateRegex, Matches
<1>7. Agree(c, k, ErrorFromRegex(v, mem), ErrorFromRegex(x, h))
  BY <1>1, <1>3, <1>4 DEF ErrorFromRegex, Matches
<1> QED BY <1>5, <1>6, <1>7

\* Steps that make a text.
LEMMA TextsAgree ==
  ASSUME NEW c \in Configurations, NEW k \in 1 .. Len(c.steps), NEW v, NEW x, NEW mem, NEW h,
         Beside(c, k, v, x, mem, h), NEW op, op = c.steps[k]
  PROVE  /\ op.type = "extract" => Agree(c, k, Extract(v, mem, op), Extract(x, h, op))
         /\ Agree(c, k, Script(v, mem), Script(x, h))
<1>1. Same(c, v, x) /\ v.word = x.word /\ op \in Operations /\ WholeStep(c, k)
  BY ConfigurationIs DEF Beside, Same
<1>2. x.type = "str" /\ Convert(v, "str") = x /\ Convert(x, "str") = x /\ Same(c, x, x)
  BY <1>1, SameIs
<1>3. \A u, d, e, p, q, y : Agree(c, k, Fail(u, p, e), Fail(y, q, d))
  <2> SUFFICES ASSUME NEW u, NEW d, NEW e, NEW p, NEW q, NEW y PROVE Agree(c, k, Fail(u, p, e), Fail(y, q, d))
    OBVIOUS
  <2>1. Fail(u, p, e).ok = FALSE /\ Fail(y, q, d).ok = FALSE
    BY DEF Fail
  <2> QED BY <2>1 DEF Agree
<1>4. \A y, p, q : Carried(c, k, y, Convert(y, "str")) /\ y.type # "none" => Agree(c, k, Ok(y, p), Ok(y, q))
  <2> SUFFICES ASSUME NEW y, NEW p, NEW q, Carried(c, k, y, Convert(y, "str")), y.type # "none"
               PROVE  Agree(c, k, Ok(y, p), Ok(y, q))
    OBVIOUS
  <2>1. Ok(y, p).ok = TRUE /\ Ok(y, q).ok = TRUE /\ Ok(y, p).value = y /\ Ok(y, q).value = y
    BY DEF Ok
  <2> QED BY <2>1 DEF Agree
<1>5. ASSUME op.type = "extract" PROVE Agree(c, k, Extract(v, mem, op), Extract(x, h, op))
  <2> DEFINE y == Text(op.param)
  <2>1. y \in Values /\ y.type = "str" /\ y.num = op.param /\ y.word = NoWord
    BY <1>1, SomeValues DEF Operations, Text
  <2> HIDE DEF y
  <2>2. Carried(c, k, y, Convert(y, "str"))
    <3>1. Convert(y, "str") # Blank
      <4>1. Convert(y, "str").word = NoWord
        BY <2>1, ConvertIs
      <4>2. Blank.word # NoWord
        BY DEF Blank, Word, NoWord
      <4> QED BY <4>1, <4>2
    <3>2. Held(c, y.num)
      BY <1>1, <1>5, <2>1 DEF WholeStep
    <3> QED BY <2>1, <3>1, <3>2, SameText, ShownIs
  <2> QED BY <1>1, <1>3, <1>4, <2>1, <2>2 DEF Extract, Matches, y
<1>6. Agree(c, k, Script(v, mem), Script(x, h))
  <2>1. Carried(c, k, x, Convert(x, "str")) /\ x.type # "none"
    BY <1>2, ShownIs
  <2> QED BY <1>1, <1>2, <1>3, <1>4, <2>1 DEF Script, Matches
<1> QED BY <1>5, <1>6

LEMMA StepsAgree ==
  ASSUME NEW c \in Configurations, NEW k \in 1 .. Len(c.steps), NEW v, NEW x, NEW mem, NEW h,
         Beside(c, k, v, x, mem, h), NEW op, op = c.steps[k], NEW ts \in Int, NEW g \in Int,
         NEW a, a = StepResult(c.valueType, v, ts, op, mem, g),
         NEW b, b = StepResult(c.valueType, x, ts, op, h, g)
  PROVE  Agree(c, k, a, b)
<1>1. /\ Same(c, v, x) /\ v \in Values /\ x \in Values /\ v.type # "none" /\ x.type # "none"
      /\ mem \in Memories /\ h \in Memories /\ op \in Operations /\ c.valueType \in ValueTypes
  <2>1. Same(c, v, x) /\ v \in Values /\ mem \in Memories /\ h \in Kept
    BY DEF Beside, Same
  <2>2. x \in Values /\ v.type # "none" /\ x.type # "none"
    BY <2>1, SameIs
  <2>3. h \in Memories
    BY <2>1, SomeValues DEF Kept, Memories
  <2> QED BY <2>1, <2>2, <2>3, ConfigurationIs
<1>2. Sound(op, mem, a)
  BY <1>1, StepIs
<1>3. CASE op.type = "multiplier"
  BY <1>3, MultipliersAgree DEF StepResult
<1>4. CASE op.type = "delta"
  <2>1. a = Delta(c.valueType, v, ts, mem, FALSE, g) /\ b = Delta(c.valueType, x, ts, h, FALSE, g)
    BY <1>4 DEF StepResult
  <2>2. op.type \in Changes
    BY <1>4 DEF Changes
  <2> QED BY <1>2, <1>4, <2>1, <2>2, ChangesAgree
<1>5. CASE op.type = "speed"
  <2>1. a = Delta(c.valueType, v, ts, mem, TRUE, g) /\ b = Delta(c.valueType, x, ts, h, TRUE, g)
    BY <1>5 DEF StepResult
  <2>2. op.type \in Changes
    BY <1>5 DEF Changes
  <2> QED BY <1>2, <1>5, <2>1, <2>2, ChangesAgree
<1>6. CASE op.type \in {"throttle", "throttle_timed"}
  <2>1. /\ a = IF op.type = "throttle" THEN Throttle(v, ts, mem) ELSE ThrottleTimed(v, ts, mem, op)
        /\ b = IF op.type = "throttle" THEN Throttle(x, ts, h) ELSE ThrottleTimed(x, ts, h, op)
    BY <1>6 DEF StepResult
  <2> QED BY <1>6, <2>1, ThrottlesAgree
<1>7. CASE op.type = "range"
  BY <1>7, ValidationsAgree DEF StepResult
<1>8. CASE op.type = "regex"
  <2>1. a = ValidateRegex(v, mem, TRUE) /\ b = ValidateRegex(x, h, TRUE)
    BY <1>8 DEF StepResult
  <2> QED BY <2>1, ValidationsAgree
<1>9. CASE op.type = "not_regex"
  <2>1. a = ValidateRegex(v, mem, FALSE) /\ b = ValidateRegex(x, h, FALSE)
    BY <1>9 DEF StepResult
  <2> QED BY <2>1, ValidationsAgree
<1>10. CASE op.type = "extract"
  BY <1>10, TextsAgree DEF StepResult
<1>11. CASE op.type = "error_regex"
  BY <1>11, ValidationsAgree DEF StepResult
<1>12. CASE op.type = "script"
  BY <1>12, TextsAgree DEF StepResult
<1>13. CASE op.type \notin {"multiplier", "delta", "speed", "throttle", "throttle_timed", "range",
                            "regex", "not_regex", "extract", "error_regex", "script"}
  <2>1. a = Fail(v, mem, "unknown operation") /\ b = Fail(x, h, "unknown operation")
    BY <1>13 DEF StepResult
  <2>2. \A u, p, e : Fail(u, p, e).ok = FALSE
    BY DEF Fail
  <2>3. a.ok = FALSE /\ b.ok = FALSE
    BY <2>1, <2>2
  <2> QED BY <2>3 DEF Agree
<1> QED BY <1>3, <1>4, <1>5, <1>6, <1>7, <1>8, <1>9, <1>10, <1>11, <1>12, <1>13

\* An error is resolved by the value that its handler puts in its place, or not at all.
Resolved(op, r, h) ==
  /\ r.ok => h = r
  /\ ~r.ok /\ op.handler = "set_value" => h.value = op.alt
  /\ ~r.ok /\ h.ok /\ h.value.type # "none" => op.handler = "set_value"

LEMMA ErrorIsResolved ==
  ASSUME NEW c \in Configurations, NEW k \in 1 .. Len(c.steps), NEW op, op = c.steps[k],
         NEW mem, NEW r, Sound(op, mem, r)
  PROVE  Resolved(op, r, Handled(op, r))
<1> DEFINE h == Handled(op, r)
<1>1. op.handler \in Handlers
  BY ConfigurationIs DEF Operations
<1>2. r = [ok |-> r.ok, value |-> r.value, past |-> r.past, error |-> r.error] /\ r.ok \in BOOLEAN
  BY DEF Sound, Results
<1>3. CASE r.ok
  BY <1>3 DEF Handled, Resolved
<1>4. CASE ~r.ok /\ op.handler = "discard"
  <2>1. h.value.type = "none"
    BY <1>2, <1>4 DEF Handled, HandleError, NoValue
  <2> QED BY <1>4, <2>1 DEF Resolved
<1>5. CASE ~r.ok /\ op.handler = "set_value"
  <2>1. h.value = op.alt
    BY <1>2, <1>5 DEF Handled, HandleError
  <2> QED BY <1>5, <2>1 DEF Resolved
<1>6. CASE ~r.ok /\ op.handler \notin {"discard", "set_value"}
  <2>1. h = r \/ h = [r EXCEPT !.error = op.alt.word]
    BY <1>6 DEF Handled, HandleError
  <2>2. \A e : [r EXCEPT !.error = e].ok = r.ok
    BY <1>2
  <2> HIDE DEF h
  <2>3. ~h.ok
    BY <1>6, <2>1, <2>2
  <2> QED BY <1>6, <2>3 DEF Resolved, h
<1> QED BY <1>3, <1>4, <1>5, <1>6

\* Where the worker goes on after a step, the program has a text for its value.
LEMMA BindingAgrees ==
  ASSUME NEW c \in Configurations, NEW k \in 1 .. Len(c.steps), NEW v, NEW x, NEW in \in Pasts(c),
         NEW h, Beside(c, k, v, x, in[k], h), NEW ts \in Int, NEW g \in Int,
         NEW hs, hs = HandledStep(c, v, ts, in, g, k), hs.ok, hs.value.type # "none",
         NEW r, r = Binding(c, x, ts, c.steps[k], h, g)
  PROVE  r.kind = "value" /\ Carried(c, k, hs.value, r.value)
<1> DEFINE op == c.steps[k]
           a == StepResult(c.valueType, v, ts, op, in[k], g)
           b == StepResult(c.valueType, x, ts, op, h, g)
           h1 == Handled(op, b)
<1>1. /\ op \in Operations /\ (op.handler \in {"set_value", "set_error"} => op.alt \in Texts)
      /\ (op.handler = "set_error" => op.alt.word # NoWord) /\ c.valueType \in ValueTypes
  BY ConfigurationIs
<1>2. /\ Same(c, v, x) /\ v \in Values /\ x \in Values /\ v.type # "none" /\ x.type # "none"
      /\ in[k] \in Memories /\ h \in Memories /\ WholeStep(c, k)
      /\ NeedsHistory(op) => h.value \notin {NoValue, Blank} /\ h.ts \in Nat \ {0}
  <2>1. /\ Same(c, v, x) /\ v \in Values /\ in[k] \in Memories /\ h \in Kept /\ WholeStep(c, k)
        /\ NeedsHistory(op) => h.value \notin {NoValue, Blank} /\ h.ts \in Nat \ {0}
    BY DEF Beside, Same
  <2>2. x \in Values /\ v.type # "none" /\ x.type # "none"
    BY <2>1, SameIs
  <2>3. h \in Memories
    BY <2>1, SomeValues DEF Kept, Memories
  <2> QED BY <2>1, <2>2, <2>3
<1>3. Agree(c, k, a, b)
  BY <1>1, <1>2, StepsAgree
<1>4. r = IF NeedsHistory(op) /\ (h.value \in {NoValue, Blank} \/ (op.type # "script" /\ h.ts <= 0))
          THEN Outcome("thrown", NoValue)
          ELSE Outcome("value", IF h1.value.type = "none" THEN Placeholder
                                ELSE Convert(h1.value, "str"))
  BY DEF Binding, Handled
<1>5. hs = Handled(op, a)
  BY DEF HandledStep, Raw
<1>11. h1 = Handled(op, b)
  OBVIOUS
<1>12. op = c.steps[k]
  OBVIOUS
<1> HIDE DEF op, h1
<1>6. Sound(op, in[k], a) /\ Sound(op, h, b)
  BY <1>1, <1>2, StepIs
<1> HIDE DEF a, b
<1>7. Resolved(op, a, hs)
  BY <1>5, <1>6, <1>12, ErrorIsResolved
<1>8. Resolved(op, b, h1)
  BY <1>6, <1>11, <1>12, ErrorIsResolved
<1>9. h1.value.type # "none" /\ Carried(c, k, hs.value, Convert(h1.value, "str"))
  <2>1. CASE a.ok
    BY <1>3, <1>7, <1>8, <2>1 DEF Agree, Resolved
  <2>2. CASE ~a.ok
    <3>1. op.handler = "set_value" /\ hs.value = op.alt /\ h1.value = op.alt /\ op.alt \in Texts
      BY <1>1, <1>3, <1>7, <1>8, <2>2 DEF Agree, Resolved
    <3>2. /\ op.alt \in Values /\ op.alt.type = "str" /\ Held(c, op.alt.num) /\ op.alt # Blank
          /\ op.alt \in Texts
      BY <1>2, <1>12, <3>1, SomeValues DEF WholeStep, Texts
    <3>3. Same(c, op.alt, op.alt)
      BY <3>2 DEF Same
    <3>4. Convert(op.alt, "str") = op.alt
      BY <3>3, SameIs
    <3> QED BY <3>1, <3>2, <3>3, <3>4, ShownIs
  <2> QED BY <2>1, <2>2
<1>10. r = Outcome("value", Convert(h1.value, "str"))
  BY <1>2, <1>4, <1>9
<1> QED BY <1>9, <1>10 DEF Outcome

-----------------------------------------------------------------------------
(* The program beside the worker: a value                                  *)

\* The steps that need history, and those of them that have none, or an empty text.
Needs(c) == {s \in DOMAIN c.steps : NeedsHistory(c.steps[s])}
Lacking(c, h) == {s \in Needs(c) : h[s].value \in {NoValue, Blank}}

\* History that is there has a time.
Dated(c, h) == \A s \in Needs(c) \ Lacking(c, h) : h[s].ts \in Nat \ {0}

\* The step at which the program throws, or the one behind the last.
Stop(c, h, t) ==
  /\ t \in 1 .. Len(c.steps) + 1 /\ \A s \in Lacking(c, h) : t <= s
  /\ t \in Lacking(c, h) \/ (t = Len(c.steps) + 1 /\ Lacking(c, h) = {})

LEMMA StopExists ==
  ASSUME NEW c \in Configurations, NEW h
  PROVE  \E t : Stop(c, h, t)
<1>1. Len(c.steps) \in Nat /\ DOMAIN c.steps = 1 .. Len(c.steps)
  BY ConfigurationIs
<1>2. CASE Lacking(c, h) = {}
  <2>1. Stop(c, h, Len(c.steps) + 1)
    BY <1>1, <1>2 DEF Stop
  <2> QED BY <2>1
<1>3. CASE Lacking(c, h) # {}
  <2>1. Lacking(c, h) \subseteq Nat /\ Lacking(c, h) \subseteq 1 .. Len(c.steps)
    BY <1>1 DEF Lacking, Needs
  <2>2. PICK t \in Lacking(c, h) : \A s \in Lacking(c, h) : t <= s
    BY <1>3, <2>1, Least
  <2>3. Stop(c, h, t)
    BY <1>1, <2>1, <2>2 DEF Stop
  <2> QED BY <2>3
<1> QED BY <1>2, <1>3

\* A step throws if it needs history and has none.
Throws(c, k, h, r) == r.kind = "thrown" <=> k \in Lacking(c, h)

LEMMA BindingThrows ==
  ASSUME NEW c \in Configurations, NEW k \in 1 .. Len(c.steps), NEW x, NEW ts, NEW g,
         NEW h, Dated(c, h), NEW r, r = Binding(c, x, ts, c.steps[k], h[k], g)
  PROVE  Throws(c, k, h, r)
<1> DEFINE op == c.steps[k]
           none == NeedsHistory(op) /\ (h[k].value \in {NoValue, Blank} \/ (op.type # "script" /\ h[k].ts <= 0))
<1>1. k \in DOMAIN c.steps
  BY ConfigurationIs
<1>2. none <=> k \in Lacking(c, h)
  BY <1>1 DEF Lacking, Needs, Dated
<1> HIDE DEF none
<1>3. r = Outcome("thrown", NoValue) \/ \E y : r = Outcome("value", y)
  BY DEF Binding
<1>4. r = Outcome("thrown", NoValue) <=> none
  <2>1. \A y : Outcome("thrown", NoValue).kind = "thrown" /\ Outcome("value", y).kind = "value"
    BY DEF Outcome
  <2>2. none => r = Outcome("thrown", NoValue)
    BY DEF Binding, none
  <2>3. ~none => \E y : r = Outcome("value", y)
    BY DEF Binding, none
  <2> QED BY <2>1, <2>2, <2>3
<1>5. \A y : Outcome("thrown", NoValue).kind = "thrown" /\ Outcome("value", y).kind = "value"
  BY DEF Outcome
<1> QED BY <1>2, <1>3, <1>4, <1>5 DEF Throws

\* How far the program is after the j-th step.
Stage(c, p, h, ts, t, j) ==
  /\ p[j] \in Reduces(c) /\ (p[j].kind = "value" <=> j < t)
  /\ \A s \in 1 .. Len(c.steps) :
       p[j].history[s] = IF s <= j /\ s <= t THEN [value |-> p[s - 1].value, ts |-> ts] ELSE h[s]

Stages(c, p, h, ts, t) == \A j \in 0 .. Len(c.steps) : Stage(c, p, h, ts, t, j)

\* The program goes as far as it has history, and keeps what goes into each step.
LEMMA ReduceStages ==
  ASSUME NEW c \in Configurations, NEW v \in Texts, NEW ts \in Int, NEW old \in Seq(Kept),
         NEW g \in Int, NEW p, ReduceTrace(p, c, v, ts, old, g), NEW h, h = KeptHistory(c, old),
         Dated(c, h), NEW t, Stop(c, h, t)
  PROVE  Stages(c, p, h, ts, t)
<1> DEFINE n == Len(c.steps)
           T == {j \in 0 .. n : Stage(c, p, h, ts, t, j)}
<1>1. n \in Nat /\ t \in 1 .. n + 1 /\ DOMAIN c.steps = 1 .. n
  BY ConfigurationIs DEF Stop
<1>2. 0 \in T
  <2>1. p[0] = Begun(c, v, old) /\ p[0] \in Reduces(c) /\ 0 \in 0 .. n
    BY <1>1 DEF ReduceTrace
  <2>2. p[0].kind = "value" /\ p[0].history = h
    BY <2>1 DEF Begun
  <2> QED BY <1>1, <2>1, <2>2 DEF Stage
<1>3. \A j \in 0 .. n - 1 : j \in T => j + 1 \in T
  <2> SUFFICES ASSUME NEW j \in 0 .. n - 1, Stage(c, p, h, ts, t, j) PROVE j + 1 \in T
    OBVIOUS
  <2>1. PICK k : k = j + 1
    OBVIOUS
  <2>2. k \in 1 .. n /\ k \in 0 .. n /\ k - 1 = j /\ j \in 0 .. n
    BY <1>1, <2>1
  <2>3. p[k] = IF p[j].kind = "thrown" THEN p[j] ELSE ReduceStep(c, ts, g, p[j], k)
    BY <2>2 DEF ReduceTrace
  <2>4. p[j] \in Reduces(c) /\ (p[j].kind = "value" <=> j < t)
        /\ \A s \in 1 .. n :
             p[j].history[s] = IF s <= j /\ s <= t THEN [value |-> p[s - 1].value, ts |-> ts] ELSE h[s]
    BY DEF Stage
  <2>5. p[j].kind \in {"value", "thrown"} /\ p[j].history \in Histories(c)
    BY <2>4 DEF Reduces
  <2>6. CASE j < t
    <3> DEFINE r == Binding(c, p[j].value, ts, c.steps[k], p[j].history[k], g)
    <3>1. p[j].kind # "thrown" /\ p[k] = ReduceStep(c, ts, g, p[j], k)
      BY <2>3, <2>4, <2>6
    <3>2. /\ p[k] \in Reduces(c) /\ p[k].kind = r.kind
          /\ p[k].history = [p[j].history EXCEPT ![k] = [value |-> p[j].value, ts |-> ts]]
      <4>1. p[k] \in Reduces(c)
        BY <2>2 DEF ReduceTrace
      <4>2. p[k] = [kind |-> r.kind, value |-> r.value,
                    history |-> [p[j].history EXCEPT ![k] = [value |-> p[j].value, ts |-> ts]]]
        BY <3>1 DEF ReduceStep
      <4> HIDE DEF r
      <4> QED BY <4>1, <4>2
    <3> HIDE DEF r
    <3>3. p[j].history[k] = h[k]
      <4>1. ~(k <= j)
        BY <1>1, <2>1, <2>2
      <4> QED BY <2>2, <2>4, <4>1
    <3>4. r.kind = "thrown" <=> k \in Lacking(c, h)
      <4>1. PICK x, o : x = p[j].value /\ o = Binding(c, x, ts, c.steps[k], h[k], g)
        OBVIOUS
      <4>2. o = r
        BY <3>3, <4>1 DEF r
      <4> HIDE DEF T
      <4>3. Throws(c, k, h, o)
        BY <2>2, <4>1, BindingThrows
      <4> QED BY <4>2, <4>3 DEF Throws
    <3>5. p[k].kind \in {"value", "thrown"}
      BY <3>2 DEF Reduces
    <3>6. k \in Lacking(c, h) <=> k = t
      BY <1>1, <2>1, <2>2, <2>6 DEF Stop
    <3>7. p[k].kind = "value" <=> k < t
      BY <1>1, <2>1, <2>2, <2>6, <3>2, <3>4, <3>5, <3>6
    <3>8. ASSUME NEW s \in 1 .. n
          PROVE  p[k].history[s] = IF s <= k /\ s <= t THEN [value |-> p[s - 1].value, ts |-> ts]
                                   ELSE h[s]
      <4>1. DOMAIN p[j].history = 1 .. n
        BY <1>1, <2>5 DEF Histories
      <4>2. CASE s = k
        <5>1. p[k].history[s] = [value |-> p[j].value, ts |-> ts]
          BY <3>2, <4>1, <4>2
        <5> QED BY <1>1, <2>1, <2>2, <2>6, <4>2, <5>1
      <4>3. CASE s # k
        <5>1. p[k].history[s] = p[j].history[s]
          BY <3>2, <4>1, <4>3
        <5>2. s <= k <=> s <= j
          BY <1>1, <2>1, <2>2, <4>3
        <5> QED BY <2>4, <5>1, <5>2
      <4> QED BY <4>2, <4>3
    <3> QED BY <2>1, <2>2, <3>2, <3>7, <3>8 DEF Stage
  <2>7. CASE ~(j < t)
    <3>1. p[k] = p[j]
      BY <2>3, <2>4, <2>5, <2>7
    <3>2. \A s \in 1 .. n : s <= k /\ s <= t <=> s <= j /\ s <= t
      BY <1>1, <2>1, <2>2, <2>7
    <3>3. ~(k < t)
      BY <1>1, <2>1, <2>2, <2>7
    <3>4. \A s \in 1 .. n : p[k].history[s] = IF s <= k /\ s <= t THEN [value |-> p[s - 1].value, ts |-> ts]
                                              ELSE h[s]
      BY <2>4, <3>1, <3>2
    <3> QED BY <2>1, <2>2, <2>4, <2>7, <3>1, <3>3, <3>4 DEF Stage
  <2> QED BY <2>6, <2>7
<1> HIDE DEF T
<1>4. \A j \in 0 .. n : j \in T
  BY <1>1, <1>2, <1>3, Upwards
<1> QED BY <1>4 DEF T, Stages

\* The worker runs up to the step it comes to.
LEMMA WorkerComesTo ==
  ASSUME NEW c \in Configurations, NEW v \in Texts, NEW ts \in Int, NEW in \in Pasts(c),
         NEW g \in Int, NEW f, ExecuteTrace(f, c, v, ts, in, g), NEW n, n = Len(c.steps)
  PROVE  /\ f[n].num \in 0 .. n /\ \A i \in 0 .. n : i < f[n].num => f[i].running
         /\ f[n].running => f[n].num = n
         /\ ~f[n].running => f[n].num # 0
<1> DEFINE Up(j) == /\ f[j].num \in 0 .. j /\ \A i \in 0 .. n : i < f[j].num => f[i].running
                    /\ f[j].running => f[j].num = j
                    /\ ~f[j].running => f[j].num # 0
           T == {j \in 0 .. n : Up(j)}
<1>1. n \in Nat
  BY ConfigurationIs
<1>2. 0 \in T
  <2>1. f[0].num = 0 /\ f[0].running
    BY DEF ExecuteTrace, Started
  <2> QED BY <1>1, <2>1
<1>3. \A j \in 0 .. n - 1 : j \in T => j + 1 \in T
  <2> SUFFICES ASSUME NEW j \in 0 .. n - 1, Up(j) PROVE j + 1 \in T
    OBVIOUS
  <2>1. PICK k : k = j + 1
    OBVIOUS
  <2>2. k \in 1 .. n /\ k \in 0 .. n /\ k - 1 = j /\ j \in 0 .. n
    BY <1>1, <2>1
  <2>3. f[k] = IF ~f[j].running THEN f[j] ELSE ExecuteStep(c, ts, in, g, f[j], k)
    BY <2>2 DEF ExecuteTrace
  <2>4. Up(k)
    <3>1. CASE ~f[j].running
      <4>1. f[k] = f[j]
        BY <2>3, <3>1
      <4> QED BY <1>1, <2>1, <3>1, <4>1
    <3>2. CASE f[j].running
      <4>1. f[k].num = k
        BY <2>3, <3>2 DEF ExecuteStep
      <4>2. \A i \in 0 .. n : i < k => i < f[j].num \/ i = j
        BY <1>1, <2>1, <3>2
      <4> QED BY <1>1, <2>1, <2>2, <3>2, <4>1, <4>2
    <3> QED BY <3>1, <3>2
  <2> HIDE DEF Up
  <2> QED BY <2>1, <2>2, <2>4
<1> HIDE DEF Up, T
<1>4. \A j \in 0 .. n : j \in T
  BY <1>1, <1>2, <1>3, Upwards
<1>5. Up(n)
  BY <1>1, <1>4 DEF T
<1> QED BY <1>5 DEF Up

\* What the worker remembers of a step after a run.
Memory(c, ts, in, g, f, s) ==
  LET r == Raw(c, f[s - 1].value, ts, in, g, s)
  IN  IF f[s - 1].running /\ r.ok /\ r.past.value.type # "none" THEN r.past ELSE NoPast

LEMMA WorkerRemembers ==
  ASSUME NEW c \in Configurations, NEW v \in Texts, NEW ts \in Int, NEW in \in Pasts(c),
         NEW g \in Int, NEW f, ExecuteTrace(f, c, v, ts, in, g), NEW n, n = Len(c.steps)
  PROVE  \A s \in 1 .. n : f[n].past[s] = Memory(c, ts, in, g, f, s)
<1> DEFINE Up(j) == \A s \in 1 .. n : f[j].past[s] = IF s <= j THEN Memory(c, ts, in, g, f, s) ELSE NoPast
           T == {j \in 0 .. n : Up(j)}
<1>1. n \in Nat /\ DOMAIN c.steps = 1 .. n
  BY ConfigurationIs
<1>2. 0 \in T
  <2>1. f[0].past = NoPasts(c)
    BY DEF ExecuteTrace, Started
  <2>2. \A s \in 1 .. n : f[0].past[s] = NoPast
    BY <1>1, <2>1 DEF NoPasts
  <2>3. \A s \in 1 .. n : ~(s <= 0)
    BY <1>1
  <2> QED BY <1>1, <2>2, <2>3
<1>3. \A j \in 0 .. n - 1 : j \in T => j + 1 \in T
  <2> SUFFICES ASSUME NEW j \in 0 .. n - 1, Up(j) PROVE j + 1 \in T
    OBVIOUS
  <2>1. PICK k : k = j + 1
    OBVIOUS
  <2>2. k \in 1 .. n /\ k \in 0 .. n /\ k - 1 = j /\ j \in 0 .. n
    BY <1>1, <2>1
  <2>3. f[k] = IF ~f[j].running THEN f[j] ELSE ExecuteStep(c, ts, in, g, f[j], k)
    BY <2>2 DEF ExecuteTrace
  <2>4. f[j] \in Runs(c)
    BY <2>2 DEF ExecuteTrace
  <2> DEFINE r == Raw(c, f[j].value, ts, in, g, k)
             m == Memory(c, ts, in, g, f, k)
  <2>5. m = IF f[j].running /\ r.ok /\ r.past.value.type # "none" THEN r.past ELSE NoPast
    BY <2>2 DEF Memory
  <2>6. \A s \in 1 .. n : f[k].past[s] = IF s = k THEN m ELSE f[j].past[s]
    <3>1. f[j].past[k] = NoPast
      <4>1. ~(k <= j)
        BY <1>1, <2>1, <2>2
      <4> QED BY <2>2, <4>1
    <3>2. CASE ~f[j].running
      BY <2>3, <2>5, <3>1, <3>2
    <3>3. CASE f[j].running
      <4>1. PICK q : q = f[j]
        OBVIOUS
      <4>2. f[k].past = Remembered(q, k, r)
        <5>1. Round(c, ts, in, g, q, k)
          BY <2>2, <2>4, <3>3, <4>1, RoundIs
        <5> QED BY <2>3, <3>3, <4>1, <5>1 DEF Round
      <4>3. DOMAIN q.past = 1 .. n
        BY <1>1, <2>4, <4>1 DEF Runs, Pasts
      <4> HIDE DEF r, m
      <4> QED BY <2>2, <2>5, <3>1, <3>3, <4>1, <4>2, <4>3 DEF Remembered
    <3> QED BY <3>2, <3>3
  <2> HIDE DEF r
  <2>7. Up(k)
    <3> SUFFICES ASSUME NEW s \in 1 .. n
                 PROVE  f[k].past[s] = IF s <= k THEN Memory(c, ts, in, g, f, s) ELSE NoPast
      OBVIOUS
    <3>1. CASE s = k
      BY <1>1, <2>2, <2>6, <3>1
    <3>2. CASE s # k
      <4>1. s <= k <=> s <= j
        BY <1>1, <2>1, <2>2, <3>2
      <4>2. f[k].past[s] = f[j].past[s]
        BY <2>6, <3>2
      <4> QED BY <4>1, <4>2
    <3> QED BY <3>1, <3>2
  <2> HIDE DEF Up
  <2> QED BY <2>1, <2>2, <2>7
<1> HIDE DEF Up, T
<1>4. \A j \in 0 .. n : j \in T
  BY <1>1, <1>2, <1>3, Upwards
<1>5. Up(n) /\ \A s \in 1 .. n : s <= n
  BY <1>1, <1>4 DEF T
<1> QED BY <1>5 DEF Up

\* What is needed for the program to do as the worker does with a value.
Ready(c, v, in, h, t) ==
  /\ Same(c, v, v) /\ \A s \in DOMAIN c.steps : WholeStep(c, s)
  /\ h \in Histories(c) /\ Dated(c, h) /\ Stop(c, h, t)
  /\ \A s \in Needs(c) \ Lacking(c, h) : Alike(c, c.steps[s], h[s], in[s])

LEMMA BesideIs ==
  ASSUME NEW c \in Configurations, NEW v, NEW in \in Pasts(c), NEW h, NEW t, Ready(c, v, in, h, t),
         NEW k \in 1 .. Len(c.steps), k < t, NEW u, NEW x, Same(c, u, x)
  PROVE  Beside(c, k, u, x, in[k], h[k])
<1>1. k \in DOMAIN c.steps
  BY ConfigurationIs
<1>2. in[k] \in Memories /\ Fits(c.steps[k], in[k]) /\ h[k] \in Kept /\ WholeStep(c, k)
  BY <1>1 DEF Ready, Pasts, Histories
<1>3. ASSUME NeedsHistory(c.steps[k])
      PROVE  h[k].value \notin {NoValue, Blank} /\ h[k].ts \in Nat \ {0} /\ Alike(c, c.steps[k], h[k], in[k])
  <2>1. k \in Needs(c)
    BY <1>1, <1>3 DEF Needs
  <2>2. k \notin Lacking(c, h)
    <3> SUFFICES ASSUME k \in Lacking(c, h) PROVE FALSE
      OBVIOUS
    <3>1. t <= k /\ t \in Int
      <4>1. Len(c.steps) \in Nat
        BY ConfigurationIs
      <4> QED BY <4>1 DEF Ready, Stop
    <3> QED BY <3>1
  <2>3. h[k].value \notin {NoValue, Blank}
    BY <2>1, <2>2 DEF Lacking
  <2> QED BY <2>1, <2>2, <2>3 DEF Ready, Dated
<1> QED BY <1>2, <1>3 DEF Beside

\* Before step t the program has the worker's values as texts, as far as the worker goes.
TextsUpTo(c, f, p, t) ==
  \A j \in 0 .. Len(c.steps) : j < t /\ f[j].running => Carried(c, j, f[j].value, p[j].value)

\* As far as both go, the program has a text for each value of the worker.
LEMMA RunsAgree ==
  ASSUME NEW c \in Configurations, NEW v \in Texts, NEW ts \in Int, NEW in \in Pasts(c),
         NEW g \in Int, NEW f, ExecuteTrace(f, c, v, ts, in, g), NEW n, n = Len(c.steps),
         NEW old \in Seq(Kept), NEW p, ReduceTrace(p, c, v, ts, old, g),
         NEW h, NEW t, Ready(c, v, in, h, t), Stages(c, p, h, ts, t)
  PROVE  TextsUpTo(c, f, p, t)
<1> DEFINE Up(j) == j < t /\ f[j].running => Carried(c, j, f[j].value, p[j].value)
           T == {j \in 0 .. n : Up(j)}
<1>1. n \in Nat /\ t \in Nat
  BY ConfigurationIs DEF Ready, Stop
<1>2. 0 \in T
  <2>1. f[0].value = v /\ p[0].value = v
    BY DEF ExecuteTrace, Started, ReduceTrace, Begun
  <2> QED BY <1>1, <2>1, ShownIs DEF Ready
<1>3. \A j \in 0 .. n - 1 : j \in T => j + 1 \in T
  <2> SUFFICES ASSUME NEW j \in 0 .. n - 1, Up(j) PROVE j + 1 \in T
    OBVIOUS
  <2>1. PICK k : k = j + 1
    OBVIOUS
  <2>2. k \in 1 .. n /\ k \in 0 .. n /\ k - 1 = j /\ j \in 0 .. n
    BY <1>1, <2>1
  <2>3. Up(k)
    <3> SUFFICES ASSUME k < t, f[k].running PROVE Carried(c, k, f[k].value, p[k].value)
      OBVIOUS
    <3>1. f[k] = IF ~f[j].running THEN f[j] ELSE ExecuteStep(c, ts, in, g, f[j], k)
      BY <2>2 DEF ExecuteTrace
    <3>2. f[j].running /\ f[k] = ExecuteStep(c, ts, in, g, f[j], k) /\ j < t
      BY <1>1, <2>1, <2>2, <3>1
    <3>3. Same(c, f[j].value, p[j].value)
      BY <3>2 DEF Carried
    <3>4. p[k] = ReduceStep(c, ts, g, p[j], k)
      <4>1. p[j].kind = "value"
        BY <2>2, <3>2 DEF Stages, Stage
      <4>2. p[k] = IF p[j].kind = "thrown" THEN p[j] ELSE ReduceStep(c, ts, g, p[j], k)
        BY <2>2 DEF ReduceTrace
      <4> QED BY <4>1, <4>2
    <3>5. p[j].history[k] = h[k]
      <4>1. ~(k <= j)
        BY <1>1, <2>1, <2>2
      <4>2. Stage(c, p, h, ts, t, j)
        BY <2>2 DEF Stages
      <4> QED BY <2>2, <4>1, <4>2 DEF Stage
    <3> DEFINE r == Binding(c, p[j].value, ts, c.steps[k], h[k], g)
               hs == HandledStep(c, f[j].value, ts, in, g, k)
    <3>6. p[k].value = r.value
      BY <3>4, <3>5 DEF ReduceStep
    <3>7. f[j] \in Runs(c) /\ f[k] \in Runs(c)
      BY <2>2 DEF ExecuteTrace
    <3>8. f[k].value = hs.value /\ f[k].error = hs.error /\ Sound(c.steps[k], in[k], hs)
      <4>1. PICK q : q = f[j]
        OBVIOUS
      <4>2. Round(c, ts, in, g, q, k)
        BY <2>2, <3>2, <3>7, <4>1, RoundIs
      <4> QED BY <3>2, <4>1, <4>2 DEF Round
    <3> HIDE DEF r, hs
    <3>9. hs.ok /\ hs.value.type # "none"
      <4>1. f[k].error = NoError /\ f[k].value.type # "none"
        BY <3>7 DEF Runs
      <4> QED BY <3>8, <4>1 DEF Sound
    <3>10. Beside(c, k, f[j].value, p[j].value, in[k], h[k])
      BY <2>2, <3>3, BesideIs
    <3>11. Carried(c, k, hs.value, r.value)
      <4>1. PICK u, x : u = f[j].value /\ x = p[j].value
        OBVIOUS
      <4>2. /\ hs = HandledStep(c, u, ts, in, g, k) /\ r = Binding(c, x, ts, c.steps[k], h[k], g)
            /\ Beside(c, k, u, x, in[k], h[k])
        BY <3>10, <4>1 DEF hs, r
      <4> QED BY <2>2, <3>9, <4>2, BindingAgrees
    <3> QED BY <3>6, <3>8, <3>11
  <2> HIDE DEF Up
  <2> QED BY <2>1, <2>2, <2>3
<1> HIDE DEF T, Up
<1>4. \A j \in 0 .. n : j \in T
  BY <1>1, <1>2, <1>3, Upwards
<1> QED BY <1>4 DEF T, Up, TextsUpTo

\* After a step, the worker remembers what the program keeps of it.
LEMMA AlikeAfter ==
  ASSUME NEW c \in Configurations, NEW k \in 1 .. Len(c.steps), NEW in \in Pasts(c), NEW ts \in Int,
         NEW g \in Int, NEW v, NEW x, Same(c, v, x), NEW op, op = c.steps[k],
         NEW r, r = Raw(c, v, ts, in, g, k),
         op.type \in Changes \/ (r.ok => r.value.type # "none"),
         NEW m, m = IF r.ok /\ r.past.value.type # "none" THEN r.past ELSE NoPast,
         NEW e, e.value = x, e.ts = ts
  PROVE  Alike(c, op, e, m)
<1>1. /\ op \in Operations /\ c.valueType \in ValueTypes /\ in[k] \in Memories /\ v \in Values
  BY ConfigurationIs DEF Pasts, Same
<1>2. /\ v.type # "none" /\ Same(c, x, x) /\ (IsNumber(v) <=> IsNumber(x))
      /\ IsNumber(v) => /\ ToNumeric(v, c.valueType) = ToNumeric(x, c.valueType)
                        /\ ToNumeric(v, c.valueType).type = NumberType(c)
  BY SameIs
<1>3. r = StepResult(c.valueType, v, ts, op, in[k], g)
  BY DEF Raw
<1>4. \A u, q, d : Fail(u, q, d).ok = FALSE /\ Ok(u, q).ok = TRUE /\ Ok(u, q).past = q /\ Ok(u, q).value = u
  BY DEF Fail, Ok
<1>5. NoPast.value = NoValue
  BY DEF NoPast
<1>6. ASSUME op.type \in Changes
      PROVE  \/ m.value = NoValue
             \/ IsNumber(x) /\ m.value = ToNumeric(x, c.valueType) /\ m.ts = ts
  <2>1. \E u : r = IF ~IsNumber(v) THEN Fail(v, in[k], "not numeric")
                   ELSE Ok(u, [value |-> ToNumeric(v, c.valueType), ts |-> ts])
    <3>1. CASE op.type = "delta"
      BY <1>3, <3>1 DEF StepResult, Delta
    <3>2. CASE op.type = "speed"
      BY <1>3, <3>2 DEF StepResult, Delta
    <3> QED BY <1>6, <3>1, <3>2 DEF Changes
  <2>2. CASE ~IsNumber(v)
    <3>1. r = Fail(v, in[k], "not numeric")
      BY <2>1, <2>2
    <3>2. \A d : Fail(v, in[k], d).ok = FALSE
      BY <1>4
    <3>3. r.ok = FALSE
      BY <3>1, <3>2
    <3> QED BY <1>5, <3>3
  <2>3. CASE IsNumber(v)
    <3> DEFINE q == [value |-> ToNumeric(v, c.valueType), ts |-> ts]
    <3>1. q.value = ToNumeric(x, c.valueType) /\ q.ts = ts /\ q.value.type # "none"
      BY <1>2, <2>3 DEF NumberType
    <3>2. \E u : r = Ok(u, q)
      BY <2>1, <2>3
    <3> HIDE DEF q
    <3>3. m = q
      BY <1>4, <3>1, <3>2
    <3> QED BY <1>2, <2>3, <3>1, <3>3
  <2> QED BY <2>2, <2>3
<1>7. ASSUME op.type = "throttle" \/ (op.type = "throttle_timed" /\ op.param >= 0)
      PROVE  m.ts = ts /\ m.value = v
  <2> DEFINE q == [value |-> v, ts |-> ts]
  <2>1. r.ok = TRUE /\ (r = Ok(v, q) \/ r.value = NoValue)
    <3>1. CASE op.type = "throttle"
      <4>1. r = Throttle(v, ts, in[k])
        BY <1>3, <3>1 DEF StepResult
      <4> HIDE DEF q
      <4> QED BY <1>4, <4>1 DEF Throttle, q
    <3>2. CASE op.type = "throttle_timed" /\ op.param >= 0
      <4>1. r = ThrottleTimed(v, ts, in[k], op)
        BY <1>3, <3>2 DEF StepResult
      <4>2. ~(op.param < 0)
        BY <1>1, <3>2 DEF Operations
      <4> HIDE DEF q
      <4> QED BY <1>4, <4>1, <4>2 DEF ThrottleTimed, q
    <3> QED BY <1>7, <3>1, <3>2
  <2>2. q.value = v /\ q.ts = ts
    OBVIOUS
  <2>3. op.type \notin Changes
    BY <1>7 DEF Changes
  <2>4. NoValue.type = "none"
    BY DEF NoValue
  <2> HIDE DEF q
  <2>5. r = Ok(v, q)
    BY <2>1, <2>3, <2>4
  <2> QED BY <1>2, <1>4, <2>2, <2>5
<1> QED BY <1>2, <1>6, <1>7 DEF Alike

\* Steps behind one that lacks history lack it too.
Closed(c, h) == \A s \in Lacking(c, h), u \in Needs(c) : s < u => u \in Lacking(c, h)

\* The history after a value that went as far as step t.
Passed(c, p, h, ts, t, e) ==
  /\ e \in Histories(c) /\ Dated(c, e) /\ Closed(c, e)
  /\ Lacking(c, e) = Lacking(c, h) \ {t}
  /\ \A s \in Needs(c) \ Lacking(c, e) : s \in 1 .. Len(c.steps) /\ s <= t
  /\ \A s \in 1 .. Len(c.steps) : s <= t => e[s].value = p[s - 1].value /\ e[s].ts = ts

\* No empty text goes into a step up to the t-th.
Filled(c, p, t) == \A s \in 1 .. Len(c.steps) : s <= t => p[s - 1].value # Blank

\* A value gives the first step that lacks history what it lacks, and no other.
LEMMA HistoryAfter ==
  ASSUME NEW c \in Configurations, NEW ts \in Nat \ {0}, NEW n, n = Len(c.steps), NEW p,
         NEW h, NEW t, Stop(c, h, t), Dated(c, h), Closed(c, h),
         Stages(c, p, h, ts, t), Filled(c, p, t), NEW e, e = p[n].history
  PROVE  Passed(c, p, h, ts, t, e)
<1>1. n \in Nat /\ t \in 1 .. n + 1 /\ DOMAIN c.steps = 1 .. n /\ n \in 0 .. n
  BY ConfigurationIs DEF Stop
<1>2. p[n] \in Reduces(c) /\ e \in Histories(c)
  BY <1>1 DEF Stages, Stage, Reduces
<1>3. \A s \in 1 .. n : e[s] = IF s <= t THEN [value |-> p[s - 1].value, ts |-> ts] ELSE h[s]
  <2>1. Stage(c, p, h, ts, t, n)
    BY <1>1 DEF Stages
  <2> QED BY <1>1, <2>1 DEF Stage
<1>4. \A s \in 1 .. n : s <= t => e[s].value = p[s - 1].value /\ e[s].ts = ts
  <2>1. \A x : [value |-> x, ts |-> ts].value = x /\ [value |-> x, ts |-> ts].ts = ts
    OBVIOUS
  <2> SUFFICES ASSUME NEW s \in 1 .. n, s <= t PROVE e[s].value = p[s - 1].value /\ e[s].ts = ts
    OBVIOUS
  <2>2. PICK x : x = p[s - 1].value
    OBVIOUS
  <2>3. e[s] = [value |-> x, ts |-> ts]
    BY <1>3, <2>2
  <2> QED BY <2>1, <2>2, <2>3
<1>5. \A s \in 1 .. n : s <= t => e[s].value \notin {NoValue, Blank}
  <2> SUFFICES ASSUME NEW s \in 1 .. n, s <= t PROVE e[s].value \notin {NoValue, Blank}
    OBVIOUS
  <2>1. s - 1 \in 0 .. n /\ s - 1 < t
    BY <1>1
  <2>2. p[s - 1] \in Reduces(c) /\ p[s - 1].kind = "value"
    BY <2>1 DEF Stages, Stage
  <2>3. p[s - 1].value \in Texts /\ p[s - 1].value # Blank
    BY <2>2 DEF Reduces, Filled
  <2>4. NoValue \notin Texts
    BY DEF Texts, NoValue
  <2> QED BY <1>4, <2>3, <2>4
<1>6. \A s \in 1 .. n : ~(s <= t) => e[s] = h[s]
  BY <1>3
<1>7. Needs(c) \subseteq 1 .. n /\ Lacking(c, h) \subseteq Needs(c) /\ Lacking(c, e) \subseteq Needs(c)
  BY <1>1 DEF Needs, Lacking
<1>8. \A s \in Lacking(c, h) : t <= s
  BY DEF Stop
<1>9. Lacking(c, e) = Lacking(c, h) \ {t}
  <2>1. ASSUME NEW s \in Lacking(c, e) PROVE s \in Lacking(c, h) \ {t}
    <3>1. s \in 1 .. n /\ s \in Needs(c) /\ e[s].value \in {NoValue, Blank}
      BY <1>7, <2>1 DEF Lacking
    <3>2. ~(s <= t) /\ e[s] = h[s]
      BY <1>5, <1>6, <3>1
    <3>3. s # t
      BY <1>1, <3>1, <3>2
    <3> QED BY <3>1, <3>2, <3>3 DEF Lacking
  <2>2. ASSUME NEW s \in Lacking(c, h) \ {t} PROVE s \in Lacking(c, e)
    <3>1. s \in 1 .. n /\ s \in Needs(c) /\ h[s].value \in {NoValue, Blank} /\ t <= s /\ s # t
      BY <1>7, <1>8, <2>2 DEF Lacking
    <3>2. ~(s <= t)
      BY <1>1, <3>1
    <3> QED BY <1>6, <3>1, <3>2 DEF Lacking
  <2> QED BY <2>1, <2>2
<1>10. \A s \in Needs(c) \ Lacking(c, e) : s \in 1 .. n /\ s <= t
  <2> SUFFICES ASSUME NEW s \in Needs(c), s \notin Lacking(c, e), ~(s <= t) PROVE FALSE
    BY <1>7
  <2>1. s \in 1 .. n /\ t < s /\ s # t /\ t # n + 1
    BY <1>1, <1>7
  <2>2. t \in Lacking(c, h)
    BY <2>1 DEF Stop
  <2>3. s \in Lacking(c, h)
    BY <2>1, <2>2 DEF Closed
  <2> QED BY <1>9, <2>1, <2>3
<1>11. Dated(c, e)
  BY <1>4, <1>10 DEF Dated
<1>12. Closed(c, e)
  <2> SUFFICES ASSUME NEW s \in Lacking(c, e), NEW u \in Needs(c), s < u PROVE u \in Lacking(c, e)
    BY DEF Closed
  <2>1. s \in Lacking(c, h) /\ s # t /\ t <= s /\ s \in 1 .. n /\ u \in 1 .. n
    BY <1>7, <1>8, <1>9
  <2>2. u \in Lacking(c, h) /\ u # t
    BY <1>1, <2>1 DEF Closed
  <2> QED BY <1>9, <2>2
<1> QED BY <1>2, <1>4, <1>9, <1>10, <1>11, <1>12 DEF Passed

\* The worker reaches step t, and goes past every step up to it but one of changes.
ReachesStep(c, f, t) ==
  \A s \in 1 .. Len(c.steps) : s <= t => f[s - 1].running /\ (c.steps[s].type \in Changes \/ f[s].running)

\* The worker made something of a value, or it had nothing to compare the first one with.
Made(c, h, num, o) ==
  \/ o.kind = "value"
  \/ o.kind = "discarded" /\ c.steps[num].type \in Changes /\ Lacking(c, h) = Needs(c)

\* A value that the worker makes something of, or that is the first and has nothing to be
\* compared with, comes in the worker as far as in the program.
LEMMA WorkerReaches ==
  ASSUME NEW c \in Configurations, NEW v \in Texts, NEW ts \in Int, NEW in \in Pasts(c),
         NEW g \in Int, NEW f, ExecuteTrace(f, c, v, ts, in, g), NEW n, n = Len(c.steps),
         NEW h, NEW t, Stop(c, h, t), NEW o, o = WorkerOutcome(c, f[n]),
         Made(c, h, f[n].num, o)
  PROVE  /\ ReachesStep(c, f, t)
         /\ Lacking(c, h) = {} =>
              /\ f[n].running /\ Convertible(f[n].value, VariantOf(c.valueType))
              /\ o.kind = "value" /\ o.value = Convert(f[n].value, VariantOf(c.valueType))
<1>1. n \in Nat /\ t \in 1 .. n + 1 /\ DOMAIN c.steps = 1 .. n /\ n \in 0 .. n
  BY ConfigurationIs DEF Stop
<1>2. f[n] \in Runs(c)
  BY <1>1 DEF ExecuteTrace
<1>3. /\ f[n].num \in 0 .. n /\ \A i \in 0 .. n : i < f[n].num => f[i].running
      /\ f[n].running => f[n].num = n
      /\ ~f[n].running => f[n].num # 0
  BY WorkerComesTo
<1>4. f[n].error = NoError
  <2>1. \A u : Outcome("error", u).kind = "error"
    BY DEF Outcome
  <2> QED BY <2>1 DEF WorkerOutcome, Made, Answer, SetVariantResult
<1>5. f[n].running <=> f[n].value.type # "none"
  BY <1>2, <1>4 DEF Runs
<1>6. CASE o.kind = "value"
  <2>1. /\ f[n].value.type # "none" /\ Convertible(f[n].value, VariantOf(c.valueType))
        /\ o.value = Convert(f[n].value, VariantOf(c.valueType))
    BY <1>2, <1>4, <1>6, OutcomeOfRun
  <2>2. \A s \in 1 .. n : f[s].running /\ f[s - 1].running
    <3> SUFFICES ASSUME NEW s \in 1 .. n PROVE f[s].running /\ f[s - 1].running
      OBVIOUS
    <3>1. f[n].running /\ f[n].num = n
      BY <1>3, <1>5, <2>1
    <3>2. s \in 0 .. n /\ s - 1 \in 0 .. n /\ s - 1 < n /\ (s < n \/ s = n)
      BY <1>1
    <3> QED BY <1>3, <3>1, <3>2
  <2> QED BY <1>5, <1>6, <2>1, <2>2 DEF ReachesStep
<1>7. CASE o.kind = "discarded" /\ c.steps[f[n].num].type \in Changes /\ Lacking(c, h) = Needs(c)
  <2>1. f[n].value.type = "none"
    BY <1>2, <1>4, <1>7, OutcomeOfRun
  <2> DEFINE a == f[n].num
  <2>2. a \in 1 .. n
    BY <1>1, <1>3, <1>5, <2>1
  <2> HIDE DEF a
  <2>3. a \in Lacking(c, h)
    BY <1>1, <1>7, <2>2 DEF a, Needs, NeedsHistory, Changes
  <2>4. t <= a
    BY <2>3 DEF Stop
  <2>5. ASSUME NEW s \in 1 .. n, s <= t
        PROVE  f[s - 1].running /\ (c.steps[s].type \in Changes \/ f[s].running)
    <3>1. s \in 0 .. n /\ s - 1 \in 0 .. n /\ s - 1 < a /\ (s < a \/ s = a)
      BY <1>1, <2>2, <2>4, <2>5
    <3> QED BY <1>3, <1>7, <3>1 DEF a
  <2> QED BY <2>3, <2>5 DEF ReachesStep
<1> QED BY <1>6, <1>7 DEF Made

\* Up to a step, the worker remembers what the program keeps.
AlikeUpTo(c, e, mem, t) == \A s \in 1 .. Len(c.steps) : s <= t => Alike(c, c.steps[s], e[s], mem[s])

\* After such a value, the worker remembers what the program keeps.
LEMMA MemoriesAfter ==
  ASSUME NEW c \in Configurations, NEW v \in Texts, NEW ts \in Int, NEW in \in Pasts(c),
         NEW g \in Int, NEW f, ExecuteTrace(f, c, v, ts, in, g), NEW n, n = Len(c.steps), NEW p,
         NEW h, NEW t \in Nat, NEW e, Passed(c, p, h, ts, t, e), TextsUpTo(c, f, p, t),
         ReachesStep(c, f, t)
  PROVE  AlikeUpTo(c, e, f[n].past, t)
<1> SUFFICES ASSUME NEW s \in 1 .. n, s <= t PROVE Alike(c, c.steps[s], e[s], f[n].past[s])
  BY DEF AlikeUpTo
<1>1. n \in Nat /\ s - 1 \in 0 .. n /\ s - 1 < t
  BY ConfigurationIs
<1>2. f[s - 1].running /\ Same(c, f[s - 1].value, p[s - 1].value)
  BY <1>1 DEF ReachesStep, TextsUpTo, Carried
<1>3. f[n].past[s] = Memory(c, ts, in, g, f, s)
  <2>1. \A i \in 1 .. n : f[n].past[i] = Memory(c, ts, in, g, f, i)
    BY WorkerRemembers
  <2> QED BY <2>1
<1> DEFINE op == c.steps[s]
           q == f[s - 1]
           x == p[s - 1].value
           r == Raw(c, q.value, ts, in, g, s)
           m == f[n].past[s]
<1>4. m = IF r.ok /\ r.past.value.type # "none" THEN r.past ELSE NoPast
  BY <1>2, <1>3 DEF Memory
<1>5. op.type \in Changes \/ (r.ok => r.value.type # "none")
  <2>1. CASE f[s].running
    <3>1. q \in Runs(c) /\ f[s] \in Runs(c) /\ f[s] = ExecuteStep(c, ts, in, g, q, s)
      <4>1. \A i \in 0 .. n : f[i] \in Runs(c)
        BY DEF ExecuteTrace
      <4>2. f[s] = IF ~f[s - 1].running THEN f[s - 1] ELSE ExecuteStep(c, ts, in, g, f[s - 1], s)
        BY DEF ExecuteTrace
      <4>3. s \in 0 .. n
        BY <1>1
      <4> QED BY <1>1, <1>2, <4>1, <4>2, <4>3
    <3>2. q.running /\ s \in 1 .. Len(c.steps)
      BY <1>2
    <3> HIDE DEF q
    <3>3. Round(c, ts, in, g, q, s)
      BY <3>1, <3>2, RoundIs
    <3>4. f[s].value = HandledStep(c, q.value, ts, in, g, s).value
      BY <3>1, <3>3 DEF Round
    <3>5. r.ok => HandledStep(c, q.value, ts, in, g, s) = r
      BY DEF HandledStep, Handled
    <3>6. f[s].value.type # "none"
      BY <2>1, <3>1 DEF Runs
    <3> QED BY <3>4, <3>5, <3>6
  <2> QED BY <2>1 DEF ReachesStep
<1>6. e[s].value = x /\ e[s].ts = ts
  BY DEF Passed
<1>7. op = c.steps[s] /\ r = Raw(c, q.value, ts, in, g, s) /\ Same(c, q.value, x)
  BY <1>2
<1> DEFINE u == q.value
           d == e[s]
<1>8. d.value = x /\ d.ts = ts /\ r = Raw(c, u, ts, in, g, s) /\ Same(c, u, x)
  BY <1>6, <1>7
<1> HIDE DEF op, q, x, r, m, u, d
<1>9. Alike(c, op, d, m)
  BY <1>4, <1>5, <1>7, <1>8, AlikeAfter
<1> QED BY <1>9 DEF op, d, m

-----------------------------------------------------------------------------
(* The program beside the worker: one value after the other                *)

\* What the history says after m values: each of them gave one more step what it lacked.
HistoryAt(c, h, m) ==
  /\ Dated(c, h) /\ Closed(c, h)
  /\ Lacking(c, h) = {} \/ Cardinality(Lacking(c, h)) + m <= Cardinality(Needs(c))
  /\ m = 0 => Lacking(c, h) = Needs(c)

\* The worker remembers what the program keeps.
MemoriesMatch(c, h, in) ==
  \A s \in Needs(c) \ Lacking(c, h) : Alike(c, c.steps[s], h[s], in[s])

LEMMA HistoryFits ==
  ASSUME NEW c \in Configurations, NEW e \in Histories(c)
  PROVE  KeptHistory(c, e) = e /\ Needs(c) \subseteq 1 .. Len(c.steps) /\ IsFiniteSet(Needs(c))
<1> DEFINE n == Len(c.steps)
<1>1. n \in Nat /\ DOMAIN c.steps = 1 .. n
  BY ConfigurationIs
<1>2. e \in [1 .. n -> Kept]
  BY <1>1 DEF Histories
<1>3. Needs(c) \subseteq 1 .. n
  BY <1>1 DEF Needs
<1> HIDE DEF n
<1>4. Len(e) = n
  BY <1>1, <1>2
<1>5. IsFiniteSet(Needs(c))
  BY <1>1, <1>3, FS_Interval, FS_Subset
<1> QED BY <1>3, <1>4, <1>5 DEF n, KeptHistory

\* What the program sends as the k-th value, and the history it leaves.
Continued(c, h, k, r) ==
  /\ KeptHistory(c, r.history) = r.history /\ HistoryAt(c, r.history, k)
  /\ r.kind = "value" \/ (r.kind = "thrown" /\ k <= Cardinality(Needs(c)))
  /\ r.kind = "value" <=> Lacking(c, h) = {}

LEMMA HistoryGoesOn ==
  ASSUME NEW c \in Configurations, NEW ts \in Nat \ {0}, NEW n, n = Len(c.steps), NEW p,
         NEW h \in Histories(c), NEW t, Stop(c, h, t), NEW m \in Nat, HistoryAt(c, h, m),
         Stages(c, p, h, ts, t), Filled(c, p, t), NEW r, r = p[n]
  PROVE  Continued(c, h, m + 1, r)
<1> DEFINE e == r.history
<1>1. /\ e \in Histories(c) /\ Dated(c, e) /\ Closed(c, e)
      /\ Lacking(c, e) = Lacking(c, h) \ {t}
  <2>1. Dated(c, h) /\ Closed(c, h)
    BY DEF HistoryAt
  <2>2. PICK d : d = p[n].history
    OBVIOUS
  <2>3. Passed(c, p, h, ts, t, d)
    BY <2>1, <2>2, HistoryAfter
  <2> QED BY <2>2, <2>3 DEF Passed
<1>2. KeptHistory(c, e) = e /\ IsFiniteSet(Needs(c)) /\ Needs(c) \subseteq 1 .. n
  BY <1>1, HistoryFits
<1>3. n \in Nat /\ n \in 0 .. n /\ t \in 1 .. n + 1
  BY ConfigurationIs DEF Stop
<1>4. p[n].kind \in {"value", "thrown"} /\ (p[n].kind = "value" <=> n < t)
  BY <1>3 DEF Stages, Stage, Reduces
<1>5. Lacking(c, h) \subseteq Needs(c) /\ Lacking(c, h) \subseteq 1 .. n
  BY <1>2 DEF Lacking
<1>6. t \in Lacking(c, h) \/ (t = n + 1 /\ Lacking(c, h) = {})
  BY DEF Stop
<1>7. n < t <=> Lacking(c, h) = {}
  BY <1>3, <1>5, <1>6
<1>8. IsFiniteSet(Lacking(c, h)) /\ Cardinality(Lacking(c, h)) \in Nat /\ Cardinality(Needs(c)) \in Nat
  BY <1>2, <1>5, FS_Subset, FS_CardinalityType
<1>9. ASSUME Lacking(c, h) # {}
      PROVE  /\ Cardinality(Lacking(c, e)) + (m + 1) <= Cardinality(Needs(c))
             /\ m + 1 <= Cardinality(Needs(c))
  <2>1. t \in Lacking(c, h)
    BY <1>6, <1>9
  <2>2. Cardinality(Lacking(c, e)) = Cardinality(Lacking(c, h)) - 1
    <3>1. \A S, x : IsFiniteSet(S) /\ x \in S => Cardinality(S \ {x}) = Cardinality(S) - 1
      BY FS_RemoveElement
    <3> QED BY <1>1, <1>8, <2>1, <3>1
  <2>3. Cardinality(Lacking(c, h)) + m <= Cardinality(Needs(c))
    BY <1>9 DEF HistoryAt
  <2>4. Cardinality(Lacking(c, h)) # 0
    BY <1>8, <1>9, FS_EmptySet
  <2> QED BY <1>8, <2>2, <2>3, <2>4
<1>10. HistoryAt(c, e, m + 1)
  <2>1. Lacking(c, h) = {} => Lacking(c, e) = {}
    BY <1>1
  <2>2. m + 1 # 0
    OBVIOUS
  <2> QED BY <1>1, <1>9, <2>1, <2>2 DEF HistoryAt
<1> QED BY <1>2, <1>4, <1>7, <1>9, <1>10 DEF Continued

\* A text that reads as what the worker made, when that is printed.
Printing(c, x, v) ==
  Convert(x, VariantOf(c.valueType)) = Convert(Convert(v, "str"), VariantOf(c.valueType))

\* What the program sends is what the worker made, and both remember the same.
Accords(c, h, mem, r, o) ==
  /\ MemoriesMatch(c, r.history, mem)
  /\ Lacking(c, h) = {} => o.kind = "value" /\ Printing(c, r.value, o.value)

\* A value of which the worker makes something becomes the same in the program, once each
\* step has its history, and after it both remember the same.
LEMMA OutcomesAgree ==
  ASSUME NEW c \in Configurations, NEW v \in Texts, NEW ts \in Nat \ {0}, NEW in \in Pasts(c),
         NEW g \in Int, NEW f, ExecuteTrace(f, c, v, ts, in, g), NEW n, n = Len(c.steps),
         NEW old \in Seq(Kept), NEW p, ReduceTrace(p, c, v, ts, old, g),
         NEW h, NEW t, Ready(c, v, in, h, t), Closed(c, h),
         Stages(c, p, h, ts, t),
         NEW o, o = WorkerOutcome(c, f[n]),
         Made(c, h, f[n].num, o)
  PROVE  Accords(c, h, f[n].past, p[n], o) /\ Filled(c, p, t)
<1> DEFINE e == p[n].history
<1>1. Stop(c, h, t) /\ Dated(c, h) /\ n \in Nat /\ t \in Nat /\ n \in 0 .. n
  BY ConfigurationIs DEF Ready, Stop
<1>2. /\ ReachesStep(c, f, t)
      /\ Lacking(c, h) = {} =>
           /\ f[n].running /\ Convertible(f[n].value, VariantOf(c.valueType))
           /\ o.kind = "value" /\ o.value = Convert(f[n].value, VariantOf(c.valueType))
  BY <1>1, WorkerReaches
<1>3. TextsUpTo(c, f, p, t)
  BY RunsAgree
<1>8. Filled(c, p, t)
  <2> SUFFICES ASSUME NEW s \in 1 .. n, s <= t PROVE p[s - 1].value # Blank
    BY DEF Filled
  <2>1. s - 1 \in 0 .. n /\ s - 1 < n /\ s - 1 < t
    BY <1>1
  <2>2. PICK i : i = s - 1
    OBVIOUS
  <2>3. f[i].running
    BY <1>2, <2>2 DEF ReachesStep
  <2>4. Carried(c, i, f[i].value, p[i].value)
    BY <1>3, <2>1, <2>2, <2>3 DEF TextsUpTo
  <2> QED BY <2>1, <2>2, <2>4 DEF Carried, Same
<1>4. Passed(c, p, h, ts, t, e)
  BY <1>1, <1>8, HistoryAfter
<1> HIDE DEF e
<1>5. AlikeUpTo(c, e, f[n].past, t)
  BY <1>1, <1>2, <1>3, <1>4, MemoriesAfter
<1>6. MemoriesMatch(c, e, f[n].past)
  BY <1>4, <1>5 DEF MemoriesMatch, AlikeUpTo, Passed
<1>7. ASSUME Lacking(c, h) = {}
      PROVE  o.kind = "value" /\ Printing(c, p[n].value, o.value)
  <2>1. n < t
    BY <1>1, <1>7 DEF Stop
  <2>2. Shown(c, f[n].value, p[n].value)
    BY <1>1, <1>2, <1>3, <1>7, <2>1 DEF TextsUpTo, Carried
  <2>3. PICK u, x, type : u = f[n].value /\ x = p[n].value /\ type = VariantOf(c.valueType)
    OBVIOUS
  <2>4. Convert(x, type) = Convert(Convert(Convert(u, type), "str"), type)
    BY <1>2, <1>7, <2>2, <2>3, ShownConverted
  <2> QED BY <1>2, <1>7, <2>3, <2>4 DEF Printing
<1> QED BY <1>6, <1>7, <1>8 DEF e, Accords

\* Values that the program is to make what the worker makes of them.
Regular(k) == Smooth(k) /\ Whole(k) /\ NeverBlank(k)

\* As long as the configuration is the first one, nothing fails, nothing is dropped and nothing
\* is lost in a text: what the history says of the values so far, and that the worker remembers
\* the same.
ProgramInv ==
  changes = 0 =>
    /\ Regular(Len(log)) =>
         /\ HistoryAt(conf, KeptHistory(conf, history), Len(log))
         /\ MemoriesMatch(conf, KeptHistory(conf, history), past)
    /\ ProgramAgreesWithWorker

\* What a value leaves as it was: what was noted before, and what is said of it.
LEMMA EarlierStays ==
  ASSUME conf' = conf, NEW e, Grown(e), NEW k \in 1 .. Len(log)
  PROVE  (Regular(k)' <=> Regular(k)) /\ log'[k] = log[k]
<1>1. k \in Nat /\ 1 .. k \subseteq 1 .. Len(log) /\ \A j \in 1 .. k : log'[j] = log[j]
  BY DEF Grown
<1>2. Smooth(k)' <=> Smooth(k)
  BY <1>1 DEF Smooth, Steps
<1>3. Whole(k)' <=> Whole(k)
  BY <1>1 DEF Whole, Steps, Plain
<1>4. NeverBlank(k)' <=> NeverBlank(k)
  BY <1>1 DEF NeverBlank, Steps
<1> QED BY <1>1, <1>2, <1>3, <1>4 DEF Grown, Regular

\* If the worker made something of every value, so it did of those before and of the last.
LEMMA LastIsRegular ==
  ASSUME conf' = conf, NEW e, Grown(e), NEW k, k = Len(log) + 1, Regular(k)'
  PROVE  /\ Regular(Len(log))
         /\ \/ e.worker.kind = "value"
            \/ Len(log) = 0 /\ e.worker.kind = "discarded" /\ conf.steps[e.at].type \in Changes
         /\ \A s \in DOMAIN conf.steps : WholeStep(conf, s)
         /\ Held(conf, e.in.num) /\ e.in # Blank
<1> DEFINE m == Len(log)
<1>1. m \in Nat /\ k = m + 1 /\ (\A j \in 1 .. m : log'[j] = log[j]) /\ log'[k] = e
      /\ k \in 1 .. k /\ \A j \in 1 .. m : j \in 1 .. k
  BY DEF Grown
<1>2. \A j \in 1 .. k :
        \/ log'[j].worker.kind = "value"
        \/ j = 1 /\ log'[j].worker.kind = "discarded" /\ conf.steps[log'[j].at].type \in {"delta", "speed"}
  BY DEF Regular, Smooth, Steps
<1>9. \A a : Plain(a)' <=> Held(conf, a)
  BY DEF Plain, Held
<1>10. \A a : Plain(a) <=> Held(conf, a)
  BY DEF Plain, Held
<1>3. /\ \A j \in 1 .. k : Held(conf, log'[j].in.num) /\ log'[j].in # Blank
      /\ \A s \in DOMAIN conf.steps : WholeStep(conf, s)
  <2>1. Whole(k)' /\ NeverBlank(k)'
    BY DEF Regular
  <2>2. \A j \in 1 .. k : Held(conf, log'[j].in.num) /\ log'[j].in # Blank
    BY <2>1 DEF Whole, NeverBlank, Plain, Held
  <2>3. \A s \in DOMAIN conf.steps : WholeStep(conf, s)
    BY <2>1 DEF Whole, NeverBlank, Plain, Held, WholeStep, Steps
  <2> QED BY <2>2, <2>3
<1> HIDE DEF m
<1>4. Smooth(m)
  BY <1>1, <1>2 DEF Smooth, Steps
<1>5. Whole(m) /\ NeverBlank(m)
  <2>1. \A j \in 1 .. m : Plain(log[j].in.num) /\ log[j].in # Blank
    BY <1>1, <1>3, <1>10
  <2>2. Whole(m)
    BY <1>3, <1>10, <2>1 DEF Whole, Steps, WholeStep
  <2> QED BY <1>3, <2>1, <2>2 DEF NeverBlank, Steps, WholeStep
<1>6. \/ e.worker.kind = "value"
      \/ m = 0 /\ e.worker.kind = "discarded" /\ conf.steps[e.at].type \in Changes
  BY <1>1, <1>2 DEF Changes
<1>8. Held(conf, e.in.num) /\ e.in # Blank
  BY <1>1, <1>3
<1> QED BY <1>3, <1>4, <1>5, <1>6, <1>8 DEF m, Regular

\* What the last value adds.
LEMMA ProgramValue ==
  ASSUME TypeInv, ProgramInv, changes = 0,
         NEW v \in Inputs, NEW gap \in Gaps, NEW g \in Garbage, Value(v, gap, g)
  PROVE  ProgramInv'
<1> DEFINE n == Len(conf.steps)
           m == Len(log)
           h == KeptHistory(conf, history)
<1>1. /\ v \in Texts /\ g \in Int /\ now' \in Nat \ {0} /\ now' \in Int
      /\ conf \in Configurations /\ past \in Pasts(conf) /\ history \in Seq(Kept)
      /\ conf' = conf /\ changes' = changes /\ n \in Nat
  BY ValueTypes1
<1>2. PICK f, p, e : Noted(v, g, f, p, e) /\ Grown(e)
  BY ValueIsNoted
<1>3. PICK ts, in, old, k1 : ts = now' /\ in = past /\ old = history /\ k1 = Len(log) + 1
  OBVIOUS
<1>4. /\ ExecuteTrace(f, conf, v, ts, in, g) /\ past' = f[n].past
      /\ ReduceTrace(p, conf, v, ts, old, g) /\ history' = p[n].history
      /\ e.in = v /\ e.at = f[n].num /\ e.worker = WorkerOutcome(conf, f[n])
      /\ e.sent = Outcome(p[n].kind, p[n].value)
  BY <1>2, <1>3 DEF Noted, WorkerOutcome
<1>5. m \in Nat /\ k1 = m + 1 /\ Len(log') = k1 /\ DOMAIN log' = 1 .. k1 /\ DOMAIN log = 1 .. m /\ log'[k1] = e
  BY <1>2, <1>3 DEF Grown
<1>6. h \in Histories(conf)
  BY <1>1, BegunIs
<1>7. PICK t : Stop(conf, h, t)
  BY <1>1, StopExists
<1>8. PICK c, h0, m0, r : c = conf /\ h0 = h /\ m0 = m /\ r = p[n]
  OBVIOUS
<1>9. /\ c \in Configurations /\ ts \in Nat \ {0} /\ old \in Seq(Kept) /\ in \in Pasts(c)
      /\ ExecuteTrace(f, c, v, ts, in, g) /\ ReduceTrace(p, c, v, ts, old, g)
      /\ h0 \in Histories(c) /\ h0 = KeptHistory(c, old) /\ Stop(c, h0, t)
      /\ m0 \in Nat
  BY <1>1, <1>3, <1>4, <1>5, <1>6, <1>7, <1>8
<1>12. HistorySteps = Cardinality(Needs(conf)) /\ HistorySteps' = HistorySteps
  BY <1>1 DEF HistorySteps, Steps, Needs
<1>13. ASSUME Regular(k1)'
       PROVE  Accords(conf, h, past', r, e.worker) /\ Continued(c, h0, k1, r)
  <2>1. /\ Regular(m)
        /\ \/ e.worker.kind = "value"
           \/ m = 0 /\ e.worker.kind = "discarded" /\ conf.steps[e.at].type \in Changes
        /\ \A s \in DOMAIN conf.steps : WholeStep(conf, s)
        /\ Held(conf, v.num) /\ v # Blank
    BY <1>1, <1>2, <1>3, <1>4, <1>13, LastIsRegular
  <2>2. MemoriesMatch(conf, h, past) /\ HistoryAt(conf, h, m)
    BY <2>1 DEF ProgramInv
  <2>3. Same(conf, v, v)
    BY <1>1, <2>1, SomeValues DEF Same, Texts
  <2> HIDE DEF h
  <2>9. HistoryAt(c, h0, m0)
    BY <1>8, <2>2
  <2>10. Stages(c, p, h0, ts, t)
    <3>1. Dated(c, h0) /\ ts \in Int
      BY <1>9, <2>9 DEF HistoryAt
    <3> QED BY <1>1, <1>9, <3>1, ReduceStages
  <2>4. Ready(c, v, in, h0, t)
    BY <1>3, <1>8, <1>9, <2>1, <2>2, <2>3, <2>9 DEF Ready, HistoryAt, MemoriesMatch
  <2>5. PICK b, o : b = Len(c.steps) /\ o = WorkerOutcome(c, f[b])
    OBVIOUS
  <2>6. b = n /\ o = e.worker /\ f[b].num = e.at /\ r = p[b] /\ past' = f[b].past
    BY <1>4, <1>8, <2>5
  <2>7. Made(c, h0, f[b].num, o) /\ Closed(c, h0)
    BY <1>8, <2>1, <2>6, <2>9 DEF Made, HistoryAt
  <2> HIDE DEF n, m
  <2>8. Accords(c, h0, f[b].past, p[b], o) /\ Filled(c, p, t)
    BY <1>1, <1>9, <2>10, <2>4, <2>5, <2>7, OutcomesAgree
  <2>11. Continued(c, h0, m0 + 1, r)
    BY <1>9, <2>5, <2>6, <2>8, <2>9, <2>10, HistoryGoesOn
  <2> QED BY <1>5, <1>8, <2>6, <2>8, <2>11
<1>14. /\ r.history = history' /\ Outcome(r.kind, r.value) = e.sent
       /\ Regular(k1)' =>
            /\ KeptHistory(conf, history') = history' /\ HistoryAt(conf, history', k1)
            /\ r.kind = "value" \/ (r.kind = "thrown" /\ k1 <= HistorySteps)
            /\ r.kind = "value" <=> Lacking(conf, h) = {}
  BY <1>4, <1>8, <1>12, <1>13 DEF Continued
<1> HIDE DEF h, m, n
<1>15. ProgramAgreesWithWorker'
  <2> SUFFICES ASSUME NEW k \in 1 .. k1, Regular(k)'
               PROVE  \/ log'[k].sent.kind = "thrown" /\ k <= HistorySteps
                      \/ log'[k].sent.kind = "value"
                         /\ Printing(conf, log'[k].sent.value, log'[k].worker.value)
    BY <1>1, <1>5, <1>12 DEF ProgramAgreesWithWorker, Regular, Printing
  <2>1. CASE k = k1
    <3>1. e.sent.kind = r.kind /\ e.sent.value = r.value
      <4>1. \A kind, u : Outcome(kind, u).kind = kind /\ Outcome(kind, u).value = u
        BY DEF Outcome
      <4> QED BY <1>14, <4>1
    <3>2. Accords(conf, h, past', r, e.worker)
      BY <1>13, <2>1
    <3> QED BY <1>5, <1>14, <2>1, <3>1, <3>2 DEF Accords
  <2>2. CASE k \in 1 .. m
    <3>1. Regular(k) /\ log'[k] = log[k]
      BY <1>1, <1>2, <2>2, EarlierStays DEF m
    <3>2. ProgramAgreesWithWorker
      BY DEF ProgramInv
    <3> QED BY <1>5, <2>2, <3>1, <3>2 DEF ProgramAgreesWithWorker, Regular, Printing
  <2> QED BY <1>5, <2>1, <2>2
<1>16. Regular(Len(log))' => Regular(k1)'
  BY <1>5 DEF Regular, Smooth, Whole, NeverBlank
<1>17. Regular(k1)' => MemoriesMatch(conf, history', past')
  BY <1>13, <1>14 DEF Accords
<1> QED BY <1>1, <1>5, <1>14, <1>15, <1>16, <1>17 DEF ProgramInv

LEMMA ProgramStays == TypeInv /\ ProgramInv /\ [Next]_vars => ProgramInv'
<1> SUFFICES ASSUME TypeInv, ProgramInv, [Next]_vars PROVE ProgramInv'
  OBVIOUS
<1>1. ASSUME NEW v \in Inputs, NEW gap \in Gaps, NEW g \in Garbage, Value(v, gap, g)
      PROVE  ProgramInv'
  <2>1. CASE changes = 0
    BY <1>1, <2>1, ProgramValue
  <2>2. CASE changes # 0
    <3>1. changes' = changes
      BY <1>1, ValueTypes1
    <3> QED BY <2>2, <3>1 DEF ProgramInv
  <2> QED BY <2>1, <2>2
<1>2. ASSUME NEW c \in Configurations, ChangeSteps(c)
      PROVE  ProgramInv'
  <2>1. changes' = changes + 1 /\ changes \in Nat
    BY <1>2 DEF ChangeSteps, TypeInv
  <2>2. changes' # 0
    BY <2>1
  <2> QED BY <2>2 DEF ProgramInv
<1>3. CASE UNCHANGED vars
  <2>1. conf' = conf /\ changes' = changes /\ past' = past /\ log' = log /\ history' = history
    BY <1>3 DEF vars
  <2>2. \A k : Regular(k)' <=> Regular(k)
    BY <2>1 DEF Regular, Smooth, Whole, NeverBlank, Plain, Steps
  <2>3. HistorySteps' = HistorySteps
    BY <2>1 DEF HistorySteps, Steps
  <2>4. ProgramAgreesWithWorker => ProgramAgreesWithWorker'
    BY <2>1, <2>2, <2>3 DEF ProgramAgreesWithWorker, Regular
  <2> QED BY <2>1, <2>2, <2>4 DEF ProgramInv
<1> QED BY <1>1, <1>2, <1>3 DEF Next

LEMMA ProgramInit == Init => ProgramInv
<1> SUFFICES ASSUME Init PROVE ProgramInv
  OBVIOUS
<1> DEFINE h == KeptHistory(conf, history)
<1>1. conf \in Configurations /\ history = <<>> /\ log = <<>>
  BY DEF Init
<1>2. DOMAIN log = {} /\ Len(log) = 0 /\ Len(history) = 0
  BY <1>1
<1>3. \A s \in Needs(conf) : h[s].value = NoValue
  <2>1. CASE Len(conf.steps) = 0
    <3>1. DOMAIN conf.steps = {}
      BY <1>1, <2>1, ConfigurationIs
    <3> QED BY <3>1 DEF Needs
  <2>2. CASE Len(conf.steps) # 0
    <3>1. h = NoPasts(conf)
      BY <1>2, <2>2 DEF KeptHistory
    <3>2. \A s \in DOMAIN conf.steps : h[s] = NoPast
      BY <3>1 DEF NoPasts
    <3>3. NoPast.value = NoValue
      BY DEF NoPast
    <3> QED BY <3>2, <3>3 DEF Needs
  <2> QED BY <2>1, <2>2
<1> HIDE DEF h
<1>4. Lacking(conf, h) = Needs(conf)
  BY <1>3 DEF Lacking
<1>5. IsFiniteSet(Needs(conf)) /\ Cardinality(Needs(conf)) \in Nat
  <2>1. NoPasts(conf) \in Histories(conf)
    BY DEF NoPasts, Histories, NoPast, Kept
  <2> QED BY <1>1, <2>1, HistoryFits, FS_CardinalityType
<1>6. HistoryAt(conf, h, 0)
  <2>1. Dated(conf, h) /\ Closed(conf, h)
    BY <1>4 DEF Dated, Closed
  <2> QED BY <1>4, <1>5, <2>1 DEF HistoryAt
<1>7. MemoriesMatch(conf, h, past)
  BY <1>4 DEF MemoriesMatch
<1>8. ProgramAgreesWithWorker
  BY <1>2 DEF ProgramAgreesWithWorker
<1> QED BY <1>2, <1>6, <1>7, <1>8 DEF ProgramInv, h

-----------------------------------------------------------------------------
(* The theorems                                                            *)

\* What is inductive about the worker: the types of what it keeps and makes, what the one
\* value of a throttling or a difference says of the values before, and what it made so far.
WorkerInv ==
  /\ TypeInv
  /\ ThrottleInv
  /\ DifferenceInv
  /\ HandledNeverFails
  /\ TestAgreesWithWorker

LEMMA WorkerInit == Init => WorkerInv
<1> SUFFICES ASSUME Init PROVE WorkerInv
  OBVIOUS
<1>1. TypeInv /\ ThrottleInv /\ DifferenceInv
  BY TypeInit, ThrottleInit, DifferenceInit
<1>2. DOMAIN log = {}
  <2>1. log = <<>>
    BY DEF Init
  <2> QED BY <2>1
<1> QED BY <1>1, <1>2 DEF WorkerInv, HandledNeverFails, TestAgreesWithWorker

LEMMA WorkerStep == WorkerInv /\ [Next]_vars => WorkerInv'
  BY TypeStep, ThrottleStays, DifferenceStays, HandledStays, TestStays DEF WorkerInv

THEOREM WorkerKeeps == Spec => []WorkerInv
<1>1. Init => WorkerInv
  BY WorkerInit
<1>2. WorkerInv /\ [Next]_vars => WorkerInv'
  BY WorkerStep
<1> QED BY <1>1, <1>2, PTL DEF Spec

\* Whatever the steps of an item are and however they change, the worker's numbers are ones
\* their types can hold, throttling lets through exactly the changes, differences add up to
\* the growth of the counter, and steps that handle their errors give none.
THEOREM WorkerSound == Spec => []WorkerIsSound
<1>1. WorkerInv => WorkerIsSound
  BY TypesHold, ThrottleHolds, DifferenceHolds DEF WorkerInv, WorkerIsSound
<1> QED BY <1>1, WorkerKeeps, PTL

\* A test of the steps shows what the worker would make of the value, whatever a failed step
\* remembers: zbx_item_preproc_test and worker_item_preproc_execute agree.
THEOREM TestAgrees == Spec => []TestAgreesWithWorker
<1>1. WorkerInv => TestAgreesWithWorker
  BY DEF WorkerInv
<1> QED BY <1>1, WorkerKeeps, PTL

\* The program keeps the inputs of the steps as texts where the worker keeps results, yet as
\* long as nothing fails, nothing is dropped and no digit is lost in a text between two steps,
\* getPreprocessedItem sends what worker_item_preproc_execute makes of the same values, as it is
\* printed, and each step with history costs it one value.
THEOREM ProgramAgrees == Spec => []ProgramAgreesWithWorker
<1>1. Init => ProgramInv
  BY ProgramInit
<1>2. TypeInv /\ ProgramInv /\ [Next]_vars => ProgramInv'
  BY ProgramStays
<1>3. WorkerInv => TypeInv
  BY DEF WorkerInv
<1>4. ProgramInv => ProgramAgreesWithWorker
  BY DEF ProgramInv, ProgramAgreesWithWorker
<1> QED BY <1>1, <1>2, <1>3, <1>4, WorkerKeeps, PTL DEF Spec
=============================================================================
