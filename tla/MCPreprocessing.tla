--------------------------- MODULE MCPreprocessing ---------------------------
(***************************************************************************)
(* Preprocessing with each kind of step alone and in the combinations that *)
(* pass values from one step with history or error handler to the next.    *)
(***************************************************************************)
EXTENDS Preprocessing

Op(type, param) ==
  [type |-> type, param |-> param, max |-> param, handler |-> "default", alt |-> NoValue]
Conf(valueType, steps) == [valueType |-> valueType, steps |-> steps]

Twice == Op("multiplier", 2 * Unit)
Half == Op("multiplier", 2)
Delta1 == Op("delta", 0)
Speed1 == Op("speed", 0)
Quiet == Op("throttle", 0)
Heartbeat == Op("throttle_timed", 2)
BadPeriod == [Op("throttle_timed", -1) EXCEPT !.handler = "set_value", !.alt = Text(Unit)]
UpTo2 == [Op("range", 0) EXCEPT !.max = 2 * Unit, !.handler = "set_error", !.alt = Word("range")]
Extracted == [Op("extract", Unit) EXCEPT !.handler = "set_value", !.alt = Text(2 * Unit)]
NoWords == [Op("not_regex", 0) EXCEPT !.handler = "discard"]
NoErrors == Op("error_regex", 0)
Handled(op) == [op EXCEPT !.handler = "discard"]
DeltaOrZero == [Delta1 EXCEPT !.handler = "set_value", !.alt = Text(0)]

MCInputs == {Text(1), Text(2 * Unit), Text(3 * Unit), Word("w"), Blank}

MCWords == Errors \cup {NoWord, Blank.word, "Shit happens!", "w", "range"}

MCConfigurations ==
  {Conf("uint", <<Delta1>>), Conf("float", <<Twice, Delta1>>), Conf("uint", <<Twice, Delta1>>),
   Conf("text", <<Quiet>>), Conf("float", <<Heartbeat>>), Conf("float", <<Quiet, Half>>),
   Conf("float", <<Half, Delta1>>), Conf("float", <<Speed1>>), Conf("float", <<Speed1, UpTo2>>),
   Conf("uint", <<NoWords, Handled(Half), Handled(Quiet)>>), Conf("uint", <<DeltaOrZero, Quiet>>),
   Conf("text", <<NoErrors, Delta1>>), Conf("text", <<Delta1>>), Conf("float", <<BadPeriod, Delta1>>),
   Conf("uint", <<Op("multiplier", 5), Op("multiplier", -1), Quiet>>),
   Conf("uint", <<Extracted, Op("unknown", 0)>>),
   Conf("float", <<Op("script", 0), Handled(Op("regex", 0))>>)}

ShortConfigurations == {Conf("text", <<Quiet>>)}
=============================================================================
