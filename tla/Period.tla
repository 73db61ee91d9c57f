------------------------------- MODULE Period -------------------------------
(***************************************************************************)
(* The delays createTimer (libs/timerProcessor/index.js) gives setTimeout: *)
(* checkPeriod and its uses.  `~~` makes any number a 32-bit integer, and  *)
(* setTimeout fires after 1 ms when it gets a delay outside 1 .. MaxInt.   *)
(***************************************************************************)
EXTENDS Integers, FiniteSets

CONSTANTS
  MaxInt,         \* 2^31 - 1
  MinDelay,       \* 5000 ms
  InfinityDelay,  \* 60000 ms
  MaxShift,       \* 30000 ms, the bound of the random first delay
  Inputs          \* periods a configuration or a query may give

(***************************************************************************)
(* A period in seconds, times 1000 and truncated: what is no number (such  *)
(* as undefined) gives "nan"; ms counts only for a number.                 *)
(***************************************************************************)
Values == [kind : {"nan", "infinity", "number"}, ms : Int]

ASSUME PeriodAssumption ==
  /\ MaxInt \in Nat
  /\ MinDelay \in 1 .. MaxInt
  /\ InfinityDelay \in MinDelay .. MaxInt
  /\ MaxShift \in 1 .. MaxInt
  /\ Inputs \subseteq Values

Undefined == [kind |-> "nan", ms |-> 0]

ToInt32(n) == ((n + MaxInt + 1) % (2 * (MaxInt + 1))) - (MaxInt + 1)

DoubleBitNot(p) == IF p.kind = "number" THEN ToInt32(p.ms) ELSE 0

\* Mutant: without ~~ a long period stays long and setTimeout overflows.
CheckPeriodNoInt(p) == IF p.ms < MinDelay THEN MinDelay ELSE p.ms

\* Mutant: the shortest period is used for the ones below and above it.
CheckPeriodSwapped(p) == IF DoubleBitNot(p) < MinDelay THEN DoubleBitNot(p) ELSE MinDelay

\* checkPeriod.  The test meant for Infinity compares p with itself.
CheckPeriod(p) ==
  LET q == DoubleBitNot(p)
  IN  IF q > q THEN InfinityDelay
      ELSE IF q < MinDelay THEN MinDelay
      ELSE q

\* What setTimeout may be given first: a checked firstDelay, unless it is falsy.
FirstDelays(first) ==
  IF CheckPeriod(first) # 0 THEN {CheckPeriod(first)} ELSE 0 .. MaxShift

VARIABLES
  period,   \* the period the closure keeps
  delay,    \* the delay of the timeout that is armed
  asked     \* the value this delay was computed from

vars == <<period, delay, asked>>

\* createTimer: monitors give no firstDelay, senders their period.
Init ==
  \E p \in Inputs, first \in {Undefined} \cup Inputs :
    /\ period = CheckPeriod(p)
    /\ delay \in FirstDelays(first)
    /\ asked = first

\* setQuery has fired; query() returned v, most often undefined.
Rearm(v) ==
  /\ delay' = IF v.kind = "nan" THEN period ELSE CheckPeriod(v)
  /\ asked' = v
  /\ UNCHANGED period

Next == \E v \in {Undefined} \cup Inputs : Rearm(v)

Spec == Init /\ [][Next]_vars

-----------------------------------------------------------------------------
\* No timer is ever set with a delay setTimeout turns into 1 ms, however long or
\* odd the period: no query storms the databases.
DelayInRange == period \in MinDelay .. MaxInt /\ delay \in MinDelay .. MaxInt

\* A period that fits is kept to the millisecond.
FittingPeriodKept ==
  asked.kind = "number" /\ asked.ms \in MinDelay .. MaxInt => delay = asked.ms

\* Every delay is one setTimeout keeps, and the one asked for wherever that is possible.
DelaysAreSound == DelayInRange /\ FittingPeriodKept
=============================================================================
