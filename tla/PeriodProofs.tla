---------------------------- MODULE PeriodProofs ----------------------------
(***************************************************************************)
(* Proofs about Period, for integers of every width.                       *)
(***************************************************************************)
EXTENDS Period, TLAPS

\* ToInt32 gives an integer of the width, and the integer itself when it fits.
LEMMA ToInt32Range ==
  ASSUME NEW n \in Int
  PROVE  /\ ToInt32(n) \in -(MaxInt + 1) .. MaxInt
         /\ n \in 0 .. MaxInt => ToInt32(n) = n
<1> DEFINE w == 2 * (MaxInt + 1)
           k == n + MaxInt + 1
<1>1. w \in Nat \ {0} /\ k \in Int
  BY PeriodAssumption
<1>2. k % w \in 0 .. w - 1
  BY <1>1
<1>3. ASSUME n \in 0 .. MaxInt PROVE k % w = k
  <2>1. k \in 0 .. w - 1
    BY <1>3, PeriodAssumption
  <2> HIDE DEF k, w
  <2> QED BY <1>1, <2>1
<1> QED BY <1>2, <1>3, PeriodAssumption DEF ToInt32

\* checkPeriod returns a delay setTimeout takes as it is, and keeps one that fits.
LEMMA CheckPeriodRange ==
  ASSUME NEW p \in Values
  PROVE  /\ CheckPeriod(p) \in MinDelay .. MaxInt
         /\ p.kind = "number" /\ p.ms \in MinDelay .. MaxInt => CheckPeriod(p) = p.ms
<1>1. p.ms \in Int
  BY DEF Values
<1>2. DoubleBitNot(p) \in -(MaxInt + 1) .. MaxInt
  BY <1>1, ToInt32Range, PeriodAssumption DEF DoubleBitNot
<1>3. p.kind = "number" /\ p.ms \in MinDelay .. MaxInt => DoubleBitNot(p) = p.ms
  BY <1>1, ToInt32Range, PeriodAssumption DEF DoubleBitNot
<1> QED BY <1>2, <1>3, PeriodAssumption DEF CheckPeriod

\* The types and the two properties together are inductive.
PeriodInv == asked \in Values /\ DelayInRange /\ FittingPeriodKept

\* Timers are created with checked delays only.
LEMMA InitPeriod == Init => PeriodInv
<1> SUFFICES ASSUME NEW p \in Inputs, NEW first \in {Undefined} \cup Inputs,
                    period = CheckPeriod(p), delay \in FirstDelays(first), asked = first
             PROVE  PeriodInv
  BY DEF Init
<1>1. p \in Values /\ first \in Values
  BY PeriodAssumption DEF Undefined, Values
<1>2. CheckPeriod(first) # 0 /\ delay = CheckPeriod(first)
  BY <1>1, CheckPeriodRange, PeriodAssumption DEF FirstDelays
<1> QED BY <1>1, <1>2, CheckPeriodRange DEF PeriodInv, DelayInRange, FittingPeriodKept

\* Timers are set again with the period of the closure or a checked one.
LEMMA RearmPeriod == PeriodInv /\ [Next]_vars => PeriodInv'
<1>1. ASSUME PeriodInv, NEW v \in {Undefined} \cup Inputs, Rearm(v) PROVE PeriodInv'
  <2>1. v \in Values
    BY PeriodAssumption DEF Undefined, Values
  <2> QED BY <1>1, <2>1, CheckPeriodRange DEF PeriodInv, Rearm, DelayInRange, FittingPeriodKept
<1>2. ASSUME PeriodInv, UNCHANGED vars PROVE PeriodInv'
  BY <1>2 DEF vars, PeriodInv, DelayInRange, FittingPeriodKept
<1> QED BY <1>1, <1>2 DEF Next

\* No timer is ever set with a delay out of the range of setTimeout.
THEOREM DelaysInRange == Spec => []DelayInRange
<1>1. PeriodInv => DelayInRange
  BY DEF PeriodInv
<1> QED BY <1>1, InitPeriod, RearmPeriod, PTL DEF Spec

\* A period between the minimum and the width is kept as it is.
THEOREM FittingPeriodsKept == Spec => []FittingPeriodKept
<1>1. PeriodInv => FittingPeriodKept
  BY DEF PeriodInv
<1> QED BY <1>1, InitPeriod, RearmPeriod, PTL DEF Spec

\* Both at once.
THEOREM DelaysSound == Spec => []DelaysAreSound
<1>1. PeriodInv => DelaysAreSound
  BY DEF PeriodInv, DelaysAreSound
<1> QED BY <1>1, InitPeriod, RearmPeriod, PTL DEF Spec
=============================================================================
