--------------------------- MODULE TimerRegistry ---------------------------
(***************************************************************************)
(* The registry of recurring timers of libs/timerProcessor/index.js        *)
(* (registerTimer, createTimer, setQuery, cancelTimer) and the part of the *)
(* event loop it relies on (setTimeout, clearTimeout).                     *)
(*                                                                         *)
(* A registry is a record reg with                                         *)
(*   reg.timers : timer id -> handle, the entries {id, timer} of           *)
(*                this.timers;                                             *)
(*   reg.armed  : handle -> timeout, the Timeout objects the event loop    *)
(*                will still fire, each with the closure it will run.      *)
(* A timeout is a record [task, period]: what setQuery calls (query) and   *)
(* the period its closure keeps.  A handle names a Timeout object by the   *)
(* id its closure is bound to and a number that tells it from the other    *)
(* Timeout objects of that id that are armed or registered.                *)
(***************************************************************************)
EXTENDS Integers, FiniteSets, Functions

CONSTANT MaxHandleNo   \* the largest number in a handle

ASSUME HandleAssumption == MaxHandleNo \in Nat \ {0}

Handles == [id : Nat, no : 0 .. MaxHandleNo]

\* The handles that setTimeout cannot return: armed or still referred to.
InUse(reg) == DOMAIN reg.armed \cup Range(reg.timers)

NewHandle(reg, i) ==
  [id |-> i,
   no |-> CHOOSE n \in 0 .. MaxHandleNo : [id |-> i, no |-> n] \notin InUse(reg)]

\* Mutant: the number of entries as the next id.
NextIdByLength(reg) == Cardinality(DOMAIN reg.timers)

(***************************************************************************)
(* The "max id strategy": 0 for an empty registry, else one more than the  *)
(* largest registered id.                                                  *)
(***************************************************************************)
NextId(reg) ==
  CHOOSE n \in {0} \cup {i + 1 : i \in DOMAIN reg.timers} :
    \A i \in DOMAIN reg.timers : i < n

(***************************************************************************)
(* The ids that successive calls of createTimer give to the timeouts S,    *)
(* one call for each, in every order.                                      *)
(***************************************************************************)
FreshIds(reg, S) ==
  {id \in [S -> NextId(reg) .. NextId(reg) + Cardinality(S) - 1] : IsInjective(id)}

(***************************************************************************)
(* registerTimer(id, setTimeout(...)) for each timeout t in DOMAIN id with *)
(* the id id[t]: a new handle is armed and becomes the entry of its id.    *)
(* The entry it replaces, if any, is not cleared.                          *)
(***************************************************************************)
RegisterTimers(reg, id) ==
  LET new == [i \in Range(id) |-> NewHandle(reg, i)]
  IN  [timers |-> [i \in DOMAIN reg.timers \cup Range(id) |->
                     IF i \in Range(id) THEN new[i] ELSE reg.timers[i]],
       armed  |-> [h \in DOMAIN reg.armed \cup Range(new) |->
                     IF h \in DOMAIN reg.armed THEN reg.armed[h]
                     ELSE CHOOSE t \in DOMAIN id : id[t] = h.id]]

\* Mutant: the entry is dropped, its timeout is not cleared.
CancelWithoutClear(reg, S) ==
  [reg EXCEPT !.timers = Restrict(reg.timers, DOMAIN reg.timers \ S)]

\* cancelTimer for each id of S: clear the registered handle, drop the entry.
CancelTimers(reg, S) ==
  [timers |-> Restrict(reg.timers, DOMAIN reg.timers \ S),
   armed  |-> Restrict(reg.armed, DOMAIN reg.armed \ {reg.timers[i] : i \in S})]

\* The event loop takes the armed timeout h and starts its callback; the
\* registry keeps the entry, whose handle is now spent.
FireTimer(reg, h) ==
  [reg EXCEPT !.armed = Restrict(reg.armed, DOMAIN reg.armed \ {h})]

\* The finally block of setQuery: the same closure is set again under its id.
RearmTimer(reg, i, timeout) == RegisterTimers(reg, [t \in {timeout} |-> i])
=============================================================================
