------------------------ MODULE TimerProcessorProofs ------------------------
(***************************************************************************)
(* Proofs that every behaviour of TimerProcessor, for any servers,         *)
(* monitors, databases and configurations, keeps the registry of timers    *)
(* in step with its owners.  The first part is about the operations of the *)
(* registry, what they preserve and return; the invariants rest on it.     *)
(***************************************************************************)
EXTENDS TimerProcessor, WellFoundedInduction, FiniteSetTheorems, TLAPS

-----------------------------------------------------------------------------
(* The registry of timers                                                  *)

(***************************************************************************)
(* A registry that is well formed: each entry is a handle of its own id,   *)
(* only registered handles are armed, and the ids have a bound (they are   *)
(* finitely many).  T is the set the armed timeouts are in.                *)
(***************************************************************************)
RegistryOK(reg, T) ==
  /\ reg = [timers |-> reg.timers, armed |-> reg.armed]
  /\ reg.timers \in [DOMAIN reg.timers -> Handles]
  /\ DOMAIN reg.timers \subseteq Nat
  /\ \A i \in DOMAIN reg.timers : reg.timers[i].id = i
  /\ reg.armed \in [DOMAIN reg.armed -> T]
  /\ \A h \in DOMAIN reg.armed : h.id \in DOMAIN reg.timers /\ reg.timers[h.id] = h
  /\ \E b \in Nat : \A i \in DOMAIN reg.timers : i < b

\* Entry i, its timeout and whether it is armed are the same in r as in reg.
EntryKept(reg, r, i) ==
  /\ r.timers[i] = reg.timers[i]
  /\ reg.timers[i] \in DOMAIN r.armed <=> reg.timers[i] \in DOMAIN reg.armed
  /\ reg.timers[i] \in DOMAIN reg.armed => r.armed[reg.timers[i]] = reg.armed[reg.timers[i]]

(***************************************************************************)
(* What the operations do: r is the registry after the timeouts DOMAIN id  *)
(* were set under the ids id, after the timers S were cancelled, after the *)
(* timeout h fired, and after timeout was set again for timer i.           *)
(***************************************************************************)
TimersSet(reg, id, r) ==
  /\ DOMAIN r.timers = DOMAIN reg.timers \cup Range(id)
  /\ \A t \in DOMAIN id : r.timers[id[t]] \in DOMAIN r.armed /\ r.armed[r.timers[id[t]]] = t
  /\ \A i \in DOMAIN reg.timers \ Range(id) : r.timers[i] = reg.timers[i]
  /\ \A h \in DOMAIN reg.armed : h \in DOMAIN r.armed /\ r.armed[h] = reg.armed[h]
  /\ \A h \in DOMAIN r.armed : h \in DOMAIN reg.armed \/ h.id \in Range(id)

TimersCancelled(reg, S, r) ==
  /\ DOMAIN r.timers = DOMAIN reg.timers \ S
  /\ \A i \in DOMAIN reg.timers \ S : r.timers[i] = reg.timers[i]
  /\ DOMAIN r.armed = {h \in DOMAIN reg.armed : h.id \notin S}
  /\ \A h \in DOMAIN r.armed : r.armed[h] = reg.armed[h]

TimerFired(reg, h, r) ==
  /\ r.timers = reg.timers
  /\ DOMAIN r.armed = DOMAIN reg.armed \ {h}
  /\ \A g \in DOMAIN r.armed : r.armed[g] = reg.armed[g]

TimerRearmed(reg, i, timeout, r) ==
  /\ DOMAIN r.timers = DOMAIN reg.timers
  /\ r.timers[i] \in DOMAIN r.armed /\ r.armed[r.timers[i]] = timeout
  /\ \A j \in DOMAIN reg.timers \ {i} : EntryKept(reg, r, j)

\* New timeouts were set under fresh ids id, then the old timers G cancelled.
TimersReplaced(reg, id, G, r) ==
  /\ DOMAIN r.timers = (DOMAIN reg.timers \ G) \cup Range(id)
  /\ \A t \in DOMAIN id : r.timers[id[t]] \in DOMAIN r.armed /\ r.armed[r.timers[id[t]]] = t
  /\ \A i \in DOMAIN reg.timers \ G : EntryKept(reg, r, i)

(***************************************************************************)
(* The "max id strategy" of registerTimer returns an id above every        *)
(* registered one.                                                         *)
(***************************************************************************)
LEMMA NextIdAbove ==
  ASSUME NEW reg, NEW T, RegistryOK(reg, T)
  PROVE  /\ NextId(reg) \in Nat
         /\ \A i \in DOMAIN reg.timers : i < NextId(reg)
<1> DEFINE D == DOMAIN reg.timers
           B == {n \in Nat : \A i \in D : i < n}
           C == {0} \cup {i + 1 : i \in D}
<1>1. D \subseteq Nat /\ B # {} /\ B \subseteq Nat
  BY DEF RegistryOK
<1>2. PICK n \in B : \A y \in B : ~ (<<y, n>> \in OpToRel(<, Nat))
  BY <1>1, WFMin, NatLessThanWellFounded
<1>3. \A y \in B : ~ (y < n)
  BY <1>1, <1>2 DEF OpToRel
<1>4. n \in C
  <2>1. CASE n = 0
    BY <2>1
  <2>2. CASE n # 0
    <3>1. n - 1 \in Nat /\ n - 1 < n
      BY <1>1, <2>2
    <3>2. PICK i \in D : ~ (i < n - 1)
      BY <1>3, <3>1
    <3>3. i < n /\ i \in Nat
      BY <1>1, <1>2
    <3>4. n = i + 1
      BY <1>1, <3>1, <3>2, <3>3
    <3> QED BY <3>4
  <2> QED BY <2>1, <2>2
<1>5. \E m \in C : \A i \in D : i < m
  BY <1>2, <1>4
<1>6. NextId(reg) \in C /\ \A i \in D : i < NextId(reg)
  BY <1>5 DEF NextId
<1> QED BY <1>1, <1>6

(***************************************************************************)
(* setTimeout returns a Timeout object of the id it is called for that     *)
(* nothing in the registry or the event loop refers to.                    *)
(***************************************************************************)
LEMMA NewHandleIsNew ==
  ASSUME NEW reg, NEW T, RegistryOK(reg, T), NEW i \in Nat
  PROVE  /\ NewHandle(reg, i) \in Handles
         /\ NewHandle(reg, i).id = i
         /\ NewHandle(reg, i) \notin InUse(reg)
<1> DEFINE H(n) == [id |-> i, no |-> n]
           P(n) == H(n) \notin InUse(reg)
<1>1. \A h \in InUse(reg) : h.id \in DOMAIN reg.timers /\ h = reg.timers[h.id]
  BY DEF RegistryOK, InUse, Range
<1>2. H(0).id = i /\ H(1).id = i /\ H(0).no # H(1).no
  OBVIOUS
<1>3. ~ (H(0) \in InUse(reg) /\ H(1) \in InUse(reg))
  <2> SUFFICES ASSUME H(0) \in InUse(reg), H(1) \in InUse(reg) PROVE FALSE
    OBVIOUS
  <2>1. H(0) = reg.timers[i] /\ H(1) = reg.timers[i]
    BY <1>1, <1>2
  <2> QED BY <2>1, <1>2
<1>4. 0 \in 0 .. MaxHandleNo /\ 1 \in 0 .. MaxHandleNo
  BY HandleAssumption
<1>5. \E n \in 0 .. MaxHandleNo : P(n)
  BY <1>3, <1>4
<1> DEFINE k == CHOOSE n \in 0 .. MaxHandleNo : P(n)
<1>6. k \in 0 .. MaxHandleNo /\ P(k)
  BY <1>5
<1>7. NewHandle(reg, i) = H(k)
  BY DEF NewHandle
<1> HIDE DEF k
<1> QED BY <1>6, <1>7 DEF Handles

(***************************************************************************)
(* Setting a timeout for each id of a one-to-one assignment, where no      *)
(* entry that is replaced is still armed, arms exactly one new timeout per *)
(* id and leaves every other entry and every armed timeout alone.          *)
(***************************************************************************)
LEMMA RegisterTimersOK ==
  ASSUME NEW reg, NEW T, RegistryOK(reg, T),
         NEW S, S \subseteq T, NEW id \in [S -> Nat], IsInjective(id),
         \E b \in Nat : \A t \in S : id[t] < b,
         \A t \in S : id[t] \in DOMAIN reg.timers => reg.timers[id[t]] \notin DOMAIN reg.armed
  PROVE  /\ RegistryOK(RegisterTimers(reg, id), T)
         /\ TimersSet(reg, id, RegisterTimers(reg, id))
<1> DEFINE new == [i \in Range(id) |-> NewHandle(reg, i)]
           owner == [h \in Range(new) |-> CHOOSE t \in DOMAIN id : id[t] = h.id]
           r == RegisterTimers(reg, id)
<1>1. Range(id) = {id[t] : t \in S} /\ Range(id) \subseteq Nat /\ DOMAIN id = S
  BY DEF Range
<1>2. \A i \in Range(id) : new[i] \in Handles /\ new[i].id = i /\ new[i] \notin InUse(reg)
  BY <1>1, NewHandleIsNew
<1>3. Range(new) = {new[i] : i \in Range(id)}
  BY DEF Range
<1>4. \A t \in S : owner[new[id[t]]] = t
  <2> TAKE t \in S
  <2>1. id[t] \in Range(id) /\ new[id[t]] \in Range(new) /\ new[id[t]].id = id[t]
    BY <1>1, <1>2, <1>3
  <2>2. \A u \in S : id[u] = id[t] => u = t
    BY <1>1 DEF IsInjective
  <2> QED BY <1>1, <2>1, <2>2
<1>5. /\ r = [timers |-> r.timers, armed |-> r.armed]
      /\ r.timers = [i \in DOMAIN reg.timers \cup Range(id) |->
                       IF i \in Range(id) THEN new[i] ELSE reg.timers[i]]
      /\ r.armed = [h \in DOMAIN reg.armed \cup Range(new) |->
                      IF h \in DOMAIN reg.armed THEN reg.armed[h]
                      ELSE CHOOSE t \in DOMAIN id : id[t] = h.id]
  BY DEF RegisterTimers
<1>6. \A h \in Range(new) : h \notin DOMAIN reg.armed /\ h \in DOMAIN r.armed /\ r.armed[h] = owner[h]
  BY <1>2, <1>3, <1>5 DEF InUse
<1>7. \A h \in Range(new) : h.id \in Range(id) /\ new[h.id] = h
  BY <1>2, <1>3
<1> HIDE DEF new, owner, r
<1>8. DOMAIN r.timers = DOMAIN reg.timers \cup Range(id)
  BY <1>5
<1>9. \A t \in S : /\ r.timers[id[t]] = new[id[t]]
                   /\ r.timers[id[t]] \in DOMAIN r.armed /\ r.armed[r.timers[id[t]]] = t
  <2> TAKE t \in S
  <2>1. id[t] \in Range(id) /\ new[id[t]] \in Range(new)
    BY <1>1, <1>3
  <2>2. r.timers[id[t]] = new[id[t]]
    BY <1>5, <2>1
  <2> QED BY <1>4, <1>6, <2>1, <2>2
<1>10. \A i \in DOMAIN reg.timers \ Range(id) : r.timers[i] = reg.timers[i]
  BY <1>5
<1>11. \A h \in DOMAIN reg.armed : h \in DOMAIN r.armed /\ r.armed[h] = reg.armed[h]
  BY <1>5
<1>12. \A h \in DOMAIN r.armed : h \in DOMAIN reg.armed \/ h \in Range(new)
  BY <1>5
<1>13. RegistryOK(r, T)
  <2>1. r.timers \in [DOMAIN r.timers -> Handles] /\ DOMAIN r.timers \subseteq Nat
    BY <1>1, <1>2, <1>5, <1>8 DEF RegistryOK
  <2>2. \A i \in DOMAIN r.timers : r.timers[i].id = i
    BY <1>2, <1>5, <1>8 DEF RegistryOK
  <2>3. \A h \in DOMAIN r.armed : r.armed[h] \in T
    <3> TAKE h \in DOMAIN r.armed
    <3>1. CASE h \in DOMAIN reg.armed
      BY <3>1, <1>11 DEF RegistryOK
    <3>2. CASE h \in Range(new)
      <4>1. PICK t \in S : h = new[id[t]]
        BY <3>2, <1>1, <1>3
      <4> QED BY <4>1, <1>9
    <3> QED BY <1>12, <3>1, <3>2
  <2>4. r.armed \in [DOMAIN r.armed -> T]
    BY <2>3, <1>5
  <2>5. \A h \in DOMAIN r.armed : h.id \in DOMAIN r.timers /\ r.timers[h.id] = h
    <3> TAKE h \in DOMAIN r.armed
    <3>1. CASE h \in DOMAIN reg.armed
      <4>1. h.id \in DOMAIN reg.timers /\ reg.timers[h.id] = h
        BY <3>1 DEF RegistryOK
      <4>2. h.id \notin Range(id)
        BY <3>1, <4>1, <1>1
      <4> QED BY <4>1, <4>2, <1>8, <1>10
    <3>2. CASE h \in Range(new)
      BY <3>2, <1>5, <1>7, <1>8
    <3> QED BY <1>12, <3>1, <3>2
  <2>6. \E b \in Nat : \A i \in DOMAIN r.timers : i < b
    <3>1. PICK b1 \in Nat : \A i \in DOMAIN reg.timers : i < b1
      BY DEF RegistryOK
    <3>2. PICK b2 \in Nat : \A t \in S : id[t] < b2
      OBVIOUS
    <3>3. \A i \in DOMAIN r.timers : i \in Nat /\ (i < b1 \/ i < b2)
      BY <1>1, <1>8, <2>1, <3>1, <3>2
    <3>4. \A i \in DOMAIN r.timers : i < b1 + b2
      BY <3>3
    <3> QED BY <3>4
  <2> QED BY <1>5, <2>1, <2>2, <2>4, <2>5, <2>6 DEF RegistryOK
<1>14. \A h \in DOMAIN r.armed : h \in DOMAIN reg.armed \/ h.id \in Range(id)
  BY <1>7, <1>12
<1> QED
  BY <1>1, <1>8, <1>9, <1>10, <1>11, <1>13, <1>14 DEF r, TimersSet

(***************************************************************************)
(* cancelTimer for ids that are registered removes their entries and       *)
(* disarms their timeouts, and leaves the others alone.                    *)
(***************************************************************************)
LEMMA CancelTimersOK ==
  ASSUME NEW reg, NEW T, RegistryOK(reg, T), NEW S, S \subseteq DOMAIN reg.timers
  PROVE  /\ RegistryOK(CancelTimers(reg, S), T)
         /\ TimersCancelled(reg, S, CancelTimers(reg, S))
<1> DEFINE r == CancelTimers(reg, S)
           gone == {reg.timers[i] : i \in S}
<1>1. /\ r = [timers |-> r.timers, armed |-> r.armed]
      /\ r.timers = [i \in DOMAIN reg.timers \ S |-> reg.timers[i]]
      /\ r.armed = [h \in DOMAIN reg.armed \ gone |-> reg.armed[h]]
  BY DEF CancelTimers, Restrict
<1> HIDE DEF r
<1>2. \A h \in DOMAIN reg.armed : h \in gone <=> h.id \in S
  BY DEF RegistryOK
<1>3. DOMAIN r.armed = {h \in DOMAIN reg.armed : h.id \notin S}
  BY <1>1, <1>2
<1>4. /\ r.timers \in [DOMAIN r.timers -> Handles]
      /\ DOMAIN r.timers \subseteq Nat
      /\ \A i \in DOMAIN r.timers : r.timers[i].id = i
      /\ \E b \in Nat : \A i \in DOMAIN r.timers : i < b
  BY <1>1 DEF RegistryOK
<1>5. r.armed \in [DOMAIN r.armed -> T]
  BY <1>1 DEF RegistryOK
<1>6. \A h \in DOMAIN r.armed : h.id \in DOMAIN r.timers /\ r.timers[h.id] = h
  BY <1>1, <1>3 DEF RegistryOK
<1>7. RegistryOK(r, T)
  BY <1>1, <1>4, <1>5, <1>6 DEF RegistryOK
<1> QED BY <1>1, <1>3, <1>7 DEF r, TimersCancelled

(***************************************************************************)
(* The event loop takes one timeout; the entries and the other timeouts    *)
(* stay as they are.                                                       *)
(***************************************************************************)
LEMMA FireTimerOK ==
  ASSUME NEW reg, NEW T, RegistryOK(reg, T), NEW h \in DOMAIN reg.armed
  PROVE  /\ RegistryOK(FireTimer(reg, h), T)
         /\ TimerFired(reg, h, FireTimer(reg, h))
<1> DEFINE r == FireTimer(reg, h)
<1>1. r = [timers |-> reg.timers, armed |-> [g \in DOMAIN reg.armed \ {h} |-> reg.armed[g]]]
  BY DEF FireTimer, Restrict, RegistryOK
<1>2. RegistryOK(r, T)
  BY <1>1 DEF RegistryOK
<1> QED BY <1>1, <1>2 DEF TimerFired

(***************************************************************************)
(* The finally block of setQuery arms one new timeout under the id of the  *)
(* one that fired, and disturbs no other id.                               *)
(***************************************************************************)
LEMMA RearmTimerOK ==
  ASSUME NEW reg, NEW T, RegistryOK(reg, T), NEW timeout \in T,
         NEW i \in DOMAIN reg.timers, reg.timers[i] \notin DOMAIN reg.armed
  PROVE  /\ RegistryOK(RearmTimer(reg, i, timeout), T)
         /\ TimerRearmed(reg, i, timeout, RearmTimer(reg, i, timeout))
<1> DEFINE id == [t \in {timeout} |-> i]
<1>1. i \in Nat
  BY DEF RegistryOK
<1>2. id \in [{timeout} -> Nat] /\ IsInjective(id) /\ Range(id) = {i} /\ {timeout} \subseteq T
  BY <1>1 DEF IsInjective, Range
<1>3. \E b \in Nat : \A t \in {timeout} : id[t] < b
  <2>1. i + 1 \in Nat /\ \A t \in {timeout} : id[t] < i + 1
    BY <1>1
  <2> QED BY <2>1
<1>4. \A t \in {timeout} : id[t] \in DOMAIN reg.timers => reg.timers[id[t]] \notin DOMAIN reg.armed
  OBVIOUS
<1>5. RearmTimer(reg, i, timeout) = RegisterTimers(reg, id)
  BY DEF RearmTimer
<1>6. id[timeout] = i
  OBVIOUS
<1> HIDE DEF id
<1>7. RegistryOK(RegisterTimers(reg, id), T) /\ TimersSet(reg, id, RegisterTimers(reg, id))
  BY <1>2, <1>3, <1>4, RegisterTimersOK
<1>8. DOMAIN id = {timeout}
  BY <1>2
<1> DEFINE r == RegisterTimers(reg, id)
<1> HIDE DEF r
<1>9. \A j \in DOMAIN reg.timers \ {i} : EntryKept(reg, r, j)
  BY <1>2, <1>7 DEF TimersSet, EntryKept, RegistryOK, r
<1> QED BY <1>2, <1>5, <1>6, <1>7, <1>8, <1>9 DEF TimersSet, TimerRearmed, r

(***************************************************************************)
(* The ids createTimer gives are not in use and are bounded, so            *)
(* RegisterTimersOK applies to them.                                       *)
(***************************************************************************)
LEMMA FreshIdsOK ==
  ASSUME NEW reg, NEW T, RegistryOK(reg, T), NEW S, IsFiniteSet(S), NEW id \in FreshIds(reg, S)
  PROVE  /\ id \in [S -> Nat]
         /\ IsInjective(id)
         /\ \E b \in Nat : \A t \in S : id[t] < b
         /\ \A t \in S : id[t] \notin DOMAIN reg.timers /\ id[t] >= NextId(reg)
<1>1. NextId(reg) \in Nat /\ \A i \in DOMAIN reg.timers : i < NextId(reg)
  BY NextIdAbove
<1>2. Cardinality(S) \in Nat
  BY FS_CardinalityType
<1>3. id \in [S -> NextId(reg) .. NextId(reg) + Cardinality(S) - 1] /\ IsInjective(id)
  BY DEF FreshIds
<1>4. \A t \in S : /\ id[t] \in Nat
                   /\ id[t] >= NextId(reg)
                   /\ id[t] < NextId(reg) + Cardinality(S)
  BY <1>1, <1>2, <1>3
<1>5. NextId(reg) + Cardinality(S) \in Nat
  BY <1>1, <1>2
<1>6. \A t \in S : id[t] \notin DOMAIN reg.timers
  BY <1>1, <1>4 DEF RegistryOK
<1> QED BY <1>3, <1>4, <1>5, <1>6

(***************************************************************************)
(* One half of an update (updateMonitors, updateSendData): the added       *)
(* owners have an armed timeout each, the removed ones have none, and the  *)
(* entries of the others are as before.                                    *)
(***************************************************************************)
LEMMA ReplaceTimersOK ==
  ASSUME NEW reg, NEW T, RegistryOK(reg, T),
         NEW S, S \subseteq T, IsFiniteSet(S), NEW id \in FreshIds(reg, S),
         NEW G, G \subseteq DOMAIN reg.timers
  PROVE  LET r == CancelTimers(RegisterTimers(reg, id), G)
         IN  RegistryOK(r, T) /\ TimersReplaced(reg, id, G, r)
<1> DEFINE a == RegisterTimers(reg, id)
           r == CancelTimers(a, G)
<1>1. /\ id \in [S -> Nat] /\ IsInjective(id)
      /\ \E b \in Nat : \A t \in S : id[t] < b
      /\ \A t \in S : id[t] \notin DOMAIN reg.timers
  BY FreshIdsOK
<1>2. RegistryOK(a, T) /\ TimersSet(reg, id, a)
  BY <1>1, RegisterTimersOK
<1> HIDE DEF a
<1>3. G \subseteq DOMAIN a.timers
  BY <1>2 DEF TimersSet
<1>4. RegistryOK(r, T) /\ TimersCancelled(a, G, r)
  BY <1>2, <1>3, CancelTimersOK
<1> HIDE DEF r
<1>5. DOMAIN id = S /\ \A i \in Range(id) : i \notin DOMAIN reg.timers /\ i \notin G
  BY <1>1 DEF Range
<1>6. DOMAIN r.timers = (DOMAIN reg.timers \ G) \cup Range(id)
  BY <1>2, <1>4, <1>5 DEF TimersSet, TimersCancelled
<1>7. \A t \in DOMAIN id : r.timers[id[t]] \in DOMAIN r.armed /\ r.armed[r.timers[id[t]]] = t
  <2> TAKE t \in DOMAIN id
  <2>1. id[t] \in Range(id) /\ id[t] \in DOMAIN a.timers /\ id[t] \notin G
    BY <1>2, <1>5 DEF Range, TimersSet
  <2>2. a.timers[id[t]] \in DOMAIN a.armed /\ a.armed[a.timers[id[t]]] = t
    BY <1>2 DEF TimersSet
  <2>3. r.timers[id[t]] = a.timers[id[t]] /\ a.timers[id[t]].id = id[t]
    BY <1>2, <1>4, <2>1 DEF TimersCancelled, RegistryOK
  <2> QED BY <1>4, <2>1, <2>2, <2>3 DEF TimersCancelled
<1>8. \A i \in DOMAIN reg.timers \ G : EntryKept(reg, r, i)
  <2> TAKE i \in DOMAIN reg.timers \ G
  <2>1. i \notin Range(id) /\ i \in DOMAIN a.timers
    BY <1>2, <1>5 DEF TimersSet
  <2>2. a.timers[i] = reg.timers[i] /\ r.timers[i] = a.timers[i] /\ reg.timers[i].id = i
    BY <1>2, <1>4, <2>1 DEF TimersSet, TimersCancelled, RegistryOK
  <2>3. reg.timers[i] \in DOMAIN a.armed <=> reg.timers[i] \in DOMAIN reg.armed
    BY <1>2, <2>1, <2>2 DEF TimersSet
  <2>4. reg.timers[i] \in DOMAIN r.armed <=> reg.timers[i] \in DOMAIN a.armed
    BY <1>4, <2>2 DEF TimersCancelled
  <2>5. reg.timers[i] \in DOMAIN reg.armed => r.armed[reg.timers[i]] = reg.armed[reg.timers[i]]
    BY <1>2, <1>4, <2>3, <2>4 DEF TimersSet, TimersCancelled
  <2> QED BY <2>2, <2>3, <2>4, <2>5 DEF EntryKept
<1>9. TimersReplaced(reg, id, G, r)
  BY <1>6, <1>7, <1>8 DEF TimersReplaced
<1> QED BY <1>4, <1>9 DEF r, a

(***************************************************************************)
(* A callback that ends at once: its timer is armed again with the same    *)
(* closure, and the other entries are as before.                           *)
(***************************************************************************)
LEMMA FireAndRearmOK ==
  ASSUME NEW reg, NEW T, RegistryOK(reg, T), NEW h \in DOMAIN reg.armed
  PROVE  LET r == RearmTimer(FireTimer(reg, h), h.id, reg.armed[h])
         IN  RegistryOK(r, T) /\ TimerRearmed(reg, h.id, reg.armed[h], r)
<1> DEFINE f == FireTimer(reg, h)
           r == RearmTimer(f, h.id, reg.armed[h])
<1>1. RegistryOK(f, T) /\ TimerFired(reg, h, f)
  BY FireTimerOK
<1> HIDE DEF f
<1>2. h.id \in DOMAIN f.timers /\ f.timers[h.id] = h /\ h \notin DOMAIN f.armed /\ reg.armed[h] \in T
  BY <1>1 DEF TimerFired, RegistryOK
<1>3. RegistryOK(r, T) /\ TimerRearmed(f, h.id, reg.armed[h], r)
  BY <1>1, <1>2, RearmTimerOK
<1> HIDE DEF r
<1>4. \A j \in DOMAIN reg.timers \ {h.id} : EntryKept(reg, r, j)
  <2> TAKE j \in DOMAIN reg.timers \ {h.id}
  <2>1. reg.timers[j] # h /\ f.timers[j] = reg.timers[j] /\ j \in DOMAIN f.timers
    BY <1>1 DEF RegistryOK, TimerFired
  <2>2. EntryKept(f, r, j)
    BY <1>3, <2>1 DEF TimerRearmed
  <2> QED BY <1>1, <2>1, <2>2 DEF TimerFired, EntryKept
<1>5. TimerRearmed(reg, h.id, reg.armed[h], r)
  BY <1>1, <1>3, <1>4 DEF TimerFired, TimerRearmed
<1> QED BY <1>3, <1>5 DEF r, f

-----------------------------------------------------------------------------
(* The processor                                                           *)

(***************************************************************************)
(* The inductive invariant: the registry is well formed, which lets        *)
(* setTimeout find a new handle and createTimer a new id; every entry has  *)
(* one owner; every owner one timeout; the owners are those of the         *)
(* configuration in force.                                                 *)
(***************************************************************************)
Inv ==
  /\ RegistryOK(registry, Timeouts)
  /\ TypeOK
  /\ TimersHaveOneOwner
  /\ OneTimeoutPerTimer
  /\ ConfigurationInForce

\* The timeouts createTimer is called with are timeouts.
LEMMA TimeoutTypes ==
  /\ \A p \in Periods : UpdateTimeout(p) \in Timeouts
  /\ \A m \in Monitors : MonitorTimeout(m) \in Timeouts
  /\ \A z \in Zabbixes, p \in Periods : SenderTimeout(z, p) \in Timeouts
<1>1. \A m \in Monitors : m.period \in Periods
  BY ConfAssumption
<1> QED BY <1>1 DEF Timeouts, UpdateTimeout, MonitorTimeout, SenderTimeout

\* p is a period the update timer may have under the configuration c.
PeriodInForce(c, p) ==
  \/ p = c.updatePeriod
  \/ c.updatePeriod = NoPeriod /\ p = closurePeriod

\* The period setQuery finds is a period, and the one in force.
LEMMA NextPeriodInForce ==
  ASSUME Inv, NEW c \in Configurations
  PROVE  NextPeriod(c) \in Periods /\ PeriodInForce(c, NextPeriod(c))
<1>1. c.updatePeriod \in Periods \cup {NoPeriod} /\ closurePeriod \in Periods
  BY DEF Configurations, Inv, TypeOK
<1> QED BY <1>1 DEF NextPeriod, PeriodInForce

\* The bound methods of different owners are different.
LEMMA TasksDiffer ==
  /\ \A m, n : MonitorTask(m) = MonitorTask(n) => m = n
  /\ \A y, z : SenderTask(y) = SenderTask(z) => y = z
  /\ \A m, z : MonitorTask(m) # SenderTask(z) /\ MonitorTask(m) # UpdateTask /\ SenderTask(z) # UpdateTask
BY DEF MonitorTask, SenderTask, UpdateTask

\* registry' is the record of the primed variables.
LEMMA SetRegistryIs ==
  ASSUME NEW reg, RegistryOK(reg, Timeouts), SetRegistry(reg)
  PROVE  registry' = reg
BY DEF RegistryOK, SetRegistry, registry

\* A well-formed registry has the types of timers and armed.
LEMMA RegistryTypes ==
  ASSUME NEW reg, RegistryOK(reg, Timeouts)
  PROVE  /\ reg.timers \in [DOMAIN reg.timers -> Handles] /\ DOMAIN reg.timers \subseteq Nat
         /\ reg.armed \in [DOMAIN reg.armed -> Timeouts] /\ DOMAIN reg.armed \subseteq Handles
BY DEF RegistryOK

\* The same of the registry after a step.
LEMMA PrimedRegistryTypes ==
  ASSUME RegistryOK(registry', Timeouts)
  PROVE  /\ timers' \in [DOMAIN timers' -> Handles] /\ DOMAIN timers' \subseteq Nat
         /\ armed' \in [DOMAIN armed' -> Timeouts] /\ DOMAIN armed' \subseteq Handles
<1>1. registry'.timers = timers' /\ registry'.armed = armed'
  BY DEF registry
<1> QED BY <1>1, RegistryTypes

\* The empty function is a partial function.
LEMMA EmptyIsPartial == ASSUME NEW S, NEW T PROVE EmptyFcn \in PartialFcns(S, T)
<1>1. EmptyFcn \in [{} -> T] /\ {} \in SUBSET S
  BY DEF EmptyFcn
<1> QED BY <1>1 DEF PartialFcns

\* The registry that init() makes satisfies the invariant.
LEMMA InitInv == Init => Inv
<1> SUFFICES ASSUME Init PROVE Inv
  OBVIOUS
<1>1. PICK c \in Confs : /\ timers = FirstRegistry(c).timers
                         /\ armed = FirstRegistry(c).armed
                         /\ configurator = FirstConfigurator(c)
                         /\ closurePeriod = CheckedPeriod(c.updatePeriod)
  BY DEF Init
<1> DEFINE unread == Unread(c)
           none == [timers |-> EmptyFcn, armed |-> EmptyFcn]
           first == UpdateTimeout(CheckedPeriod(c.updatePeriod))
           id == [t \in {first} |-> updateTimerId]
           reg == RegisterTimers(none, id)
<1>2. unread \in Configurations /\ CheckedPeriod(c.updatePeriod) \in Periods
  <2>1. c \in Configurations /\ c.updatePeriod \in Periods \cup {NoPeriod}
    BY ConfAssumption DEF Configurations
  <2>2. DOMAIN unread.queries = {}
    BY DEF EmptyFcn, Unread
  <2>3. unread \in [zabbixes : PartialFcns(Zabbixes, Periods),
                    dbs : PartialFcns(DBs, DbConfs),
                    queries : PartialFcns(Monitors, SUBSET Queries \ {{}}),
                    updatePeriod : Periods \cup {NoPeriod}]
    BY <2>1, EmptyIsPartial DEF Unread
  <2>4. CheckedPeriod(c.updatePeriod) \in Periods
    BY <2>1, ConfAssumption DEF CheckedPeriod
  <2> QED BY <2>2, <2>3, <2>4 DEF Configurations
<1>3. first \in Timeouts /\ first.task = UpdateTask
  BY <1>2, TimeoutTypes DEF UpdateTimeout
<1>4. RegistryOK(none, Timeouts)
  <2>1. \A i \in {} : i < 0
    OBVIOUS
  <2>2. DOMAIN none.timers = {} /\ DOMAIN none.armed = {}
    BY DEF EmptyFcn
  <2> QED BY <2>1, <2>2 DEF RegistryOK, EmptyFcn
<1> HIDE DEF unread
<1>5. /\ {first} \subseteq Timeouts
      /\ id \in [{first} -> Nat] /\ IsInjective(id) /\ DOMAIN id = {first} /\ Range(id) = {0}
      /\ id[first] = 0
      /\ \E b \in Nat : \A t \in {first} : id[t] < b
      /\ \A t \in {first} : id[t] \in DOMAIN none.timers => none.timers[id[t]] \notin DOMAIN none.armed
  <2>1. \A t \in {first} : id[t] < 1
    BY DEF updateTimerId
  <2> QED BY <1>3, <2>1 DEF updateTimerId, IsInjective, Range, EmptyFcn
<1> HIDE DEF id, first, none
<1>6. RegistryOK(reg, Timeouts) /\ TimersSet(none, id, reg)
  BY <1>4, <1>5, RegisterTimersOK
<1>7. DOMAIN reg.timers = {0} /\ reg.timers[0] \in DOMAIN reg.armed /\ reg.armed[reg.timers[0]] = first
  BY <1>5, <1>6 DEF TimersSet, none, EmptyFcn
<1>8. timers = reg.timers /\ armed = reg.armed
  BY <1>1 DEF reg, none, id, first, unread, FirstRegistry
<1> HIDE DEF reg
<1>9. RegistryOK(registry, Timeouts)
  BY <1>6, <1>8 DEF RegistryOK, registry
<1>10. TypeOK
  <2>1. configurator \in [gen : Generations, conf : Configurations] /\ closurePeriod \in Periods
    BY <1>1, <1>2, FiniteAssumption DEF unread, FirstConfigurator
  <2>2. abandoned \in [DBs -> 0 .. MaxAbandoned]
    BY FiniteAssumption DEF Init
  <2>3. inFlight \in [QueryObjects -> Nat]
    BY DEF Init
  <2>4. /\ updating = {} /\ running = {}
        /\ monitors = EmptyFcn /\ senders = EmptyFcn /\ dbConnectors = EmptyFcn
        /\ DOMAIN EmptyFcn = {}
    BY DEF Init, EmptyFcn
  <2>5. /\ monitors \in [DOMAIN monitors -> Nat]
        /\ senders \in [DOMAIN senders -> [period : Periods, timerid : Nat]]
        /\ dbConnectors \in [DOMAIN dbConnectors -> DbConfs]
    BY <2>4 DEF EmptyFcn
  <2>6. registry.timers = timers /\ registry.armed = armed
    BY DEF registry
  <2>7. /\ timers \in [DOMAIN timers -> Handles] /\ DOMAIN timers \subseteq Nat
        /\ armed \in [DOMAIN armed -> Timeouts] /\ DOMAIN armed \subseteq Handles
    BY <1>9, <2>6, RegistryTypes
  <2> QED BY <2>1, <2>2, <2>3, <2>4, <2>5, <2>7 DEF TypeOK
<1>11. TimersHaveOneOwner
  BY <1>7, <1>8 DEF TimersHaveOneOwner, Init, EmptyFcn, updateTimerId, Range, IsInjective
<1>12. OneTimeoutPerTimer
  BY <1>3, <1>7, <1>8, <1>9 DEF OneTimeoutPerTimer, Init, EmptyFcn, updateTimerId, RegistryOK, registry
<1>13. ConfigurationInForce
  <2>1. conf = unread
    BY <1>1 DEF conf, FirstConfigurator, unread
  <2>2. DOMAIN EmptyFcn = {}
    BY DEF EmptyFcn
  <2>3. /\ DOMAIN conf.queries = {} /\ DOMAIN conf.zabbixes = {} /\ DOMAIN conf.dbs = {}
        /\ conf.updatePeriod = c.updatePeriod
    BY <2>1, <2>2 DEF unread, Unread
  <2>4. armed[timers[updateTimerId]].period = CheckedPeriod(c.updatePeriod)
    BY <1>7, <1>8 DEF updateTimerId, first, UpdateTimeout
  <2>5. PeriodInForce(conf, armed[timers[updateTimerId]].period)
    BY <1>1, <2>3, <2>4 DEF PeriodInForce, CheckedPeriod
  <2> QED BY <2>2, <2>3, <2>5 DEF ConfigurationInForce, Init, PeriodInForce
<1> QED BY <1>9, <1>10, <1>11, <1>12, <1>13 DEF Inv

\* A process that starts again has the registry init() makes.
LEMMA RestartInv == Restart => Inv'
<1>1. Restart => Init'
  BY DEF Restart, Init, SetRegistry
<1>2. Init' => Inv'
  BY InitInv, PTL
<1> QED BY <1>1, <1>2

\* The task of an armed timeout tells whose entry its handle is.
LEMMA ArmedOwner ==
  ASSUME Inv, NEW h \in DOMAIN armed
  PROVE  /\ h.id \in DOMAIN timers /\ timers[h.id] = h
         /\ armed[h].task = UpdateTask => h.id = updateTimerId
         /\ \A m : armed[h].task = MonitorTask(m) => m \in DOMAIN monitors /\ h.id = monitors[m]
         /\ \A z : armed[h].task = SenderTask(z) => z \in DOMAIN senders /\ h.id = senders[z].timerid
<1>1. h.id \in DOMAIN timers /\ timers[h.id] = h
  BY DEF Inv, OneTimeoutPerTimer
<1>2. CASE h.id = updateTimerId
  <2>1. armed[h].task = UpdateTask
    BY <1>1, <1>2 DEF Inv, OneTimeoutPerTimer
  <2> QED BY <1>1, <1>2, <2>1, TasksDiffer
<1>3. CASE \E m \in DOMAIN monitors : h.id = monitors[m]
  <2>1. PICK m \in DOMAIN monitors : h.id = monitors[m]
    BY <1>3
  <2>2. armed[h] = MonitorTimeout(m)
    BY <1>1, <2>1 DEF Inv, OneTimeoutPerTimer
  <2>3. armed[h].task = MonitorTask(m)
    BY <2>2 DEF MonitorTimeout
  <2> QED BY <1>1, <2>1, <2>3, TasksDiffer
<1>4. CASE \E z \in DOMAIN senders : h.id = senders[z].timerid
  <2>1. PICK z \in DOMAIN senders : h.id = senders[z].timerid
    BY <1>4
  <2>2. armed[h].task = SenderTask(z)
    BY <1>1, <2>1 DEF Inv, OneTimeoutPerTimer
  <2> QED BY <1>1, <2>1, <2>2, TasksDiffer
<1> QED BY <1>1, <1>2, <1>3, <1>4 DEF Inv, TimersHaveOneOwner, Range

(***************************************************************************)
(* What is in force stays in force while the configuration and its owners  *)
(* stay, and the update timer, if it is set, keeps its period.             *)
(***************************************************************************)
LEMMA KeptInForce ==
  ASSUME Inv, UNCHANGED configVars,
         updating' = {} => PeriodInForce(conf, armed'[timers'[updateTimerId]].period)
  PROVE  ConfigurationInForce'
BY DEF Inv, ConfigurationInForce, PeriodInForce, configVars, conf

(***************************************************************************)
(* An action that ends its callback at once changes a handle and nothing   *)
(* else that the invariant of the registry speaks of.                      *)
(***************************************************************************)
LEMMA CallbackKeepsRegistry ==
  ASSUME Inv, NEW h \in DOMAIN armed,
         SetRegistry(RearmTimer(FireTimer(registry, h), h.id, armed[h])),
         UNCHANGED <<configVars, updating>>
  PROVE  RegistryOK(registry', Timeouts) /\ TimersHaveOneOwner' /\ OneTimeoutPerTimer'
         /\ ConfigurationInForce'
<1> DEFINE r == RearmTimer(FireTimer(registry, h), h.id, armed[h])
<1>1. registry.timers = timers /\ registry.armed = armed /\ RegistryOK(registry, Timeouts)
  BY DEF registry, Inv
<1>2. RegistryOK(r, Timeouts) /\ TimerRearmed(registry, h.id, armed[h], r)
  BY <1>1, FireAndRearmOK
<1>3. registry' = r /\ timers' = r.timers /\ armed' = r.armed
  BY <1>2, SetRegistryIs DEF SetRegistry
<1> HIDE DEF r
<1>4. DOMAIN timers' = DOMAIN timers
  BY <1>1, <1>2, <1>3 DEF TimerRearmed
<1>5. h.id \in DOMAIN timers /\ timers[h.id] = h
  BY ArmedOwner
<1>6. \A i \in DOMAIN timers :
        /\ timers[i] \in DOMAIN armed =>
             timers'[i] \in DOMAIN armed' /\ armed'[timers'[i]] = armed[timers[i]]
        /\ timers[i] \notin DOMAIN armed =>
             timers'[i] = timers[i] /\ timers'[i] \notin DOMAIN armed'
  BY <1>1, <1>2, <1>3, <1>5 DEF TimerRearmed, EntryKept
<1>7. TimersHaveOneOwner'
  BY <1>4 DEF Inv, TimersHaveOneOwner, configVars
<1>8. OneTimeoutPerTimer'
  <2>1. \A g \in DOMAIN armed' : g.id \in DOMAIN timers' /\ timers'[g.id] = g
    BY <1>2, <1>3 DEF RegistryOK
  <2>2. /\ \A m \in DOMAIN monitors : monitors[m] \in DOMAIN timers
        /\ \A z \in DOMAIN senders : senders[z].timerid \in DOMAIN timers
        /\ updateTimerId \in DOMAIN timers
    BY DEF Inv, TimersHaveOneOwner, Range
  <2> QED BY <1>6, <2>1, <2>2 DEF Inv, OneTimeoutPerTimer, configVars
<1>9. ConfigurationInForce'
  <2>1. updateTimerId \in DOMAIN timers
    BY DEF Inv, TimersHaveOneOwner
  <2>2. updating' = {} => PeriodInForce(conf, armed'[timers'[updateTimerId]].period)
    BY <1>6, <2>1 DEF Inv, OneTimeoutPerTimer, ConfigurationInForce, PeriodInForce
  <2> QED BY <2>2, KeptInForce
<1> QED BY <1>2, <1>3, <1>7, <1>8, <1>9

\* A monitor's callback, which sets its timer again, keeps the invariant.
LEMMA FireMonitorInv ==
  ASSUME Inv, NEW h \in DOMAIN armed, NEW m \in Monitors, FireMonitor(h, m)
  PROVE  Inv'
<1>1. RegistryOK(registry', Timeouts) /\ TimersHaveOneOwner' /\ OneTimeoutPerTimer'
      /\ ConfigurationInForce'
  BY CallbackKeepsRegistry DEF FireMonitor
<1>2. StartedQueries(m) \subseteq QueryObjects
  BY DEF StartedQueries
<1>3. running' \subseteq QueryObjects /\ inFlight' \in [QueryObjects -> Nat]
  BY <1>2 DEF Inv, TypeOK, FireMonitor
<1>4. TypeOK'
  BY <1>1, <1>3, PrimedRegistryTypes DEF Inv, TypeOK, FireMonitor, configVars
<1> QED BY <1>1, <1>4 DEF Inv

\* A sender's callback, which sets its timer again, keeps the invariant.
LEMMA FireSenderInv ==
  ASSUME Inv, NEW h \in DOMAIN armed, NEW z \in Zabbixes, FireSender(h, z)
  PROVE  Inv'
<1>1. RegistryOK(registry', Timeouts) /\ TimersHaveOneOwner' /\ OneTimeoutPerTimer'
      /\ ConfigurationInForce'
  BY CallbackKeepsRegistry DEF FireSender
<1>2. TypeOK'
  BY <1>1, PrimedRegistryTypes DEF Inv, TypeOK, FireSender, configVars, queryVars
<1> QED BY <1>1, <1>2 DEF Inv

\* The end of a query touches no timer.
LEMMA QueryDoneInv ==
  ASSUME Inv, NEW e \in QueryObjects, QueryDone(e)
  PROVE  Inv'
<1>1. /\ registry' = registry
      /\ UNCHANGED <<timers, armed, closurePeriod, updating, monitors, senders, dbConnectors, abandoned, configurator>>
  BY DEF QueryDone, registryVars, configVars, registry
<1>2. running' \subseteq QueryObjects /\ inFlight' \in [QueryObjects -> Nat]
  BY DEF Inv, TypeOK, QueryDone
<1>3. TypeOK'
  BY <1>1, <1>2 DEF Inv, TypeOK
<1>4. TimersHaveOneOwner' /\ OneTimeoutPerTimer'
  BY <1>1 DEF Inv, TimersHaveOneOwner, OneTimeoutPerTimer
<1>5. ConfigurationInForce'
  BY <1>1 DEF Inv, ConfigurationInForce, conf
<1> QED BY <1>1, <1>3, <1>4, <1>5 DEF Inv

\* The update timer fires: its entry refers to a spent timeout.
LEMMA UpdateStartInv ==
  ASSUME Inv, NEW h \in DOMAIN armed, UpdateStart(h)
  PROVE  Inv'
<1> DEFINE r == FireTimer(registry, h)
<1>1. registry.timers = timers /\ registry.armed = armed /\ RegistryOK(registry, Timeouts)
  BY DEF registry, Inv
<1>2. RegistryOK(r, Timeouts) /\ TimerFired(registry, h, r)
  BY <1>1, FireTimerOK
<1>3. registry' = r /\ timers' = r.timers /\ armed' = r.armed
  BY <1>2, SetRegistryIs DEF UpdateStart, SetRegistry
<1> HIDE DEF r
<1>4. timers[h.id] = h /\ h.id = updateTimerId /\ h \in Handles
  BY ArmedOwner DEF UpdateStart, Inv, TypeOK
<1>5. updating = {} /\ updating' = {timers[updateTimerId]}
  BY <1>4 DEF Inv, OneTimeoutPerTimer, UpdateStart
<1>6. /\ timers' = timers
      /\ DOMAIN armed' = DOMAIN armed \ {h}
      /\ \A g \in DOMAIN armed' : armed'[g] = armed[g]
  BY <1>1, <1>2, <1>3 DEF TimerFired
<1>7. UNCHANGED <<closurePeriod, monitors, senders, dbConnectors, abandoned, configurator,
                running, inFlight>>
  BY DEF UpdateStart, configVars, queryVars
<1>8. TypeOK'
  BY <1>2, <1>3, <1>4, <1>5, <1>7, PrimedRegistryTypes DEF Inv, TypeOK
<1>9. TimersHaveOneOwner'
  BY <1>6, <1>7 DEF Inv, TimersHaveOneOwner
<1>10. OneTimeoutPerTimer'
  <2>1. \A m \in DOMAIN monitors : timers[monitors[m]] \in DOMAIN armed'
                                   /\ armed'[timers[monitors[m]]] = MonitorTimeout(m)
    <3> TAKE m \in DOMAIN monitors
    <3>1. monitors[m] \in DOMAIN timers /\ monitors[m] # updateTimerId
      BY DEF Inv, TimersHaveOneOwner, Range
    <3>2. timers[monitors[m]] # h
      BY <1>1, <1>4, <3>1 DEF RegistryOK
    <3> QED BY <1>6, <3>2 DEF Inv, OneTimeoutPerTimer
  <2>2. \A z \in DOMAIN senders : timers[senders[z].timerid] \in DOMAIN armed'
                                  /\ armed'[timers[senders[z].timerid]].task = SenderTask(z)
    <3> TAKE z \in DOMAIN senders
    <3>1. senders[z].timerid \in DOMAIN timers /\ senders[z].timerid # updateTimerId
      BY DEF Inv, TimersHaveOneOwner
    <3>2. timers[senders[z].timerid] # h
      BY <1>1, <1>4, <3>1 DEF RegistryOK
    <3> QED BY <1>6, <3>2 DEF Inv, OneTimeoutPerTimer
  <2>3. \A g \in DOMAIN armed' : g.id \in DOMAIN timers' /\ timers'[g.id] = g
    BY <1>6 DEF Inv, OneTimeoutPerTimer
  <2>4. timers[updateTimerId] \notin DOMAIN armed'
    BY <1>4, <1>6
  <2> QED BY <1>5, <1>6, <1>7, <2>1, <2>2, <2>3, <2>4 DEF OneTimeoutPerTimer
<1>11. ConfigurationInForce'
  BY <1>5, KeptInForce DEF UpdateStart
<1> QED BY <1>2, <1>3, <1>8, <1>9, <1>10, <1>11 DEF Inv

\* The callback of an update in progress belongs to the update timer, whose
\* entry is spent.
LEMMA UpdatingHandle ==
  ASSUME Inv, NEW h \in updating
  PROVE  /\ updating = {h} /\ h.id = updateTimerId /\ updateTimerId \in DOMAIN timers
         /\ timers[updateTimerId] = h /\ h \notin DOMAIN armed
<1>1. updating = {h} /\ timers[updateTimerId] = h /\ h \notin DOMAIN armed
  BY DEF Inv, OneTimeoutPerTimer
<1>2. updateTimerId \in DOMAIN timers
  BY DEF Inv, TimersHaveOneOwner
<1>3. timers[updateTimerId].id = updateTimerId
  BY <1>2 DEF Inv, RegistryOK, registry
<1> QED BY <1>1, <1>2, <1>3

\* A failed update sets its timer again.
LEMMA UpdateFailInv ==
  ASSUME Inv, NEW h \in updating, UpdateFail(h)
  PROVE  Inv'
<1> DEFINE t == UpdateTimeout(NextPeriod(conf))
           r == RearmTimer(registry, h.id, t)
<1>1. registry.timers = timers /\ registry.armed = armed /\ RegistryOK(registry, Timeouts)
  BY DEF registry, Inv
<1>2. t \in Timeouts /\ t.task = UpdateTask /\ PeriodInForce(conf, t.period)
  <2>1. conf \in Configurations
    BY DEF Inv, TypeOK, conf
  <2> QED BY <2>1, NextPeriodInForce, TimeoutTypes DEF UpdateTimeout
<1> HIDE DEF t
<1>3. /\ updating = {h} /\ h.id = updateTimerId /\ updateTimerId \in DOMAIN timers
      /\ timers[h.id] \notin DOMAIN armed
  BY UpdatingHandle
<1>4. RegistryOK(r, Timeouts) /\ TimerRearmed(registry, updateTimerId, t, r)
  BY <1>1, <1>2, <1>3, RearmTimerOK
<1>5. registry' = r /\ timers' = r.timers /\ armed' = r.armed
  BY <1>4, SetRegistryIs DEF UpdateFail, SetRegistry, t
<1> HIDE DEF r
<1>6. /\ DOMAIN timers' = DOMAIN timers
      /\ timers'[updateTimerId] \in DOMAIN armed' /\ armed'[timers'[updateTimerId]].task = UpdateTask
      /\ PeriodInForce(conf, armed'[timers'[updateTimerId]].period)
      /\ \A i \in DOMAIN timers \ {updateTimerId} : EntryKept(registry, r, i)
  BY <1>1, <1>2, <1>4, <1>5 DEF TimerRearmed
<1>7. UNCHANGED <<closurePeriod, monitors, senders, dbConnectors, abandoned, configurator,
                running, inFlight>>
  BY DEF UpdateFail, configVars, queryVars
<1>8. updating' = {}
  BY <1>3 DEF UpdateFail
<1>9. TypeOK'
  BY <1>4, <1>5, <1>7, <1>8, PrimedRegistryTypes DEF Inv, TypeOK
<1>10. TimersHaveOneOwner'
  BY <1>6, <1>7 DEF Inv, TimersHaveOneOwner
<1>11. OneTimeoutPerTimer'
  <2>1. \A m \in DOMAIN monitors : timers'[monitors[m]] \in DOMAIN armed'
                                   /\ armed'[timers'[monitors[m]]] = MonitorTimeout(m)
    <3> TAKE m \in DOMAIN monitors
    <3>1. monitors[m] \in DOMAIN timers \ {updateTimerId}
      BY DEF Inv, TimersHaveOneOwner, Range
    <3>2. timers[monitors[m]] \in DOMAIN armed /\ armed[timers[monitors[m]]] = MonitorTimeout(m)
      BY DEF Inv, OneTimeoutPerTimer
    <3> QED BY <1>1, <1>5, <1>6, <3>1, <3>2 DEF EntryKept
  <2>2. \A z \in DOMAIN senders : timers'[senders[z].timerid] \in DOMAIN armed'
                                  /\ armed'[timers'[senders[z].timerid]].task = SenderTask(z)
    <3> TAKE z \in DOMAIN senders
    <3>1. senders[z].timerid \in DOMAIN timers \ {updateTimerId}
      BY DEF Inv, TimersHaveOneOwner
    <3>2. /\ timers[senders[z].timerid] \in DOMAIN armed
          /\ armed[timers[senders[z].timerid]].task = SenderTask(z)
      BY DEF Inv, OneTimeoutPerTimer
    <3> QED BY <1>1, <1>5, <1>6, <3>1, <3>2 DEF EntryKept
  <2>3. \A g \in DOMAIN armed' : g.id \in DOMAIN timers' /\ timers'[g.id] = g
    BY <1>4, <1>5 DEF RegistryOK
  <2> QED BY <1>6, <1>7, <1>8, <2>1, <2>2, <2>3 DEF OneTimeoutPerTimer
<1>12. ConfigurationInForce'
  BY <1>6, KeptInForce DEF UpdateFail
<1> QED BY <1>4, <1>5, <1>9, <1>10, <1>11, <1>12 DEF Inv

(***************************************************************************)
(* The registry in the middle of UpdateFinish: the monitors mons and the   *)
(* senders snds own its entries beside the update timer, whose timeout is  *)
(* spent, and each of them has its timeout.                                *)
(***************************************************************************)
OwnedBy(reg, mons, snds) ==
  /\ RegistryOK(reg, Timeouts)
  /\ DOMAIN reg.timers = {updateTimerId} \cup Range(mons)
                           \cup {snds[z].timerid : z \in DOMAIN snds}
  /\ IsInjective(mons)
  /\ \A z1, z2 \in DOMAIN snds : snds[z1].timerid = snds[z2].timerid => z1 = z2
  /\ \A z \in DOMAIN snds : snds[z].timerid \notin Range(mons) \cup {updateTimerId}
  /\ updateTimerId \notin Range(mons)
  /\ \A m \in DOMAIN mons : /\ reg.timers[mons[m]] \in DOMAIN reg.armed
                            /\ reg.armed[reg.timers[mons[m]]] = MonitorTimeout(m)
  /\ \A z \in DOMAIN snds : /\ reg.timers[snds[z].timerid] \in DOMAIN reg.armed
                            /\ reg.armed[reg.timers[snds[z].timerid]].task = SenderTask(z)
  /\ reg.timers[updateTimerId] \notin DOMAIN reg.armed

\* While an update waits, each timer but its own has its owner.
LEMMA OwnedBefore ==
  ASSUME Inv, NEW h \in updating
  PROVE  OwnedBy(registry, monitors, senders)
<1>1. registry.timers = timers /\ registry.armed = armed
  BY DEF registry
<1>2. timers[updateTimerId] \notin DOMAIN armed
  BY UpdatingHandle
<1> QED BY <1>1, <1>2 DEF Inv, TimersHaveOneOwner, OneTimeoutPerTimer, OwnedBy

\* updateMonitors hands the registry from the old monitors to the new.
LEMMA UpdateMonitorsOwned ==
  ASSUME Inv, NEW c \in Confs, OwnedBy(registry, monitors, senders),
         NEW id \in FreshIds(registry, {MonitorTimeout(m) : m \in AddedMonitors(c)})
  PROVE  /\ OwnedBy(UpdateMonitors(registry, id, c), UpdatedMonitors(id, c), senders)
         /\ UpdatedMonitors(id, c) \in [DOMAIN c.queries -> Nat]
         /\ \A i \in DOMAIN timers \ {monitors[m] : m \in RemovedMonitors(c)} :
              UpdateMonitors(registry, id, c).timers[i] = timers[i]
<1> DEFINE S == {MonitorTimeout(m) : m \in AddedMonitors(c)}
           G == {monitors[m] : m \in RemovedMonitors(c)}
           r == UpdateMonitors(registry, id, c)
           mons == UpdatedMonitors(id, c)
<1>1. registry.timers = timers /\ registry.armed = armed /\ RegistryOK(registry, Timeouts)
  BY DEF registry, Inv
<1>2. c \in Configurations /\ DOMAIN c.queries \subseteq Monitors
  BY ConfAssumption DEF Configurations, PartialFcns
<1>3. S \subseteq Timeouts
  BY <1>2, TimeoutTypes DEF AddedMonitors
<1>4. IsFiniteSet(S)
  <2>1. IsFiniteSet(AddedMonitors(c))
    BY <1>2, FiniteAssumption, FS_Subset DEF AddedMonitors
  <2> DEFINE f == [m \in AddedMonitors(c) |-> MonitorTimeout(m)]
  <2>2. S = {f[m] : m \in AddedMonitors(c)} /\ f \in [AddedMonitors(c) -> S]
    OBVIOUS
  <2>3. f \in Surjection(AddedMonitors(c), S)
    BY <2>2 DEF Surjection
  <2> QED BY <2>1, <2>3, FS_Surjection
<1>5. G \subseteq DOMAIN timers
  BY DEF Inv, TimersHaveOneOwner, RemovedMonitors, Range
<1>6. RegistryOK(r, Timeouts) /\ TimersReplaced(registry, id, G, r)
  BY <1>1, <1>3, <1>4, <1>5, ReplaceTimersOK DEF UpdateMonitors
<1>7. /\ id \in [S -> Nat] /\ IsInjective(id) /\ DOMAIN id = S
      /\ \A t \in S : id[t] \notin DOMAIN timers
  BY <1>1, <1>4, FreshIdsOK
<1>8. /\ DOMAIN mons = DOMAIN c.queries
      /\ \A m \in DOMAIN mons \ DOMAIN monitors :
           MonitorTimeout(m) \in S /\ mons[m] = id[MonitorTimeout(m)]
      /\ \A m \in DOMAIN mons \cap DOMAIN monitors : mons[m] = monitors[m]
  BY DEF UpdatedMonitors, AddedMonitors
<1>9. \A m, n : MonitorTimeout(m) = MonitorTimeout(n) => m = n
  BY TasksDiffer DEF MonitorTimeout
<1>10. mons \in [DOMAIN c.queries -> Nat]
  <2>1. \A m \in DOMAIN c.queries : mons[m] \in Nat
    BY <1>7, <1>8 DEF Inv, TypeOK
  <2> QED BY <2>1 DEF UpdatedMonitors
<1>11. Range(mons) = (Range(monitors) \ G) \cup Range(id)
  <2>1. \A m \in DOMAIN mons : mons[m] \in (Range(monitors) \ G) \cup Range(id)
    <3> TAKE m \in DOMAIN mons
    <3>1. CASE m \notin DOMAIN monitors
      BY <3>1, <1>7, <1>8 DEF Range
    <3>2. CASE m \in DOMAIN monitors
      <4>1. monitors[m] \notin G
        BY <3>2, <1>8 DEF RemovedMonitors, Inv, TimersHaveOneOwner, IsInjective
      <4> QED BY <3>2, <4>1, <1>8 DEF Range
    <3> QED BY <3>1, <3>2
  <2>2. \A i \in Range(monitors) \ G : \E m \in DOMAIN mons : mons[m] = i
    BY <1>8 DEF Range, RemovedMonitors
  <2>3. \A i \in Range(id) : \E m \in DOMAIN mons : mons[m] = i
    <3> TAKE i \in Range(id)
    <3>1. PICK m \in AddedMonitors(c) : i = id[MonitorTimeout(m)]
      BY <1>7 DEF Range
    <3> QED BY <3>1, <1>8 DEF AddedMonitors
  <2> QED BY <2>1, <2>2, <2>3 DEF Range
<1> HIDE DEF r, mons, S
<1>12. IsInjective(mons)
  <2> SUFFICES ASSUME NEW m \in DOMAIN mons, NEW n \in DOMAIN mons, mons[m] = mons[n]
               PROVE  m = n
    BY DEF IsInjective
  <2>1. \A k \in DOMAIN monitors : monitors[k] \in DOMAIN timers
    BY DEF Inv, TimersHaveOneOwner, Range
  <2>2. CASE m \in DOMAIN monitors /\ n \in DOMAIN monitors
    BY <2>2, <1>8 DEF Inv, TimersHaveOneOwner, IsInjective
  <2>3. CASE m \notin DOMAIN monitors /\ n \notin DOMAIN monitors
    BY <2>3, <1>7, <1>8, <1>9 DEF IsInjective
  <2> QED BY <2>1, <2>2, <2>3, <1>7, <1>8
<1>13. DOMAIN r.timers = {updateTimerId} \cup Range(mons)
                          \cup {senders[z].timerid : z \in DOMAIN senders}
  <2>1. DOMAIN r.timers = (DOMAIN timers \ G) \cup Range(id)
    BY <1>1, <1>6 DEF TimersReplaced
  <2>2. G \subseteq Range(monitors)
    BY DEF RemovedMonitors, Range
  <2>3. /\ DOMAIN timers = {updateTimerId} \cup Range(monitors)
                             \cup {senders[z].timerid : z \in DOMAIN senders}
        /\ updateTimerId \notin Range(monitors)
        /\ \A z \in DOMAIN senders : senders[z].timerid \notin Range(monitors)
    BY DEF Inv, TimersHaveOneOwner
  <2> HIDE DEF G
  <2> QED BY <1>11, <2>1, <2>2, <2>3
<1>14. Range(id) \cap DOMAIN timers = {}
  BY <1>7 DEF Range
<1>15. /\ \A z \in DOMAIN senders : senders[z].timerid \notin Range(mons) \cup {updateTimerId}
       /\ updateTimerId \notin Range(mons)
  BY <1>11, <1>14 DEF Inv, TimersHaveOneOwner
<1>16. \A m \in DOMAIN mons : /\ r.timers[mons[m]] \in DOMAIN r.armed
                              /\ r.armed[r.timers[mons[m]]] = MonitorTimeout(m)
  <2> TAKE m \in DOMAIN mons
  <2>1. CASE m \notin DOMAIN monitors
    BY <2>1, <1>6, <1>7, <1>8 DEF TimersReplaced
  <2>2. CASE m \in DOMAIN monitors
    <3>1. monitors[m] \in DOMAIN timers \ G
      BY <2>2, <1>8 DEF Inv, TimersHaveOneOwner, IsInjective, RemovedMonitors, Range
    <3>2. timers[monitors[m]] \in DOMAIN armed /\ armed[timers[monitors[m]]] = MonitorTimeout(m)
      BY <2>2 DEF Inv, OneTimeoutPerTimer
    <3> QED BY <2>2, <3>1, <3>2, <1>1, <1>6, <1>8 DEF TimersReplaced, EntryKept
  <2> QED BY <2>1, <2>2
<1>17. \A i \in {updateTimerId} \cup {senders[z].timerid : z \in DOMAIN senders} :
         i \in DOMAIN timers \ G
  BY DEF Inv, TimersHaveOneOwner, RemovedMonitors, Range
<1>18. \A i \in {updateTimerId} \cup {senders[z].timerid : z \in DOMAIN senders} :
         EntryKept(registry, r, i)
  BY <1>1, <1>6, <1>17 DEF TimersReplaced
<1>19. \A z \in DOMAIN senders : /\ r.timers[senders[z].timerid] \in DOMAIN r.armed
                                 /\ r.armed[r.timers[senders[z].timerid]].task = SenderTask(z)
  BY <1>1, <1>18 DEF EntryKept, OwnedBy
<1>20. r.timers[updateTimerId] \notin DOMAIN r.armed
  BY <1>1, <1>18 DEF EntryKept, OwnedBy
<1>21. \A z1, z2 \in DOMAIN senders : senders[z1].timerid = senders[z2].timerid => z1 = z2
  BY DEF OwnedBy
<1>22. OwnedBy(r, mons, senders)
  BY <1>6, <1>12, <1>13, <1>15, <1>16, <1>19, <1>20, <1>21 DEF OwnedBy
<1>23. \A i \in DOMAIN timers \ G : r.timers[i] = timers[i]
  BY <1>1, <1>6 DEF TimersReplaced, EntryKept
<1> QED BY <1>10, <1>22, <1>23 DEF r, mons

\* updateSendData hands the registry from the old senders to the new.
LEMMA UpdateSendDataOwned ==
  ASSUME Inv, NEW c \in Confs, NEW reg, NEW mons, OwnedBy(reg, mons, senders),
         NEW id \in FreshIds(reg, {SenderTimeout(z, c.zabbixes[z]) : z \in AddedSenders(c)})
  PROVE  /\ OwnedBy(UpdateSendData(reg, id, c), mons, UpdatedSenders(id, c))
         /\ UpdatedSenders(id, c) \in [DOMAIN c.zabbixes -> [period : Periods, timerid : Nat]]
         /\ \A i \in DOMAIN reg.timers \ {senders[z].timerid : z \in RemovedSenders(c)} :
              UpdateSendData(reg, id, c).timers[i] = reg.timers[i]
<1> DEFINE timeout(z) == SenderTimeout(z, c.zabbixes[z])
           S == {timeout(z) : z \in AddedSenders(c)}
           ids == {senders[z].timerid : z \in DOMAIN senders}
           G == {senders[z].timerid : z \in RemovedSenders(c)}
           r == UpdateSendData(reg, id, c)
           snds == UpdatedSenders(id, c)
<1>1. RegistryOK(reg, Timeouts)
  BY DEF OwnedBy
<1>2. DOMAIN c.zabbixes \subseteq Zabbixes /\ \A z \in DOMAIN c.zabbixes : c.zabbixes[z] \in Periods
  BY ConfAssumption DEF Configurations, PartialFcns
<1>3. S \subseteq Timeouts
  BY <1>2, TimeoutTypes DEF AddedSenders
<1>4. IsFiniteSet(S)
  <2>1. IsFiniteSet(AddedSenders(c))
    BY <1>2, FiniteAssumption, FS_Subset DEF AddedSenders
  <2> DEFINE f == [z \in AddedSenders(c) |-> timeout(z)]
  <2>2. S = {f[z] : z \in AddedSenders(c)} /\ f \in [AddedSenders(c) -> S]
    OBVIOUS
  <2>3. f \in Surjection(AddedSenders(c), S)
    BY <2>2 DEF Surjection
  <2> QED BY <2>1, <2>3, FS_Surjection
<1>5. G \subseteq ids /\ ids \subseteq DOMAIN reg.timers
  BY DEF OwnedBy, RemovedSenders
<1>6. RegistryOK(r, Timeouts) /\ TimersReplaced(reg, id, G, r)
  BY <1>1, <1>3, <1>4, <1>5, ReplaceTimersOK DEF UpdateSendData
<1>7. /\ id \in [S -> Nat] /\ IsInjective(id) /\ DOMAIN id = S
      /\ \A t \in S : id[t] \notin DOMAIN reg.timers
  BY <1>1, <1>4, FreshIdsOK
<1>8. /\ DOMAIN snds = DOMAIN c.zabbixes
      /\ \A z \in DOMAIN snds \ DOMAIN senders : timeout(z) \in S /\ snds[z].timerid = id[timeout(z)]
      /\ \A z \in DOMAIN snds \cap DOMAIN senders : snds[z].timerid = senders[z].timerid
  BY DEF UpdatedSenders, AddedSenders
<1>9. \A y, z : timeout(y) = timeout(z) => y = z
  BY TasksDiffer DEF SenderTimeout
<1>10. snds \in [DOMAIN c.zabbixes -> [period : Periods, timerid : Nat]]
  <2>1. \A z \in DOMAIN c.zabbixes : snds[z].timerid \in Nat
    BY <1>7, <1>8 DEF Inv, TypeOK
  <2>2. \A z \in DOMAIN c.zabbixes :
          snds[z] = [period |-> c.zabbixes[z], timerid |-> snds[z].timerid]
    BY DEF UpdatedSenders
  <2> QED BY <1>2, <2>1, <2>2 DEF UpdatedSenders
<1>11. {snds[z].timerid : z \in DOMAIN snds} = (ids \ G) \cup Range(id)
  <2>1. \A z \in DOMAIN snds : snds[z].timerid \in (ids \ G) \cup Range(id)
    <3> TAKE z \in DOMAIN snds
    <3>1. CASE z \notin DOMAIN senders
      BY <3>1, <1>7, <1>8 DEF Range
    <3>2. CASE z \in DOMAIN senders
      <4>1. senders[z].timerid \notin G
        BY <3>2, <1>8 DEF RemovedSenders, OwnedBy
      <4> QED BY <3>2, <4>1, <1>8
    <3> QED BY <3>1, <3>2
  <2>2. \A i \in ids \ G : \E z \in DOMAIN snds : snds[z].timerid = i
    BY <1>8 DEF RemovedSenders
  <2>3. \A i \in Range(id) : \E z \in DOMAIN snds : snds[z].timerid = i
    <3> TAKE i \in Range(id)
    <3>1. PICK z \in AddedSenders(c) : i = id[timeout(z)]
      BY <1>7 DEF Range
    <3> QED BY <3>1, <1>8 DEF AddedSenders
  <2> QED BY <2>1, <2>2, <2>3
<1> HIDE DEF r, snds, S, timeout
<1>12. \A y, z \in DOMAIN snds : snds[y].timerid = snds[z].timerid => y = z
  <2> TAKE y, z \in DOMAIN snds
  <2>1. \A k \in DOMAIN senders : senders[k].timerid \in DOMAIN reg.timers
    BY DEF OwnedBy
  <2>2. CASE y \in DOMAIN senders /\ z \in DOMAIN senders
    BY <2>2, <1>8 DEF OwnedBy
  <2>3. CASE y \notin DOMAIN senders /\ z \notin DOMAIN senders
    BY <2>3, <1>7, <1>8, <1>9 DEF IsInjective
  <2> QED BY <2>1, <2>2, <2>3, <1>7, <1>8
<1>13. Range(id) \cap DOMAIN reg.timers = {}
  BY <1>7 DEF Range
<1>14. /\ DOMAIN reg.timers = {updateTimerId} \cup Range(mons) \cup ids
       /\ ids \cap Range(mons) = {} /\ updateTimerId \notin ids /\ updateTimerId \notin Range(mons)
  BY DEF OwnedBy
<1> HIDE DEF ids, G
<1>15. DOMAIN r.timers = {updateTimerId} \cup Range(mons)
                           \cup {snds[z].timerid : z \in DOMAIN snds}
  <2>1. DOMAIN r.timers = (DOMAIN reg.timers \ G) \cup Range(id)
    BY <1>6 DEF TimersReplaced
  <2> QED BY <2>1, <1>5, <1>11, <1>14
<1>16. \A z \in DOMAIN snds : snds[z].timerid \notin Range(mons) \cup {updateTimerId}
  BY <1>11, <1>13, <1>14
<1>17. \A i \in DOMAIN reg.timers \ G : EntryKept(reg, r, i)
  BY <1>6 DEF TimersReplaced
<1>18. \A m \in DOMAIN mons : /\ r.timers[mons[m]] \in DOMAIN r.armed
                              /\ r.armed[r.timers[mons[m]]] = MonitorTimeout(m)
  <2> TAKE m \in DOMAIN mons
  <2>1. mons[m] \in DOMAIN reg.timers \ G
    BY <1>5, <1>14 DEF Range
  <2> QED BY <2>1, <1>17 DEF OwnedBy, EntryKept
<1>19. \A z \in DOMAIN snds : /\ r.timers[snds[z].timerid] \in DOMAIN r.armed
                              /\ r.armed[r.timers[snds[z].timerid]].task = SenderTask(z)
  <2> TAKE z \in DOMAIN snds
  <2>1. CASE z \notin DOMAIN senders
    <3>1. /\ r.timers[snds[z].timerid] \in DOMAIN r.armed
          /\ r.armed[r.timers[snds[z].timerid]] = timeout(z)
      BY <2>1, <1>6, <1>7, <1>8 DEF TimersReplaced
    <3> QED BY <3>1 DEF timeout, SenderTimeout
  <2>2. CASE z \in DOMAIN senders
    <3>1. senders[z].timerid \in DOMAIN reg.timers \ G
      BY <2>2, <1>5, <1>8 DEF OwnedBy, RemovedSenders, G, ids
    <3> QED BY <2>2, <3>1, <1>8, <1>17 DEF OwnedBy, EntryKept
  <2> QED BY <2>1, <2>2
<1>20. r.timers[updateTimerId] \notin DOMAIN r.armed
  <2>1. updateTimerId \in DOMAIN reg.timers \ G
    BY <1>5, <1>14
  <2> QED BY <2>1, <1>17 DEF EntryKept, OwnedBy
<1>21. OwnedBy(r, mons, snds)
  BY <1>6, <1>12, <1>14, <1>15, <1>16, <1>18, <1>19, <1>20 DEF OwnedBy
<1>22. \A i \in DOMAIN reg.timers \ G : r.timers[i] = reg.timers[i]
  BY <1>17 DEF EntryKept
<1> QED BY <1>10, <1>21, <1>22 DEF r, snds, G

\* The connectors of a new configuration are typed, and their count is capped.
LEMMA UpdatedConnectorTypes ==
  ASSUME Inv, NEW c \in Confs
  PROVE  /\ UpdatedConnectors(c) \in [DOMAIN UpdatedConnectors(c) -> DbConfs]
         /\ DOMAIN UpdatedConnectors(c) \subseteq DBs
         /\ UpdatedAbandoned(c) \in [DBs -> 0 .. MaxAbandoned]
<1>1. DOMAIN c.dbs \subseteq DBs /\ \A d \in DOMAIN c.dbs : c.dbs[d] \in DbConfs
  BY ConfAssumption DEF Configurations, PartialFcns
<1>2. /\ UpdatedConnectors(c) \in [DOMAIN UpdatedConnectors(c) -> DbConfs]
      /\ DOMAIN UpdatedConnectors(c) \subseteq DBs
  BY <1>1 DEF UpdatedConnectors, Inv, TypeOK
<1>3. \A d \in DBs : /\ abandoned[d] \in 0 .. MaxAbandoned
                     /\ abandoned[d] < MaxAbandoned => abandoned[d] + 1 \in 0 .. MaxAbandoned
  BY FiniteAssumption DEF Inv, TypeOK
<1>4. UpdatedAbandoned(c) \in [DBs -> 0 .. MaxAbandoned]
  BY <1>3 DEF UpdatedAbandoned
<1> QED BY <1>2, <1>4

\* A finished update leaves one timer to each new owner, none to the old.
LEMMA UpdateFinishInv ==
  ASSUME Inv, NEW h \in updating, NEW c \in Confs, UpdateFinish(h, c)
  PROVE  Inv'
<1>1. OwnedBy(registry, monitors, senders)
  BY OwnedBefore
<1>2. PICK monitorId \in FreshIds(registry, {MonitorTimeout(m) : m \in AddedMonitors(c)}) :
        \E senderId \in FreshIds(UpdateMonitors(registry, monitorId, c),
                                 {SenderTimeout(z, c.zabbixes[z]) : z \in AddedSenders(c)}) :
          LET reg2 == UpdateSendData(UpdateMonitors(registry, monitorId, c), senderId, c)
          IN  /\ monitors' = UpdatedMonitors(monitorId, c)
              /\ senders' = UpdatedSenders(senderId, c)
              /\ SetRegistry(RearmTimer(reg2, h.id, UpdateTimeout(NextPeriod(c))))
  BY DEF UpdateFinish
<1> DEFINE reg1 == UpdateMonitors(registry, monitorId, c)
<1>3. /\ OwnedBy(reg1, UpdatedMonitors(monitorId, c), senders)
      /\ UpdatedMonitors(monitorId, c) \in [DOMAIN c.queries -> Nat]
  BY <1>1, UpdateMonitorsOwned
<1>4. PICK senderId \in FreshIds(reg1, {SenderTimeout(z, c.zabbixes[z]) : z \in AddedSenders(c)}) :
        /\ monitors' = UpdatedMonitors(monitorId, c)
        /\ senders' = UpdatedSenders(senderId, c)
        /\ SetRegistry(RearmTimer(UpdateSendData(reg1, senderId, c), h.id, UpdateTimeout(NextPeriod(c))))
  BY <1>2
<1> HIDE DEF reg1
<1> DEFINE reg2 == UpdateSendData(reg1, senderId, c)
           r == RearmTimer(reg2, h.id, UpdateTimeout(NextPeriod(c)))
<1>5. /\ OwnedBy(reg2, monitors', senders')
      /\ senders' \in [DOMAIN c.zabbixes -> [period : Periods, timerid : Nat]]
      /\ monitors' \in [DOMAIN c.queries -> Nat]
  BY <1>3, <1>4, UpdateSendDataOwned
<1> HIDE DEF reg2
<1>6. updating = {h} /\ h.id = updateTimerId /\ updating' = {}
  BY UpdatingHandle DEF UpdateFinish
<1>7. c \in Configurations /\ DOMAIN c.queries \subseteq Monitors /\ DOMAIN c.zabbixes \subseteq Zabbixes
  BY ConfAssumption DEF Configurations, PartialFcns
<1>8. UpdateTimeout(NextPeriod(c)) \in Timeouts /\ UpdateTimeout(NextPeriod(c)).task = UpdateTask
  BY <1>7, NextPeriodInForce, TimeoutTypes DEF UpdateTimeout
<1>9. RegistryOK(r, Timeouts) /\ TimerRearmed(reg2, updateTimerId, UpdateTimeout(NextPeriod(c)), r)
  BY <1>5, <1>6, <1>8, RearmTimerOK DEF OwnedBy
<1>10. registry' = r /\ timers' = r.timers /\ armed' = r.armed
  BY <1>4, <1>9, SetRegistryIs DEF SetRegistry, reg2
<1> HIDE DEF r
<1>11. /\ DOMAIN timers' = DOMAIN reg2.timers
       /\ timers'[updateTimerId] \in DOMAIN armed'
       /\ armed'[timers'[updateTimerId]] = UpdateTimeout(NextPeriod(c))
       /\ \A i \in DOMAIN reg2.timers \ {updateTimerId} : EntryKept(reg2, r, i)
  BY <1>9, <1>10 DEF TimerRearmed
<1>12. TimersHaveOneOwner'
  BY <1>5, <1>11 DEF TimersHaveOneOwner, OwnedBy
<1>13. OneTimeoutPerTimer'
  <2>1. \A m \in DOMAIN monitors' : timers'[monitors'[m]] \in DOMAIN armed'
                                    /\ armed'[timers'[monitors'[m]]] = MonitorTimeout(m)
    <3> TAKE m \in DOMAIN monitors'
    <3>1. monitors'[m] \in DOMAIN reg2.timers \ {updateTimerId}
      BY <1>5 DEF OwnedBy, Range
    <3>2. /\ reg2.timers[monitors'[m]] \in DOMAIN reg2.armed
          /\ reg2.armed[reg2.timers[monitors'[m]]] = MonitorTimeout(m)
      BY <1>5 DEF OwnedBy
    <3> QED BY <1>10, <1>11, <3>1, <3>2 DEF EntryKept
  <2>2. \A z \in DOMAIN senders' : timers'[senders'[z].timerid] \in DOMAIN armed'
                                   /\ armed'[timers'[senders'[z].timerid]].task = SenderTask(z)
    <3> TAKE z \in DOMAIN senders'
    <3>1. senders'[z].timerid \in DOMAIN reg2.timers \ {updateTimerId}
      BY <1>5 DEF OwnedBy
    <3>2. /\ reg2.timers[senders'[z].timerid] \in DOMAIN reg2.armed
          /\ reg2.armed[reg2.timers[senders'[z].timerid]].task = SenderTask(z)
      BY <1>5 DEF OwnedBy
    <3> QED BY <1>10, <1>11, <3>1, <3>2 DEF EntryKept
  <2>3. \A g \in DOMAIN armed' : g.id \in DOMAIN timers' /\ timers'[g.id] = g
    BY <1>9, <1>10 DEF RegistryOK
  <2> QED BY <1>6, <1>8, <1>11, <2>1, <2>2, <2>3 DEF OneTimeoutPerTimer
<1>14. configurator' \in [gen : Generations, conf : Configurations]
  BY <1>7 DEF UpdateFinish, FreeGenerations
<1>15. TypeOK'
  BY <1>5, <1>6, <1>7, <1>9, <1>10, <1>14, PrimedRegistryTypes, UpdatedConnectorTypes
     DEF TypeOK, Inv, UpdateFinish, queryVars
<1>16. ConfigurationInForce'
  <2>1. configurator'.conf = c /\ conf' = c
    BY DEF UpdateFinish, conf
  <2>2. /\ DOMAIN senders' = DOMAIN c.zabbixes /\ DOMAIN monitors' = DOMAIN c.queries
        /\ \A z \in DOMAIN senders' : senders'[z].period = c.zabbixes[z]
    BY <1>4, <1>5 DEF UpdatedSenders
  <2>3. /\ DOMAIN dbConnectors' \subseteq DOMAIN c.dbs
        /\ \A d \in DOMAIN c.dbs : c.dbs[d] \notin BadDbConfs =>
             d \in DOMAIN dbConnectors' /\ dbConnectors'[d] = c.dbs[d]
    BY DEF UpdateFinish, UpdatedConnectors
  <2>4. armed'[timers'[updateTimerId]].period = NextPeriod(c)
    BY <1>11 DEF UpdateTimeout
  <2>5. PeriodInForce(c, NextPeriod(c)) /\ closurePeriod' = closurePeriod
    BY <1>7, NextPeriodInForce DEF UpdateFinish
  <2> QED BY <2>1, <2>2, <2>3, <2>4, <2>5 DEF ConfigurationInForce, PeriodInForce
<1> QED BY <1>9, <1>10, <1>12, <1>13, <1>15, <1>16 DEF Inv

\* Every step keeps the invariant.
LEMMA NextInv == Inv /\ [Next]_vars => Inv'
<1> SUFFICES ASSUME Inv, [Next]_vars PROVE Inv'
  OBVIOUS
<1>1. CASE \E h \in DOMAIN armed : UpdateStart(h)
  BY <1>1, UpdateStartInv
<1>2. CASE \E h \in DOMAIN armed, m \in Monitors : FireMonitor(h, m)
  BY <1>2, FireMonitorInv
<1>3. CASE \E h \in DOMAIN armed, z \in Zabbixes : FireSender(h, z)
  BY <1>3, FireSenderInv
<1>4. CASE \E h \in updating : UpdateFail(h)
  BY <1>4, UpdateFailInv
<1>5. CASE \E h \in updating, c \in Confs : UpdateFinish(h, c)
  BY <1>5, UpdateFinishInv
<1>6. CASE \E e \in QueryObjects : QueryDone(e)
  BY <1>6, QueryDoneInv
<1>7. CASE Restart
  BY <1>7, RestartInv
<1>8. CASE UNCHANGED vars
  <2>1. registry' = registry
    BY <1>8 DEF vars, registry
  <2>2. TypeOK'
    BY <1>8 DEF vars, Inv, TypeOK
  <2>3. TimersHaveOneOwner' /\ OneTimeoutPerTimer'
    BY <1>8 DEF vars, Inv, TimersHaveOneOwner, OneTimeoutPerTimer
  <2>4. ConfigurationInForce'
    BY <1>8 DEF vars, Inv, ConfigurationInForce, conf
  <2> QED BY <2>1, <2>2, <2>3, <2>4 DEF Inv
<1> QED BY <1>1, <1>2, <1>3, <1>4, <1>5, <1>6, <1>7, <1>8 DEF Next, UpdateEnd, UpdateKills

\* The invariant holds in every reachable state of the scheduler.
THEOREM InvAlways == Spec => []Inv
BY InitInv, NextInv, PTL DEF Spec

\* Every variable keeps its type, whatever the configurations are.
THEOREM TypesHold == Spec => []TypeOK
<1>1. Inv => TypeOK
  BY DEF Inv
<1> QED BY <1>1, InvAlways, PTL

(***************************************************************************)
(* The registry never holds an entry without an owner, an owner without an *)
(* entry or two owners of one id, so cancelTimer always finds its timer.   *)
(***************************************************************************)
THEOREM OwnersHold == Spec => []TimersHaveOneOwner
<1>1. Inv => TimersHaveOneOwner
  BY DEF Inv
<1> QED BY <1>1, InvAlways, PTL

(***************************************************************************)
(* No timer is ever doubled, lost or left behind by a reconfiguration, and *)
(* there is never more than one update in progress.                        *)
(***************************************************************************)
THEOREM TimeoutsHold == Spec => []OneTimeoutPerTimer
<1>1. Inv => OneTimeoutPerTimer
  BY DEF Inv
<1> QED BY <1>1, InvAlways, PTL

(***************************************************************************)
(* Monitors, senders and connectors are those of the configuration in      *)
(* force, whatever updates failed or came meanwhile; the update timer has  *)
(* its period or, where it gives none, the one the process started with.   *)
(***************************************************************************)
THEOREM ConfigurationHolds == Spec => []ConfigurationInForce
<1>1. Inv => ConfigurationInForce
  BY DEF Inv
<1> QED BY <1>1, InvAlways, PTL

(***************************************************************************)
(* A finished update leaves what it keeps under the same id, and the id    *)
(* with the same timeout.                                                  *)
(***************************************************************************)
LEMMA UpdateFinishKeeps ==
  ASSUME Inv, NEW h \in updating, NEW c \in Confs, UpdateFinish(h, c)
  PROVE  /\ \A m \in DOMAIN monitors \cap DOMAIN monitors' :
              monitors'[m] = monitors[m] /\ timers'[monitors[m]] = timers[monitors[m]]
         /\ \A z \in DOMAIN senders \cap DOMAIN senders' :
              /\ senders'[z].timerid = senders[z].timerid
              /\ timers'[senders[z].timerid] = timers[senders[z].timerid]
<1>1. OwnedBy(registry, monitors, senders) /\ registry.timers = timers
  BY OwnedBefore DEF registry
<1>2. PICK monitorId \in FreshIds(registry, {MonitorTimeout(m) : m \in AddedMonitors(c)}) :
        \E senderId \in FreshIds(UpdateMonitors(registry, monitorId, c),
                                 {SenderTimeout(z, c.zabbixes[z]) : z \in AddedSenders(c)}) :
          LET reg2 == UpdateSendData(UpdateMonitors(registry, monitorId, c), senderId, c)
          IN  /\ monitors' = UpdatedMonitors(monitorId, c)
              /\ senders' = UpdatedSenders(senderId, c)
              /\ SetRegistry(RearmTimer(reg2, h.id, UpdateTimeout(NextPeriod(c))))
  BY DEF UpdateFinish
<1> DEFINE reg1 == UpdateMonitors(registry, monitorId, c)
           G1 == {monitors[m] : m \in RemovedMonitors(c)}
           G2 == {senders[z].timerid : z \in RemovedSenders(c)}
<1>3. /\ OwnedBy(reg1, UpdatedMonitors(monitorId, c), senders)
      /\ \A i \in DOMAIN timers \ G1 : reg1.timers[i] = timers[i]
  BY <1>1, UpdateMonitorsOwned
<1>4. PICK senderId \in FreshIds(reg1, {SenderTimeout(z, c.zabbixes[z]) : z \in AddedSenders(c)}) :
        /\ monitors' = UpdatedMonitors(monitorId, c)
        /\ senders' = UpdatedSenders(senderId, c)
        /\ SetRegistry(RearmTimer(UpdateSendData(reg1, senderId, c), h.id, UpdateTimeout(NextPeriod(c))))
  BY <1>2
<1> HIDE DEF reg1
<1> DEFINE reg2 == UpdateSendData(reg1, senderId, c)
           r == RearmTimer(reg2, h.id, UpdateTimeout(NextPeriod(c)))
<1>5. /\ OwnedBy(reg2, UpdatedMonitors(monitorId, c), UpdatedSenders(senderId, c))
      /\ \A i \in DOMAIN reg1.timers \ G2 : reg2.timers[i] = reg1.timers[i]
  BY <1>3, UpdateSendDataOwned
<1> HIDE DEF reg2
<1>6. h.id = updateTimerId
  BY UpdatingHandle
<1>7. UpdateTimeout(NextPeriod(c)) \in Timeouts
  BY ConfAssumption, NextPeriodInForce, TimeoutTypes
<1>8. RegistryOK(r, Timeouts) /\ TimerRearmed(reg2, updateTimerId, UpdateTimeout(NextPeriod(c)), r)
  BY <1>5, <1>6, <1>7, RearmTimerOK DEF OwnedBy
<1>9. timers' = r.timers
  BY <1>4 DEF SetRegistry, reg2
<1> HIDE DEF r
<1>10. \A i \in DOMAIN reg2.timers \ {updateTimerId} : timers'[i] = reg2.timers[i]
  BY <1>8, <1>9 DEF TimerRearmed, EntryKept
<1>11. ASSUME NEW m \in DOMAIN monitors \cap DOMAIN monitors'
       PROVE  monitors'[m] = monitors[m] /\ timers'[monitors[m]] = timers[monitors[m]]
  <2> DEFINE i == monitors[m]
  <2>1. m \in DOMAIN c.queries /\ monitors'[m] = i
    BY <1>4 DEF UpdatedMonitors, AddedMonitors
  <2>2. i \in DOMAIN timers \ G1
    BY <2>1, <1>1 DEF OwnedBy, RemovedMonitors, IsInjective, Range
  <2>3. i \in DOMAIN reg1.timers \ G2 /\ i \in DOMAIN reg2.timers /\ i # updateTimerId
    BY <2>1, <1>3, <1>4, <1>5 DEF OwnedBy, RemovedSenders, Range
  <2> QED BY <2>1, <2>2, <2>3, <1>3, <1>5, <1>10
<1>12. ASSUME NEW z \in DOMAIN senders \cap DOMAIN senders'
       PROVE  /\ senders'[z].timerid = senders[z].timerid
              /\ timers'[senders[z].timerid] = timers[senders[z].timerid]
  <2> DEFINE i == senders[z].timerid
  <2>1. z \in DOMAIN c.zabbixes /\ senders'[z].timerid = i
    BY <1>4 DEF UpdatedSenders, AddedSenders
  <2>2. i \in DOMAIN timers \ G1
    BY <1>1 DEF OwnedBy, RemovedMonitors, Range
  <2>3. i \in DOMAIN reg1.timers \ G2
    BY <2>1, <1>3 DEF OwnedBy, RemovedSenders
  <2>4. i \in DOMAIN reg2.timers /\ i # updateTimerId
    BY <2>1, <1>4, <1>5 DEF OwnedBy
  <2> QED BY <2>1, <2>2, <2>3, <2>4, <1>3, <1>5, <1>10
<1> QED BY <1>11, <1>12

\* A failed update sets its own timer and leaves every other entry.
LEMMA UpdateFailKeeps ==
  ASSUME Inv, NEW h \in updating, UpdateFail(h)
  PROVE  \A i \in DOMAIN timers \ {updateTimerId} : timers'[i] = timers[i]
<1> DEFINE t == UpdateTimeout(NextPeriod(conf))
<1>1. registry.timers = timers /\ registry.armed = armed /\ RegistryOK(registry, Timeouts)
  BY DEF registry, Inv
<1>2. t \in Timeouts
  BY NextPeriodInForce, TimeoutTypes DEF Inv, TypeOK, conf
<1>3. h.id = updateTimerId /\ updateTimerId \in DOMAIN timers /\ timers[h.id] \notin DOMAIN armed
  BY UpdatingHandle
<1>4. TimerRearmed(registry, updateTimerId, t, RearmTimer(registry, h.id, t))
  BY <1>1, <1>2, <1>3, RearmTimerOK
<1> QED BY <1>1, <1>4 DEF UpdateFail, SetRegistry, TimerRearmed, EntryKept

(***************************************************************************)
(* No step disturbs a monitor or a server that stays configured: it keeps  *)
(* its id, and an update neither drops nor sets again its pending timeout. *)
(***************************************************************************)
THEOREM KeptTimersHold == Spec => KeptTimersUndisturbed
<1> DEFINE Kept ==
      /\ \A m \in DOMAIN monitors \cap DOMAIN monitors' :
           /\ monitors'[m] = monitors[m]
           /\ updating' # updating =>
                timers'[monitors[m]] = timers[monitors[m]] /\ timers[monitors[m]] \in DOMAIN armed'
      /\ \A z \in DOMAIN senders \cap DOMAIN senders' :
           LET i == senders[z].timerid
           IN  /\ senders'[z].timerid = i
               /\ updating' # updating => timers'[i] = timers[i] /\ timers[i] \in DOMAIN armed'
<1>1. Inv /\ Inv' /\ [Next]_vars => [Kept]_vars
  <2> SUFFICES ASSUME Inv, Inv', [Next]_vars PROVE Kept
    OBVIOUS
  \* What keeps its entry keeps its timeout armed, by the invariant after the step.
  <2>1. SUFFICES /\ \A m \in DOMAIN monitors \cap DOMAIN monitors' :
                      /\ monitors'[m] = monitors[m]
                      /\ updating' # updating => timers'[monitors[m]] = timers[monitors[m]]
                 /\ \A z \in DOMAIN senders \cap DOMAIN senders' :
                      /\ senders'[z].timerid = senders[z].timerid
                      /\ updating' # updating =>
                           timers'[senders[z].timerid] = timers[senders[z].timerid]
    <3>1. /\ \A m \in DOMAIN monitors' : timers'[monitors'[m]] \in DOMAIN armed'
          /\ \A z \in DOMAIN senders' : timers'[senders'[z].timerid] \in DOMAIN armed'
      BY DEF Inv, OneTimeoutPerTimer
    <3> QED BY <2>1, <3>1
  <2>2. CASE UNCHANGED <<monitors, senders, updating>>
    BY <2>2
  <2>3. CASE \E h \in DOMAIN armed : UpdateStart(h)
    BY <2>3 DEF UpdateStart, SetRegistry, FireTimer, registry, configVars
  <2>4. CASE \E h \in updating : UpdateFail(h)
    <3>1. UNCHANGED <<monitors, senders>>
      BY <2>4 DEF UpdateFail, configVars
    <3>2. /\ \A m \in DOMAIN monitors : monitors[m] \in DOMAIN timers \ {updateTimerId}
          /\ \A z \in DOMAIN senders : senders[z].timerid \in DOMAIN timers \ {updateTimerId}
      BY DEF Inv, TimersHaveOneOwner, Range
    <3> QED BY <2>4, <3>1, <3>2, UpdateFailKeeps
  <2>5. CASE \E h \in updating, c \in Confs : UpdateFinish(h, c)
    BY <2>5, UpdateFinishKeeps
  <2>6. CASE Restart
    BY <2>6 DEF Restart, EmptyFcn
  <2> QED BY <2>2, <2>3, <2>4, <2>5, <2>6
          DEF Next, UpdateEnd, UpdateKills, FireMonitor, FireSender, QueryDone, configVars, vars
<1> QED BY <1>1, InvAlways, PTL DEF Spec, KeptTimersUndisturbed

(***************************************************************************)
(* A database that stays configured loses a connector that works only to   *)
(* its own section, when that is one of a known type that cannot start: a  *)
(* type without plugin, another section or a failed update costs none.     *)
(***************************************************************************)
THEOREM ConnectorsKept == Spec => ConnectorLostWithReason
<1> DEFINE Kept == \A d \in DOMAIN dbConnectors :
                     dbConnectors[d] \notin BrokenDbConfs =>
                       \/ d \notin DOMAIN configurator'.conf.dbs
                       \/ configurator'.conf.dbs[d] \in BrokenDbConfs
                       \/ d \in DOMAIN dbConnectors' /\ dbConnectors'[d] \notin BrokenDbConfs
<1>1. [Next]_vars => [Kept]_vars
  <2> SUFFICES ASSUME [Next]_vars PROVE Kept
    OBVIOUS
  <2>1. CASE \E h \in updating, c \in Confs : UpdateFinish(h, c)
    <3>1. PICK h \in updating, c \in Confs : UpdateFinish(h, c)
      BY <2>1
    <3>2. configurator'.conf = c /\ dbConnectors' = UpdatedConnectors(c)
      BY <3>1 DEF UpdateFinish
    <3> QED BY <3>2 DEF UpdatedConnectors
  <2>2. CASE UNCHANGED dbConnectors
    BY <2>2
  <2>3. CASE Restart
    <3>1. DOMAIN configurator'.conf.dbs = {}
      BY <2>3 DEF Restart, FirstConfigurator, Unread, EmptyFcn
    <3> QED BY <3>1
  <2> QED BY <2>1, <2>2, <2>3 DEF Next, UpdateStart, UpdateEnd, UpdateKills, UpdateFail,
                                  FireMonitor, FireSender, QueryDone, configVars, vars
<1> QED BY <1>1, PTL DEF Spec, ConnectorLostWithReason

(***************************************************************************)
(* The status of a query object is "run" exactly while its one execution   *)
(* is in flight, so a slow query is not started twice by its timer.        *)
(***************************************************************************)
THEOREM StatusHolds == Spec => []StatusTellsInFlight
<1>1. Init => StatusTellsInFlight
  BY DEF Init, StatusTellsInFlight
<1>2. TypeOK /\ StatusTellsInFlight /\ [Next]_vars => StatusTellsInFlight'
  <2> SUFFICES ASSUME TypeOK, StatusTellsInFlight, [Next]_vars PROVE StatusTellsInFlight'
    OBVIOUS
  <2>1. CASE \E h \in DOMAIN armed, m \in Monitors : FireMonitor(h, m)
    <3>1. PICK m \in Monitors, h \in DOMAIN armed : FireMonitor(h, m)
      BY <2>1
    <3>2. \A e \in StartedQueries(m) : e \in QueryObjects /\ e \notin running
      BY DEF StartedQueries
    <3> QED BY <3>1, <3>2 DEF FireMonitor, StatusTellsInFlight
  <2>2. CASE \E e \in QueryObjects : QueryDone(e)
    <3>1. PICK e \in QueryObjects : QueryDone(e)
      BY <2>2
    <3>2. inFlight[e] = 1 /\ e \in running
      BY <3>1 DEF QueryDone, StatusTellsInFlight
    <3>3. \A x \in QueryObjects : inFlight'[x] = IF x = e THEN 0 ELSE inFlight[x]
      BY <3>1, <3>2 DEF QueryDone, TypeOK
    <3> QED BY <3>1, <3>3 DEF QueryDone, StatusTellsInFlight
  <2>3. CASE UNCHANGED <<running, inFlight>>
    BY <2>3 DEF StatusTellsInFlight
  <2>4. CASE Restart
    BY <2>4 DEF Restart, StatusTellsInFlight
  <2> QED BY <2>1, <2>2, <2>3, <2>4 DEF Next, UpdateStart, FireSender, UpdateEnd, UpdateFail,
                                        UpdateFinish, UpdateKills, queryVars, vars
<1> QED BY <1>1, <1>2, TypesHold, PTL DEF Spec
=============================================================================
