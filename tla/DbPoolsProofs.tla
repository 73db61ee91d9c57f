---------------------------- MODULE DbPoolsProofs ----------------------------
(***************************************************************************)
(* Who has the connections of a pool: proof of ConnectionsAreReturned.     *)
(***************************************************************************)
EXTENDS DbPools, FiniteSetTheorems, TLAPS

\* A query is on a connector exactly while it is under way.
UnderWay == \A q \in Queries : call[q] \in Settled <=> on[q] = NoConnector

\* Only a connection of oracle is closed with an await of its own.
Closing(q) == call[q] \in {"closing", "closing failed"}
ClosedByOracle == \A q \in Queries : Closing(q) => Driver[on[q]] = "oracle"

Inv == TypeOK /\ UnderWay /\ ClosedByOracle /\ ConnectionsAreReturned

\* A connector's holders are finitely many.
LEMMA HoldersFinite == ASSUME NEW c \in Connectors PROVE IsFiniteSet(Holders(c))
<1>1. Holders(c) \subseteq Queries
  BY DEF Holders
<1> QED BY <1>1, PoolAssumption, FS_Subset

\* A step that moves no query in or out of a set of holders leaves what is counted as it is.
LEMMA SameHolders ==
  ASSUME Inv, UNCHANGED <<held, leaked>>, \A c \in Connectors : Holders(c)' = Holders(c)
  PROVE  ConnectionsAreReturned'
BY DEF Inv, ConnectionsAreReturned

\* A query that is through leaves the holders of its connector, and no others.
LEMMA LeavingStep ==
  ASSUME Inv, NEW q \in Queries, NEW d \in Connectors, d = on[q],
         call[q] \notin Settled, call[q] # "waiting", NEW outcome \in Settled,
         call' = [call EXCEPT ![q] = outcome], on' = [on EXCEPT ![q] = NoConnector]
  PROVE  /\ call' \in [Queries -> {"waiting", "holding", "closing", "closing failed"} \cup Settled]
         /\ on' \in [Queries -> Connectors \cup {NoConnector}]
         /\ UnderWay' /\ ClosedByOracle'
         /\ \A c \in Connectors : c # d => Holders(c)' = Holders(c)
         /\ \E n \in Nat : Cardinality(Holders(d)) = n + 1 /\ Cardinality(Holders(d)') = n
<1>1. q \in Holders(d)
  BY DEF Holders
<1>2. \E n \in Nat : Cardinality(Holders(d)) = n + 1 /\ Cardinality(Holders(d) \ {q}) = n
  <2>1. PICK n \in Nat : n = Cardinality(Holders(d) \ {q})
    BY HoldersFinite, FS_RemoveElement, FS_CardinalityType
  <2>2. PICK m \in Nat : m = Cardinality(Holders(d))
    BY HoldersFinite, FS_CardinalityType
  <2>3. n = m - 1
    BY <1>1, <2>1, <2>2, HoldersFinite, FS_RemoveElement
  <2>4. m = n + 1
    BY <2>3
  <2> QED BY <2>1, <2>2, <2>4
<1>3. \A p \in Queries : p # q => on'[p] = on[p] /\ call'[p] = call[p]
  BY DEF Inv, TypeOK
<1>4. on'[q] = NoConnector /\ call'[q] = outcome
  BY DEF Inv, TypeOK
<1>5. d # NoConnector
  BY PoolAssumption
<1>6. Holders(d)' = Holders(d) \ {q}
  BY <1>3, <1>4, <1>5 DEF Holders
<1>7. \A c \in Connectors : c # d => Holders(c)' = Holders(c)
  BY <1>3, <1>4, PoolAssumption DEF Holders
<1>8. UnderWay'
  BY <1>3, <1>4 DEF Inv, UnderWay
<1>9. ClosedByOracle'
  BY <1>3, <1>4 DEF Inv, ClosedByOracle, Closing, Settled
<1>10. /\ call' \in [Queries -> {"waiting", "holding", "closing", "closing failed"} \cup Settled]
       /\ on' \in [Queries -> Connectors \cup {NoConnector}]
  BY DEF Inv, TypeOK
<1> QED BY <1>2, <1>6, <1>7, <1>8, <1>9, <1>10

\* A query that had a connection gives it back.
LEMMA ReleaseStep ==
  ASSUME Inv, NEW q \in Queries, call[q] \notin Settled, call[q] # "waiting",
         NEW outcome \in Settled, Release(q, outcome), UNCHANGED <<current, pool, leaked>>
  PROVE  Inv'
<1>1. PICK d \in Connectors : d = on[q]
  BY DEF Inv, TypeOK, UnderWay
<1>2. held' = [held EXCEPT ![d] = @ - 1] /\ call' = [call EXCEPT ![q] = outcome]
        /\ on' = [on EXCEPT ![q] = NoConnector]
  BY <1>1 DEF Release
<1>3. /\ call' \in [Queries -> {"waiting", "holding", "closing", "closing failed"} \cup Settled]
      /\ on' \in [Queries -> Connectors \cup {NoConnector}]
      /\ UnderWay' /\ ClosedByOracle'
      /\ \A c \in Connectors : c # d => Holders(c)' = Holders(c)
      /\ \E n \in Nat : Cardinality(Holders(d)) = n + 1 /\ Cardinality(Holders(d)') = n
  BY <1>1, <1>2, LeavingStep
<1>4. PICK n \in Nat : Cardinality(Holders(d)) = n + 1 /\ Cardinality(Holders(d)') = n
  BY <1>3
<1>11. /\ held[d] = n + 1 + leaked[d] /\ held[d] <= Max[d]
       /\ Max[d] \in Nat /\ leaked[d] \in Nat /\ held[d] \in Nat
  BY <1>1, <1>4, PoolAssumption DEF Inv, TypeOK, ConnectionsAreReturned
<1>5. held'[d] = held[d] - 1 /\ \A c \in Connectors : c # d => held'[c] = held[c]
  BY <1>2 DEF Inv, TypeOK
<1>6. held' \in [Connectors -> Nat]
  <2>1. held[d] - 1 \in Nat
    BY <1>11
  <2> QED BY <1>2, <2>1 DEF Inv, TypeOK
<1>7. ConnectionsAreReturned'
  <2> SUFFICES ASSUME NEW c \in Connectors
               PROVE  /\ held'[c] = Cardinality(Holders(c)') + leaked'[c] /\ held'[c] <= Max[c]
                      /\ leaked'[c] > 0 => Driver[c] = "oracle"
    BY DEF ConnectionsAreReturned
  <2>1. CASE c = d
    BY <2>1, <1>4, <1>11, <1>5 DEF Inv, ConnectionsAreReturned
  <2>2. CASE c # d
    BY <2>2, <1>3, <1>5 DEF Inv, ConnectionsAreReturned
  <2> QED BY <2>1, <2>2
<1> QED BY <1>3, <1>6, <1>7 DEF Inv, TypeOK

\* A query of oracle whose release fails leaves its connection taken.
LEMMA LeakStep ==
  ASSUME Inv, NEW q \in Queries, NEW outcome \in Settled,
         Closing(q), Leak(q, outcome), UNCHANGED <<current, pool, held>>
  PROVE  Inv'
<1>1. PICK d \in Connectors : d = on[q]
  BY DEF Inv, TypeOK, UnderWay, Closing, Settled
<1>2. /\ leaked' = [leaked EXCEPT ![d] = @ + 1] /\ call' = [call EXCEPT ![q] = outcome]
      /\ on' = [on EXCEPT ![q] = NoConnector] /\ Driver[d] = "oracle"
  BY <1>1 DEF Leak, Inv, ClosedByOracle, Closing
<1>3. /\ call' \in [Queries -> {"waiting", "holding", "closing", "closing failed"} \cup Settled]
      /\ on' \in [Queries -> Connectors \cup {NoConnector}]
      /\ UnderWay' /\ ClosedByOracle'
      /\ \A c \in Connectors : c # d => Holders(c)' = Holders(c)
      /\ \E n \in Nat : Cardinality(Holders(d)) = n + 1 /\ Cardinality(Holders(d)') = n
  <2>1. call[q] \notin Settled /\ call[q] # "waiting"
    BY DEF Closing, Settled
  <2> QED BY <1>1, <1>2, <2>1, LeavingStep
<1>4. PICK n \in Nat : Cardinality(Holders(d)) = n + 1 /\ Cardinality(Holders(d)') = n
  BY <1>3
<1>11. /\ held[d] = n + 1 + leaked[d] /\ held[d] <= Max[d]
       /\ Max[d] \in Nat /\ leaked[d] \in Nat /\ held[d] \in Nat
  BY <1>1, <1>4, PoolAssumption DEF Inv, TypeOK, ConnectionsAreReturned
<1>5. leaked'[d] = leaked[d] + 1 /\ \A c \in Connectors : c # d => leaked'[c] = leaked[c]
  BY <1>2 DEF Inv, TypeOK
<1>6. leaked' \in [Connectors -> Nat]
  <2>1. leaked[d] + 1 \in Nat
    BY <1>11
  <2> QED BY <1>2, <2>1 DEF Inv, TypeOK
<1>7. ConnectionsAreReturned'
  <2> SUFFICES ASSUME NEW c \in Connectors
               PROVE  /\ held'[c] = Cardinality(Holders(c)') + leaked'[c] /\ held'[c] <= Max[c]
                      /\ leaked'[c] > 0 => Driver[c] = "oracle"
    BY DEF ConnectionsAreReturned
  <2>1. CASE c = d
    BY <2>1, <1>2, <1>4, <1>11, <1>5
  <2>2. CASE c # d
    BY <2>2, <1>3, <1>5 DEF Inv, ConnectionsAreReturned
  <2> QED BY <2>1, <2>2
<1> QED BY <1>3, <1>6, <1>7 DEF Inv, TypeOK

\* Init has no query under way and no connection taken.
LEMMA InitInv == Init => Inv
<1> SUFFICES ASSUME Init PROVE Inv
  OBVIOUS
<1>1. TypeOK
  BY DEF Init, TypeOK, Settled, PoolStates
<1>2. UnderWay /\ ClosedByOracle
  BY DEF Init, UnderWay, ClosedByOracle, Closing, Settled
<1>3. \A c \in Connectors : Holders(c) = {}
  BY PoolAssumption DEF Init, Holders
<1>4. ConnectionsAreReturned
  <2> SUFFICES ASSUME NEW c \in Connectors
               PROVE  /\ held[c] = Cardinality(Holders(c)) + leaked[c] /\ held[c] <= Max[c]
                      /\ leaked[c] > 0 => Driver[c] = "oracle"
    BY DEF ConnectionsAreReturned
  <2>1. held[c] = 0 /\ leaked[c] = 0
    BY DEF Init
  <2>2. Cardinality(Holders(c)) = 0 /\ Max[c] \in Nat
    BY <1>3, FS_EmptySet, PoolAssumption
  <2> QED BY <2>1, <2>2
<1> QED BY <1>1, <1>2, <1>4 DEF Inv

\* Nor has a process that has ended and starts again.
LEMMA EndInv == ProcessEnds => Inv'
<1> SUFFICES ASSUME ProcessEnds PROVE Inv'
  OBVIOUS
<1>1. TypeOK'
  BY DEF ProcessEnds, TypeOK, Settled, PoolStates
<1>2. UnderWay' /\ ClosedByOracle'
  BY DEF ProcessEnds, UnderWay, ClosedByOracle, Closing, Settled
<1>3. \A c \in Connectors : Holders(c)' = {}
  BY PoolAssumption DEF ProcessEnds, Holders
<1>4. ConnectionsAreReturned'
  <2> SUFFICES ASSUME NEW c \in Connectors
               PROVE  /\ held'[c] = Cardinality(Holders(c)') + leaked'[c] /\ held'[c] <= Max[c]
                      /\ leaked'[c] > 0 => Driver[c] = "oracle"
    BY DEF ConnectionsAreReturned
  <2>1. held'[c] = 0 /\ leaked'[c] = 0
    BY DEF ProcessEnds
  <2>2. Cardinality(Holders(c)') = 0 /\ Max[c] \in Nat
    BY <1>3, FS_EmptySet, PoolAssumption
  <2> QED BY <2>1, <2>2
<1> QED BY <1>1, <1>2, <1>4 DEF Inv

\* A connector made anew is one that no query is on: it starts with nothing taken.
LEMMA RegisterInv == ASSUME Inv, NEW c \in Connectors, Register(c) PROVE Inv'
<1>1. PICK s \in PoolStates :
        \/ /\ pool' = [pool EXCEPT ![c] = s]
           /\ held' = [held EXCEPT ![c] = 0]
           /\ leaked' = [leaked EXCEPT ![c] = 0]
           /\ current' = c
           /\ UNCHANGED <<call, on>>
        \/ ProcessEnds
  BY DEF Register
<1>2. CASE /\ pool' = [pool EXCEPT ![c] = s]
           /\ held' = [held EXCEPT ![c] = 0]
           /\ leaked' = [leaked EXCEPT ![c] = 0]
           /\ current' = c
           /\ UNCHANGED <<call, on>>
  <2>1. TypeOK' /\ UnderWay' /\ ClosedByOracle'
    BY <1>2 DEF Inv, TypeOK, UnderWay, ClosedByOracle, Closing
  <2>2. \A d \in Connectors : Holders(d)' = Holders(d)
    BY <1>2 DEF Holders
  <2>3. Holders(c) = {}
    BY DEF Register, Holders
  <2>4. held'[c] = 0 /\ leaked'[c] = 0
          /\ \A d \in Connectors : d # c => held'[d] = held[d] /\ leaked'[d] = leaked[d]
    BY <1>2 DEF Inv, TypeOK
  <2>5. ConnectionsAreReturned'
    <3> SUFFICES ASSUME NEW d \in Connectors
                 PROVE  /\ held'[d] = Cardinality(Holders(d)') + leaked'[d] /\ held'[d] <= Max[d]
                        /\ leaked'[d] > 0 => Driver[d] = "oracle"
      BY DEF ConnectionsAreReturned
    <3>1. CASE d = c
      BY <3>1, <2>2, <2>3, <2>4, FS_EmptySet, PoolAssumption
    <3>2. CASE d # c
      BY <3>2, <2>2, <2>4 DEF Inv, ConnectionsAreReturned
    <3> QED BY <3>1, <3>2
  <2> QED BY <2>1, <2>5 DEF Inv
<1> QED BY <1>1, <1>2, EndInv

\* Every step keeps the invariant.
LEMMA NextInv == Inv /\ [Next]_vars => Inv'
<1> SUFFICES ASSUME Inv, [Next]_vars PROVE Inv'
  OBVIOUS
<1> USE DEF Settled
<1>1. CASE UNCHANGED <<held, leaked, call, on>> /\ TypeOK'
  <2>1. \A c \in Connectors : Holders(c)' = Holders(c)
    BY <1>1 DEF Holders
  <2> QED BY <2>1, <1>1, SameHolders DEF Inv, UnderWay, ClosedByOracle, Closing
<1>2. CASE Delete
  BY <1>2, <1>1 DEF Delete, Inv, TypeOK
<1>3. ASSUME NEW c \in Connectors, Register(c) PROVE Inv'
  BY <1>3, RegisterInv
<1>4. ASSUME NEW c \in Connectors, InitEnds(c) PROVE Inv'
  <2>1. CASE ProcessEnds
    BY <2>1, EndInv
  <2>2. CASE UNCHANGED <<current, held, leaked, call, on>>
    <3>1. pool' \in [Connectors -> PoolStates]
      BY <1>4, <2>2, EndInv DEF InitEnds, Inv, TypeOK, PoolStates, ProcessEnds
    <3> QED BY <2>2, <3>1, <1>1 DEF Inv, TypeOK
  <2> QED BY <1>4, <2>1, <2>2 DEF InitEnds
<1>5. ASSUME NEW c \in Connectors, Close(c) PROVE Inv'
  BY <1>5, <1>1 DEF Close, Inv, TypeOK, PoolStates
<1>6. ASSUME NEW q \in Queries, Start(q) PROVE Inv'
  <2>1. TypeOK' /\ UnderWay' /\ UNCHANGED <<held, leaked>>
    BY <1>6, PoolAssumption DEF Start, Inv, TypeOK, UnderWay
  <2>6. ClosedByOracle'
    <3> SUFFICES ASSUME NEW p \in Queries, Closing(p)'
                 PROVE  Driver[on'[p]] = "oracle"
      BY DEF ClosedByOracle
    <3>1. p # q
      BY <1>6 DEF Closing, Start, Inv, TypeOK
    <3>2. call'[p] = call[p] /\ on'[p] = on[p]
      BY <1>6, <3>1 DEF Start, Inv, TypeOK
    <3> QED BY <3>2 DEF Inv, ClosedByOracle, Closing
  <2>2. on[q] = NoConnector
    BY <1>6 DEF Start, Inv, UnderWay
  <2>3. (on'[q] \in Connectors => call'[q] = "waiting")
    BY <1>6, <2>2, PoolAssumption DEF Start, Inv, TypeOK
  <2>4. \A p \in Queries : p # q => on'[p] = on[p] /\ call'[p] = call[p]
    BY <1>6 DEF Start, Inv, TypeOK
  <2>5. \A c \in Connectors : Holders(c)' = Holders(c)
    BY <2>2, <2>3, <2>4, PoolAssumption DEF Holders
  <2> QED BY <2>1, <2>6, <2>5, SameHolders DEF Inv
<1>7. ASSUME NEW q \in Queries, Acquire(q) PROVE Inv'
  <2>1. PICK d \in Connectors : d = on[q]
    BY <1>7 DEF Acquire, Inv, TypeOK, UnderWay
  <2>2. TypeOK'
    <3>1. held' = [held EXCEPT ![d] = @ + 1]
      BY <1>7, <2>1 DEF Acquire
    <3>2. held \in [Connectors -> Nat]
      BY DEF Inv, TypeOK
    <3>3. held[d] + 1 \in Nat
      BY <3>2, <2>1
    <3>4. held' \in [Connectors -> Nat]
      BY <3>1, <3>2, <3>3
    <3> QED BY <1>7, <3>4 DEF Acquire, Inv, TypeOK
  <2>11. UnderWay' /\ ClosedByOracle' /\ UNCHANGED leaked
    BY <1>7, <2>1, PoolAssumption DEF Acquire, Inv, TypeOK, UnderWay, ClosedByOracle, Closing
  <2>3. \A p \in Queries : on'[p] = on[p] /\ (p # q => call'[p] = call[p])
    BY <1>7 DEF Acquire, Inv, TypeOK
  <2>4. call[q] = "waiting" /\ call'[q] = "holding"
    BY <1>7 DEF Acquire, Inv, TypeOK
  <2>5. Holders(d)' = Holders(d) \cup {q} /\ q \notin Holders(d)
    BY <2>1, <2>3, <2>4 DEF Holders
  <2>6. \A c \in Connectors : c # d => Holders(c)' = Holders(c)
    BY <2>1, <2>3, <2>4 DEF Holders
  <2>7. Cardinality(Holders(d) \cup {q}) = Cardinality(Holders(d)) + 1
    BY <2>1, <2>5, HoldersFinite, FS_AddElement
  <2>8. /\ held' = [held EXCEPT ![d] = @ + 1] /\ held[d] < Max[d]
        /\ held[d] \in Nat /\ Max[d] \in Nat /\ leaked[d] \in Nat
        /\ held[d] = Cardinality(Holders(d)) + leaked[d] /\ Cardinality(Holders(d)) \in Nat
    BY <1>7, <2>1, PoolAssumption, HoldersFinite, FS_CardinalityType
       DEF Acquire, Inv, TypeOK, ConnectionsAreReturned
  <2>9. held'[d] = held[d] + 1 /\ \A c \in Connectors : c # d => held'[c] = held[c]
    BY <2>1, <2>8 DEF Inv, TypeOK
  <2>10. ConnectionsAreReturned'
    <3> SUFFICES ASSUME NEW c \in Connectors
                 PROVE  /\ held'[c] = Cardinality(Holders(c)') + leaked'[c] /\ held'[c] <= Max[c]
                        /\ leaked'[c] > 0 => Driver[c] = "oracle"
      BY DEF ConnectionsAreReturned
    <3>1. CASE c = d
      BY <3>1, <2>11, <2>5, <2>7, <2>8, <2>9 DEF Inv, ConnectionsAreReturned
    <3>2. CASE c # d
      BY <3>2, <2>11, <2>6, <2>9 DEF Inv, ConnectionsAreReturned
    <3> QED BY <3>1, <3>2
  <2> QED BY <2>2, <2>11, <2>10 DEF Inv
<1>8. ASSUME NEW q \in Queries, AcquireFails(q) PROVE Inv'
  <2>1. TypeOK' /\ UnderWay' /\ ClosedByOracle' /\ UNCHANGED <<held, leaked>>
    BY <1>8 DEF AcquireFails, Inv, TypeOK, UnderWay, ClosedByOracle, Closing
  <2>2. call[q] = "waiting" /\ on'[q] = NoConnector
    BY <1>8 DEF AcquireFails, Inv, TypeOK
  <2>3. \A p \in Queries : p # q => on'[p] = on[p] /\ call'[p] = call[p]
    BY <1>8 DEF AcquireFails, Inv, TypeOK
  <2>4. \A c \in Connectors : Holders(c)' = Holders(c)
    BY <2>2, <2>3, PoolAssumption DEF Holders
  <2> QED BY <2>1, <2>4, SameHolders DEF Inv
<1>9. ASSUME NEW q \in Queries, QueryEnds(q) PROVE Inv'
  <2>1. PICK failed \in BOOLEAN :
          EndMysql(q, failed) \/ EndMssql(q, failed) \/ EndPostgres(q, failed) \/ EndOracle(q, failed)
    BY <1>9 DEF QueryEnds
  <2>2. call[q] = "holding" /\ UNCHANGED <<current, pool, leaked>>
    BY <1>9 DEF QueryEnds
  <2>3. CASE \E outcome \in Settled : Release(q, outcome)
    BY <2>2, <2>3, ReleaseStep DEF Inv, TypeOK
  <2>4. CASE EndOracle(q, failed)
    <3>1. TypeOK' /\ UnderWay' /\ ClosedByOracle' /\ UNCHANGED <<held, leaked>>
      BY <2>2, <2>4 DEF EndOracle, Inv, TypeOK, UnderWay, ClosedByOracle, Closing
    <3>2. call'[q] # "waiting" /\ \A p \in Queries : p # q => call'[p] = call[p]
      BY <2>4 DEF EndOracle, Inv, TypeOK
    <3>3. \A c \in Connectors : Holders(c)' = Holders(c)
      BY <2>2, <2>4, <3>2 DEF EndOracle, Holders
    <3> QED BY <3>1, <3>3, SameHolders DEF Inv
  <2> QED BY <2>1, <2>3, <2>4 DEF EndMysql, EndMssql, EndPostgres
<1>10. ASSUME NEW q \in Queries, Closed(q) PROVE Inv'
  <2>1. PICK outcome \in Settled :
          \/ Release(q, outcome) /\ UNCHANGED leaked
          \/ Leak(q, outcome) /\ UNCHANGED held
    BY <1>10 DEF Closed
  <2>2. /\ Closing(q) /\ UNCHANGED <<current, pool>>
        /\ call[q] \notin Settled /\ call[q] # "waiting"
    BY <1>10 DEF Closed, Closing
  <2> QED BY <2>1, <2>2, ReleaseStep, LeakStep
<1>11. CASE UNCHANGED vars
  BY <1>11, <1>1 DEF vars, Inv, TypeOK
<1> QED BY <1>2, <1>3, <1>4, <1>5, <1>6, <1>7, <1>8, <1>9, <1>10, <1>11 DEF Next

\* Connections that are taken are those of the queries under way and of oracle's failed releases,
\* never more than the pool may have, for any number of queries and connectors of any drivers.
THEOREM ConnectionsReturned == Spec => []ConnectionsAreReturned
<1>1. Inv => ConnectionsAreReturned
  BY DEF Inv
<1> QED BY <1>1, InitInv, NextInv, PTL DEF Spec
=============================================================================
